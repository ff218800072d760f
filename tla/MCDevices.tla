------------------------------ MODULE MCDevices ------------------------------
(***************************************************************************)
(* What the daemon keeps: which headphones there are, which are the active  *)
(* ones, the settings file, and the locks its listeners take of each other. *)
(* `part` is the one that moves; they share no state the modules have, so   *)
(* they are checked side by side, not in every combination.                *)
(***************************************************************************)
EXTENDS Settings

CONSTANTS
  Bluetooth, Known, Wired, Workers, MaxMoves,
  Infos, NoInfo, MaxChanges,
  AdThreads, MaxLockMoves

VARIABLES
  part,
  link, connected, phase, fetched, told, started, output, event, pending, worker, looked, wiredLock,
  routing, outputAddress, active, overwritten, missed, early, moves,
  bluez, changes, signals, seen, props, listening, known, paired, map, start, snapshot, job, unheard,
  lockPc, owner, animation, lockConnected, lockActive, heard, hasColor, lockMoves

activeVars == <<link, connected, phase, fetched, told, started, output, event, pending, worker,
                looked, wiredLock, routing, outputAddress, active, overwritten, missed, early, moves>>
registryVars == <<bluez, changes, signals, seen, props, listening, known, paired, map, start,
                  snapshot, job, unheard>>
lockVars == <<lockPc, owner, animation, lockConnected, lockActive, heard, hasColor, lockMoves>>
allVars == <<part, vars, activeVars, registryVars, lockVars>>

Active == INSTANCE ActiveDevice
Registry == INSTANCE DeviceRegistry WITH missed <- unheard
Locked == INSTANCE SettingListeners WITH
  pc <- lockPc, connected <- lockConnected, active <- lockActive, moves <- lockMoves,
  MaxMoves <- MaxLockMoves

ASSUME DevicesAssumption ==
  ConstantsOK /\ Active!ConstantsOK /\ Registry!ConstantsOK /\ Locked!ConstantsOK

DevicesInit ==
  /\ part \in {"active", "registry", "file", "locks"}
  /\ Init /\ (part # "file" => inode["config"] = 0)
  /\ Active!Init /\ (part # "active" => \A d \in Active!Devices : ~link[d])
  /\ Registry!Init /\ (part # "registry" => bluez = "gone")
  /\ Locked!Init /\ (part # "locks" => hasColor)

DevicesNext ==
  \/ part = "file" /\ Next /\ UNCHANGED <<part, activeVars, registryVars, lockVars>>
  \/ part = "active" /\ Active!Next /\ UNCHANGED <<part, vars, registryVars, lockVars>>
  \/ part = "registry" /\ Registry!Next /\ UNCHANGED <<part, vars, activeVars, lockVars>>
  \/ part = "locks" /\ Locked!Next /\ UNCHANGED <<part, vars, activeVars, registryVars>>

DevicesSpec == DevicesInit /\ [][DevicesNext]_allVars

(* The properties of the other modules, see there.                         *)
ActiveFollows == Active!ActiveFollows
OutputFollows == Active!OutputFollows
MapFollowsUnlessMissed == part = "registry" => Registry!MapFollowsUnlessMissed
CircleOnlyUnderLocker == part = "locks" => Locked!CircleOnlyUnderLocker

=============================================================================
