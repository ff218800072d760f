--------------------------- MODULE SettingListeners ---------------------------
(***************************************************************************)
(* Who waits for whom around SettingsService. A setting is saved under its  *)
(* lock and its event fired after it; a listener runs for one thread at a   *)
(* time (see EventBus). DevicesInfoFetcher's listener starts and stops the  *)
(* BLE scan, and stopping waits for the advertisements being handled; the   *)
(* popup (see LidPopup) saves settings while it handles one.               *)
(***************************************************************************)
EXTENDS FiniteSets, Naturals

CONSTANTS
  AdThreads,    \* D-Bus threads of the infos that advertise
  MaxMoves      \* bound: settings saved, connections, keys and advertisements

(* Of the constants; MCDevices assumes it.                                 *)
ConstantsOK ==
  AdThreads \cap {"loop", "link", "reader", "none", "table", "setting", "state", "scan", "ads", "locker"} = {}

VARIABLES
  pc,           \* per thread, where it is
  owner,        \* per lock, the thread that has it
  animation, connected,   \* what ShouldScan looks at
  active,       \* _bleScanActive
  heard,        \* ad threads whose ManufacturerData is subscribed
  hasColor,     \* AppAnimationCapability
  moves

vars == <<pc, owner, animation, connected, active, heard, hasColor, moves>>

None == "none"
Threads == {"loop", "link", "reader"} \cup AdThreads

(* SettingsService::_lock, the calls of DevicesInfoFetcher's settings        *)
(* listener, _bleStateMutex, _scanMutex, the calls of AapDevice's           *)
(* advertisement listener, AppAnimationCapability::locker; and the calls of *)
(* each info's ManufacturerData listener.                                  *)
Locks == {"table", "setting", "state", "scan", "ads", "locker"} \cup AdThreads
Places == {"idle", "fire", "update", "decide", "stop", "drain", "start",
           "told", "emit", "handle", "save", "tell"}

TypeOK ==
  /\ pc \in [Threads -> Places] /\ owner \in [Locks -> Threads \cup {None}]
  /\ animation \in BOOLEAN /\ connected \in BOOLEAN /\ active \in BOOLEAN
  /\ heard \subseteq AdThreads /\ hasColor \in BOOLEAN /\ moves \in 0..MaxMoves

Init ==
  /\ pc = [t \in Threads |-> "idle"] /\ owner = [l \in Locks |-> None]
  /\ animation = TRUE /\ connected = FALSE
  /\ active = TRUE /\ heard = AdThreads
  /\ hasColor \in BOOLEAN /\ moves = 0

Free(l) == owner[l] = None
Moves == moves < MaxMoves /\ moves' = moves + 1
Goes(t, from, to) == pc[t] = from /\ pc' = [pc EXCEPT ![t] = to]
Takes(t, l) == Free(l) /\ owner' = [owner EXCEPT ![l] = t]
Releases(t) == owner' = [l \in Locks |-> IF owner[l] = t THEN None ELSE owner[l]]

-----------------------------------------------------------------------------
(* SaveSetting: memory and file under the lock, the listeners after it.     *)

(* Slip: the event is fired with the lock held.                            *)
SavesKeepsLock(t) == Takes(t, "table")

Saves(t) == Free("table") /\ UNCHANGED owner

(* The WebSocket loop: the user turns the popup on or off.                  *)
UserSaves ==
  /\ Moves
  /\ Goes("loop", "idle", "fire")
  /\ Saves("loop")
  /\ animation' = ~animation
  /\ UNCHANGED <<connected, active, heard, hasColor>>

(* The listener is for this setting ...                                    *)
ListenerUpdates ==
  /\ Goes("loop", "fire", "update")
  /\ Takes("loop", "setting")
  /\ UNCHANGED <<animation, connected, active, heard, hasColor, moves>>

(* ... or for another one: it returns at once.                             *)
ListenerPasses(t) ==
  /\ t # "loop"
  /\ Goes(t, "fire", "idle")
  /\ Free("setting")
  /\ Releases(t)
  /\ hasColor' = (hasColor \/ t \in AdThreads)
  /\ UNCHANGED <<animation, connected, active, heard, moves>>

-----------------------------------------------------------------------------
(* UpdateBleState, on the loop or on the thread of a connection.            *)

LocksState(t) ==
  /\ Goes(t, "update", "decide")
  /\ Takes(t, "state")
  /\ UNCHANGED <<animation, connected, active, heard, hasColor, moves>>

ShouldScan == animation /\ ~connected

Decides(t) ==
  /\ pc[t] = "decide" /\ Free("table")
  /\ active' = ShouldScan
  /\ IF ShouldScan = active
     THEN /\ pc' = [pc EXCEPT ![t] = "idle"]
          /\ Releases(t)
     ELSE /\ pc' = [pc EXCEPT ![t] = IF ShouldScan THEN "start" ELSE "stop"]
          /\ UNCHANGED owner
  /\ UNCHANGED <<animation, connected, heard, hasColor, moves>>

StartsScan(t) ==
  /\ Goes(t, "start", "idle")
  /\ Free("scan")
  /\ heard' = AdThreads
  /\ Releases(t)
  /\ UNCHANGED <<animation, connected, active, hasColor, moves>>

LocksScan(t) ==
  /\ Goes(t, "stop", "drain")
  /\ Takes(t, "scan")
  /\ UNCHANGED <<animation, connected, active, heard, hasColor, moves>>

(* StopScan unsubscribes one info after the other: each waits for its call. *)
Unsubscribes(t) ==
  /\ pc[t] = "drain" /\ heard # {}
  /\ \E a \in heard : Free(a) /\ heard' = heard \ {a}
  /\ UNCHANGED <<pc, owner, animation, connected, active, hasColor, moves>>

ScanStopped(t) ==
  /\ Goes(t, "drain", "idle")
  /\ heard = {}
  /\ Releases(t)
  /\ UNCHANGED <<animation, connected, active, heard, hasColor, moves>>

(* A connection: the popup hears of it first, under its lock.               *)
LinkChanges ==
  /\ Moves
  /\ Goes("link", "idle", "told")
  /\ connected' = ~connected
  /\ UNCHANGED <<owner, animation, active, heard, hasColor>>

PopupHears ==
  /\ Goes("link", "told", "update")
  /\ Free("locker")
  /\ UNCHANGED <<owner, animation, connected, active, heard, hasColor, moves>>

-----------------------------------------------------------------------------
(* An advertisement, from the info to the device to the popup.             *)

AdComes(a) ==
  /\ a \in heard /\ Moves
  /\ Goes(a, "idle", "emit")
  /\ Takes(a, a)
  /\ UNCHANGED <<animation, connected, active, heard, hasColor>>

AdEmitted(a) ==
  /\ Goes(a, "emit", "handle")
  /\ Takes(a, "ads")
  /\ UNCHANGED <<animation, connected, active, heard, hasColor, moves>>

(* The first to show a popup of these AirPods saves their color.            *)
AdHandled(a) ==
  /\ pc[a] = "handle"
  /\ Free("locker")
  /\ \/ /\ pc' = [pc EXCEPT ![a] = "idle"]
        /\ Releases(a)
     \/ /\ ~hasColor
        /\ pc' = [pc EXCEPT ![a] = "save"]
        /\ Takes(a, "locker")
  /\ UNCHANGED <<animation, connected, active, heard, hasColor, moves>>

SavesColor(a) ==
  /\ Goes(a, "save", "fire")
  /\ Saves(a)
  /\ UNCHANGED <<animation, connected, active, heard, hasColor, moves>>

(* The AAP reader has the AirPods' keys, and saves those that changed.      *)
KeysCome ==
  /\ Moves
  /\ Goes("reader", "idle", "tell")
  /\ UNCHANGED <<owner, animation, connected, active, heard, hasColor>>

LocksKeys ==
  /\ Goes("reader", "tell", "save")
  /\ Takes("reader", "locker")
  /\ UNCHANGED <<animation, connected, active, heard, hasColor, moves>>

SavesKeys ==
  /\ Goes("reader", "save", "fire")
  /\ Saves("reader")
  /\ UNCHANGED <<animation, connected, active, heard, hasColor, moves>>

-----------------------------------------------------------------------------

Updates(t) ==
  \/ LocksState(t) \/ Decides(t) \/ StartsScan(t)
  \/ LocksScan(t) \/ Unsubscribes(t) \/ ScanStopped(t)

Handles(a) == AdEmitted(a) \/ AdHandled(a) \/ SavesColor(a)

Next ==
  \/ UserSaves \/ ListenerUpdates \/ LinkChanges \/ PopupHears
  \/ KeysCome \/ LocksKeys \/ SavesKeys
  \/ \E t \in {"loop", "link"} : Updates(t)
  \/ \E t \in Threads : ListenerPasses(t)
  \/ \E a \in AdThreads : AdComes(a) \/ Handles(a)

Spec == Init /\ [][Next]_vars

-----------------------------------------------------------------------------
(* Properties.                                                             *)

(* Whom a thread waits for, if it does.                                    *)
WaitsFor(t) ==
  CASE pc[t] = "fire" -> {owner["setting"]}
    [] pc[t] = "update" -> {owner["state"]}
    [] pc[t] \in {"decide", "save"} -> {owner["table"]}
    [] pc[t] \in {"stop", "start"} -> {owner["scan"]}
    [] pc[t] = "drain" /\ \A a \in heard : ~Free(a) -> {owner[a] : a \in heard}
    [] pc[t] = "emit" -> {owner["ads"]}
    [] pc[t] \in {"told", "handle", "tell"} -> {owner["locker"]}
    [] OTHER -> {None}

(* Threads that wait for each other: none of them ever goes on.             *)
Circle(S) == S # {} /\ \A t \in S : WaitsFor(t) \ {None} # {} /\ WaitsFor(t) \subseteq S

(* "Readers get copies, and update events fire after the lock is released,  *)
(* so a listener that takes its own lock and then reads settings can't      *)
(* deadlock against a writer." The code does not keep it: the scan's        *)
(* listener waits for an advertisement whose handler writes a setting ...   *)
NoCircle == ~\E S \in SUBSET Threads : Circle(S)

(* ... and keeps it while nothing is saved from under the popup's lock.     *)
CircleOnlyUnderLocker ==
  \A S \in SUBSET Threads : Circle(S) => \E t \in S : owner["locker"] = t /\ pc[t] = "fire"

=============================================================================
