---------------------------- MODULE DeviceRegistry ----------------------------
(***************************************************************************)
(* How one pair of headphones gets into DevicesInfoFetcher's map and out of *)
(* it. BlueZ tells of objects on the thread of the root proxy and of their  *)
(* properties on one thread per DBusDeviceInfo; the main thread lists what  *)
(* is there at start, and subscribes last. The map's handlers look, create  *)
(* a device for seconds, and insert it under a lock of its own.            *)
(***************************************************************************)
EXTENDS Naturals, Sequences

CONSTANTS
  Infos,        \* DBusDeviceInfo objects
  MaxChanges,   \* bound: changes in BlueZ
  NoInfo

(* Of the constants; MCDevices assumes it.                                 *)
ConstantsOK ==
  /\ NoInfo \notin Infos
  /\ ({NoInfo} \cup Infos) \cap {"main", "root"} = {}

VARIABLES
  bluez,        \* BlueZ: what it has of these headphones
  changes,
  signals,      \* to the root proxy: "added" or "removed", with what they were then
  seen,         \* per info, what it knows of them; "unmade" before it is there
  props,        \* per info, PropertiesChanged on their way to it
  listening,    \* infos tryAddPaired listens to
  known, paired,   \* _knownDevices at this path, _pairedDevices
  map,          \* _devicesMap at this address: the info its device is made from
  start,        \* where the main thread is
  snapshot,     \* what GetManagedObjects said, or what GetPairedDevices did
  job,          \* per thread, what it is in the middle of
  missed        \* history: something came where nobody was to hear it

bluezVars == <<bluez, changes>>
serviceVars == <<known, paired, listening>>
vars == <<bluezVars, signals, seen, props, serviceVars, map, start, snapshot, job, missed>>

(* Found, its services resolved, paired, both; or paired in an earlier life *)
(* of BlueZ, which has its UUIDs in store.                                 *)
States == {"gone", "found", "resolved", "paired", "ready", "stored"}
IsPaired(s) == s \in {"paired", "ready", "stored"}
IsResolved(s) == s \in {"resolved", "ready"}
HasUuids(s) == s \in {"resolved", "ready", "stored"}

Threads == {"main", "root"} \cup Infos
Idle == [op |-> "idle", info |-> NoInfo]
Does(op, i) == [op |-> op, info |-> i]
Ops == {"listen", "try", "tell", "create", "forget"}
Starts == {"list", "register", "make", "read", "fill", "hearAdded", "hearRemoved", "up"}

TypeOK ==
  /\ bluez \in States /\ changes \in 0..MaxChanges
  /\ signals \in Seq([what : {"added", "removed"}, state : States])
  /\ seen \in [Infos -> States \cup {"unmade"}] /\ props \in [Infos -> Seq(States)]
  /\ listening \subseteq Infos
  /\ known \in Infos \cup {NoInfo} /\ paired \subseteq Infos /\ map \in Infos \cup {NoInfo}
  /\ start \in Starts /\ snapshot \in States \cup Infos \cup {NoInfo}
  /\ job \in [Threads -> [op : Ops, info : Infos \cup {NoInfo}] \cup {Idle}]
  /\ missed \in BOOLEAN

Init ==
  /\ bluez \in States /\ changes = 0
  /\ signals = <<>>
  /\ seen = [i \in Infos |-> "unmade"] /\ props = [i \in Infos |-> <<>>]
  /\ listening = {} /\ known = NoInfo /\ paired = {} /\ map = NoInfo
  /\ start = "list" /\ snapshot = "gone"
  /\ job = [t \in Threads |-> Idle]
  /\ missed = FALSE

-----------------------------------------------------------------------------
(* BlueZ.                                                                  *)

Changes == changes < MaxChanges /\ changes' = changes + 1

Registered == start \notin {"list", "register"}

(* An object nobody holds any more hears nothing.                          *)
Held(i) ==
  \/ i = known \/ i \in paired \/ i = map \/ i = snapshot
  \/ \E t \in Threads : job[t].info = i

(* The object comes or goes. Between the list and the registration of the   *)
(* signals nobody hears it.                                                *)
ObjectChanges(state, signal) ==
  /\ Changes
  /\ bluez' = state
  /\ signals' = IF Registered THEN Append(signals, [what |-> signal, state |-> state]) ELSE signals
  /\ missed' = (missed \/ start = "register")
  /\ UNCHANGED <<seen, props, serviceVars, map, start, snapshot, job>>

Appears == bluez = "gone" /\ ObjectChanges("found", "added")
Vanishes == bluez # "gone" /\ ObjectChanges("gone", "removed")

(* Its properties change: told to the infos that are there. One that is     *)
(* still to be made is made from what was said before.                     *)
PropertyChanges(state) ==
  /\ Changes
  /\ bluez' = state
  /\ props' = [i \in Infos |-> IF seen[i] # "unmade" /\ Held(i) THEN Append(props[i], state) ELSE props[i]]
  /\ missed' = (missed
       \/ start = "register" \/ (start = "make" /\ snapshot # "gone")
       \/ \E n \in 1..Len(signals) : signals[n].what = "added")
  /\ UNCHANGED <<signals, seen, serviceVars, map, start, snapshot, job>>

Pairs ==
  \/ bluez = "found" /\ PropertyChanges("paired")
  \/ bluez = "resolved" /\ PropertyChanges("ready")

ServicesResolve ==
  \/ bluez = "found" /\ PropertyChanges("resolved")
  \/ bluez \in {"paired", "stored"} /\ PropertyChanges("ready")

-----------------------------------------------------------------------------
(* DBusService, on whatever thread.                                        *)

(* A new info takes the place of one at the same path.                     *)
TryCreateDevice(t, state) ==
  LET i == CHOOSE j \in Infos : seen[j] = "unmade"
  IN  /\ \E j \in Infos : seen[j] = "unmade"
      /\ seen' = [seen EXCEPT ![i] = state]
      /\ known' = i
      /\ paired' = (paired \ {known}) \cup IF IsPaired(state) THEN {i} ELSE {}
      /\ job' = [job EXCEPT ![t] = Does(IF IsPaired(state) THEN "tell" ELSE "listen", i)]
      /\ UNCHANGED listening

(* Slip: what came before the listeners were there is not looked at.        *)
ListensOnly(t) ==
  /\ job[t].op = "listen"
  /\ listening' = listening \cup {job[t].info}
  /\ job' = [job EXCEPT ![t] = Idle]
  /\ UNCHANGED <<bluezVars, signals, seen, props, known, paired, map, start, snapshot, missed>>

Listens(t) ==
  /\ job[t].op = "listen"
  /\ listening' = listening \cup {job[t].info}
  /\ job' = [job EXCEPT ![t].op = "try"]
  /\ UNCHANGED <<bluezVars, signals, seen, props, known, paired, map, start, snapshot, missed>>

IsComplete(i) == IsPaired(seen[i]) /\ IsResolved(seen[i])

(* tryAddPaired: one that is already being removed is announced too.        *)
Tries(t) ==
  /\ job[t].op = "try"
  /\ LET new == known # NoInfo /\ IsComplete(known) /\ known \notin paired
     IN  /\ paired' = IF new THEN paired \cup {known} ELSE paired
         /\ job' = [job EXCEPT ![t] = IF new THEN Does("tell", known) ELSE Idle]
         /\ missed' = (missed \/ (new /\ job["root"].op = "forget"))
  /\ UNCHANGED <<bluezVars, signals, seen, props, known, listening, map, start, snapshot>>

(* The info's own thread.                                                  *)
PropertyIsHeard(i) ==
  /\ job[i] = Idle /\ props[i] # <<>>
  /\ seen' = [seen EXCEPT ![i] = Head(props[i])]
  /\ props' = [props EXCEPT ![i] = Tail(@)]
  /\ job' = [job EXCEPT ![i] = IF i \in listening THEN Does("try", i) ELSE Idle]
  /\ UNCHANGED <<bluezVars, signals, serviceVars, map, start, snapshot, missed>>

-----------------------------------------------------------------------------
(* DevicesInfoFetcher.                                                     *)

(* The listener of added devices runs for one thread at a time.            *)
AddedIsHeard == start \in {"hearRemoved", "up"}
RemovedIsHeard == start = "up"

Tells(t) ==
  /\ job[t].op = "tell"
  /\ \A u \in Threads : job[u].op # "create"
  /\ job' = [job EXCEPT ![t] = IF AddedIsHeard /\ map = NoInfo THEN Does("create", @.info) ELSE Idle]
  /\ missed' = (missed \/ (start \in {"fill", "hearAdded"} /\ snapshot # job[t].info))
  /\ UNCHANGED <<bluezVars, signals, seen, props, serviceVars, map, start, snapshot>>

(* The device is made outside the lock; one without its UUIDs is nobody's.  *)
Inserts(t) ==
  /\ job[t].op = "create"
  /\ map' = IF map = NoInfo /\ HasUuids(seen[job[t].info]) THEN job[t].info ELSE map
  /\ job' = [job EXCEPT ![t] = Idle]
  /\ UNCHANGED <<bluezVars, signals, seen, props, serviceVars, start, snapshot, missed>>

-----------------------------------------------------------------------------
(* The root proxy's thread.                                                *)

NextSignal(what) == job["root"] = Idle /\ signals # <<>> /\ Head(signals).what = what

ObjectAdded ==
  /\ NextSignal("added")
  /\ signals' = Tail(signals)
  /\ TryCreateDevice("root", Head(signals).state)
  /\ UNCHANGED <<bluezVars, props, map, start, snapshot, missed>>

(* A removal nobody has to hear yet, or that comes before what it undoes.   *)
Overtakes ==
  \/ start = "make" /\ snapshot # "gone"
  \/ start \in {"fill", "hearAdded", "hearRemoved"} /\ (known = snapshot \/ known = map)
  \/ \E t \in Threads : job[t].op \in {"tell", "create"}

(* TryRemoveDevice: the listeners first, ...                               *)
ObjectRemoved ==
  /\ NextSignal("removed")
  /\ signals' = Tail(signals)
  /\ job' = [job EXCEPT !["root"] = IF known = NoInfo THEN Idle ELSE Does("forget", known)]
  /\ map' = IF known # NoInfo /\ RemovedIsHeard THEN NoInfo ELSE map
  /\ missed' = (missed \/ Overtakes)
  /\ UNCHANGED <<bluezVars, seen, props, serviceVars, start, snapshot>>

(* ... then its own tables.                                                *)
Forgets ==
  /\ job["root"].op = "forget"
  /\ LET i == job["root"].info
     IN  /\ paired' = paired \ {i}
         /\ known' = IF known = i THEN NoInfo ELSE known
  /\ job' = [job EXCEPT !["root"] = Idle]
  /\ UNCHANGED <<bluezVars, signals, seen, props, listening, map, start, snapshot, missed>>

-----------------------------------------------------------------------------
(* The main thread: the constructors of DBusService and DevicesInfoFetcher. *)

GetManagedObjects ==
  /\ start = "list" /\ start' = "register"
  /\ snapshot' = bluez
  /\ UNCHANGED <<bluezVars, signals, seen, props, serviceVars, map, job, missed>>

Registers ==
  /\ start = "register" /\ start' = "make"
  /\ UNCHANGED <<bluezVars, signals, seen, props, serviceVars, map, snapshot, job, missed>>

(* One that is paired and has no UUIDs yet will not get another look.       *)
MakesInfos ==
  /\ start = "make" /\ start' = "read"
  /\ IF snapshot = "gone"
     THEN UNCHANGED <<seen, serviceVars, job>> ELSE TryCreateDevice("main", snapshot)
  /\ snapshot' = NoInfo
  /\ missed' = (missed \/ snapshot = "paired")
  /\ UNCHANGED <<bluezVars, signals, props, map>>

(* ClearAndFillDevicesMap takes a copy of the paired devices ...            *)
GetPairedDevices ==
  /\ start = "read" /\ job["main"] = Idle
  /\ start' = "fill"
  /\ \/ paired = {} /\ snapshot' = NoInfo
     \/ snapshot' \in paired
  /\ missed' = (missed \/ job["root"].op = "forget")
  /\ UNCHANGED <<bluezVars, signals, seen, props, serviceVars, map, job>>

(* ... and makes devices of them.                                          *)
FillsMap ==
  /\ start = "fill" /\ start' = "hearAdded"
  /\ map' = IF snapshot # NoInfo /\ HasUuids(seen[snapshot]) THEN snapshot ELSE NoInfo
  /\ UNCHANGED <<bluezVars, signals, seen, props, serviceVars, snapshot, job, missed>>

Subscribes ==
  /\ \/ start = "hearAdded" /\ start' = "hearRemoved"
     \/ start = "hearRemoved" /\ start' = "up"
  /\ snapshot' = NoInfo
  /\ UNCHANGED <<bluezVars, signals, seen, props, serviceVars, map, job, missed>>

-----------------------------------------------------------------------------

BlueZ == Appears \/ Vanishes \/ Pairs \/ ServicesResolve
Works(t) == Listens(t) \/ Tries(t) \/ Tells(t) \/ Inserts(t)
Root == ObjectAdded \/ ObjectRemoved \/ Forgets
Main == GetManagedObjects \/ Registers \/ MakesInfos \/ GetPairedDevices \/ FillsMap \/ Subscribes

Next ==
  \/ BlueZ \/ Root \/ Main
  \/ \E t \in Threads : Works(t)
  \/ \E i \in Infos : PropertyIsHeard(i)

Spec == Init /\ [][Next]_vars

-----------------------------------------------------------------------------
(* Properties.                                                             *)

AtRest ==
  /\ start = "up" /\ signals = <<>>
  /\ \A t \in Threads : job[t] = Idle
  /\ \A i \in Infos : props[i] = <<>>

IsDue == IsPaired(bluez) /\ HasUuids(bluez)

(* The headphones are listed exactly while they are paired: with nothing    *)
(* left to do, the map has them iff BlueZ has. The code does not keep this  *)
(* through changes that come while it starts, that come before an info     *)
(* hears of its own properties, or that undo what is still being done ...   *)
MapFollows == AtRest => (map # NoInfo <=> IsDue)

(* ... and does through all others; and the device is made from what the    *)
(* service knows: one made from an object that is gone would never hear of  *)
(* a connection again.                                                     *)
MapFollowsUnlessMissed ==
  ~missed => MapFollows /\ (AtRest => paired \subseteq {known} /\ map \in {NoInfo, known})

=============================================================================
