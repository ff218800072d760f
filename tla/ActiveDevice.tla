----------------------------- MODULE ActiveDevice -----------------------------
(***************************************************************************)
(* Which headphones are the active ones: DevicesInfoFetcher, told of         *)
(* connections on one D-Bus thread per device, of plugs and outputs by      *)
(* detached workers, of picks by the user. Each changes what it knows, then *)
(* selects under _devicesLock.                                             *)
(***************************************************************************)
EXTENDS Naturals, FiniteSets, FiniteSetsExt

CONSTANTS
  Bluetooth,    \* addresses of the Bluetooth headphones, in the map's order
  Known,        \* those whose devices are there from the start
  Wired,        \* the address of headphones on a jack
  Workers,      \* numbers of RefreshWiredSoon's detached workers
  MaxMoves      \* bound: connections, plugs, picks, headphones unpaired

(* Of the constants; MCDevices assumes it.                                 *)
ConstantsOK ==
  /\ Bluetooth \subseteq Nat \ {0} /\ Known \subseteq Bluetooth /\ Wired \in Nat \ {0} /\ \A d \in Bluetooth : d < Wired
  /\ Workers \subseteq Nat \ {0} /\ MaxMoves \in Nat

VARIABLES
  link,         \* BlueZ: connected, as each info has been told; the jack: plugged
  connected,    \* Device::_connected
  phase, fetched,   \* per Bluetooth device, how far it is made; what Init read
  told,         \* per Bluetooth device, where its D-Bus thread is
  started,      \* the constructor has subscribed to the sound server
  output,       \* the sound server: whose output it plays to, 0 for none's
  event,        \* a sink or card event is on its way
  pending,      \* _wiredPending
  worker, looked,   \* per worker, where it is; what it found
  wiredLock,    \* _wiredLock: the worker that has it
  routing,      \* devices a detached thread is to route the sound to
  outputAddress, active,
  overwritten,  \* history: Init wrote over what the listener had heard
  missed,       \* history: a plug before the constructor subscribed
  early,        \* history: an output was looked at before its connection was heard
  moves

wiredVars == <<pending, worker, looked, wiredLock>>
historyVars == <<overwritten, missed, early>>
vars == <<link, connected, phase, fetched, told, started, output, event, wiredVars, routing,
          outputAddress, active, historyVars, moves>>

Devices == Bluetooth \cup {Wired}
Nobody == 0
Phases == {"none", "listens", "read", "made", "hears", "in", "here", "out"}

TypeOK ==
  /\ link \in [Devices -> BOOLEAN] /\ connected \in [Devices -> BOOLEAN]
  /\ phase \in [Bluetooth -> Phases] /\ fetched \in [Bluetooth -> BOOLEAN]
  /\ told \in [Bluetooth -> {"idle", "told", "select"}]
  /\ started \in BOOLEAN /\ output \in Devices \cup {Nobody} /\ event \in BOOLEAN
  /\ pending \in BOOLEAN
  /\ worker \in [Workers -> {"off", "sleep", "wait", "plug", "select", "output", "publish", "pick"}]
  /\ looked \in [Workers -> Devices \cup {Nobody}]
  /\ wiredLock \in Workers \cup {Nobody}
  /\ routing \subseteq Devices
  /\ outputAddress \in Devices \cup {Nobody} /\ active \in Devices \cup {Nobody}
  /\ overwritten \in BOOLEAN /\ missed \in BOOLEAN /\ early \in BOOLEAN
  /\ moves \in 0..MaxMoves

(* DevicesInfoFetcher's constructor has made the devices it knows and looked *)
(* at the jack, and not yet subscribed.                                    *)
Init ==
  /\ link \in [Devices -> BOOLEAN]
  /\ connected = [d \in Devices |-> d \in Known \cup {Wired} /\ link[d]]
  /\ phase = [d \in Bluetooth |-> IF d \in Known THEN "here" ELSE "none"] /\ fetched = [d \in Bluetooth |-> FALSE]
  /\ told = [d \in Bluetooth |-> "idle"]
  /\ started = FALSE /\ output = Nobody /\ event = FALSE
  /\ pending = FALSE
  /\ worker = [w \in Workers |-> "off"] /\ looked = [w \in Workers |-> Nobody]
  /\ wiredLock = Nobody /\ routing = {}
  /\ outputAddress = Nobody
  /\ active \in {d \in Devices : connected[d]} \cup {Nobody}
  /\ active = Nobody => \A d \in Devices : ~connected[d]
  /\ overwritten = FALSE /\ missed = FALSE /\ early = FALSE
  /\ moves = 0

-----------------------------------------------------------------------------
(* TrySelectNewActiveDevice, under _devicesLock.                            *)

Map == {d \in Bluetooth : phase[d] \in {"in", "here"}} \cup {Wired}
Usable == {d \in Map : connected[d]}

(* Slip: the active one is kept though it has gone.                        *)
SelectedKeeps(preferred) ==
  IF preferred \in Usable THEN preferred
  ELSE IF active # Nobody \/ Usable = {} THEN active ELSE Max(Usable)

(* The preferred one if it is connected; or the one there is, if it still   *)
(* is; or the last one in the map that is.                                 *)
Selected(preferred) ==
  IF preferred \in Usable THEN preferred
  ELSE IF active \in Usable \/ Usable = {} THEN (IF active \in Usable THEN active ELSE Nobody)
  ELSE Max(Usable)

Moves == moves < MaxMoves /\ moves' = moves + 1

-----------------------------------------------------------------------------
(* Bluetooth headphones: their D-Bus thread, ...                           *)

(* An output goes with its headphones.                                     *)
OutputAfter(d) == output' = IF output = d /\ link[d] THEN Nobody ELSE output

LinkChanges(d) ==
  /\ told[d] = "idle" /\ Moves
  /\ link' = [link EXCEPT ![d] = ~@]
  /\ told' = [told EXCEPT ![d] = "told"]
  /\ OutputAfter(d) /\ event' = started
  /\ UNCHANGED <<connected, phase, fetched, started, wiredVars, routing, outputAddress, active, historyVars>>

(* Device's listener, if there is one yet, fires when the value is new.     *)
DeviceHears(d) ==
  /\ told[d] = "told"
  /\ LET heard == phase[d] # "none" /\ connected[d] # link[d]
     IN  /\ connected' = IF heard THEN [connected EXCEPT ![d] = link[d]] ELSE connected
         /\ told' = [told EXCEPT ![d] =
              IF heard /\ phase[d] \in {"hears", "in", "here", "out"} THEN "select" ELSE "idle"]
  /\ UNCHANGED <<link, phase, fetched, started, output, event, wiredVars, routing,
                 outputAddress, active, historyVars, moves>>

SelectsConnected(d) ==
  /\ told[d] = "select"
  /\ told' = [told EXCEPT ![d] = "idle"]
  /\ active' = Selected(IF link[d] THEN d ELSE Nobody)
  /\ UNCHANGED <<link, connected, phase, fetched, started, output, event, wiredVars, routing,
                 outputAddress, historyVars, moves>>

(* ... and whoever makes the device: Init listens, reads, writes, ...       *)
Grows(d, from, to) ==
  /\ phase[d] = from
  /\ phase' = [phase EXCEPT ![d] = to]
  /\ UNCHANGED <<link, told, started, output, event, wiredVars, routing, outputAddress>>

InitListens(d) ==
  /\ Grows(d, "none", "listens")
  /\ UNCHANGED <<connected, fetched, active, historyVars, moves>>

InitReads(d) ==
  /\ Grows(d, "listens", "read")
  /\ fetched' = [fetched EXCEPT ![d] = link[d]]
  /\ UNCHANGED <<connected, active, historyVars, moves>>

InitWrites(d) ==
  /\ Grows(d, "read", "made")
  /\ connected' = [connected EXCEPT ![d] = fetched[d]]
  /\ fetched' = [fetched EXCEPT ![d] = FALSE]
  /\ overwritten' = (overwritten \/ (fetched[d] # link[d] /\ told[d] # "told"))
  /\ UNCHANGED <<active, missed, early, moves>>

(* ... the fetcher listens, inserts it, and selects.                        *)
FetcherListens(d) ==
  /\ Grows(d, "made", "hears")
  /\ UNCHANGED <<connected, fetched, active, historyVars, moves>>

Inserts(d) ==
  /\ Grows(d, "hears", "in")
  /\ UNCHANGED <<connected, fetched, active, historyVars, moves>>

Inserted(d) ==
  /\ Grows(d, "in", "here")
  /\ active' = Selected(Nobody)
  /\ UNCHANGED <<connected, fetched, historyVars, moves>>

(* Unpaired, when BlueZ has disconnected them: out of the map, then another *)
(* one is selected.                                                        *)
Removed(d) ==
  /\ ~link[d] /\ Moves
  /\ Grows(d, "here", "out")
  /\ UNCHANGED <<connected, fetched, active, historyVars>>

RemovedIsSelected(d) ==
  /\ told[d] = "idle"
  /\ Grows(d, "out", "none")
  /\ active' = Selected(Nobody)
  /\ connected' = [connected EXCEPT ![d] = FALSE]
  /\ UNCHANGED <<fetched, historyVars, moves>>

-----------------------------------------------------------------------------
(* The sound server.                                                       *)

JackChanges ==
  /\ Moves
  /\ link' = [link EXCEPT ![Wired] = ~@]
  /\ OutputAfter(Wired)
  /\ event' = started
  /\ missed' = (missed \/ ~started)
  /\ UNCHANGED <<connected, phase, fetched, told, started, wiredVars, routing,
                 outputAddress, active, overwritten, early>>

(* The desktop, or somebody else, switches the output.                     *)
OutputChanges ==
  /\ Moves /\ started
  /\ \E d \in {e \in Devices : link[e]} \cup {Nobody} : output' = d /\ d # output
  /\ event' = TRUE
  /\ UNCHANGED <<link, connected, phase, fetched, told, started, wiredVars, routing,
                 outputAddress, active, historyVars>>

Starts ==
  /\ ~started /\ started' = TRUE
  /\ UNCHANGED <<link, connected, phase, fetched, told, output, event, wiredVars, routing,
                 outputAddress, active, historyVars, moves>>

(* RefreshWiredSoon, on PulseAudio's thread.                               *)
RefreshWiredSoon ==
  /\ event /\ event' = FALSE
  /\ \/ /\ pending \/ ~started
        /\ UNCHANGED <<pending, worker>>
     \/ /\ ~pending /\ started
        /\ pending' = TRUE
        /\ LET idle == {w \in Workers : worker[w] = "off"}
           IN  idle # {} /\ worker' = [worker EXCEPT ![Min(idle)] = "sleep"]
  /\ UNCHANGED <<link, connected, phase, fetched, told, started, output, looked, wiredLock, routing,
                 outputAddress, active, historyVars, moves>>

-----------------------------------------------------------------------------
(* RefreshWired on a worker, after 300 ms.                                 *)

Steps(w, from, to) == worker[w] = from /\ worker' = [worker EXCEPT ![w] = to]

(* Slip: the worker that runs will see it anyway.                          *)
WakesUpPending(w) ==
  /\ Steps(w, "sleep", "wait")
  /\ UNCHANGED <<link, connected, phase, fetched, told, started, output, event, pending, looked, wiredLock, routing,
                 outputAddress, active, historyVars, moves>>

(* The flag falls before the look: what comes after it has another worker.  *)
WakesUp(w) ==
  /\ Steps(w, "sleep", "wait")
  /\ pending' = FALSE
  /\ UNCHANGED <<link, connected, phase, fetched, told, started, output, event, looked, wiredLock, routing,
                 outputAddress, active, historyVars, moves>>

Looks(w) ==
  /\ Steps(w, "wait", "plug")
  /\ wiredLock = Nobody /\ wiredLock' = w
  /\ looked' = [looked EXCEPT ![w] = IF link[Wired] THEN Wired ELSE Nobody]
  /\ UNCHANGED <<link, connected, phase, fetched, told, started, output, event, pending, routing,
                 outputAddress, active, historyVars, moves>>

(* SetPlugged: the device's listeners run when it is new; one routes, if    *)
(* there are effects.                                                      *)
Plugs(w) ==
  /\ worker[w] = "plug"
  /\ LET plugged == looked[w] = Wired
     IN  IF connected[Wired] # plugged
         THEN /\ connected' = [connected EXCEPT ![Wired] = plugged]
              /\ routing' \in {routing} \cup IF plugged THEN {routing \cup {Wired}} ELSE {}
              /\ worker' = [worker EXCEPT ![w] = "select"]
         ELSE /\ worker' = [worker EXCEPT ![w] = "output"]
              /\ UNCHANGED <<connected, routing>>
  /\ looked' = [looked EXCEPT ![w] = Nobody]
  /\ UNCHANGED <<link, phase, fetched, told, started, output, event, pending, wiredLock,
                 outputAddress, active, historyVars, moves>>

(* Pulled, the sound goes back to the headphones that are left.             *)
SelectsPlugged(w) ==
  /\ Steps(w, "select", "output")
  /\ active' = Selected(IF connected[Wired] THEN Wired ELSE Nobody)
  /\ routing' = IF ~connected[Wired] /\ active' # Nobody THEN routing \cup {active'} ELSE routing
  /\ UNCHANGED <<link, connected, phase, fetched, told, started, output, event, pending, looked, wiredLock,
                 outputAddress, historyVars, moves>>

(* RefreshOutput: whose output it is, if they are connected, ...            *)
LooksAtOutput(w) ==
  /\ Steps(w, "output", "publish")
  /\ looked' = [looked EXCEPT ![w] = IF output \in Usable THEN output ELSE Nobody]
  /\ early' = (early \/ (output # Nobody /\ output \notin Usable))
  /\ UNCHANGED <<link, connected, phase, fetched, told, started, output, event, pending, wiredLock, routing,
                 outputAddress, active, overwritten, missed, moves>>

(* ... kept under _devicesLock, ...                                        *)
PublishesOutput(w) ==
  /\ worker[w] = "publish"
  /\ outputAddress' = looked[w]
  /\ IF looked[w] \notin {outputAddress, Nobody}
     THEN /\ worker' = [worker EXCEPT ![w] = "pick"]
          /\ UNCHANGED <<looked, wiredLock>>
     ELSE /\ worker' = [worker EXCEPT ![w] = "off"]
          /\ looked' = [looked EXCEPT ![w] = Nobody]
          /\ wiredLock' = Nobody
  /\ UNCHANGED <<link, connected, phase, fetched, told, started, output, event, pending, routing,
                 active, historyVars, moves>>

(* ... and who plays becomes the active one.                               *)
PicksPlaying(w) ==
  /\ Steps(w, "pick", "off")
  /\ wiredLock' = Nobody
  /\ active' = Selected(looked[w])
  /\ looked' = [looked EXCEPT ![w] = Nobody]
  /\ UNCHANGED <<link, connected, phase, fetched, told, started, output, event, pending, routing,
                 outputAddress, historyVars, moves>>

(* SetActiveDevice: the sound follows on a thread of its own.               *)
SetActiveDevice(d) ==
  /\ started /\ d \in Usable /\ Moves
  /\ active' = Selected(d)
  /\ routing' = routing \cup {d}
  /\ UNCHANGED <<link, connected, phase, fetched, told, started, output, event, wiredVars,
                 outputAddress, historyVars>>

(* RouteAudio: not for headphones that have gone or have no output yet.     *)
Routes(d) ==
  /\ d \in routing /\ routing' = routing \ {d}
  /\ IF connected[d] /\ link[d] /\ output # d
     THEN output' = d /\ event' = TRUE
     ELSE UNCHANGED <<output, event>>
  /\ UNCHANGED <<link, connected, phase, fetched, told, started, wiredVars,
                 outputAddress, active, historyVars, moves>>

-----------------------------------------------------------------------------

Makes(d) ==
  \/ InitListens(d) \/ InitReads(d) \/ InitWrites(d)
  \/ FetcherListens(d) \/ Inserts(d) \/ Inserted(d) \/ RemovedIsSelected(d)

Runs(w) ==
  \/ WakesUp(w) \/ Looks(w) \/ Plugs(w) \/ SelectsPlugged(w)
  \/ LooksAtOutput(w) \/ PublishesOutput(w) \/ PicksPlaying(w)

Next ==
  \/ JackChanges \/ OutputChanges \/ Starts \/ RefreshWiredSoon
  \/ \E d \in Bluetooth : LinkChanges(d) \/ DeviceHears(d) \/ SelectsConnected(d) \/ Makes(d) \/ Removed(d)
  \/ \E d \in Devices : SetActiveDevice(d) \/ Routes(d)
  \/ \E w \in Workers : Runs(w)

Spec == Init /\ [][Next]_vars

-----------------------------------------------------------------------------
(* Properties.                                                             *)

Heard ==
  /\ \A d \in Bluetooth : told[d] = "idle" /\ phase[d] \in {"none", "here"}
  /\ \A w \in Workers : worker[w] \in {"off", "sleep", "wait"}

AtRest == Heard /\ started /\ ~event /\ routing = {} /\ \A w \in Workers : worker[w] = "off"

(* With every change heard, the active headphones are connected ones, and   *)
(* there are some if any are connected, whatever threads selected them; and *)
(* headphones count as connected exactly while they are: the Bluetooth ones *)
(* unless Init wrote over a change its own listener had just heard, the     *)
(* jack however short its plugs follow each other, unless it changed before *)
(* the constructor listened.                                               *)
ActiveFollows ==
  /\ Heard => IF Usable = {} THEN active = Nobody ELSE active \in Usable
  /\ Heard /\ ~overwritten => \A d \in Bluetooth : phase[d] = "here" => connected[d] = link[d]
  /\ AtRest /\ ~missed => connected[Wired] = link[Wired]

(* The headphones shown as playing are those that do, unless the output     *)
(* was looked at before their connection was heard.                        *)
OutputFollows ==
  AtRest /\ ~early => outputAddress = IF output \in Usable THEN output ELSE Nobody

=============================================================================
