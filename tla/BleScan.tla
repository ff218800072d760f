-------------------------------- MODULE BleScan --------------------------------
(***************************************************************************)
(* When the BLE scan runs. DevicesInfoFetcher::UpdateBleState starts and    *)
(* stops it as AirPods and settings come and go;                           *)
(* DBusBasedBleAdvertisingService pauses it every 15 s (the gapper) and     *)
(* starts it again when the adapter was off (a detached thread each time).  *)
(***************************************************************************)
EXTENDS Integers, FiniteSets, Sequences

CONSTANTS
  MaxPowerOns,   \* bound: times the adapter comes back on
  MaxChanges,    \* bound: changes of who needs the scan
  MaxFails       \* bound: StartDiscovery calls BlueZ refuses

ASSUME BoundsAssumption ==
  MaxPowerOns \in Nat /\ MaxChanges \in Nat /\ MaxFails \in Nat

VARIABLES
  need,          \* what GetDevices() and the settings say
  active,        \* _bleScanActive
  waiting,       \* a caller of UpdateBleState waits for its lock
  pc,            \* where each caller of the service is
  gapper,        \* where the gapper is
  scanLock,      \* who holds _scanMutex
  scanDesired,   \* _scanDesired
  held,          \* _onDeviceAddedSubscriptionId
  subs,          \* live subscriptions to AnyDeviceAdded
  powered, discovering,   \* BlueZ: the adapter, our discovery session
  powerEvents,   \* changes of Powered its thread has not told yet
  strayed,       \* history: StopScan or a restart began while a restart was under way
  failed,        \* history: UpdateBleState's StartScan threw
  powerOns, changes, fails

serviceVars == <<scanLock, scanDesired, held, subs>>
bluezVars == <<powered, discovering, powerEvents>>
fetcherVars == <<need, active, waiting>>
historyVars == <<strayed, failed>>
boundVars == <<powerOns, changes, fails>>
vars == <<fetcherVars, pc, gapper, serviceVars, bluezVars, historyVars, boundVars>>

Updater == 0                        \* the thread in UpdateBleState
Restarts == 1..MaxPowerOns          \* the detached threads
Threads == {Updater} \cup Restarts
Free == -1                          \* nobody holds the lock

Needs == [paired: BOOLEAN, connected: BOOLEAN, asked: BOOLEAN]

PcOf(t) == {"idle", "drops", "subscribes", "locks", "desires"}
           \cup IF t = Updater THEN {"stops", "unsubscribes"} ELSE {"done"}

TypeOK ==
  /\ need \in Needs /\ active \in BOOLEAN /\ waiting \in BOOLEAN
  /\ pc \in [Threads -> UNION {PcOf(t) : t \in Threads}]
  /\ \A t \in Threads : pc[t] \in PcOf(t)
  /\ gapper \in {"waits", "stops", "pauses"}
  /\ scanLock \in Threads \cup {Free} /\ scanDesired \in BOOLEAN
  /\ held \in Nat /\ subs \subseteq Nat \ {0}
  /\ powered \in BOOLEAN /\ discovering \in BOOLEAN /\ powerEvents \in Seq(BOOLEAN)
  /\ strayed \in BOOLEAN /\ failed \in BOOLEAN
  /\ powerOns \in 0..MaxPowerOns /\ changes \in 0..MaxChanges /\ fails \in 0..MaxFails

(* The constructors: the service idle, then the first UpdateBleState.       *)
Init ==
  /\ need \in Needs /\ (need.connected => need.paired)
  /\ active = FALSE /\ waiting = TRUE
  /\ pc = [t \in Threads |-> "idle"] /\ gapper = "waits"
  /\ scanLock = Free /\ scanDesired = FALSE /\ held = 0 /\ subs = {}
  /\ powered \in BOOLEAN /\ discovering = FALSE /\ powerEvents = <<>>
  /\ strayed = FALSE /\ failed = FALSE
  /\ powerOns = 0 /\ changes = 0 /\ fails = 0

-----------------------------------------------------------------------------
(* UpdateBleState, under _bleStateMutex.                                   *)

(* ShouldScan with AAP: the popup or automatic switching asks for it and no *)
(* AirPods are connected.                                                  *)
ShouldScan(n) == n.paired /\ ~n.connected /\ n.asked

UpdateLooks ==
  /\ waiting /\ pc[Updater] = "idle"
  /\ waiting' = FALSE
  /\ active' = ShouldScan(need)
  /\ pc' = IF active' = active THEN pc
           ELSE [pc EXCEPT ![Updater] = IF active' THEN "drops" ELSE "stops"]
  /\ UNCHANGED <<need, gapper, serviceVars, bluezVars, historyVars, boundVars>>

-----------------------------------------------------------------------------
(* The service, called by the updater and by the restart threads.           *)

RestartUnderWay == \E r \in Restarts : pc[r] \notin {"idle", "done"}

(* Where a thread goes when its StartScan returns or throws.               *)
Back(t) == [pc EXCEPT ![t] = IF t = Updater THEN "idle" ELSE "done"]

(* StartListening, without a lock: the old subscription goes, ...           *)
Drops(t) ==
  /\ pc[t] = "drops"
  /\ pc' = [pc EXCEPT ![t] = "subscribes"]
  /\ subs' = subs \ {held}
  /\ UNCHANGED <<fetcherVars, gapper, scanLock, scanDesired, held, bluezVars, historyVars, boundVars>>

(* ... a new one is made and noted. (Every known device is subscribed to    *)
(* along with it: one subscription stands for all of them.)                *)
Subscribes(t) ==
  /\ pc[t] = "subscribes"
  /\ pc' = [pc EXCEPT ![t] = "locks"]
  /\ \E id \in 1..(Cardinality(subs) + 2) \ (subs \cup {held}) :
       /\ \A i \in 1..(id - 1) : i \in subs \cup {held}
       /\ held' = id /\ subs' = subs \cup {id}
  /\ UNCHANGED <<fetcherVars, gapper, scanLock, scanDesired, bluezVars, historyVars, boundVars>>

(* StartDiscoverySession: "NotReady" while the adapter is off and           *)
(* "InProgress" while there is a session are no errors.                    *)
SessionStarts == discovering' = (discovering \/ powered)

(* StartScan takes the lock and starts the session, ...                     *)
Locks(t) ==
  /\ pc[t] = "locks" /\ scanLock = Free
  /\ scanLock' = t
  /\ pc' = [pc EXCEPT ![t] = "desires"]
  /\ SessionStarts
  /\ UNCHANGED <<fetcherVars, gapper, scanDesired, held, subs, powered, powerEvents, historyVars, boundVars>>

(* Slip: a session that could not start is not wanted either.              *)
DesiresWhatRuns(t) ==
  /\ pc[t] = "desires"
  /\ scanDesired' = discovering
  /\ scanLock' = Free
  /\ pc' = Back(t)
  /\ UNCHANGED <<fetcherVars, gapper, held, subs, bluezVars, historyVars, boundVars>>

(* ... and only then notes that it is wanted.                              *)
Desires(t) ==
  /\ pc[t] = "desires"
  /\ scanDesired' = TRUE
  /\ scanLock' = Free
  /\ pc' = Back(t)
  /\ UNCHANGED <<fetcherVars, gapper, held, subs, bluezVars, historyVars, boundVars>>

(* Any other error is thrown: a restart thread catches it, UpdateBleState   *)
(* has set _bleScanActive by then.                                         *)
StartThrows(t) ==
  /\ pc[t] = "locks" /\ scanLock = Free
  /\ fails < MaxFails
  /\ fails' = fails + 1
  /\ pc' = Back(t)
  /\ failed' = (failed \/ t = Updater)
  /\ UNCHANGED <<fetcherVars, gapper, serviceVars, bluezVars, strayed, powerOns, changes>>

(* StopScan, its lock held throughout: the wish, ...                        *)
Stops ==
  /\ pc[Updater] = "stops" /\ scanLock = Free
  /\ scanLock' = Updater /\ scanDesired' = FALSE
  /\ pc' = [pc EXCEPT ![Updater] = "unsubscribes"]
  /\ strayed' = (strayed \/ RestartUnderWay)
  /\ UNCHANGED <<fetcherVars, gapper, held, subs, bluezVars, failed, boundVars>>

(* Slip: the old id is forgotten, its subscription kept.                   *)
StopsButListens ==
  /\ pc[Updater] = "unsubscribes"
  /\ held' = 0
  /\ discovering' = FALSE
  /\ scanLock' = Free
  /\ pc' = Back(Updater)
  /\ UNCHANGED <<fetcherVars, gapper, scanDesired, subs, powered, powerEvents, historyVars, boundVars>>

(* ... the subscription and the session.                                   *)
StopsListening ==
  /\ pc[Updater] = "unsubscribes"
  /\ subs' = subs \ {held} /\ held' = 0
  /\ discovering' = FALSE
  /\ scanLock' = Free
  /\ pc' = Back(Updater)
  /\ UNCHANGED <<fetcherVars, gapper, scanDesired, powered, powerEvents, historyVars, boundVars>>

-----------------------------------------------------------------------------
(* The gapper: every 15 s it stops the session for 1.5 s, the lock not held *)
(* meanwhile.                                                              *)

GapLooks ==
  /\ gapper = "waits" /\ scanDesired
  /\ gapper' = "stops"
  /\ UNCHANGED <<fetcherVars, pc, serviceVars, bluezVars, historyVars, boundVars>>

GapStops ==
  /\ gapper = "stops"
  /\ gapper' = "pauses"
  /\ discovering' = FALSE
  /\ UNCHANGED <<fetcherVars, pc, serviceVars, powered, powerEvents, historyVars, boundVars>>

(* Slip: StopScan may have run during the pause.                           *)
GapResumesBlindly ==
  /\ gapper = "pauses" /\ scanLock = Free
  /\ gapper' = "waits"
  /\ SessionStarts
  /\ UNCHANGED <<fetcherVars, pc, serviceVars, powered, powerEvents, historyVars, boundVars>>

GapResumes ==
  /\ gapper = "pauses" /\ scanLock = Free
  /\ gapper' = "waits"
  /\ IF scanDesired THEN SessionStarts ELSE UNCHANGED discovering
  /\ UNCHANGED <<fetcherVars, pc, serviceVars, powered, powerEvents, historyVars, boundVars>>

(* An error is caught; the next pause tries again.                         *)
GapFails ==
  /\ gapper = "pauses" /\ scanLock = Free /\ scanDesired
  /\ fails < MaxFails
  /\ fails' = fails + 1
  /\ gapper' = "waits"
  /\ UNCHANGED <<fetcherVars, pc, serviceVars, bluezVars, historyVars, powerOns, changes>>

-----------------------------------------------------------------------------
(* The adapter, and who needs the scan.                                    *)

PowerOff ==
  /\ powered
  /\ powered' = FALSE /\ discovering' = FALSE   \* BlueZ ends the session
  /\ powerEvents' = Append(powerEvents, FALSE)
  /\ UNCHANGED <<fetcherVars, pc, gapper, serviceVars, historyVars, boundVars>>

PowerOn ==
  /\ ~powered /\ powerOns < MaxPowerOns
  /\ powered' = TRUE
  /\ powerOns' = powerOns + 1
  /\ powerEvents' = Append(powerEvents, TRUE)
  /\ UNCHANGED <<fetcherVars, pc, gapper, serviceVars, discovering, historyVars, changes, fails>>

(* OnAdapterPowerChanged, on the adapter's D-Bus thread: back on, a thread  *)
(* starts the scan again 100 ms later, whatever happens meanwhile.         *)
OnAdapterPowerChanged ==
  /\ powerEvents # <<>>
  /\ powerEvents' = Tail(powerEvents)
  /\ IF Head(powerEvents) /\ scanDesired
     THEN \E r \in Restarts :
            /\ pc[r] = "idle" /\ \A s \in 1..(r - 1) : pc[s] # "idle"
            /\ pc' = [pc EXCEPT ![r] = "drops"]
            /\ strayed' = (strayed \/ RestartUnderWay)
     ELSE UNCHANGED <<pc, strayed>>
  /\ UNCHANGED <<fetcherVars, gapper, serviceVars, powered, discovering, failed, boundVars>>

(* AirPods paired or removed, connected or gone, a setting changed: each    *)
(* ends in an UpdateBleState. Callers that wait read the same when they run *)
(* one after the other: one stands for all.                                *)
NeedChanges ==
  /\ changes < MaxChanges
  /\ changes' = changes + 1
  /\ \E n \in Needs \ {need} : (n.connected => n.paired /\ powered) /\ need' = n
  /\ waiting' = TRUE
  /\ UNCHANGED <<active, pc, gapper, serviceVars, bluezVars, historyVars, powerOns, fails>>

-----------------------------------------------------------------------------

ThreadSteps(t) == Drops(t) \/ Subscribes(t) \/ Locks(t) \/ Desires(t) \/ StartThrows(t)
UpdaterSteps == UpdateLooks \/ Stops \/ StopsListening
GapperSteps == GapLooks \/ GapStops \/ GapResumes \/ GapFails
Environment == PowerOff \/ PowerOn \/ NeedChanges

Next ==
  \/ UpdaterSteps \/ GapperSteps \/ OnAdapterPowerChanged \/ Environment
  \/ \E t \in Threads : ThreadSteps(t)

(* Threads that can run do, _scanMutex serves everybody who keeps trying,   *)
(* and the clock runs for the gapper.                                      *)
Fairness ==
  /\ WF_vars(UpdateLooks) /\ SF_vars(Stops) /\ WF_vars(StopsListening)
  /\ WF_vars(GapLooks) /\ WF_vars(GapStops) /\ SF_vars(GapResumes)
  /\ WF_vars(OnAdapterPowerChanged)
  /\ \A t \in Threads : WF_vars(Drops(t) \/ Subscribes(t) \/ Desires(t)) /\ SF_vars(Locks(t))

Spec == Init /\ [][Next]_vars /\ Fairness

-----------------------------------------------------------------------------
(* Properties.                                                             *)

(* Whoever holds no lock finds no session that nobody wants: neither the    *)
(* gapper's resume nor a failed start leaves one behind, whatever ran in    *)
(* between.                                                                *)
NoSessionUnwanted == scanLock = Free /\ ~scanDesired => ~discovering

AtRest ==
  /\ ~waiting /\ powerEvents = <<>> /\ gapper = "waits"
  /\ \A t \in Threads : pc[t] \in {"idle", "done"}

(* "the BLE scan pauses while AirPods are connected (UpdateBleState)" and   *)
(* runs when it is needed, and the advertisements are listened to once      *)
(* then, not at all otherwise. The restart after the adapter was off asks   *)
(* nobody, so the code does not keep this ...                              *)
RestsAsNeeded ==
  AtRest => /\ scanDesired = ShouldScan(need)
            /\ Cardinality(subs) = IF ShouldScan(need) THEN 1 ELSE 0

(* ... but it does if no StopScan and no other restart met a restart on its *)
(* way, and BlueZ took UpdateBleState's start.                             *)
RestsAsNeededUnlessStrayed == ~strayed /\ ~failed => RestsAsNeeded

(* Needed and the adapter on, the discovery runs again before long: after a *)
(* pause, after the adapter was off, also when it came on in the moment     *)
(* between the session's start and the note that it is wanted. Not after a  *)
(* start that threw, which nobody repeats.                                 *)
ScanComesBack ==
  (ShouldScan(need) /\ powered) ~> (discovering \/ ~ShouldScan(need) \/ ~powered \/ failed)

=============================================================================
