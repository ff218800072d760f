------------------------------ MODULE NearbyProofs ------------------------------
(***************************************************************************)
(* For any number of restarts, addresses, changes and failures: no          *)
(* discovery session is left that nobody wants, the scan comes to rest as   *)
(* it is needed, and the popup is taken down with the reason it was shown   *)
(* for.                                                                    *)
(***************************************************************************)
EXTENDS MCNearby, FiniteSetTheorems, TLAPS

-----------------------------------------------------------------------------
(* The scan.                                                               *)

(* Whoever takes _scanMutex is not nobody.                                  *)
LEMMA ThreadsAreSomebody == \A t \in Threads : t # Free
BY BoundsAssumption DEF Threads, Updater, Restarts, Free

(* The one session there is was started under _scanMutex: by a StartScan    *)
(* that has yet to note the wish, in which case the lock is held, or by a   *)
(* gapper that saw the wish with the lock free. StopScan, which drops the   *)
(* wish first, holds the lock until the session is gone too.               *)
LEMMA NoSessionUnwantedKept ==
  NoSessionUnwanted /\ [Next]_vars => NoSessionUnwanted'
<1> SUFFICES ASSUME NoSessionUnwanted, [Next]_vars
             PROVE  NoSessionUnwanted'
  OBVIOUS
<1> USE DEF NoSessionUnwanted, serviceVars, bluezVars
<1>1. ASSUME NEW t \in Threads, ThreadSteps(t) PROVE NoSessionUnwanted'
  <2>1. CASE Drops(t) BY <2>1 DEF Drops
  <2>2. CASE Subscribes(t) BY <2>2 DEF Subscribes
  <2>3. CASE Locks(t) BY <2>3, ThreadsAreSomebody DEF Locks
  <2>4. CASE Desires(t) BY <2>4 DEF Desires
  <2>5. CASE StartThrows(t) BY <2>5 DEF StartThrows
  <2> QED BY <1>1, <2>1, <2>2, <2>3, <2>4, <2>5 DEF ThreadSteps
<1>2. ASSUME UpdaterSteps PROVE NoSessionUnwanted'
  <2>1. CASE UpdateLooks BY <2>1 DEF UpdateLooks
  <2>2. CASE Stops BY <2>2 DEF Stops, Updater, Free
  <2>3. CASE StopsListening BY <2>3 DEF StopsListening
  <2> QED BY <1>2, <2>1, <2>2, <2>3 DEF UpdaterSteps
<1>3. ASSUME GapperSteps PROVE NoSessionUnwanted'
  <2>1. CASE GapLooks BY <2>1 DEF GapLooks
  <2>2. CASE GapStops BY <2>2 DEF GapStops
  <2>3. CASE GapResumes BY <2>3 DEF GapResumes, SessionStarts
  <2>4. CASE GapFails BY <2>4 DEF GapFails
  <2> QED BY <1>3, <2>1, <2>2, <2>3, <2>4 DEF GapperSteps
<1>4. ASSUME OnAdapterPowerChanged PROVE NoSessionUnwanted'
  BY <1>4 DEF OnAdapterPowerChanged
<1>5. ASSUME Environment PROVE NoSessionUnwanted'
  <2>1. CASE PowerOff BY <2>1 DEF PowerOff
  <2>2. CASE PowerOn BY <2>2 DEF PowerOn
  <2>3. CASE NeedChanges BY <2>3 DEF NeedChanges
  <2> QED BY <1>5, <2>1, <2>2, <2>3 DEF Environment
<1>6. ASSUME UNCHANGED vars PROVE NoSessionUnwanted'
  BY <1>6 DEF vars
<1> QED BY <1>1, <1>2, <1>3, <1>4, <1>5, <1>6 DEF Next

(* Once whoever held _scanMutex is through, a session runs only if the scan *)
(* is desired: a pause of the duty cycle, a restart with the adapter and a  *)
(* StartScan that threw leave none behind a StopScan.                      *)
THEOREM NoSessionIsUnwanted == Spec => []NoSessionUnwanted
<1>1. Init => NoSessionUnwanted
  BY DEF Init, NoSessionUnwanted
<1> QED BY <1>1, NoSessionUnwantedKept, PTL DEF Spec

(* Where the callers of the service may be.                                *)
ScanType ==
  /\ pc \in [Threads -> {"idle", "drops", "subscribes", "locks", "desires", "stops",
                         "unsubscribes", "done"}]
  /\ pc[Updater] # "done"
  /\ \A r \in Restarts : pc[r] \notin {"stops", "unsubscribes"}

ScanFlags ==
  /\ active \in BOOLEAN /\ waiting \in BOOLEAN /\ scanDesired \in BOOLEAN
  /\ strayed \in BOOLEAN /\ failed \in BOOLEAN

OnItsWay(r) == pc[r] \notin {"idle", "done"}

(* The updater does what the last UpdateBleState decided, or is about to;   *)
(* restarts come one by one, and only while the scan is desired.            *)
DoesAsDecided ==
  /\ ~waiting => (active <=> ShouldScan(need))
  /\ pc[Updater] = "idle" => (active <=> scanDesired)
  /\ pc[Updater] \in {"drops", "subscribes", "locks", "desires"} => active /\ ~scanDesired
  /\ pc[Updater] = "stops" => ~active /\ scanDesired
  /\ pc[Updater] = "unsubscribes" => ~active /\ ~scanDesired
  /\ ~scanDesired => \A r \in Restarts : ~OnItsWay(r)
  /\ \A r, s \in Restarts : OnItsWay(r) /\ OnItsWay(s) => r = s

(* The advertisements are listened to once, or not at all.                  *)
ListensOnce ==
  /\ \A t \in Threads : pc[t] = "subscribes" => subs = {}
  /\ scanDesired /\ (\A t \in Threads : pc[t] # "subscribes") => subs = {held}
  /\ pc[Updater] \in {"locks", "desires", "unsubscribes"} => subs = {held}
  /\ pc[Updater] \in {"idle", "drops"} /\ ~scanDesired => subs = {}

ScanInv ==
  /\ ScanType /\ ScanFlags
  /\ ~strayed /\ ~failed => DoesAsDecided /\ ListensOnce

(* Whoever calls the scan is the updater or one of the restarts, not both.  *)
LEMMA UpdaterIsNoRestart ==
  /\ Updater \in Threads /\ Updater \notin Restarts /\ Restarts \subseteq Threads
  /\ \A t \in Threads : t = Updater \/ t \in Restarts
BY BoundsAssumption DEF Threads, Updater, Restarts

(* A step of one caller leaves the others where they are.                   *)
LEMMA MovesOn ==
  ASSUME ScanType, NEW t \in Threads, NEW p, pc' = [pc EXCEPT ![t] = p],
         p \in {"idle", "drops", "subscribes", "locks", "desires", "stops", "unsubscribes", "done"},
         t = Updater => p # "done", t # Updater => p \notin {"stops", "unsubscribes"}
  PROVE  /\ pc'[t] = p /\ \A u \in Threads : u # t => pc'[u] = pc[u]
         /\ ScanType'
BY UpdaterIsNoRestart DEF ScanType

(* The steps every caller has leave the invariant: StartScan.                *)
LEMMA ScanThreads ==
  ASSUME ScanInv, NEW t \in Threads, ThreadSteps(t)
  PROVE  ScanInv'
<1> USE UpdaterIsNoRestart DEF serviceVars, bluezVars, fetcherVars, historyVars, ScanInv
<1>1. CASE Drops(t)
  <2>1. /\ UNCHANGED <<need, active, waiting, held, scanDesired, strayed, failed>>
        /\ pc[t] = "drops" /\ subs' = subs \ {held}
        /\ pc' = [pc EXCEPT ![t] = "subscribes"]
    BY <1>1 DEF Drops
  <2>2. /\ pc'[t] = "subscribes" /\ \A u \in Threads : u # t => pc'[u] = pc[u]
        /\ ScanType'
    BY <2>1, MovesOn
  <2>3. ScanFlags'
    BY <2>1 DEF ScanFlags
  <2>4. ASSUME ~strayed', ~failed' PROVE DoesAsDecided' /\ ListensOnce'
    <3>1. DoesAsDecided /\ ListensOnce
      BY <2>1, <2>4
    <3>2. DoesAsDecided'
      BY <2>1, <2>2, <3>1 DEF DoesAsDecided, OnItsWay
    <3>3. \A u \in Threads : pc[u] = "subscribes" => FALSE
      BY <2>1, <3>1 DEF DoesAsDecided, OnItsWay
    <3>4. subs' = {}
      BY <2>1, <3>1, <3>3 DEF DoesAsDecided, ListensOnce, OnItsWay
    <3>5. ListensOnce'
      BY <2>1, <2>2, <3>1, <3>4 DEF DoesAsDecided, ListensOnce, OnItsWay
    <3> QED BY <3>2, <3>5
  <2> QED BY <2>2, <2>3, <2>4
<1>2. CASE Subscribes(t)
  <2>1. /\ UNCHANGED <<need, active, waiting, scanDesired, strayed, failed>>
        /\ pc[t] = "subscribes" /\ subs' = subs \cup {held'}
        /\ pc' = [pc EXCEPT ![t] = "locks"]
    BY <1>2 DEF Subscribes
  <2>2. /\ pc'[t] = "locks" /\ \A u \in Threads : u # t => pc'[u] = pc[u]
        /\ ScanType'
    BY <2>1, MovesOn
  <2>3. ScanFlags'
    BY <2>1 DEF ScanFlags
  <2>4. ASSUME ~strayed', ~failed' PROVE DoesAsDecided' /\ ListensOnce'
    <3>1. DoesAsDecided /\ ListensOnce
      BY <2>1, <2>4
    <3>2. DoesAsDecided'
      BY <2>1, <2>2, <3>1 DEF DoesAsDecided, OnItsWay
    <3>3. subs' = {held'}
      BY <2>1, <3>1 DEF ListensOnce
    <3>4. ListensOnce'
      BY <2>1, <2>2, <3>1, <3>3 DEF DoesAsDecided, ListensOnce, OnItsWay
    <3> QED BY <3>2, <3>4
  <2> QED BY <2>2, <2>3, <2>4
<1>3. CASE Locks(t)
  <2>1. /\ UNCHANGED <<need, active, waiting, held, subs, scanDesired, strayed, failed>>
        /\ pc[t] = "locks" /\ pc' = [pc EXCEPT ![t] = "desires"]
    BY <1>3 DEF Locks
  <2>2. /\ pc'[t] = "desires" /\ \A u \in Threads : u # t => pc'[u] = pc[u]
        /\ ScanType'
    BY <2>1, MovesOn
  <2>3. ScanFlags'
    BY <2>1 DEF ScanFlags
  <2>4. ~strayed' /\ ~failed' => DoesAsDecided' /\ ListensOnce'
    BY <2>1, <2>2 DEF DoesAsDecided, ListensOnce, OnItsWay
  <2> QED BY <2>2, <2>3, <2>4
<1>4. CASE Desires(t)
  <2>1. /\ UNCHANGED <<need, active, waiting, held, subs, strayed, failed>>
        /\ pc[t] = "desires" /\ scanDesired' = TRUE
        /\ pc' = [pc EXCEPT ![t] = IF t = Updater THEN "idle" ELSE "done"]
    BY <1>4 DEF Desires, Back
  <2>2. /\ pc'[t] = IF t = Updater THEN "idle" ELSE "done"
        /\ \A u \in Threads : u # t => pc'[u] = pc[u]
        /\ ScanType'
    BY <2>1, MovesOn
  <2>3. ScanFlags'
    BY <2>1 DEF ScanFlags
  <2>4. ASSUME ~strayed', ~failed' PROVE DoesAsDecided' /\ ListensOnce'
    <3>1. DoesAsDecided /\ ListensOnce
      BY <2>1, <2>4
    <3>2. CASE t = Updater
      BY <2>1, <2>2, <3>1, <3>2 DEF DoesAsDecided, ListensOnce, OnItsWay
    <3>3. CASE t \in Restarts
      BY <2>1, <2>2, <3>1, <3>3 DEF DoesAsDecided, ListensOnce, OnItsWay
    <3> QED BY <3>2, <3>3
  <2> QED BY <2>2, <2>3, <2>4
<1>5. CASE StartThrows(t)
  <2>1. /\ UNCHANGED <<need, active, waiting, held, subs, scanDesired, strayed>>
        /\ pc[t] = "locks"
        /\ pc' = [pc EXCEPT ![t] = IF t = Updater THEN "idle" ELSE "done"]
    BY <1>5 DEF StartThrows, Back
  <2>2. /\ pc'[t] = IF t = Updater THEN "idle" ELSE "done"
        /\ \A u \in Threads : u # t => pc'[u] = pc[u]
        /\ ScanType'
    BY <2>1, MovesOn
  <2>3. failed' = (failed \/ t = Updater)
    BY <1>5, Zenon DEF StartThrows
  <2>4. ScanFlags'
    BY <2>1, <2>3 DEF ScanFlags
  <2>5. ~failed' => ~failed /\ t # Updater
    BY <2>3, Zenon
  <2>6. ~strayed' /\ ~failed' => DoesAsDecided' /\ ListensOnce'
    BY <2>1, <2>2, <2>5 DEF DoesAsDecided, ListensOnce, OnItsWay
  <2> QED BY <2>2, <2>4, <2>6
<1> QED BY <1>1, <1>2, <1>3, <1>4, <1>5 DEF ThreadSteps

(* The steps of UpdateBleState and of StopScan leave the invariant.          *)
LEMMA ScanUpdater ==
  ASSUME ScanInv, UpdaterSteps
  PROVE  ScanInv'
<1> USE UpdaterIsNoRestart DEF serviceVars, bluezVars, fetcherVars, historyVars, ScanInv
<1>1. CASE UpdateLooks
  <2>1. /\ UNCHANGED <<need, held, subs, scanDesired, strayed, failed>>
        /\ pc[Updater] = "idle" /\ waiting' = FALSE
    BY <1>1 DEF UpdateLooks
  <2>2. active' = ShouldScan(need)
    BY <1>1, Zenon DEF UpdateLooks
  <2>3. \/ (active' <=> active) /\ pc' = pc
        \/ active' /\ ~active /\ pc' = [pc EXCEPT ![Updater] = "drops"]
        \/ ~active' /\ active /\ pc' = [pc EXCEPT ![Updater] = "stops"]
    <3>1. pc' = IF active' = active THEN pc
                ELSE [pc EXCEPT ![Updater] = IF active' THEN "drops" ELSE "stops"]
      BY <1>1, Zenon DEF UpdateLooks
    <3>2. active \in BOOLEAN /\ active' \in BOOLEAN
      BY <2>2, Zenon DEF ScanFlags, ShouldScan
    <3>3. CASE active' = active
      BY <3>1, <3>2, <3>3, Zenon
    <3>4. CASE active' # active /\ active' = TRUE
      BY <3>1, <3>2, <3>4, Zenon
    <3>5. CASE active' # active /\ active' = FALSE
      BY <3>1, <3>2, <3>5, Zenon
    <3> QED BY <3>2, <3>3, <3>4, <3>5, Zenon
  <2>4. ScanFlags'
    <3>1. active' \in BOOLEAN
      BY <2>2, Zenon DEF ShouldScan
    <3> QED BY <2>1, <3>1 DEF ScanFlags
  <2>5. ASSUME pc' = pc, active' <=> active PROVE ScanInv'
    <3>1. ScanType'
      BY <2>5 DEF ScanType
    <3>2. (active' <=> ShouldScan(need)) /\ need' = need
      BY <2>1, <2>2
    <3>3. ~strayed' /\ ~failed' => DoesAsDecided' /\ ListensOnce'
      BY <2>1, <2>5, <3>2 DEF DoesAsDecided, ListensOnce, OnItsWay
    <3> QED BY <2>4, <3>1, <3>3
  <2>6. ASSUME NEW p \in {"drops", "stops"}, pc' = [pc EXCEPT ![Updater] = p],
               p = "drops" => active' /\ ~active, p = "stops" => ~active' /\ active
        PROVE  ScanInv'
    <3>1. pc'[Updater] = p /\ (\A u \in Threads : u # Updater => pc'[u] = pc[u]) /\ ScanType'
      BY <2>6, MovesOn
    <3>2. (active' <=> ShouldScan(need)) /\ need' = need
      BY <2>1, <2>2
    <3>3. ~strayed' /\ ~failed' => DoesAsDecided' /\ ListensOnce'
      BY <2>1, <2>6, <3>1, <3>2 DEF DoesAsDecided, ListensOnce, OnItsWay
    <3> QED BY <2>4, <3>1, <3>3
  <2> QED BY <2>3, <2>5, <2>6
<1>2. CASE Stops
  <2>1. /\ UNCHANGED <<need, active, waiting, held, subs, failed>>
        /\ pc[Updater] = "stops" /\ scanDesired' = FALSE
        /\ pc' = [pc EXCEPT ![Updater] = "unsubscribes"]
    BY <1>2 DEF Stops
  <2>2. pc'[Updater] = "unsubscribes" /\ (\A u \in Threads : u # Updater => pc'[u] = pc[u])
        /\ ScanType'
    BY <2>1, MovesOn
  <2>3. strayed' = (strayed \/ RestartUnderWay)
    BY <1>2, Zenon DEF Stops
  <2>4. ScanFlags'
    BY <2>1, <2>3 DEF ScanFlags
  <2>5. ~strayed' => ~strayed /\ \A r \in Restarts : ~OnItsWay(r)
    BY <2>3, Zenon DEF RestartUnderWay, OnItsWay
  <2>6. ~strayed' /\ ~failed' => DoesAsDecided' /\ ListensOnce'
    BY <2>1, <2>2, <2>5 DEF DoesAsDecided, ListensOnce, OnItsWay
  <2> QED BY <2>2, <2>4, <2>6
<1>3. CASE StopsListening
  <2>1. /\ UNCHANGED <<need, active, waiting, scanDesired, strayed, failed>>
        /\ pc[Updater] = "unsubscribes" /\ subs' = subs \ {held}
        /\ pc' = [pc EXCEPT ![Updater] = "idle"]
    BY <1>3 DEF StopsListening, Back
  <2>2. pc'[Updater] = "idle" /\ (\A u \in Threads : u # Updater => pc'[u] = pc[u]) /\ ScanType'
    BY <2>1, MovesOn
  <2>3. ScanFlags'
    BY <2>1 DEF ScanFlags
  <2>4. ~strayed' /\ ~failed' => DoesAsDecided' /\ ListensOnce'
    BY <2>1, <2>2 DEF DoesAsDecided, ListensOnce, OnItsWay
  <2> QED BY <2>2, <2>3, <2>4
<1> QED BY <1>1, <1>2, <1>3 DEF UpdaterSteps

(* So do the duty cycle, the adapter, and what changes the need.            *)
LEMMA ScanOthers ==
  ASSUME ScanInv, GapperSteps \/ OnAdapterPowerChanged \/ Environment \/ UNCHANGED vars
  PROVE  ScanInv'
<1> USE UpdaterIsNoRestart DEF serviceVars, bluezVars, fetcherVars, historyVars, ScanInv
<1>1. CASE GapperSteps \/ PowerOff \/ PowerOn \/ UNCHANGED vars
  <2>1. UNCHANGED <<need, active, waiting, pc, held, subs, scanDesired, strayed, failed>>
    BY <1>1 DEF GapperSteps, GapLooks, GapStops, GapResumes, GapFails, PowerOff, PowerOn, vars
  <2>2. ScanFlags'
    BY <2>1 DEF ScanFlags
  <2>3. ScanType'
    BY <2>1 DEF ScanType
  <2>4. ~strayed' /\ ~failed' => DoesAsDecided' /\ ListensOnce'
    BY <2>1 DEF DoesAsDecided, ListensOnce, OnItsWay
  <2> QED BY <2>2, <2>3, <2>4
<1>2. CASE NeedChanges
  <2>1. UNCHANGED <<active, pc, held, subs, scanDesired, strayed, failed>> /\ waiting' = TRUE
    BY <1>2 DEF NeedChanges
  <2>2. ScanFlags'
    BY <2>1 DEF ScanFlags
  <2>3. ScanType'
    BY <2>1 DEF ScanType
  <2>4. ~strayed' /\ ~failed' => DoesAsDecided' /\ ListensOnce'
    BY <2>1 DEF DoesAsDecided, ListensOnce, OnItsWay
  <2> QED BY <2>2, <2>3, <2>4
<1>3. CASE OnAdapterPowerChanged
  <2>1. UNCHANGED <<need, active, waiting, held, subs, scanDesired, failed>>
    BY <1>3 DEF OnAdapterPowerChanged
  <2>2. CASE Head(powerEvents) /\ scanDesired
    <3>1. PICK r \in Restarts : pc[r] = "idle" /\ pc' = [pc EXCEPT ![r] = "drops"]
                                /\ strayed' = (strayed \/ RestartUnderWay)
      BY <1>3, <2>2, Zenon DEF OnAdapterPowerChanged
    <3>2. pc'[r] = "drops" /\ (\A u \in Threads : u # r => pc'[u] = pc[u]) /\ ScanType'
      BY <3>1, MovesOn
    <3>3. ScanFlags'
      BY <2>1, <3>1 DEF ScanFlags
    <3>4. ~strayed' => ~strayed /\ \A s \in Restarts : ~OnItsWay(s)
      BY <3>1, Zenon DEF RestartUnderWay, OnItsWay
    <3>5. ~strayed' /\ ~failed' => DoesAsDecided' /\ ListensOnce'
      BY <2>1, <2>2, <3>1, <3>2, <3>4 DEF DoesAsDecided, ListensOnce, OnItsWay
    <3> QED BY <3>2, <3>3, <3>5
  <2>3. CASE ~(Head(powerEvents) /\ scanDesired)
    <3>1. UNCHANGED <<pc, strayed>>
      BY <1>3, <2>3, Zenon DEF OnAdapterPowerChanged
    <3>2. ScanFlags'
      BY <2>1, <3>1 DEF ScanFlags
    <3>3. ScanType'
      BY <3>1 DEF ScanType
    <3>4. ~strayed' /\ ~failed' => DoesAsDecided' /\ ListensOnce'
      BY <2>1, <3>1 DEF DoesAsDecided, ListensOnce, OnItsWay
    <3> QED BY <3>2, <3>3, <3>4
  <2> QED BY <2>2, <2>3
<1> QED BY <1>1, <1>2, <1>3 DEF Environment

(* The invariant of the scan is inductive.                                 *)
LEMMA ScanInvKept == ScanInv /\ [Next]_vars => ScanInv'
BY ScanThreads, ScanUpdater, ScanOthers DEF Next

(* At rest the scan runs exactly if it is needed, and the advertisements    *)
(* are listened to once or not at all, for any number of restarts with the  *)
(* adapter, if none of them met a stop or another restart.                 *)
THEOREM AlwaysRestsAsNeeded == Spec => []RestsAsNeededUnlessStrayed
<1>1. Init => ScanInv
  <2> SUFFICES ASSUME Init PROVE ScanInv
    OBVIOUS
  <2>1. ScanFlags
    BY DEF Init, ScanFlags
  <2>2. ScanType /\ \A t \in Threads : pc[t] = "idle"
    BY UpdaterIsNoRestart DEF Init, ScanType
  <2>3. DoesAsDecided /\ ListensOnce
    BY <2>2, UpdaterIsNoRestart DEF Init, DoesAsDecided, ListensOnce, OnItsWay
  <2> QED BY <2>1, <2>2, <2>3 DEF ScanInv
<1>2. ScanInv => RestsAsNeededUnlessStrayed
  <2> SUFFICES ASSUME ScanInv, ~strayed, ~failed, AtRest
               PROVE  /\ scanDesired = ShouldScan(need)
                      /\ Cardinality(subs) = IF ShouldScan(need) THEN 1 ELSE 0
    BY DEF RestsAsNeededUnlessStrayed, RestsAsNeeded
  <2>1. pc[Updater] = "idle" /\ ~waiting /\ \A t \in Threads : pc[t] # "subscribes"
    BY UpdaterIsNoRestart DEF AtRest, ScanInv, ScanType
  <2>2. (scanDesired <=> ShouldScan(need)) /\ scanDesired \in BOOLEAN
    BY <2>1, Zenon DEF ScanInv, ScanFlags, DoesAsDecided
  <2>3. scanDesired = ShouldScan(need)
    BY <2>2, Zenon DEF ShouldScan
  <2>4. CASE ShouldScan(need)
    <3>1. subs = {held}
      BY <2>1, <2>2, <2>4 DEF ScanInv, ListensOnce
    <3>2. Cardinality({held}) = 1
      BY FS_Singleton
    <3> QED BY <2>3, <2>4, <3>1, <3>2
  <2>5. CASE ~ShouldScan(need)
    <3>1. subs = {}
      BY <2>1, <2>2, <2>5 DEF ScanInv, ListensOnce
    <3>2. Cardinality({}) = 0
      BY FS_EmptySet
    <3> QED BY <2>3, <2>5, <3>1, <3>2
  <2> QED BY <2>4, <2>5
<1> QED BY <1>1, <1>2, ScanInvKept, PTL DEF Spec

-----------------------------------------------------------------------------
(* The popup.                                                              *)

(* No address is taken for another thread of the popup.                    *)
LEMMA AddrsAre == \A a \in Addrs : a # "link" /\ a # "watch" /\ a # "none"
BY NearbyAssumption DEF Popup!ConstantsOK

NoShowAd == \A a \in Addrs : ~air[a].show
NoShow == \A t \in Popup!Threads : firing[t] # "show"
Hides == \E t \in Popup!Threads : firing[t] = "hide"

PopupType ==
  /\ lid \in {"shut", "open"} /\ addr \in Addrs
  /\ link \in {"idle", "told", "scan"}
  /\ air \in [Addrs -> Popup!Ads \cup {Popup!NoAd}]
  /\ mac \in Addrs \cup {Popup!None}
  /\ cached \in [show : BOOLEAN, data : Data \cup {Popup!None}]
  /\ firing \in [Popup!Threads -> {"show", "hide", Popup!None}]
  /\ firing["link"] # "show" /\ firing["watch"] # "show"
  /\ pane \in {"hidden", "shown", "closing"}

PopupFlags ==
  /\ connected \in BOOLEAN /\ scanning \in BOOLEAN /\ quiet \in BOOLEAN /\ silent \in BOOLEAN
  /\ dismissed \in BOOLEAN /\ young \in BOOLEAN /\ late \in BOOLEAN
  /\ dismissedNow \in BOOLEAN /\ popupStrayed \in BOOLEAN

(* One advertisement at a time; none while they are connected and it is     *)
(* known, nor right after they were.                                       *)
AdsComeInOrder ==
  /\ \A a \in Addrs : air[a] # Popup!NoAd => a = addr
  /\ ~connected /\ link = "idle" => scanning
  /\ (connected <=> link = "idle") => ~scanning /\ \A a \in Addrs : air[a] = Popup!NoAd

(* A popup is asked for until the connection is handled, or the lid is      *)
(* known to be shut: no older advertisement says otherwise.                 *)
AskedFor ==
  /\ mac # Popup!None => cached.show /\ link = IF connected THEN "told" ELSE "idle"
  /\ (connected <=> link = "idle") => NoShow
  /\ mac # Popup!None /\ ~connected =>
       /\ silent => lid = "shut" /\ NoShowAd
       /\ lid = "open" => \A a \in Addrs : air[a] # Popup!NoAd => air[a].show

(* Whoever is about to hide the popup knows that no show will follow.       *)
NoneFollows ==
  \A t \in Popup!Threads : firing[t] = "hide" =>
    /\ mac = Popup!None
    /\ \/ lid = "shut" /\ NoShowAd
       \/ t # "watch" /\ connected /\ link # "idle"

(* What is shown, or about to be, is asked for or about to be hidden.       *)
ShownIsAskedFor ==
  (pane = "shown" /\ ~late) \/ ~NoShow => mac # Popup!None \/ Hides

(* A dismissed popup is held back by the UI, or nobody asks for it.         *)
DismissedStays ==
  dismissedNow =>
    /\ pane # "shown"
    /\ dismissed \/ (mac = Popup!None /\ NoShow /\ ((lid = "shut" /\ NoShowAd) \/ connected))

PopupInv ==
  /\ PopupType /\ PopupFlags /\ AdsComeInOrder
  /\ ~popupStrayed => AskedFor /\ NoneFollows /\ ShownIsAskedFor /\ DismissedStays

(* The actions that decide and fire no popup.                              *)
LEMMA PopupSimple ==
  ASSUME PopupInv,
         Popup!LidOpens \/ Popup!LidShuts \/ Popup!AddressRotates \/ Popup!LinkChanges
         \/ Popup!Disconnected \/ Popup!SilencePasses \/ Popup!QuietEnds \/ Popup!MinimumPasses
         \/ Popup!LateHides \/ Popup!FinishClose \/ Popup!Dismiss
         \/ UNCHANGED popupVars
  PROVE  PopupInv'
<1> USE DEF PopupInv, Popup!podsVars, Popup!linkVars, Popup!animVars, Popup!uiVars,
            Popup!historyVars
<1>1. CASE Popup!LidOpens
  <2>1. /\ UNCHANGED <<addr, link, air, mac, cached, firing, pane>>
        /\ UNCHANGED <<connected, scanning, quiet, silent, dismissed, young, late, popupStrayed>>
        /\ lid = "shut" /\ silent /\ (mac = Popup!None \/ connected)
        /\ \A t \in Popup!Threads : firing[t] = Popup!None
        /\ lid' = "open" /\ dismissedNow' = FALSE
    BY <1>1 DEF Popup!LidOpens, Popup!NothingFiring
  <2>2. PopupFlags'
    BY <2>1 DEF PopupFlags
  <2>3. PopupType' /\ AdsComeInOrder'
    BY <2>1 DEF PopupType, AdsComeInOrder
  <2>4. ~popupStrayed' => AskedFor' /\ NoneFollows' /\ ShownIsAskedFor' /\ DismissedStays'
    BY <2>1 DEF PopupType, AdsComeInOrder, AskedFor, NoneFollows, ShownIsAskedFor,
                DismissedStays, NoShowAd, NoShow, Hides, Popup!None, Popup!NoAd
  <2> QED BY <2>2, <2>3, <2>4
<1>2. CASE Popup!LidShuts
  <2>1. /\ UNCHANGED <<addr, link, air, mac, cached, firing, pane>>
        /\ UNCHANGED <<connected, scanning, quiet, silent, dismissed, young, late, dismissedNow>>
        /\ UNCHANGED popupStrayed
        /\ lid = "open" /\ lid' = "shut"
    BY <1>2 DEF Popup!LidShuts
  <2>2. PopupFlags'
    BY <2>1 DEF PopupFlags
  <2>3. PopupType' /\ AdsComeInOrder'
    BY <2>1 DEF PopupType, AdsComeInOrder
  <2>4. ~popupStrayed' => AskedFor' /\ NoneFollows' /\ ShownIsAskedFor' /\ DismissedStays'
    BY <2>1 DEF PopupType, AdsComeInOrder, AskedFor, NoneFollows, ShownIsAskedFor,
                DismissedStays, NoShowAd, NoShow, Hides
  <2> QED BY <2>2, <2>3, <2>4
<1>3. CASE Popup!AddressRotates
  <2>1. /\ UNCHANGED <<lid, link, air, mac, cached, firing, pane>>
        /\ UNCHANGED <<connected, scanning, quiet, silent, dismissed, young, late, dismissedNow>>
        /\ UNCHANGED popupStrayed
        /\ air[addr] = Popup!NoAd /\ addr' \in Addrs
    BY <1>3 DEF Popup!AddressRotates
  <2>2. PopupFlags'
    BY <2>1 DEF PopupFlags
  <2>3. PopupType' /\ AdsComeInOrder'
    BY <2>1 DEF PopupType, AdsComeInOrder
  <2>4. ~popupStrayed' => AskedFor' /\ NoneFollows' /\ ShownIsAskedFor' /\ DismissedStays'
    BY <2>1 DEF PopupType, AdsComeInOrder, AskedFor, NoneFollows, ShownIsAskedFor,
                DismissedStays, NoShowAd, NoShow, Hides
  <2> QED BY <2>2, <2>3, <2>4
<1>4. CASE Popup!LinkChanges
  <2>1. /\ UNCHANGED <<lid, addr, air, mac, cached, firing, pane>>
        /\ UNCHANGED <<scanning, quiet, silent, dismissed, young, late, popupStrayed>>
        /\ link = "idle" /\ link' = "told" /\ (connected' <=> ~connected) /\ dismissedNow' = FALSE
    BY <1>4 DEF Popup!LinkChanges
  <2>2. PopupFlags'
    BY <2>1 DEF PopupFlags
  <2>3. PopupType' /\ AdsComeInOrder'
    BY <2>1 DEF PopupType, AdsComeInOrder
  <2>4. ~popupStrayed' => AskedFor' /\ NoneFollows' /\ ShownIsAskedFor' /\ DismissedStays'
    BY <2>1 DEF PopupType, AdsComeInOrder, AskedFor, NoneFollows, ShownIsAskedFor,
                DismissedStays, NoShowAd, NoShow, Hides
  <2> QED BY <2>2, <2>3, <2>4
<1>5. CASE Popup!Disconnected
  <2>1. /\ UNCHANGED <<lid, addr, air, cached, firing, pane>>
        /\ UNCHANGED <<connected, scanning, silent, dismissed, young, late, dismissedNow, popupStrayed>>
        /\ link = "told" /\ ~connected /\ link' = "scan" /\ mac' = Popup!None /\ quiet' = TRUE
    BY <1>5 DEF Popup!Disconnected
  <2>2. PopupFlags'
    BY <2>1 DEF PopupFlags
  <2>3. PopupType' /\ AdsComeInOrder'
    BY <2>1 DEF PopupType, AdsComeInOrder
  <2>4. ~popupStrayed' => AskedFor' /\ NoneFollows' /\ ShownIsAskedFor' /\ DismissedStays'
    BY <2>1 DEF PopupType, AdsComeInOrder, AskedFor, NoneFollows, ShownIsAskedFor,
                DismissedStays, NoShowAd, NoShow, Hides
  <2> QED BY <2>2, <2>3, <2>4
<1>6. CASE Popup!SilencePasses
  <2>1. /\ UNCHANGED <<lid, addr, link, air, mac, cached, firing, pane>>
        /\ UNCHANGED <<connected, scanning, quiet, dismissed, young, late, dismissedNow, popupStrayed>>
        /\ ~silent /\ (lid = "shut" \/ ~scanning) /\ (\A a \in Addrs : air[a] = Popup!NoAd) /\ silent' = TRUE
    BY <1>6 DEF Popup!SilencePasses
  <2>2. PopupFlags'
    BY <2>1 DEF PopupFlags
  <2>3. PopupType' /\ AdsComeInOrder'
    BY <2>1 DEF PopupType, AdsComeInOrder
  <2>4. ~popupStrayed' => AskedFor' /\ NoneFollows' /\ ShownIsAskedFor' /\ DismissedStays'
    BY <2>1 DEF PopupType, AdsComeInOrder, AskedFor, NoneFollows, ShownIsAskedFor,
                DismissedStays, NoShowAd, NoShow, Hides, Popup!None, Popup!NoAd
  <2> QED BY <2>2, <2>3, <2>4
<1>7. CASE Popup!QuietEnds
  <2>1. /\ UNCHANGED <<lid, addr, link, air, mac, cached, firing, pane>>
        /\ UNCHANGED <<connected, scanning, silent, dismissed, young, late, dismissedNow, popupStrayed>>
        /\ quiet' = FALSE
    BY <1>7 DEF Popup!QuietEnds
  <2>2. PopupFlags'
    BY <2>1 DEF PopupFlags
  <2>3. PopupType' /\ AdsComeInOrder'
    BY <2>1 DEF PopupType, AdsComeInOrder
  <2>4. ~popupStrayed' => AskedFor' /\ NoneFollows' /\ ShownIsAskedFor' /\ DismissedStays'
    BY <2>1 DEF PopupType, AdsComeInOrder, AskedFor, NoneFollows, ShownIsAskedFor,
                DismissedStays, NoShowAd, NoShow, Hides
  <2> QED BY <2>2, <2>3, <2>4
<1>8. CASE Popup!MinimumPasses
  <2>1. /\ UNCHANGED <<lid, addr, link, air, mac, cached, firing, pane>>
        /\ UNCHANGED <<connected, scanning, quiet, silent, dismissed, late, dismissedNow, popupStrayed>>
        /\ young' = FALSE
    BY <1>8 DEF Popup!MinimumPasses
  <2>2. PopupFlags'
    BY <2>1 DEF PopupFlags
  <2>3. PopupType' /\ AdsComeInOrder'
    BY <2>1 DEF PopupType, AdsComeInOrder
  <2>4. ~popupStrayed' => AskedFor' /\ NoneFollows' /\ ShownIsAskedFor' /\ DismissedStays'
    BY <2>1 DEF PopupType, AdsComeInOrder, AskedFor, NoneFollows, ShownIsAskedFor,
                DismissedStays, NoShowAd, NoShow, Hides
  <2> QED BY <2>2, <2>3, <2>4
<1>9. CASE Popup!LateHides
  <2>1. /\ UNCHANGED <<lid, addr, link, air, mac, cached, firing>>
        /\ UNCHANGED <<connected, scanning, quiet, silent, dismissed, young, dismissedNow, popupStrayed>>
        /\ late' = FALSE /\ pane' = IF pane = "shown" THEN "closing" ELSE pane
    BY <1>9 DEF Popup!LateHides
  <2>2. PopupFlags'
    BY <2>1 DEF PopupFlags
  <2>3. PopupType' /\ AdsComeInOrder'
    BY <2>1 DEF PopupType, AdsComeInOrder
  <2>4. ~popupStrayed' => AskedFor' /\ NoneFollows' /\ ShownIsAskedFor' /\ DismissedStays'
    BY <2>1 DEF PopupType, AdsComeInOrder, AskedFor, NoneFollows, ShownIsAskedFor,
                DismissedStays, NoShowAd, NoShow, Hides
  <2> QED BY <2>2, <2>3, <2>4
<1>10. CASE Popup!FinishClose
  <2>1. /\ UNCHANGED <<lid, addr, link, air, mac, cached, firing>>
        /\ UNCHANGED <<connected, scanning, quiet, silent, dismissed, young, late, dismissedNow>>
        /\ UNCHANGED popupStrayed
        /\ pane = "closing" /\ pane' = "hidden"
    BY <1>10 DEF Popup!FinishClose
  <2>2. PopupFlags'
    BY <2>1 DEF PopupFlags
  <2>3. PopupType' /\ AdsComeInOrder'
    BY <2>1 DEF PopupType, AdsComeInOrder
  <2>4. ~popupStrayed' => AskedFor' /\ NoneFollows' /\ ShownIsAskedFor' /\ DismissedStays'
    BY <2>1 DEF PopupType, AdsComeInOrder, AskedFor, NoneFollows, ShownIsAskedFor,
                DismissedStays, NoShowAd, NoShow, Hides
  <2> QED BY <2>2, <2>3, <2>4
<1>11. CASE Popup!Dismiss
  <2>1. /\ UNCHANGED <<lid, addr, link, air, mac, cached, firing>>
        /\ UNCHANGED <<connected, scanning, quiet, silent, young, late, popupStrayed>>
        /\ pane \in {"shown", "closing"} /\ pane' = "closing" /\ dismissed' = TRUE /\ dismissedNow' = TRUE
    BY <1>11 DEF Popup!Dismiss
  <2>2. PopupFlags'
    BY <2>1 DEF PopupFlags
  <2>3. PopupType' /\ AdsComeInOrder'
    BY <2>1 DEF PopupType, AdsComeInOrder
  <2>4. ~popupStrayed' => AskedFor' /\ NoneFollows' /\ ShownIsAskedFor' /\ DismissedStays'
    BY <2>1 DEF PopupType, AdsComeInOrder, AskedFor, NoneFollows, ShownIsAskedFor,
                DismissedStays, NoShowAd, NoShow, Hides
  <2> QED BY <2>2, <2>3, <2>4
<1>12. CASE UNCHANGED popupVars
  <2>1. /\ UNCHANGED <<lid, addr, link, air, mac, cached, firing, pane>>
        /\ UNCHANGED <<connected, scanning, quiet, silent, dismissed, young, late, dismissedNow>>
        /\ UNCHANGED popupStrayed
    BY <1>12 DEF popupVars
  <2>2. PopupFlags'
    BY <2>1 DEF PopupFlags
  <2>3. PopupType' /\ AdsComeInOrder'
    BY <2>1 DEF PopupType, AdsComeInOrder
  <2>4. ~popupStrayed' => AskedFor' /\ NoneFollows' /\ ShownIsAskedFor' /\ DismissedStays'
    BY <2>1 DEF PopupType, AdsComeInOrder, AskedFor, NoneFollows, ShownIsAskedFor,
                DismissedStays, NoShowAd, NoShow, Hides
  <2> QED BY <2>2, <2>3, <2>4
<1> QED BY <1>1, <1>2, <1>3, <1>4, <1>5, <1>6, <1>7, <1>8, <1>9, <1>10, <1>11, <1>12

(* A thread decides what to fire.                                          *)
LEMMA Decides ==
  ASSUME PopupType, NEW t \in Popup!Threads, NEW v \in {"show", "hide", Popup!None},
         firing' = [firing EXCEPT ![t] = v]
  PROVE  /\ firing'[t] = v /\ \A u \in Popup!Threads : u # t => firing'[u] = firing[u]
         /\ firing' \in [Popup!Threads -> {"show", "hide", Popup!None}]
BY DEF PopupType

(* The threads that decide a popup, and the marks that are no decision.     *)
LEMMA PopupThreadsAre ==
  /\ "link" \in Popup!Threads /\ "watch" \in Popup!Threads /\ "link" # "watch"
  /\ \A a \in Addrs : a \in Popup!Threads /\ a # "link" /\ a # "watch" /\ a # Popup!None
  /\ \A t \in Popup!Threads : t = "link" \/ t = "watch" \/ t \in Addrs
  /\ Popup!None # "show" /\ Popup!None # "hide" /\ Popup!NoAd.show = FALSE
BY AddrsAre DEF Popup!Threads, Popup!None, Popup!NoAd

(* An advertisement is received.                                           *)
LEMMA PopupAdvertises ==
  ASSUME PopupInv, Popup!Advertises
  PROVE  PopupInv'
<1> USE DEF PopupInv
<1>1. /\ UNCHANGED <<lid, addr, link, mac, cached, firing, pane>>
      /\ UNCHANGED <<connected, scanning, quiet, silent, dismissed, young>>
      /\ UNCHANGED <<late, dismissedNow, popupStrayed>>
      /\ scanning /\ air[addr] = Popup!NoAd
  BY DEF Popup!Advertises, Popup!podsVars, Popup!linkVars, Popup!animVars, Popup!uiVars,
         Popup!historyVars
<1>2. PICK d \in Data : air' = [air EXCEPT ![addr] = [show |-> lid = "open", data |-> d]]
  BY DEF Popup!Advertises
<1> DEFINE ad == [show |-> lid = "open", data |-> d]
<1>3. ad \in Popup!Ads /\ (ad.show <=> lid = "open")
  BY DEF Popup!Ads
<1> HIDE DEF ad
<1>4. /\ air'[addr] = ad /\ \A a \in Addrs : a # addr => air'[a] = air[a]
      /\ air' \in [Addrs -> Popup!Ads \cup {Popup!NoAd}]
  BY <1>2, <1>3 DEF PopupType, ad
<1>5. PopupFlags'
  BY <1>1 DEF PopupFlags
<1>6. PopupType'
  BY <1>1, <1>4 DEF PopupType
<1>7. AdsComeInOrder'
  BY <1>1, <1>4 DEF AdsComeInOrder, PopupType, PopupFlags
<1>8. ASSUME ~popupStrayed' PROVE AskedFor' /\ NoneFollows' /\ ShownIsAskedFor' /\ DismissedStays'
  <2>1. AskedFor /\ NoneFollows /\ ShownIsAskedFor /\ DismissedStays
    BY <1>1, <1>8
  <2>2. NoShowAd /\ lid = "shut" => NoShowAd'
    BY <1>1, <1>3, <1>4 DEF NoShowAd
  <2>3. AskedFor'
    BY <1>1, <1>3, <1>4, <2>1, <2>2 DEF AskedFor, NoShow, PopupType
  <2>4. NoneFollows' /\ ShownIsAskedFor' /\ DismissedStays'
    BY <1>1, <2>1, <2>2 DEF NoneFollows, ShownIsAskedFor, DismissedStays, NoShow, Hides
  <2> QED BY <2>3, <2>4
<1> QED BY <1>5, <1>6, <1>7, <1>8

(* Its thread decides to show the popup, to take it back, or neither.       *)
LEMMA PopupAdHandled ==
  ASSUME PopupInv, NEW a \in Addrs, Popup!AdHandled(a)
  PROVE  PopupInv'
<1> USE DEF PopupInv
<1> DEFINE shows == air[a].show /\ (mac = a \/ (mac = Popup!None /\ ~quiet))
           hides == ~air[a].show /\ mac # Popup!None
           news == air[a] # cached /\ (shows \/ hides)
<1>1. /\ UNCHANGED <<lid, addr, link, pane>>
      /\ UNCHANGED <<connected, scanning, quiet, dismissed, young, late, dismissedNow>>
      /\ air[a] # Popup!NoAd /\ firing[a] = Popup!None /\ air' = [air EXCEPT ![a] = Popup!NoAd]
      /\ silent' = FALSE
  BY DEF Popup!AdHandled, Popup!podsVars, Popup!linkVars, Popup!uiVars
<1>2. CASE ~news
  <2>1. UNCHANGED <<mac, cached, firing, popupStrayed>>
    BY <1>2, Zenon DEF Popup!AdHandled
  <2>2. /\ air'[a] = Popup!NoAd /\ \A b \in Addrs : b # a => air'[b] = air[b]
        /\ air' \in [Addrs -> Popup!Ads \cup {Popup!NoAd}]
    BY <1>1 DEF PopupType
  <2>3. PopupFlags'
    BY <1>1, <2>1 DEF PopupFlags
  <2>4. PopupType' /\ AdsComeInOrder'
    BY <1>1, <2>1, <2>2 DEF PopupType, AdsComeInOrder
  <2>5. NoShowAd => NoShowAd'
    BY <2>2, PopupThreadsAre DEF NoShowAd
  <2>6. ~popupStrayed' => AskedFor' /\ NoneFollows' /\ ShownIsAskedFor' /\ DismissedStays'
    BY <1>1, <2>1, <2>2, <2>5
       DEF PopupType, AskedFor, NoneFollows, ShownIsAskedFor, DismissedStays, NoShow, Hides
  <2> QED BY <2>3, <2>4, <2>6
<1>3. CASE news
  <2>1. /\ mac' = IF shows THEN a ELSE Popup!None
        /\ cached' = air[a]
        /\ firing' = [firing EXCEPT ![a] = IF shows THEN "show" ELSE "hide"]
        /\ popupStrayed' = (popupStrayed \/ (shows /\ connected))
    BY <1>3, Zenon DEF Popup!AdHandled, Popup!LateShow
  <2>2. /\ air'[a] = Popup!NoAd /\ \A b \in Addrs : b # a => air'[b] = air[b]
        /\ air' \in [Addrs -> Popup!Ads \cup {Popup!NoAd}]
        /\ air[a] \in Popup!Ads /\ a = addr
    BY <1>1 DEF PopupType, AdsComeInOrder
  <2>3. /\ firing'[a] = IF shows THEN "show" ELSE "hide"
        /\ \A u \in Popup!Threads : u # a => firing'[u] = firing[u]
        /\ firing' \in [Popup!Threads -> {"show", "hide", Popup!None}]
    BY <2>1, PopupThreadsAre, Decides
  <2>4. PopupFlags'
    BY <1>1, <2>1 DEF PopupFlags
  <2>5. PopupType' /\ AdsComeInOrder'
    <3>1. cached' \in [show : BOOLEAN, data : Data \cup {Popup!None}]
      BY <2>1, <2>2 DEF Popup!Ads
    <3>2. PopupType'
      BY <1>1, <2>1, <2>2, <2>3, <3>1, PopupThreadsAre DEF PopupType
    <3> QED BY <1>1, <2>2, <3>2 DEF PopupType, AdsComeInOrder
  <2>6. \A b \in Addrs : air'[b] = Popup!NoAd
    BY <1>1, <2>2 DEF AdsComeInOrder
  <2>7. NoShowAd'
    BY <2>6, PopupThreadsAre DEF NoShowAd
  <2>8. ~((connected <=> link = "idle"))
    BY <1>1 DEF AdsComeInOrder
  <2>9. ASSUME ~popupStrayed' PROVE AskedFor' /\ NoneFollows' /\ ShownIsAskedFor' /\ DismissedStays'
    <3>1. /\ AskedFor /\ NoneFollows /\ ShownIsAskedFor /\ DismissedStays
          /\ ~(shows /\ connected)
      BY <2>1, <2>9, Zenon
    <3>2. CASE shows
      <4>1. mac' = a /\ cached' = air[a] /\ firing'[a] = "show" /\ ~connected /\ air[a].show
        BY <2>1, <2>3, <3>1, <3>2
      <4>2. AskedFor'
        BY <1>1, <2>6, <2>8, <4>1 DEF AskedFor, PopupType
      <4>3. ~NoShowAd
        BY <4>1 DEF NoShowAd
      <4>4. ~Hides /\ ~Hides'
        BY <1>1, <2>3, <3>1, <4>1, <4>3 DEF NoneFollows, Hides
      <4>5. NoneFollows'
        BY <4>4 DEF NoneFollows, Hides
      <4>6. ShownIsAskedFor'
        BY <4>1, PopupThreadsAre DEF ShownIsAskedFor
      <4>7. DismissedStays'
        BY <1>1, <3>1, <4>1, <4>3 DEF DismissedStays
      <4> QED BY <4>2, <4>5, <4>6, <4>7
    <3>3. CASE ~shows
      <4>1. /\ mac' = Popup!None /\ cached' = air[a] /\ firing'[a] = "hide"
            /\ mac # Popup!None /\ ~air[a].show
        BY <1>3, <2>1, <2>3, <3>3
      <4>2. NoShow => NoShow'
        BY <2>3, <4>1 DEF NoShow
      <4>3. AskedFor'
        BY <1>1, <2>8, <4>1 DEF AskedFor
      <4>4. IF connected THEN link = "told" ELSE lid = "shut"
        BY <1>1, <3>1, <4>1 DEF AskedFor, PopupType
      <4>5. NoneFollows'
        BY <1>1, <2>3, <2>7, <3>1, <4>1, <4>4, PopupThreadsAre DEF NoneFollows
      <4>6. ShownIsAskedFor'
        BY <4>1, PopupThreadsAre DEF ShownIsAskedFor, Hides
      <4>7. DismissedStays'
        BY <1>1, <3>1, <4>1 DEF DismissedStays
      <4> QED BY <4>3, <4>5, <4>6, <4>7
    <3> QED BY <3>2, <3>3
  <2> QED BY <2>4, <2>5, <2>9
<1> QED BY <1>2, <1>3

(* The lid counts as shut, by the connection or by the silence.             *)
LEMMA PopupShuts ==
  ASSUME PopupInv, Popup!Connected \/ Popup!Watches
  PROVE  PopupInv'
<1> USE DEF PopupInv
<1>1. CASE Popup!Connected
  <2>1. /\ UNCHANGED <<lid, addr, air, pane>>
        /\ UNCHANGED <<connected, scanning, quiet, silent, dismissed, young>>
        /\ UNCHANGED <<late, dismissedNow, popupStrayed>>
        /\ link = "told" /\ connected /\ link' = "scan"
    BY <1>1 DEF Popup!Connected, Popup!podsVars, Popup!linkVars, Popup!uiVars, Popup!historyVars
  <2>2. CASE cached.show /\ mac # Popup!None
    <3>1. /\ cached' = [cached EXCEPT !.show = FALSE] /\ mac' = Popup!None
          /\ firing' = [firing EXCEPT !["link"] = "hide"]
      BY <1>1, <2>2 DEF Popup!Connected, Popup!Shuts
    <3>2. /\ firing'["link"] = "hide"
          /\ \A u \in Popup!Threads : u # "link" => firing'[u] = firing[u]
          /\ firing' \in [Popup!Threads -> {"show", "hide", Popup!None}]
      BY <3>1, PopupThreadsAre, Decides
    <3>3. cached' \in [show : BOOLEAN, data : Data \cup {Popup!None}]
      BY <3>1 DEF PopupType
    <3>4. PopupFlags'
      BY <2>1 DEF PopupFlags
    <3>5. PopupType' /\ AdsComeInOrder'
      <4>1. PopupType'
        BY <2>1, <3>1, <3>2, <3>3, PopupThreadsAre DEF PopupType
      <4> QED BY <2>1, <4>1 DEF AdsComeInOrder
    <3>6. ASSUME ~popupStrayed' PROVE AskedFor' /\ NoneFollows' /\ ShownIsAskedFor' /\ DismissedStays'
      <4>1. AskedFor /\ NoneFollows /\ ShownIsAskedFor /\ DismissedStays
        BY <2>1, <3>6
      <4>2. NoShowAd <=> NoShowAd'
        BY <2>1 DEF NoShowAd
      <4>3. NoShow => NoShow'
        BY <3>2 DEF NoShow
      <4>4. AskedFor' /\ NoneFollows'
        BY <2>1, <3>1, <3>2, <4>1, <4>2, PopupThreadsAre DEF AskedFor, NoneFollows
      <4>5. ShownIsAskedFor'
        BY <3>2, PopupThreadsAre DEF ShownIsAskedFor, Hides
      <4>6. DismissedStays'
        BY <2>1, <2>2, <3>1, <4>1, <4>2, <4>3 DEF DismissedStays
      <4> QED BY <4>4, <4>5, <4>6
    <3> QED BY <3>4, <3>5, <3>6
  <2>3. CASE ~(cached.show /\ mac # Popup!None)
    <3>1. UNCHANGED <<mac, cached, firing>>
      BY <1>1, <2>3 DEF Popup!Connected
    <3>2. PopupFlags'
      BY <2>1 DEF PopupFlags
    <3>3. PopupType' /\ AdsComeInOrder'
      BY <2>1, <3>1 DEF PopupType, AdsComeInOrder
    <3>4. ~popupStrayed' => AskedFor' /\ NoneFollows' /\ ShownIsAskedFor' /\ DismissedStays'
      BY <2>1, <2>3, <3>1
         DEF AskedFor, NoneFollows, ShownIsAskedFor, DismissedStays, NoShowAd, NoShow, Hides
    <3> QED BY <3>2, <3>3, <3>4
  <2> QED BY <2>2, <2>3
<1>2. CASE Popup!Watches
  <2>1. /\ UNCHANGED <<lid, addr, air, pane, link>>
        /\ UNCHANGED <<connected, scanning, quiet, silent, dismissed, young>>
        /\ UNCHANGED <<late, dismissedNow, popupStrayed>>
        /\ mac # Popup!None /\ ~connected /\ silent /\ firing["watch"] = Popup!None
        /\ cached' = [cached EXCEPT !.show = FALSE] /\ mac' = Popup!None
        /\ firing' = [firing EXCEPT !["watch"] = "hide"]
    BY <1>2 DEF Popup!Watches, Popup!Shuts, Popup!podsVars, Popup!linkVars, Popup!uiVars,
                Popup!historyVars
  <2>2. /\ firing'["watch"] = "hide"
        /\ \A u \in Popup!Threads : u # "watch" => firing'[u] = firing[u]
        /\ firing' \in [Popup!Threads -> {"show", "hide", Popup!None}]
    BY <2>1, PopupThreadsAre, Decides
  <2>3. cached' \in [show : BOOLEAN, data : Data \cup {Popup!None}]
    BY <2>1 DEF PopupType
  <2>4. PopupFlags'
    BY <2>1 DEF PopupFlags
  <2>5. PopupType' /\ AdsComeInOrder'
    <3>1. PopupType'
      BY <2>1, <2>2, <2>3, PopupThreadsAre DEF PopupType
    <3> QED BY <2>1, <3>1 DEF AdsComeInOrder
  <2>6. ASSUME ~popupStrayed' PROVE AskedFor' /\ NoneFollows' /\ ShownIsAskedFor' /\ DismissedStays'
    <3>1. AskedFor /\ NoneFollows /\ ShownIsAskedFor /\ DismissedStays
      BY <2>1, <2>6
    <3>2. lid = "shut" /\ NoShowAd /\ (NoShowAd <=> NoShowAd')
      BY <2>1, <3>1 DEF AskedFor, NoShowAd
    <3>3. NoShow => NoShow'
      BY <2>2 DEF NoShow
    <3>4. AskedFor' /\ NoneFollows'
      BY <2>1, <2>2, <3>1, <3>2, <3>3, PopupThreadsAre DEF AskedFor, NoneFollows
    <3>5. ShownIsAskedFor'
      BY <2>2, PopupThreadsAre DEF ShownIsAskedFor, Hides
    <3>6. DismissedStays'
      BY <2>1, <3>1 DEF DismissedStays
    <3> QED BY <3>4, <3>5, <3>6
  <2> QED BY <2>4, <2>5, <2>6
<1> QED BY <1>1, <1>2

(* The scan stops with the connection, and starts again without it.         *)
LEMMA PopupScanFollows ==
  ASSUME PopupInv, Popup!ScanFollows
  PROVE  PopupInv'
<1> USE DEF PopupInv
<1>1. /\ UNCHANGED <<lid, addr, mac, cached, firing, pane>>
      /\ UNCHANGED <<connected, quiet, silent, dismissed, young, late, dismissedNow, popupStrayed>>
      /\ link = "scan" /\ firing["link"] = Popup!None /\ link' = "idle"
      /\ connected => \A a \in Addrs : firing[a] = Popup!None
  BY DEF Popup!ScanFollows, Popup!podsVars, Popup!animVars, Popup!uiVars, Popup!historyVars
<1>2. (scanning' <=> ~connected) /\ scanning' \in BOOLEAN
  BY Zenon DEF Popup!ScanFollows
<1>3. /\ connected => \A a \in Addrs : air'[a] = Popup!NoAd
      /\ ~connected => air' = air
      /\ air' \in [Addrs -> Popup!Ads \cup {Popup!NoAd}]
  BY DEF Popup!ScanFollows, PopupType
<1>4. PopupFlags'
  BY <1>1, <1>2 DEF PopupFlags
<1>5. PopupType'
  BY <1>1, <1>3 DEF PopupType
<1>6. AdsComeInOrder'
  BY <1>1, <1>2, <1>3 DEF AdsComeInOrder, PopupFlags
<1>7. ASSUME ~popupStrayed' PROVE AskedFor' /\ NoneFollows' /\ ShownIsAskedFor' /\ DismissedStays'
  <2>1. AskedFor /\ NoneFollows /\ ShownIsAskedFor /\ DismissedStays
    BY <1>1, <1>7
  <2>2. mac = Popup!None
    BY <1>1, <2>1 DEF AskedFor
  <2>3. NoShowAd => NoShowAd'
    BY <1>3, PopupThreadsAre DEF NoShowAd, PopupFlags
  <2>4. connected => NoShow
    BY <1>1, PopupThreadsAre DEF NoShow, PopupType
  <2>5. AskedFor'
    BY <1>1, <2>2, <2>4 DEF AskedFor, NoShow
  <2>6. NoneFollows'
    BY <1>1, <2>1, <2>3, PopupThreadsAre DEF NoneFollows
  <2>7. ShownIsAskedFor' /\ DismissedStays'
    BY <1>1, <2>1, <2>3 DEF ShownIsAskedFor, DismissedStays, NoShow, Hides
  <2> QED BY <2>5, <2>6, <2>7
<1> QED BY <1>4, <1>5, <1>6, <1>7

(* The popup hears of it.                                                  *)
LEMMA PopupFires ==
  ASSUME PopupInv, NEW t \in Popup!Threads, Popup!FireAnimation(t)
  PROVE  PopupInv'
<1> USE DEF PopupInv
<1> DEFINE show == firing[t] = "show"
<1>1. /\ UNCHANGED <<lid, addr, link, air, mac, cached>>
      /\ UNCHANGED <<connected, scanning, quiet, silent, dismissedNow>>
      /\ firing[t] # Popup!None /\ firing' = [firing EXCEPT ![t] = Popup!None]
  BY DEF Popup!FireAnimation, Popup!podsVars, Popup!linkVars, Popup!animVars
<1>2. /\ firing'[t] = Popup!None /\ \A u \in Popup!Threads : u # t => firing'[u] = firing[u]
      /\ firing' \in [Popup!Threads -> {"show", "hide", Popup!None}]
  BY <1>1, PopupThreadsAre, Decides
<1>3. popupStrayed' = (popupStrayed \/ Popup!Crosses(t) \/ (show /\ connected))
  BY Zenon DEF Popup!FireAnimation, Popup!LateShow
<1>4. dismissed' = (dismissed /\ show)
      /\ late' = IF show THEN FALSE ELSE late \/ (pane # "hidden" /\ young)
  BY Zenon DEF Popup!FireAnimation, Popup!HandleAnimation
<1>5. \/ /\ show /\ pane = "hidden" /\ ~dismissed
         /\ pane' = "shown" /\ young' = TRUE
      \/ /\ ~(show /\ pane = "hidden" /\ ~dismissed)
         /\ pane' = IF ~show /\ pane = "shown" /\ ~young THEN "closing" ELSE pane
         /\ young' = young
  BY Zenon DEF Popup!FireAnimation, Popup!HandleAnimation
<1>6. firing[t] = "show" \/ firing[t] = "hide"
  BY <1>1 DEF PopupType
<1>7. PopupFlags'
  <2>1. late' \in BOOLEAN
    BY <1>4, Zenon DEF PopupFlags
  <2>2. young' \in BOOLEAN
    BY <1>5, Zenon DEF PopupFlags
  <2>3. dismissed' \in BOOLEAN /\ popupStrayed' \in BOOLEAN
    BY <1>3, <1>4, Zenon
  <2> QED BY <1>1, <2>1, <2>2, <2>3 DEF PopupFlags
<1>8. PopupType' /\ AdsComeInOrder'
  <2>1. pane' \in {"hidden", "shown", "closing"}
    BY <1>5 DEF PopupType
  <2> QED BY <1>1, <1>2, <2>1, PopupThreadsAre DEF PopupType, AdsComeInOrder
<1>9. ASSUME ~popupStrayed' PROVE AskedFor' /\ NoneFollows' /\ ShownIsAskedFor' /\ DismissedStays'
  <2>1. /\ AskedFor /\ NoneFollows /\ ShownIsAskedFor /\ DismissedStays
        /\ ~Popup!Crosses(t) /\ ~(show /\ connected)
    BY <1>3, <1>9, Zenon
  <2>2. \A u \in Popup!Threads : firing[u] # Popup!None => firing[u] = firing[t]
    BY <2>1 DEF Popup!Crosses
  <2>3. NoShowAd <=> NoShowAd'
    BY <1>1 DEF NoShowAd
  <2>4. NoShow => NoShow'
    BY <1>2, PopupThreadsAre DEF NoShow
  <2>5. AskedFor' /\ NoneFollows'
    BY <1>1, <1>2, <2>1, <2>3, <2>4, PopupThreadsAre DEF AskedFor, NoneFollows
  <2>6. CASE show
    <3>1. ~Hides /\ ~NoShow /\ mac # Popup!None /\ ~connected
      BY <2>1, <2>2, <2>6, PopupThreadsAre DEF ShownIsAskedFor, Hides, NoShow
    <3>2. ShownIsAskedFor'
      BY <1>1, <3>1 DEF ShownIsAskedFor
    <3>3. dismissedNow => dismissed /\ pane # "shown"
      BY <2>1, <3>1 DEF DismissedStays
    <3>4. dismissedNow => dismissed' /\ pane' # "shown"
      BY <1>4, <1>5, <2>6, <3>3
    <3>5. DismissedStays'
      BY <1>1, <3>4 DEF DismissedStays
    <3> QED BY <2>5, <3>2, <3>5
  <2>7. CASE ~show
    <3>1. NoShow /\ NoShow' /\ firing[t] = "hide"
      BY <1>6, <2>2, <2>4, <2>7, PopupThreadsAre DEF NoShow
    <3>2. pane' = "shown" => pane = "shown" /\ young /\ late'
      BY <1>4, <1>5, <2>7, Zenon
    <3>3. ShownIsAskedFor'
      BY <3>1, <3>2 DEF ShownIsAskedFor
    <3>4. mac = Popup!None /\ ((lid = "shut" /\ NoShowAd) \/ connected)
      BY <2>1, <3>1 DEF NoneFollows
    <3>5. DismissedStays'
      BY <1>1, <2>1, <2>3, <3>1, <3>2, <3>4 DEF DismissedStays
    <3> QED BY <2>5, <3>3, <3>5
  <2> QED BY <2>6, <2>7
<1> QED BY <1>7, <1>8, <1>9

(* The invariant of the popup is inductive.                                 *)
LEMMA PopupInvKept == PopupInv /\ [NearbyNext]_allVars => PopupInv'
<1> SUFFICES ASSUME PopupInv, [NearbyNext]_allVars PROVE PopupInv'
  OBVIOUS
<1>1. Popup!Next \/ UNCHANGED popupVars
  BY Zenon DEF NearbyNext, allVars
<1> QED BY <1>1, PopupSimple, PopupAdvertises, PopupAdHandled, PopupShuts, PopupScanFollows,
           PopupFires
        DEF Popup!Next, Popup!Pods, Popup!Listeners, Popup!Clocks

(* As long as no show is decided or fired over AirPods in use and no two    *)
(* threads fire across each other, the popup is gone once they connect, and *)
(* one that was dismissed does not come back before the lid opens again.    *)
THEOREM AlwaysDownUnlessStrayed == NearbySpec => []DownUnlessStrayed
<1>1. NearbyInit => PopupInv
  <2> SUFFICES ASSUME NearbyInit PROVE PopupInv
    OBVIOUS
  <2>1. Popup!Init
    BY DEF NearbyInit
  <2>2. PopupFlags
    BY <2>1 DEF Popup!Init, PopupFlags
  <2>3. PopupType /\ AdsComeInOrder
    <3>1. cached = [show |-> FALSE, data |-> Popup!None]
      BY <2>1 DEF Popup!Init, Popup!NoAd
    <3>2. cached \in [show : BOOLEAN, data : Data \cup {Popup!None}]
      BY <3>1
    <3> QED BY <2>1, <3>2, PopupThreadsAre DEF Popup!Init, PopupType, AdsComeInOrder
  <2>4. AskedFor /\ NoneFollows /\ ShownIsAskedFor /\ DismissedStays
    BY <2>1, PopupThreadsAre
       DEF Popup!Init, AskedFor, NoneFollows, ShownIsAskedFor, DismissedStays, NoShow
  <2> QED BY <2>2, <2>3, <2>4 DEF PopupInv
<1>2. PopupInv => DownUnlessStrayed
  <2> SUFFICES ASSUME PopupInv, ~popupStrayed
               PROVE  /\ connected /\ Popup!Told /\ ~late => pane # "shown"
                      /\ dismissedNow => pane # "shown"
    BY DEF DownUnlessStrayed, Popup!DownUnlessStrayed, Popup!ClosedOnceConnected
  <2>1. connected /\ Popup!Told => mac = Popup!None /\ ~Hides
    BY PopupThreadsAre DEF PopupInv, AskedFor, Hides, Popup!Told, Popup!NothingFiring
  <2> QED BY <2>1 DEF PopupInv, ShownIsAskedFor, DismissedStays
<1> QED BY <1>1, <1>2, PopupInvKept, PTL DEF NearbySpec

=============================================================================
