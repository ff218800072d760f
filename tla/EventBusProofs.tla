---------------------------- MODULE EventBusProofs ----------------------------
(***************************************************************************)
(* What EventBus promises, for any number of threads and listeners.        *)
(***************************************************************************)
EXTENDS EventBus, TLAPS

(* The type invariant is inductive.                                        *)
LEMMA TypeStep == TypeOK /\ [Next]_vars => TypeOK'
<1> SUFFICES ASSUME TypeOK, [Next]_vars PROVE TypeOK'
  OBVIOUS
<1> USE ListenersAssumption DEF TypeOK
<1>1. ASSUME NEW t \in Threads, Subscribe(t) PROVE TypeOK'
  BY <1>1 DEF Subscribe
<1>2. ASSUME NEW t \in Threads, Fire(t) PROVE TypeOK'
  BY <1>2 DEF Fire
<1>3. ASSUME NEW t \in Threads, Calls(t) PROVE TypeOK'
  BY <1>3 DEF Calls, IsFirst
<1>4. ASSUME NEW t \in Threads, Returns(t) PROVE TypeOK'
  BY <1>4 DEF Returns
<1>5. ASSUME NEW t \in Threads, Fired(t) PROVE TypeOK'
  BY <1>5 DEF Fired
<1>6. ASSUME NEW t \in Threads, Drops(t) PROVE TypeOK'
  BY <1>6 DEF Drops
<1>7. ASSUME NEW t \in Threads, Dropped(t) PROVE TypeOK'
  BY <1>7 DEF Dropped
<1>8. CASE UNCHANGED vars
  BY <1>8 DEF vars
<1> QED BY <1>1, <1>2, <1>3, <1>4, <1>5, <1>6, <1>7, <1>8 DEF Next

(* Nothing ever leaves the types the variables are declared with.          *)
THEOREM TypeCorrect == Spec => []TypeOK
<1>1. Init => TypeOK
  BY ListenersAssumption DEF Init, TypeOK
<1> QED BY <1>1, TypeStep, PTL DEF Spec

-----------------------------------------------------------------------------
(* Unsubscribe, once it has returned, has left `alive` clear ...            *)
DroppedIsDead == \A l \in Listeners : dropper[l] # None => ~alive[l]

(* ... each listener's lock has one holder ...                             *)
HoldsAlone == \A s, t \in Threads : cur[s] = cur[t] /\ cur[s] # None => s = t

(* ... and only a holder is in the listener's function.                    *)
CallsUnderLock == \A t \in Threads : inCall[t] => cur[t] # None

BusInv == TypeOK /\ DroppedIsDead /\ NotCalledAfterUnsubscribe /\ HoldsAlone /\ CallsUnderLock

(* The invariant of the bus is inductive.                                  *)
LEMMA BusInvStep == BusInv /\ [Next]_vars => BusInv'
<1> SUFFICES ASSUME BusInv, [Next]_vars PROVE BusInv'
  OBVIOUS
<1> USE ListenersAssumption
<1> USE DEF BusInv, DroppedIsDead, NotCalledAfterUnsubscribe, HoldsAlone, CallsUnderLock
<1>0. TypeOK'
  BY TypeStep
<1>1. ASSUME NEW t \in Threads, Subscribe(t) \/ Fire(t) \/ Fired(t) \/ Drops(t)
      PROVE BusInv'
  <2>1. UNCHANGED <<alive, cur, inCall, dropper>>
    BY <1>1 DEF Subscribe, Fire, Fired, Drops
  <2> QED BY <1>0, <2>1
<1>2. ASSUME NEW t \in Threads, Calls(t) PROVE BusInv'
  <2>1. PICK l \in Listeners :
          /\ Holders(l) = {}
          /\ cur' = [cur EXCEPT ![t] = l]
          /\ inCall' = [inCall EXCEPT ![t] = alive[l]]
    BY <1>2 DEF Calls, TypeOK
  <2>2. UNCHANGED <<alive, dropper>>
    BY <1>2 DEF Calls
  <2>3. \A s \in Threads : cur[s] # l
    BY <2>1 DEF Holders
  <2>4. (DroppedIsDead /\ HoldsAlone /\ CallsUnderLock)'
    BY <2>1, <2>2, <2>3 DEF TypeOK
  <2>5. NotCalledAfterUnsubscribe'
    BY <2>1, <2>2 DEF TypeOK
  <2> QED BY <1>0, <2>4, <2>5
<1>3. ASSUME NEW t \in Threads, Returns(t) PROVE BusInv'
  BY <1>0, <1>3 DEF Returns, TypeOK
<1>4. ASSUME NEW t \in Threads, Dropped(t) PROVE BusInv'
  <2> DEFINE l == dropping[t]
  <2>1. /\ l \in Listeners
        /\ \A s \in Threads : cur[s] = l => s = t
        /\ alive' = [alive EXCEPT ![l] = FALSE]
        /\ dropper' = [dropper EXCEPT ![l] = t]
        /\ UNCHANGED <<cur, inCall>>
    BY <1>4 DEF Dropped, Holders, TypeOK
  <2> HIDE DEF l
  <2> QED BY <1>0, <2>1 DEF TypeOK
<1>5. CASE UNCHANGED vars
  BY <1>0, <1>5 DEF vars
<1> QED BY <1>1, <1>2, <1>3, <1>4, <1>5 DEF Next

(* So it holds in every reachable state.                                   *)
THEOREM BusInvariant == Spec => []BusInv
<1>1. Init => BusInv
  BY ListenersAssumption DEF Init, BusInv, TypeOK, DroppedIsDead, NotCalledAfterUnsubscribe,
     HoldsAlone, CallsUnderLock
<1> QED BY <1>1, BusInvStep, PTL DEF Spec

(* Event.h: when Unsubscribe has returned, the owner may go: no other        *)
(* thread is in its listener, then or later.                               *)
THEOREM NotCalled == Spec => []NotCalledAfterUnsubscribe
<1>1. BusInv => NotCalledAfterUnsubscribe
  BY DEF BusInv
<1> QED BY <1>1, BusInvariant, PTL

(* A listener is never entered by two threads at a time.                   *)
THEOREM CalledOneByOne == Spec => []OneCallAtATime
<1>1. BusInv => OneCallAtATime
  BY DEF BusInv, HoldsAlone, CallsUnderLock, OneCallAtATime
<1> QED BY <1>1, BusInvariant, PTL

(* FireEvent works on a snapshot that may still hold a listener that has    *)
(* unsubscribed: it is passed over, also when it unsubscribed itself.       *)
THEOREM NotEntered == Spec => NotEnteredAfterUnsubscribe
<1> DEFINE Enters == \A t \in Threads :
                       (~inCall[t] /\ inCall'[t]) => dropper[cur'[t]] = None
<1>1. BusInv /\ [Next]_vars => [Enters]_vars
  <2> SUFFICES ASSUME BusInv, [Next]_vars, NEW s \in Threads, ~inCall[s], inCall'[s]
               PROVE  dropper[cur'[s]] = None
    OBVIOUS
  <2> USE ListenersAssumption DEF BusInv, TypeOK
  <2>1. PICK t \in Threads : Calls(t)
    BY DEF Next, vars, Subscribe, Fire, Returns, Fired, Drops, Dropped
  <2>2. PICK l \in Listeners :
          /\ cur' = [cur EXCEPT ![t] = l]
          /\ inCall' = [inCall EXCEPT ![t] = alive[l]]
    BY <2>1 DEF Calls
  <2>3. s = t /\ alive[l]
    BY <2>2
  <2> QED BY <2>2, <2>3 DEF DroppedIsDead
<1> QED BY <1>1, BusInvariant, PTL DEF Spec, NotEnteredAfterUnsubscribe

=============================================================================
