------------------------------- MODULE EventBus -------------------------------
(***************************************************************************)
(* Event<T> (Event.h), by which the components of the daemon call each     *)
(* other from several threads: D-Bus, the channel's reader, MPRIS,         *)
(* PulseAudio, the WebSocket loop. Owners unsubscribe in their destructors *)
(* and rely on not being called after that.                                *)
(*                                                                         *)
(* A listener's id is never used again (++_idForNewListener), and its      *)
(* owner unsubscribes it once. A listener does not fire the event it       *)
(* listens to.                                                             *)
(***************************************************************************)
EXTENDS Naturals, FiniteSets

CONSTANTS
  Threads,
  Listeners,   \* ids, in the order they are given out
  None         \* no listener, no thread

ASSUME ListenersAssumption == Listeners \subseteq Nat \ {0} /\ None \notin Listeners \cup Threads

VARIABLES
  listeners,  \* _listeners: the ids in the map
  fresh,      \* ids not given out yet
  alive,      \* Listener::alive
  firing,     \* threads in FireEvent
  todo,       \* [Threads -> what is left of the snapshot]
  cur,        \* [Threads -> the listener whose `calling` its FireEvent holds]
  inCall,     \* [Threads -> inside the listener's function]
  dropping,   \* [Threads -> the listener its Unsubscribe waits for]
  dropper     \* [Listeners -> the thread whose Unsubscribe of it returned], a history

vars == <<listeners, fresh, alive, firing, todo, cur, inCall, dropping, dropper>>

TypeOK ==
  /\ listeners \subseteq Listeners
  /\ fresh \subseteq Listeners
  /\ alive \in [Listeners -> BOOLEAN]
  /\ firing \subseteq Threads
  /\ todo \in [Threads -> SUBSET Listeners]
  /\ cur \in [Threads -> Listeners \cup {None}]
  /\ inCall \in [Threads -> BOOLEAN]
  /\ dropping \in [Threads -> Listeners \cup {None}]
  /\ dropper \in [Listeners -> Threads \cup {None}]

Init ==
  /\ listeners = {}
  /\ fresh = Listeners
  /\ alive = [l \in Listeners |-> TRUE]
  /\ firing = {}
  /\ todo = [t \in Threads |-> {}]
  /\ cur = [t \in Threads |-> None]
  /\ inCall = [t \in Threads |-> FALSE]
  /\ dropping = [t \in Threads |-> None]
  /\ dropper = [l \in Listeners |-> None]

-----------------------------------------------------------------------------

(* A thread that runs code of its own, or a listener's.                    *)
Runs(t) == dropping[t] = None /\ (t \notin firing \/ inCall[t])

(* Ids are given out, and a map of them is gone through, in their order.    *)
IsFirst(l, S) == l \in S /\ \A m \in S : l <= m

(* The mutex `calling`: held by the FireEvent of one thread.               *)
Holders(l) == {t \in Threads : cur[t] = l}

Subscribe(t) ==
  /\ Runs(t)
  /\ \E l \in fresh :
       /\ IsFirst(l, fresh)
       /\ fresh' = fresh \ {l}
       /\ listeners' = listeners \cup {l}
  /\ UNCHANGED <<alive, firing, todo, cur, inCall, dropping, dropper>>

(* FireEvent: a snapshot under _lock ...                                   *)
Fire(t) ==
  /\ Runs(t) /\ t \notin firing
  /\ firing' = firing \cup {t}
  /\ todo' = [todo EXCEPT ![t] = listeners]
  /\ UNCHANGED <<listeners, fresh, alive, cur, inCall, dropping, dropper>>

(* Slip: its lock is held only while looking whether it is alive.          *)
CallsUnlocked(t) ==
  /\ t \in firing /\ cur[t] = None
  /\ \E l \in todo[t] :
     /\ IsFirst(l, todo[t])
     /\ todo' = [todo EXCEPT ![t] = @ \ {l}]
     /\ cur' = [cur EXCEPT ![t] = l]
     /\ inCall' = [inCall EXCEPT ![t] = alive[l]]
  /\ UNCHANGED <<listeners, fresh, alive, firing, dropping, dropper>>

(* ... then each of them in turn, its lock held, if it is still alive.      *)
Calls(t) ==
  /\ t \in firing /\ cur[t] = None
  /\ \E l \in todo[t] :
     /\ IsFirst(l, todo[t])
     /\ Holders(l) = {}
     /\ todo' = [todo EXCEPT ![t] = @ \ {l}]
     /\ cur' = [cur EXCEPT ![t] = l]
     /\ inCall' = [inCall EXCEPT ![t] = alive[l]]
  /\ UNCHANGED <<listeners, fresh, alive, firing, dropping, dropper>>

Returns(t) ==
  /\ t \in firing /\ cur[t] # None /\ dropping[t] = None
  /\ cur' = [cur EXCEPT ![t] = None]
  /\ inCall' = [inCall EXCEPT ![t] = FALSE]
  /\ UNCHANGED <<listeners, fresh, alive, firing, todo, dropping, dropper>>

Fired(t) ==
  /\ t \in firing /\ cur[t] = None /\ todo[t] = {}
  /\ firing' = firing \ {t}
  /\ UNCHANGED <<listeners, fresh, alive, todo, cur, inCall, dropping, dropper>>

(* Unsubscribe: out of the map under _lock, then its `calling` ...          *)
Drops(t) ==
  /\ Runs(t)
  /\ \E l \in listeners :
       /\ listeners' = listeners \ {l}
       /\ dropping' = [dropping EXCEPT ![t] = l]
  /\ UNCHANGED <<fresh, alive, firing, todo, cur, inCall, dropper>>

(* Slip: nobody waits for a call that is under way.                        *)
DroppedAtOnce(t) ==
  /\ dropping[t] # None
  /\ alive' = [alive EXCEPT ![dropping[t]] = FALSE]
  /\ dropper' = [dropper EXCEPT ![dropping[t]] = t]
  /\ dropping' = [dropping EXCEPT ![t] = None]
  /\ UNCHANGED <<listeners, fresh, firing, todo, cur, inCall>>

(* Slip: the lock is not recursive.                                        *)
DroppedNotByItself(t) ==
  /\ dropping[t] # None
  /\ Holders(dropping[t]) = {}
  /\ alive' = [alive EXCEPT ![dropping[t]] = FALSE]
  /\ dropper' = [dropper EXCEPT ![dropping[t]] = t]
  /\ dropping' = [dropping EXCEPT ![t] = None]
  /\ UNCHANGED <<listeners, fresh, firing, todo, cur, inCall>>

(* ... which no other thread holds then; recursive, for a listener that     *)
(* unsubscribes itself.                                                    *)
Dropped(t) ==
  /\ dropping[t] # None
  /\ Holders(dropping[t]) \subseteq {t}
  /\ alive' = [alive EXCEPT ![dropping[t]] = FALSE]
  /\ dropper' = [dropper EXCEPT ![dropping[t]] = t]
  /\ dropping' = [dropping EXCEPT ![t] = None]
  /\ UNCHANGED <<listeners, fresh, firing, todo, cur, inCall>>

Next ==
  \E t \in Threads :
    Subscribe(t) \/ Fire(t) \/ Calls(t) \/ Returns(t) \/ Fired(t) \/ Drops(t) \/ Dropped(t)

Spec == Init /\ [][Next]_vars

(* Listeners return and threads run on; nobody has to fire or unsubscribe.  *)
(* No fairness of a mutex is needed: only the snapshots taken before hold   *)
(* the listener still.                                                     *)
Fairness ==
  \A t \in Threads : WF_vars(Calls(t) \/ Returns(t) \/ Fired(t) \/ Dropped(t))

FairSpec == Spec /\ Fairness

-----------------------------------------------------------------------------
(* Properties.                                                             *)

(* Once Unsubscribe has returned, no call of the listener is under way but  *)
(* the one it unsubscribed itself from. That there is never a new one is   *)
(* the same statement in every later state.                                *)
NotCalledAfterUnsubscribe ==
  \A l \in Listeners, t \in Threads :
    (dropper[l] # None /\ cur[t] = l /\ inCall[t]) => t = dropper[l]

(* And a listener that unsubscribed itself is not entered again.            *)
NotEnteredAfterUnsubscribe ==
  [][\A t \in Threads :
       (~inCall[t] /\ inCall'[t]) => dropper[cur'[t]] = None]_vars

(* A listener runs on one thread at a time: its state needs no lock against *)
(* itself.                                                                 *)
OneCallAtATime ==
  \A s, t \in Threads : (cur[s] = cur[t] /\ inCall[s] /\ inCall[t]) => s = t

(* What Event.h asks of the listeners: within a call, one unsubscribes      *)
(* nobody but itself.                                                      *)
OnlyItself ==
  \A t \in Threads : inCall[t] /\ dropping[t] # None => dropping[t] = cur[t]

(* Then Unsubscribe returns, whoever is calling the listener meanwhile.     *)
UnsubscribeReturns ==
  []OnlyItself => \A t \in Threads : dropping[t] # None ~> dropping[t] = None

=============================================================================
