---------------------------- MODULE HoldOutputProofs ----------------------------
(***************************************************************************)
(* What HoldOutput promises, for any speakers and headsets, whatever the    *)
(* takeovers, the user and the sound server do.                            *)
(***************************************************************************)
EXTENDS HoldOutput, TLAPS

(* No speaker and no headset is taken for the sink or for none.            *)
LEMMA OutputsApart == \A s \in Speakers \cup Headsets : s \notin {"pods", "hold", ""}
BY OutputsAssumption

ModeOK == mode \in {0, 1}

(* A turn of the mode leaves one of the two.                               *)
LEMMA ModeTurns == ModeOK /\ mode' = 1 - mode => ModeOK'
BY DEF ModeOK

USE OutputsApart
USE DEF ownVars, sinkVars, heldVars, HoldUnchanged, HoldRests, Rest, Up, FallBackFrom, Outputs

(* Where the hold worker is and what it goes by.                           *)
WorkerOK ==
  /\ default \in Outputs \cup {""}
  /\ heldOutput \in Speakers \cup {""}
  /\ hold \in [pc: {"rest", "decide", "make", "give", "gone"}, worn: BOOLEAN,
               plays: BOOLEAN, other: BOOLEAN, current: Outputs \cup {""}, last: BOOLEAN]
  /\ hold.pc = "make" => hold.current \in Speakers

FlagsOK ==
  /\ worn \in BOOLEAN /\ own \in BOOLEAN /\ connected \in BOOLEAN /\ busy \in BOOLEAN
  /\ exiting \in BOOLEAN /\ holdProc \in BOOLEAN /\ holdNode \in BOOLEAN
  /\ holding \in BOOLEAN /\ holdBlocked \in BOOLEAN

(* The Boolean variables stay Booleans.                                    *)
LEMMA FlagsStep == WorkerOK /\ FlagsOK /\ [Next]_vars => FlagsOK'
<1> SUFFICES ASSUME WorkerOK, FlagsOK, [Next]_vars PROVE FlagsOK'
  OBVIOUS
<1> USE DEF FlagsOK
<1>1. ASSUME HoldWorker PROVE FlagsOK'
  <2>1. hold.worn \in BOOLEAN /\ UserPicked \in BOOLEAN /\ (worn /\ (holdBlocked \/ exiting)) \in BOOLEAN
    BY Zenon DEF WorkerOK, UserPicked
  <2> QED
  BY <1>1, <2>1, Zenon
     DEF HoldWorker, HoldLooks, HoldEnds, HoldDecides, HoldGives, HoldCreates, HoldMakes
<1>2. ASSUME Environment PROVE FlagsOK'
  BY <1>2, Zenon DEF Environment, TakeoverStarts, TakeoverClaims, TakeoverRoutes, TakeoverDone,
     TakeoverFails, OtherTakes, Connects, Disconnects, PodsMove, UserSetsMode, UserPicks,
     NodeAppears, ServerGoes, ServerComes, DeviceGoes
<1>3. CASE UNCHANGED vars
  BY <1>3, Zenon DEF vars
<1> QED BY <1>1, <1>2, <1>3 DEF Next

(* The worker stays where it may be.                                       *)
LEMMA WorkerStep == WorkerOK /\ FlagsOK /\ [Next]_vars => WorkerOK'
<1> SUFFICES ASSUME WorkerOK, FlagsOK, [Next]_vars PROVE WorkerOK'
  OBVIOUS
<1> USE DEF WorkerOK, FlagsOK
<1>1. CASE HoldLooks
  BY <1>1 DEF HoldLooks
<1>2. CASE HoldEnds
  BY <1>2 DEF HoldEnds
<1>3. CASE HoldDecides
  <2>1. HoldRests \/ hold' = [hold EXCEPT !.pc = "give"]
    BY <1>3, Zenon DEF HoldDecides
  <2> QED BY <1>3, <2>1 DEF HoldDecides
<1>4. CASE HoldGives
  BY <1>4 DEF HoldGives
<1>5. CASE HoldCreates
  <2>1. HoldRests \/ hold' = [hold EXCEPT !.pc = "make"]
    BY <1>5, Zenon DEF HoldCreates
  <2>2. hold'.pc = "make" => hold'.current \in Speakers
    BY <1>5 DEF HoldCreates, ShouldHold
  <2> QED BY <1>5, <2>1, <2>2 DEF HoldCreates
<1>6. CASE HoldMakes
  <2>1. default' \in Outputs \cup {""} /\ heldOutput' \in Speakers \cup {""}
    BY <1>6 DEF HoldMakes
  <2> QED BY <1>6, <2>1 DEF HoldMakes
<1>7. CASE Environment
  BY <1>7 DEF Environment, TakeoverStarts, TakeoverClaims, TakeoverRoutes, TakeoverDone,
     TakeoverFails, OtherTakes, Connects, Disconnects, PodsMove, UserSetsMode, UserPicks,
     NodeAppears, ServerGoes, ServerComes, DeviceGoes
<1>8. CASE UNCHANGED vars
  BY <1>8 DEF vars
<1> QED BY <1>1, <1>2, <1>3, <1>4, <1>5, <1>6, <1>7, <1>8 DEF Next, HoldWorker

(* Both hold at the start.                                                 *)
LEMMA InitOK == Init => WorkerOK /\ FlagsOK
<1>1. Init => FlagsOK
  BY Zenon DEF Init, FlagsOK
<1>2. Init => hold = Rest /\ heldOutput = "" /\ default \in Speakers \cup Headsets
  BY Zenon DEF Init
<1>3. Rest \in [pc: {"rest", "decide", "make", "give", "gone"}, worn: BOOLEAN,
               plays: BOOLEAN, other: BOOLEAN, current: Outputs \cup {""}, last: BOOLEAN]
  OBVIOUS
<1>4. Rest.pc # "make"
  OBVIOUS
<1>5. Init => WorkerOK
  BY <1>2, <1>3, <1>4, Zenon DEF WorkerOK, Outputs
<1> QED BY <1>1, <1>5

(* The types.                                                              *)
THEOREM TypeCorrect == Spec => []TypeOK
<1>1. Init => WorkerOK /\ FlagsOK /\ ModeOK
  BY InitOK, Zenon DEF Init, ModeOK
<1>2. ModeOK /\ [Next]_vars => ModeOK'
  <2>1. ModeOK /\ UserSetsMode => ModeOK'
    BY ModeTurns, Zenon DEF UserSetsMode
  <2>2. [Next]_vars => UserSetsMode \/ mode' = mode
    BY Zenon DEF Next, vars, HoldWorker, HoldLooks, HoldEnds, HoldDecides, HoldGives, HoldCreates,
     HoldMakes, Environment, TakeoverStarts, TakeoverClaims, TakeoverRoutes, TakeoverDone,
     TakeoverFails, OtherTakes, Connects, Disconnects, PodsMove, UserPicks, NodeAppears,
     ServerGoes, ServerComes, DeviceGoes, ownVars
  <2> QED BY <2>1, <2>2 DEF ModeOK
<1>3. WorkerOK /\ FlagsOK /\ ModeOK => TypeOK
  BY Zenon DEF WorkerOK, FlagsOK, ModeOK, TypeOK
<1> QED BY <1>1, <1>2, <1>3, WorkerStep, FlagsStep, PTL DEF Spec

-----------------------------------------------------------------------------
(* The silent sink, by where the worker is: its process runs exactly while  *)
(* an output is held, but for the moment in which one is made.              *)
SinkFollows ==
  /\ hold.pc # "make" => (holdProc <=> holding)
  /\ hold.pc = "make" => ~holding
  /\ hold.pc = "give" => holding
  /\ holdNode => holdProc

(* While an output is held, it is one to give back; and the silent one is   *)
(* the default only then.                                                  *)
HeldToGiveBack ==
  /\ holding => heldOutput \in Speakers
  /\ default = "hold" => holding

HoldInv == WorkerOK /\ FlagsOK /\ SinkFollows /\ HeldToGiveBack

(* The environment leaves the worker alone, and never picks the silent one. *)
LEMMA EnvironmentLeaves ==
  ASSUME Environment
  PROVE  /\ hold' = hold /\ heldOutput' = heldOutput
         /\ holding' <=> holding
         /\ holdProc' <=> holdProc
         /\ holdNode' => holdNode \/ holdProc
         /\ default' = "hold" => default = "hold"
<1>1. hold' = hold /\ heldOutput' = heldOutput /\ holding' = holding /\ holdProc' = holdProc
  BY Zenon DEF Environment, TakeoverStarts, TakeoverClaims, TakeoverRoutes, TakeoverDone,
     TakeoverFails, OtherTakes, Connects, Disconnects, PodsMove, UserSetsMode, UserPicks,
     NodeAppears, ServerGoes, ServerComes, DeviceGoes
<1>2. holdNode' => holdNode \/ holdProc
  BY Zenon DEF Environment, TakeoverStarts, TakeoverClaims, TakeoverRoutes, TakeoverDone,
     TakeoverFails, OtherTakes, Connects, Disconnects, PodsMove, UserSetsMode, UserPicks,
     NodeAppears, ServerGoes, ServerComes, DeviceGoes
<1>3. default' = "hold" => default = "hold"
  <2>1. CASE OtherTakes \/ Disconnects
    BY <2>1 DEF OtherTakes, Disconnects
  <2>2. CASE UserPicks \/ ServerComes
    BY <2>2 DEF UserPicks, ServerComes
  <2>3. CASE TakeoverRoutes \/ ServerGoes
    BY <2>3 DEF TakeoverRoutes, ServerGoes
  <2>4. CASE UNCHANGED default
    BY <2>4
  <2> QED
    BY <2>1, <2>2, <2>3, <2>4, Zenon DEF Environment, TakeoverStarts, TakeoverClaims,
       TakeoverDone, TakeoverFails, Connects, PodsMove, UserSetsMode, NodeAppears, DeviceGoes
<1> QED BY <1>1, <1>2, <1>3, Zenon

(* The invariant of the hold is inductive.                                 *)
LEMMA HoldInvStep == HoldInv /\ [Next]_vars => HoldInv'
<1> SUFFICES ASSUME HoldInv, [Next]_vars PROVE SinkFollows' /\ HeldToGiveBack'
  BY WorkerStep, FlagsStep DEF HoldInv
<1> USE DEF HoldInv, WorkerOK, SinkFollows, HeldToGiveBack
<1>1. CASE HoldLooks
  BY <1>1 DEF HoldLooks
<1>2. CASE HoldEnds
  BY <1>2 DEF HoldEnds
<1>3. CASE HoldDecides
  <2>1. HoldRests \/ hold' = [hold EXCEPT !.pc = "give"]
    BY <1>3, Zenon DEF HoldDecides
  <2> QED BY <1>3, <2>1 DEF HoldDecides
<1>4. CASE HoldGives
  BY <1>4 DEF HoldGives
<1>5. CASE HoldCreates
  <2>1. (HoldRests /\ UNCHANGED holdProc) \/ hold' = [hold EXCEPT !.pc = "make"]
    BY <1>5, Zenon DEF HoldCreates
  <2> QED BY <1>5, <2>1 DEF HoldCreates
<1>6. CASE HoldMakes
  <2>1. CASE /\ holdNode /\ holdProc' = holdProc /\ default' = "hold"
             /\ heldOutput' = hold.current /\ holding'
    BY <1>6, <2>1 DEF HoldMakes
  <2>2. CASE /\ ~holdProc' /\ ~holdNode' /\ FallBackFrom("hold")
             /\ holding' = holding /\ heldOutput' = heldOutput
    BY <1>6, <2>2 DEF HoldMakes
  <2> QED BY <1>6, <2>1, <2>2, Zenon DEF HoldMakes
<1>7. CASE Environment
  BY <1>7, EnvironmentLeaves
<1>8. CASE UNCHANGED vars
  BY <1>8 DEF vars
<1> QED BY <1>1, <1>2, <1>3, <1>4, <1>5, <1>6, <1>7, <1>8 DEF Next, HoldWorker

(* So it holds in every reachable state.                                   *)
LEMMA HoldInvariant == Spec => []HoldInv
<1>1. Init => HoldInv
  <2> SUFFICES ASSUME Init PROVE SinkFollows /\ HeldToGiveBack
    BY InitOK DEF HoldInv
  <2>1. hold = Rest /\ ~holdProc /\ ~holdNode /\ ~holding /\ default \in Speakers \cup Headsets
    BY Zenon DEF Init
  <2> QED BY <2>1 DEF SinkFollows, HeldToGiveBack
<1> QED BY <1>1, HoldInvStep, PTL DEF Spec

(* Between two looks the silent sink's process runs exactly while an output *)
(* is held, whichever call to the sound server failed.                     *)
THEOREM NoSinkIsStray == Spec => []NoStraySink
<1>1. HoldInv => NoStraySink
  BY DEF HoldInv, SinkFollows, NoStraySink
<1> QED BY <1>1, HoldInvariant, PTL

(* The silent output is the default only while an output of the speakers    *)
(* waits to be given back.                                                 *)
THEOREM SilenceIsAlwaysHeld == Spec => []SilenceIsHeld
<1>1. HoldInv => SilenceIsHeld
  BY DEF HoldInv, HeldToGiveBack, SilenceIsHeld
<1> QED BY <1>1, HoldInvariant, PTL

-----------------------------------------------------------------------------
(* The last pass, after which nothing is held: it finds no takeover under   *)
(* way if none begins while the destructor waits, and a reason to give back *)
(* if there is something to give back.                                     *)
LastPass ==
  /\ exiting => ~busy
  /\ hold.pc = "gone" => hold.last
  /\ hold.last => /\ exiting
                  /\ hold.pc = "decide" => holdBlocked \/ ~hold.worn
                  /\ hold.pc \in {"rest", "gone"} => ~holding
                  /\ hold.pc # "make"

(* Without late takeovers none begins once the daemon is leaving.          *)
LEMMA EnvironmentInOrder ==
  ASSUME ~LateTakeovers, exiting => ~busy, Environment
  PROVE  /\ exiting' => ~busy'
         /\ exiting => exiting'
         /\ holdBlocked => holdBlocked'
<1>1. CASE TakeoverStarts
  BY <1>1, Zenon DEF TakeoverStarts
<1>2. CASE DeviceGoes
  BY <1>2, Zenon DEF DeviceGoes
<1>3. TakeoverStarts \/ DeviceGoes \/ (exiting' <=> exiting)
  BY Zenon DEF Environment, TakeoverClaims, TakeoverRoutes, TakeoverDone,
     TakeoverFails, OtherTakes, Connects, Disconnects, PodsMove, UserSetsMode, UserPicks,
     NodeAppears, ServerGoes, ServerComes
<1>4. TakeoverStarts \/ DeviceGoes \/ (busy' => busy)
  BY Zenon DEF Environment, TakeoverClaims, TakeoverRoutes, TakeoverDone,
     TakeoverFails, OtherTakes, Connects, Disconnects, PodsMove, UserSetsMode, UserPicks,
     NodeAppears, ServerGoes, ServerComes
<1>5. TakeoverStarts \/ DeviceGoes \/ (holdBlocked => holdBlocked')
  BY Zenon DEF Environment, TakeoverClaims, TakeoverRoutes, TakeoverDone,
     TakeoverFails, OtherTakes, Connects, Disconnects, PodsMove, UserSetsMode, UserPicks,
     NodeAppears, ServerGoes, ServerComes
<1> QED BY <1>1, <1>2, <1>3, <1>4, <1>5, Zenon

(* The last pass gives back what was held.                                 *)
LEMMA LastPassStep ==
  ~LateTakeovers /\ HoldInv /\ LastPass /\ [Next]_vars => LastPass'
<1> SUFFICES ASSUME ~LateTakeovers, HoldInv, LastPass, [Next]_vars PROVE LastPass'
  OBVIOUS
<1> USE DEF HoldInv, WorkerOK, LastPass
<1>1. CASE HoldLooks
  BY <1>1 DEF HoldLooks, FlagsOK
<1>2. CASE HoldEnds
  BY <1>2 DEF HoldEnds
<1>3. CASE HoldDecides
  <2>1. HoldRests \/ hold' = [hold EXCEPT !.pc = "give"]
    BY <1>3, Zenon DEF HoldDecides
  <2>2. hold.last => hold' = [hold EXCEPT !.pc = "give"]
    BY <1>3 DEF HoldDecides
  <2> QED BY <1>3, <2>1, <2>2 DEF HoldDecides
<1>4. CASE HoldGives
  BY <1>4 DEF HoldGives
<1>5. CASE HoldCreates
  <2>1. (HoldRests /\ UNCHANGED holdProc) \/ hold' = [hold EXCEPT !.pc = "make"]
    BY <1>5, Zenon DEF HoldCreates
  <2>2. hold.last => HoldRests
    BY <1>5 DEF HoldCreates, ShouldHold
  <2> QED BY <1>5, <2>1, <2>2 DEF HoldCreates
<1>6. CASE HoldMakes
  BY <1>6 DEF HoldMakes
<1>7. CASE Environment
  BY <1>7, EnvironmentLeaves, EnvironmentInOrder
<1>8. CASE UNCHANGED vars
  BY <1>8 DEF vars
<1> QED BY <1>1, <1>2, <1>3, <1>4, <1>5, <1>6, <1>7, <1>8 DEF Next, HoldWorker

(* The device gone, its silent sink is too and nothing plays into it, if no *)
(* playback starts a takeover while its destructor waits.                  *)
THEOREM GivenBackUnlessLate ==
  ASSUME ~LateTakeovers
  PROVE  Spec => []GivenBackAtTheEnd
<1>1. Init => LastPass
  <2> SUFFICES ASSUME Init PROVE LastPass
    OBVIOUS
  <2>1. hold = Rest /\ ~exiting
    BY Zenon DEF Init
  <2> QED BY <2>1 DEF LastPass
<1>2. HoldInv /\ LastPass /\ [Next]_vars => LastPass'
  BY LastPassStep
<1>3. HoldInv /\ LastPass => GivenBackAtTheEnd
  BY DEF HoldInv, SinkFollows, HeldToGiveBack, LastPass, GivenBackAtTheEnd
<1> QED BY <1>1, <1>2, <1>3, HoldInvariant, PTL DEF Spec

=============================================================================
