--------------------------- MODULE AudioSwitchProofs ---------------------------
(***************************************************************************)
(* What AudioSwitch promises of its takeovers, for any number of workers,  *)
(* in every environment.                                                   *)
(***************************************************************************)
EXTENDS AudioSwitch, TLAPS

TakeStates == [pc: TakePC, manual: BOOLEAN, streaming: BOOLEAN, paused: BOOLEAN]

(* Nothing is paused before the worker has decided to go on.               *)
PausedOnceDecided(r) == r.pc \in {"idle", "look", "decide"} => ~r.paused

TakeInv ==
  /\ take \in [Workers -> TakeStates]
  /\ OneTakeover
  /\ \A w \in Workers : PausedOnceDecided(take[w])

-----------------------------------------------------------------------------
(* All that ever happens to `take` and `busy`: a worker moves, ends, or     *)
(* begins.                                                                 *)
Moves(w) ==
  /\ Busy(w)
  /\ \E r \in TakeStates : /\ r.pc # "idle" /\ PausedOnceDecided(r)
                           /\ take' = [take EXCEPT ![w] = r]
  /\ UNCHANGED busy

Ends(w) ==
  /\ Busy(w)
  /\ \E r \in TakeStates : /\ r.pc = "idle" /\ PausedOnceDecided(r)
                           /\ take' = [take EXCEPT ![w] = r]
  /\ busy' = FALSE

Begins(w) ==
  /\ ~busy
  /\ \E r \in TakeStates : /\ r.pc = "look" /\ PausedOnceDecided(r)
                           /\ take' = [take EXCEPT ![w] = r]
  /\ busy' = TRUE

(* None of them breaks TakeInv.                                            *)
LEMMA TakeInvKept ==
  ASSUME TakeInv, UNCHANGED <<busy, take>> \/ \E w \in Workers : Moves(w) \/ Ends(w) \/ Begins(w)
  PROVE  TakeInv'
<1> USE DEF TakeInv, OneTakeover, Busy, TakeStates
<1>1. CASE UNCHANGED <<busy, take>>
  BY <1>1 DEF PausedOnceDecided
<1>2. ASSUME NEW w \in Workers, Moves(w) PROVE TakeInv'
  BY <1>2 DEF Moves
<1>3. ASSUME NEW w \in Workers, Ends(w) PROVE TakeInv'
  BY <1>3 DEF Ends
<1>4. ASSUME NEW w \in Workers, Begins(w) PROVE TakeInv'
  BY <1>4 DEF Begins
<1> QED BY <1>1, <1>2, <1>3, <1>4

-----------------------------------------------------------------------------
(* The takeover worker's own steps.                                        *)
LEMMA WorkerSteps ==
  ASSUME TakeInv, NEW w \in Workers, TakeStep(w)
  PROVE  Moves(w) \/ Ends(w)
<1> DEFINE At(pc) == [take[w] EXCEPT !.pc = pc]
<1>0. /\ take[w] \in TakeStates /\ PausedOnceDecided(take[w])
      /\ \A pc \in TakePC : At(pc) \in TakeStates
      /\ \A pc \in TakePC : At(pc).pc = pc /\ At(pc).paused = take[w].paused
  BY DEF TakeInv, TakeStates
<1>1. ASSUME NEW pc \in TakePC \ {"idle", "look", "decide"}, Busy(w), Goto(w, pc), UNCHANGED busy
      PROVE  Moves(w)
  <2>1. take' = [take EXCEPT ![w] = At(pc)]
    BY <1>1 DEF Goto, TakeInv, TakeStates
  <2>2. At(pc).pc # "idle" /\ PausedOnceDecided(At(pc))
    BY <1>0, <1>1 DEF PausedOnceDecided
  <2> QED BY <1>0, <1>1, <2>1, <2>2 DEF Moves
<1>2. CASE TakeLook(w)
  <2> DEFINE r == [take[w] EXCEPT !.pc = "decide", !.streaming = connected /\ card = "a2dp"]
  <2>1. (connected /\ card = "a2dp") \in BOOLEAN
    BY Zenon
  <2>2. r \in TakeStates /\ r.pc = "decide" /\ r.paused = take[w].paused
    BY <1>0, <2>1 DEF TakeStates, TakePC
  <2>3. take' = [take EXCEPT ![w] = r] /\ UNCHANGED busy /\ take[w].pc = "look"
    BY <1>2 DEF TakeLook, TakeInv, TakeStates
  <2> QED BY <1>0, <2>2, <2>3 DEF Moves, Busy, PausedOnceDecided
<1>3. CASE TakeDecide(w)
  <2>1. take[w].pc = "decide" /\ take[w].paused = FALSE
    BY <1>0, <1>3, Zenon DEF TakeDecide, PausedOnceDecided, TakeStates
  <2>2. CASE AlreadyOurs(w) \/ Refused(w)
    <3> DEFINE r == [Idle EXCEPT !.paused = take[w].paused]
    <3>1. take[w].paused \in BOOLEAN
      BY <2>1
    <3>2. r \in TakeStates /\ r.pc = "idle" /\ ~r.paused
      BY <2>1, <3>1 DEF Idle, TakeStates, TakePC
    <3>3. take' = [take EXCEPT ![w] = r] /\ busy' = FALSE
      BY <1>3, <2>2 DEF TakeDecide, Finish
    <3> QED BY <2>1, <3>2, <3>3 DEF Ends, Busy, PausedOnceDecided
  <2>3. CASE ~(AlreadyOurs(w) \/ Refused(w))
    <3>1. PICK p \in BOOLEAN :
            take' = [take EXCEPT ![w] = [Idle EXCEPT !.pc = "connect",
                                                     !.paused = p /\ ~take[w].streaming]]
      BY <1>3, <2>3 DEF TakeDecide
    <3> DEFINE q == p /\ ~take[w].streaming
               r == [Idle EXCEPT !.pc = "connect", !.paused = q]
    <3>2. q \in BOOLEAN
      BY Zenon
    <3>3. r \in TakeStates /\ r.pc = "connect"
      BY <3>2 DEF Idle, TakeStates, TakePC
    <3>4. take' = [take EXCEPT ![w] = r] /\ UNCHANGED busy
      BY <1>3, <2>3, <3>1 DEF TakeDecide
    <3> QED BY <2>1, <3>3, <3>4 DEF Moves, Busy, PausedOnceDecided
  <2> QED BY <2>2, <2>3
<1>4. CASE TakeFailed(w) \/ TakeDone(w)
  BY <1>4 DEF TakeFailed, TakeDone, Ends, Busy, Idle, TakeStates, TakePC, PausedOnceDecided
<1>5. CASE TakeConnect(w)
  <2>1. PICK pc \in {"await", "failed"} : Goto(w, pc)
    BY <1>5 DEF TakeConnect
  <2> QED BY <1>1, <1>5, <2>1 DEF TakeConnect, Busy, TakePC
<1>6. CASE TakeClaim(w) \/ TakeClaimed(w) \/ TakeForgets(w) \/ TakeOwn(w) \/ TakeFlags(w)
  BY <1>1, <1>6 DEF TakeClaim, TakeClaimed, TakeForgets, TakeOwn, TakeFlags, Busy, TakePC
<1>7. CASE TakeCard(w) \/ TakeProfile(w)
  BY <1>1, <1>7 DEF TakeCard, TakeProfile, Busy, TakePC
<1>8. CASE TakeRoute(w) \/ TakeApply(w)
  BY <1>1, <1>8 DEF TakeRoute, TakeApply, Busy, TakePC
<1> QED BY <1>2, <1>3, <1>4, <1>5, <1>6, <1>7, <1>8 DEF TakeStep

(* Who asks for a takeover begins one only if none is under way.           *)
LEMMA AskSteps ==
  ASSUME NEW manual \in BOOLEAN, TakeOver(manual)
  PROVE  UNCHANGED <<busy, take>> \/ \E w \in Workers : Begins(w)
<1> DEFINE r == [Idle EXCEPT !.pc = "look", !.manual = manual]
<1>1. r \in TakeStates /\ r.pc = "look" /\ PausedOnceDecided(r)
  BY DEF Idle, TakeStates, TakePC, PausedOnceDecided
<1>2. CASE busy
  BY <1>2 DEF TakeOver
<1>3. CASE ~busy
  <2>1. busy' = TRUE /\ \E w \in Workers : take' = [take EXCEPT ![w] = r]
    BY <1>3 DEF TakeOver
  <2> QED BY <1>1, <1>3, <2>1 DEF Begins
<1> QED BY <1>2, <1>3

(* What the hold worker does about an "owns connection 0", short of         *)
(* releasing.                                                              *)
HoldClaimSteps ==
  HoldOwns0 \/ HoldForgets \/ HoldClaims \/ HoldClaimed \/ HoldForgetsAgain

(* No other thread, nor the environment, touches a takeover.               *)
LEMMA OtherSteps ==
  ASSUME \/ ReaderStep \/ JobStep \/ CardListener \/ ChannelStep \/ UNCHANGED vars
         \/ HoldBegins \/ HoldClaimSteps \/ HoldReleases \/ HoldSpawns
         \/ Connects \/ Disconnects \/ PodsClose \/ OtherTakes \/ PodsTell
         \/ PodsMove \/ UserSetsMode \/ CardAppears \/ GraceEnds
  PROVE  UNCHANGED <<busy, take>>
<1>1. ReaderStep => UNCHANGED <<busy, take>>
  BY DEF ReaderStep, ReaderTakes, ReaderHandles, ReaderLetsGo, ReaderSpawns
<1>2. JobStep \/ CardListener => UNCHANGED <<busy, take>>
  BY DEF JobStep, ReleaseLooks, ReleaseTurnsOff, JobRoutes, JobApplies, JobTurnsOff,
         CardListener
<1>3. ChannelStep \/ Connects \/ Disconnects \/ PodsClose => UNCHANGED <<busy, take>>
  BY DEF ChannelStep, WorkerOpens, WorkerEnds, WorkerStops, Connects, Disconnects,
         PodsClose, LinkUnchanged
<1>4. HoldBegins \/ HoldClaimSteps \/ HoldReleases \/ HoldSpawns => UNCHANGED <<busy, take>>
  BY DEF HoldBegins, HoldClaimSteps, HoldOwns0, HoldForgets, HoldClaims, HoldClaimed,
         HoldForgetsAgain, HoldReleases, HoldSpawns
<1>5. OtherTakes \/ PodsTell \/ PodsMove \/ UserSetsMode \/ CardAppears \/ GraceEnds
      => UNCHANGED <<busy, take>>
  BY DEF OtherTakes, PodsTell, PodsMove, UserSetsMode, CardAppears, GraceEnds
<1>6. UNCHANGED vars => UNCHANGED <<busy, take>>
  BY DEF vars
<1> QED BY <1>1, <1>2, <1>3, <1>4, <1>5, <1>6

(* The invariant of the takes is inductive.                                *)
LEMMA TakeStepKeeps == TakeInv /\ [Next]_vars => TakeInv'
<1> SUFFICES ASSUME TakeInv, [Next]_vars PROVE TakeInv'
  OBVIOUS
<1>1. ASSUME NEW w \in Workers, TakeStep(w) PROVE TakeInv'
  BY <1>1, WorkerSteps, TakeInvKept
<1>2. CASE HoldTakesOver
  BY <1>2, AskSteps, TakeInvKept DEF HoldTakesOver
<1>3. CASE UserPlays
  <2>1. PICK manual \in BOOLEAN : TakeOver(manual)
    BY <1>3 DEF UserPlays
  <2> QED BY <2>1, AskSteps, TakeInvKept
<1>4. CASE UNCHANGED <<busy, take>>
  BY <1>4, TakeInvKept
<1> QED BY <1>1, <1>2, <1>3, <1>4, OtherSteps
        DEF Next, HoldStep, HoldClaimSteps, Environment

-----------------------------------------------------------------------------

(* So it holds in every reachable state.                                   *)
LEMMA TakeInvariant == Spec => []TakeInv
<1>1. Init => TakeInv
  BY DEF Init, TakeInv, TakeStates, TakePC, Idle, OneTakeover, Busy, PausedOnceDecided
<1> QED BY <1>1, TakeStepKeeps, PTL DEF Spec

(* Two takeovers never run at once, and `busy` is set exactly while one     *)
(* runs: it is never left set, whichever way out a worker takes.            *)
THEOREM TakeoversExclude == Spec => []OneTakeover
<1>1. TakeInv => OneTakeover
  BY DEF TakeInv
<1> QED BY <1>1, TakeInvariant, PTL

(* A worker that is done has left no player paused.                         *)
THEOREM PlayersAreResumed == Spec => []ResumesWhatItPaused
<1>1. TakeInv => ResumesWhatItPaused
  BY DEF TakeInv, PausedOnceDecided, ResumesWhatItPaused, Busy
<1> QED BY <1>1, TakeInvariant, PTL

-----------------------------------------------------------------------------
(* Types, a kind of values at a time.                                      *)
FlagsOK ==
  {connected, open, shaken, shaking, ready, stopAsked, own, claimed, released,
   reclaimed, busy, grace, cardSeen, routeWhenWorn, cardEvent, routed, offJob,
   crossed}
    \subseteq BOOLEAN

WorldOK ==
  /\ EnvironmentOK(env)
  /\ wear \in {"ear", "out", "case"}
  /\ mode \in {0, 1}

StatesOK ==
  /\ podsOwner \in {"us", "other"}
  /\ ownsReport \in {-1, 0, 1}
  /\ sourceType \in {0, 1, 2}
  /\ card \in {"none", "off", "a2dp"}
  /\ routeJob \in {"none", "wait", "apply"}
  /\ releasing \in [look: Nat, off: Nat]

HoldOK == hold \in [pc: HoldPC, plays: BOOLEAN]

(* A bound is spent down to zero, not below.                               *)
LEMMA SpendsKeeps ==
  ASSUME EnvironmentOK(env), NEW what \in Bounds, Spends(what)
  PROVE  EnvironmentOK(env')
  BY DEF EnvironmentOK, Spends, Bounds

(* The Boolean variables stay Booleans.                                    *)
LEMMA FlagsStep == FlagsOK /\ [Next]_vars => FlagsOK'
<1> SUFFICES ASSUME FlagsOK, [Next]_vars PROVE FlagsOK'
  OBVIOUS
<1> USE DEF worldVars, noteVars, linkVars, podsVars, ownVars, pulseVars,
           jobVars, FlagsOK, Listening
<1>1. ASSUME NEW w \in Workers, TakeLook(w) \/ TakeDecide(w) \/ TakeConnect(w) \/ TakeFailed(w)
              \/ TakeClaim(w) \/ TakeClaimed(w) \/ TakeForgets(w) \/ TakeOwn(w) \/ TakeFlags(w)
     PROVE  FlagsOK'
  BY <1>1, Zenon DEF TakeLook, TakeDecide, TakeConnect, TakeFailed, TakeClaim,
      TakeClaimed, TakeForgets, TakeOwn, TakeFlags, Finish, SendClaim
<1>2. ASSUME NEW w \in Workers, TakeCard(w) \/ TakeProfile(w) \/ TakeRoute(w) \/ TakeApply(w) \/ TakeDone(w)
     PROVE  FlagsOK'
  BY <1>2, Zenon DEF TakeCard, TakeProfile, TakeRoute, TakeApply, TakeDone,
      SetCard, RouteOpensCard, RouteApplies
<1>3. ASSUME ReaderStep
     PROVE  FlagsOK'
  BY <1>3, Zenon DEF ReaderStep, ReaderTakes, ReaderHandles, ReaderLetsGo, ReaderSpawns,
      ReaderIdle, LetGo, SendYield, SpawnRelease, OwnsReportOf, SourceOf
<1>4. ASSUME HoldStep
     PROVE  FlagsOK'
  BY <1>4, Zenon DEF HoldStep, HoldBegins, HoldTakesOver, HoldOwns0,
      HoldForgets, HoldClaims, HoldClaimed, HoldForgetsAgain, HoldReleases,
      HoldSpawns, HoldLooks, HoldRests, TakeOver, SendClaim, LetGo, SpawnRelease
<1>5. ASSUME JobStep \/ CardListener
     PROVE  FlagsOK'
  BY <1>5, Zenon DEF JobStep, ReleaseLooks, ReleaseTurnsOff, JobRoutes,
      JobApplies, JobTurnsOff, CardListener, SetCard, RouteOpensCard,
      RouteApplies
<1>6. ASSUME ChannelStep \/ Connects \/ Disconnects \/ PodsClose
     PROVE  FlagsOK'
  BY <1>6, Zenon DEF ChannelStep, WorkerOpens, WorkerEnds, WorkerStops,
      Connects, Disconnects, PodsClose, LinkUnchanged, Spends, LinkUp,
      LinkDown, ChannelOpens, ChannelStarted, ChannelStops, PeerCloses
<1>7. ASSUME OtherTakes \/ PodsTell \/ PodsMove \/ UserSetsMode \/ UserPlays \/ CardAppears
              \/ GraceEnds
     PROVE  FlagsOK'
  BY <1>7, Zenon DEF OtherTakes, PodsTell, PodsMove, UserSetsMode, UserPlays,
      CardAppears, GraceEnds, Unheard, Spends, TakeOver, InGrace
<1>8. CASE UNCHANGED vars
  BY <1>8, Zenon DEF vars
<1> QED BY <1>1, <1>2, <1>3, <1>4, <1>5, <1>6, <1>7, <1>8
       DEF Next, Environment, TakeStep

(* The environment, where the pods are and the mode stay what they may be. *)
LEMMA WorldStep == WorldOK /\ [Next]_vars => WorldOK'
<1> SUFFICES ASSUME WorldOK, [Next]_vars PROVE WorldOK'
  OBVIOUS
<1> USE DEF worldVars, noteVars, linkVars, podsVars, ownVars, pulseVars,
           jobVars, WorldOK
<1>1. ASSUME NEW w \in Workers, TakeLook(w) \/ TakeDecide(w) \/ TakeConnect(w) \/ TakeFailed(w)
              \/ TakeClaim(w) \/ TakeClaimed(w) \/ TakeForgets(w) \/ TakeOwn(w) \/ TakeFlags(w)
     PROVE  WorldOK'
  BY <1>1 DEF TakeLook, TakeDecide, TakeConnect, TakeFailed, TakeClaim,
      TakeClaimed, TakeForgets, TakeOwn, TakeFlags, Finish, SendClaim
<1>2. ASSUME NEW w \in Workers, TakeCard(w) \/ TakeProfile(w) \/ TakeRoute(w) \/ TakeApply(w) \/ TakeDone(w)
     PROVE  WorldOK'
  BY <1>2 DEF TakeCard, TakeProfile, TakeRoute, TakeApply, TakeDone, SetCard,
      RouteOpensCard, RouteApplies
<1>3. ASSUME ReaderStep
     PROVE  WorldOK'
  BY <1>3 DEF ReaderStep, ReaderTakes, ReaderHandles, ReaderLetsGo, ReaderSpawns,
      ReaderIdle, LetGo, SendYield, SpawnRelease, OwnsReportOf, SourceOf
<1>4. ASSUME HoldStep
     PROVE  WorldOK'
  BY <1>4 DEF HoldStep, HoldBegins, HoldTakesOver, HoldOwns0,
      HoldForgets, HoldClaims, HoldClaimed, HoldForgetsAgain, HoldReleases,
      HoldSpawns, HoldLooks, HoldRests, TakeOver, SendClaim, LetGo, SpawnRelease
<1>5. ASSUME JobStep \/ CardListener
     PROVE  WorldOK'
  BY <1>5 DEF JobStep, ReleaseLooks, ReleaseTurnsOff, JobRoutes, JobApplies,
      JobTurnsOff, CardListener, SetCard, RouteOpensCard, RouteApplies
<1>6. ASSUME ChannelStep \/ Connects \/ Disconnects \/ PodsClose
     PROVE  WorldOK'
  <2>1. /\ UNCHANGED <<wear, mode>>
        /\ UNCHANGED env \/ Spends("drops") \/ Spends("closes")
    BY <1>6 DEF ChannelStep, WorkerOpens, WorkerEnds, WorkerStops, Connects,
                Disconnects, PodsClose, LinkUnchanged
  <2> QED BY <2>1, SpendsKeeps DEF Bounds
<1>7. ASSUME OtherTakes \/ PodsTell \/ PodsMove \/ UserSetsMode \/ UserPlays \/ CardAppears
              \/ GraceEnds
     PROVE  WorldOK'
  <2>1. CASE PodsMove
    <3>1. EnvironmentOK(env')
      BY <2>1, SpendsKeeps DEF PodsMove, Bounds
    <3>2. wear' \in env.wears /\ mode' = mode
      BY <2>1 DEF PodsMove
    <3> QED BY <3>1, <3>2 DEF EnvironmentOK
  <2>2. CASE UserPlays
    <3>1. EnvironmentOK(env') /\ wear' = wear /\ mode' = mode
      BY <2>2, SpendsKeeps DEF UserPlays, Bounds
    <3> QED BY <3>1
  <2>3. CASE UserSetsMode
    <3>1. mode' \in env.modes /\ env' = env /\ wear' = wear
      BY <2>3 DEF UserSetsMode
    <3> QED BY <3>1 DEF EnvironmentOK
  <2>4. CASE UNCHANGED <<env, wear, mode>>
    BY <2>4
  <2>5. CASE OtherTakes
    <3>1. EnvironmentOK(env') /\ wear' = wear /\ mode' = mode
      BY <2>5, SpendsKeeps DEF OtherTakes, Bounds
    <3> QED BY <3>1
  <2>6. PodsTell \/ CardAppears \/ GraceEnds => UNCHANGED <<env, wear, mode>>
    BY DEF PodsTell, CardAppears, GraceEnds, Unheard
  <2> QED BY <1>7, <2>1, <2>2, <2>3, <2>4, <2>5, <2>6
<1>8. CASE UNCHANGED vars
  BY <1>8 DEF vars
<1> QED BY <1>1, <1>2, <1>3, <1>4, <1>5, <1>6, <1>7, <1>8
       DEF Next, Environment, TakeStep

(* So do the variables that have a few values each.                        *)
LEMMA StatesStep == WorldOK /\ StatesOK /\ [Next]_vars => StatesOK'
<1> SUFFICES ASSUME WorldOK, StatesOK, [Next]_vars PROVE StatesOK'
  OBVIOUS
<1> USE DEF worldVars, noteVars, linkVars, podsVars, ownVars, pulseVars,
           jobVars, StatesOK, WorldOK, EnvironmentOK
<1>1. ASSUME NEW w \in Workers, TakeLook(w) \/ TakeDecide(w) \/ TakeConnect(w) \/ TakeFailed(w)
              \/ TakeClaim(w) \/ TakeClaimed(w) \/ TakeForgets(w) \/ TakeOwn(w) \/ TakeFlags(w)
     PROVE  StatesOK'
  BY <1>1 DEF TakeLook, TakeDecide, TakeConnect, TakeFailed, TakeClaim,
      TakeClaimed, TakeForgets, TakeOwn, TakeFlags, Finish, SendClaim
<1>2. ASSUME NEW w \in Workers, TakeCard(w) \/ TakeProfile(w) \/ TakeRoute(w) \/ TakeApply(w) \/ TakeDone(w)
     PROVE  StatesOK'
  BY <1>2 DEF TakeCard, TakeProfile, TakeRoute, TakeApply, TakeDone, SetCard,
      RouteOpensCard, RouteApplies
<1>3. ASSUME ReaderStep
     PROVE  StatesOK'
  BY <1>3 DEF ReaderStep, ReaderTakes, ReaderHandles, ReaderLetsGo, ReaderSpawns,
      ReaderIdle, LetGo, SendYield, SpawnRelease, OwnsReportOf, SourceOf
<1>4. ASSUME HoldStep
     PROVE  StatesOK'
  BY <1>4 DEF HoldStep, HoldBegins, HoldTakesOver, HoldOwns0,
      HoldForgets, HoldClaims, HoldClaimed, HoldForgetsAgain, HoldReleases,
      HoldSpawns, HoldLooks, HoldRests, TakeOver, SendClaim, LetGo, SpawnRelease
<1>5. ASSUME JobStep \/ CardListener
     PROVE  StatesOK'
  BY <1>5 DEF JobStep, ReleaseLooks, ReleaseTurnsOff, JobRoutes, JobApplies,
      JobTurnsOff, CardListener, SetCard, RouteOpensCard, RouteApplies
<1>6. ASSUME ChannelStep \/ Connects \/ Disconnects \/ PodsClose
     PROVE  StatesOK'
  BY <1>6 DEF ChannelStep, WorkerOpens, WorkerEnds, WorkerStops, Connects,
      Disconnects, PodsClose, LinkUnchanged, Spends, LinkUp, LinkDown,
      ChannelOpens, ChannelStarted, ChannelStops, PeerCloses
<1>7. ASSUME OtherTakes \/ PodsTell \/ PodsMove \/ UserSetsMode \/ UserPlays \/ CardAppears
              \/ GraceEnds
     PROVE  StatesOK'
  BY <1>7 DEF OtherTakes, PodsTell, PodsMove, UserSetsMode, UserPlays,
      CardAppears, GraceEnds, Unheard, Spends, TakeOver, InGrace
<1>8. CASE UNCHANGED vars
  BY <1>8 DEF vars
<1> QED BY <1>1, <1>2, <1>3, <1>4, <1>5, <1>6, <1>7, <1>8
       DEF Next, Environment, TakeStep

(* What is under way to this computer.                                     *)
LEMMA InboxStep == WorldOK /\ inbox \in Seq(Reports) /\ [Next]_vars => (inbox \in Seq(Reports))'
<1> SUFFICES ASSUME WorldOK, inbox \in Seq(Reports), [Next]_vars
             PROVE  (inbox \in Seq(Reports))'
  OBVIOUS
<1> USE DEF worldVars, noteVars, linkVars, podsVars, ownVars, pulseVars, jobVars
<1>1. CASE inbox' = inbox \/ inbox' = <<>>
  <2>1. <<>> \in Seq(Reports)
    OBVIOUS
  <2> QED BY <1>1, <2>1
<1>2. CASE \E msg \in Reports : inbox' = Append(inbox, msg)
  BY <1>2
<1>3. CASE inbox # <<>> /\ inbox' = Tail(inbox)
  BY <1>3
<1>4. SendClaim => inbox' = inbox \/ \E msg \in Reports : inbox' = Append(inbox, msg)
  BY DEF SendClaim, Reports
<1>5. ASSUME NEW w \in Workers, TakeStep(w)
      PROVE  inbox' = inbox \/ \E msg \in Reports : inbox' = Append(inbox, msg)
  BY <1>4, <1>5 DEF TakeStep, TakeLook, TakeDecide, TakeConnect, TakeFailed, TakeClaim,
      TakeClaimed, TakeForgets, TakeOwn, TakeFlags, TakeCard, TakeProfile, TakeRoute,
      TakeApply, TakeDone
<1>6. HoldStep => inbox' = inbox \/ \E msg \in Reports : inbox' = Append(inbox, msg)
  BY <1>4 DEF HoldStep, HoldBegins, HoldTakesOver, HoldOwns0, HoldForgets, HoldClaims,
      HoldClaimed, HoldForgetsAgain, HoldReleases, HoldSpawns
<1>7. ReaderStep => inbox' = inbox \/ (inbox # <<>> /\ inbox' = Tail(inbox))
  BY DEF ReaderStep, ReaderTakes, ReaderHandles, ReaderLetsGo, ReaderSpawns
<1>8. OtherTakes \/ PodsTell => \E msg \in Reports : inbox' = Append(inbox, msg)
  BY DEF OtherTakes, PodsTell, Reports, WorldOK, EnvironmentOK
<1>9. ChannelStep \/ Connects \/ Disconnects \/ PodsClose => inbox' = inbox \/ inbox' = <<>>
  BY DEF ChannelStep, WorkerOpens, WorkerEnds, WorkerStops, Connects, Disconnects, PodsClose
<1>10. JobStep \/ CardListener \/ UNCHANGED vars => inbox' = inbox
  BY DEF JobStep, ReleaseLooks, ReleaseTurnsOff, JobRoutes, JobApplies, JobTurnsOff,
         CardListener, vars
<1>11. PodsMove \/ UserSetsMode \/ UserPlays \/ CardAppears \/ GraceEnds => inbox' = inbox
  BY DEF PodsMove, UserSetsMode, UserPlays, CardAppears, GraceEnds
<1> QED BY <1>1, <1>2, <1>3, <1>5, <1>6, <1>7, <1>8, <1>9, <1>10, <1>11 DEF Next, Environment

ReaderOK == reader \in [pc: ReaderPC, msg: Reports, grace: BOOLEAN]

(* So does what the reader is doing.                                       *)
LEMMA ReaderStepOK == inbox \in Seq(Reports) /\ ReaderOK /\ [Next]_vars => ReaderOK'
<1> SUFFICES ASSUME inbox \in Seq(Reports), ReaderOK, [Next]_vars PROVE ReaderOK'
  OBVIOUS
<1> USE DEF worldVars, noteVars, linkVars, podsVars, ownVars, pulseVars,
           jobVars, ReaderOK
<1>1. ASSUME NEW w \in Workers, TakeLook(w) \/ TakeDecide(w) \/ TakeConnect(w) \/ TakeFailed(w)
              \/ TakeClaim(w) \/ TakeClaimed(w) \/ TakeForgets(w) \/ TakeOwn(w) \/ TakeFlags(w)
     PROVE  ReaderOK'
  BY <1>1 DEF TakeLook, TakeDecide, TakeConnect, TakeFailed, TakeClaim,
      TakeClaimed, TakeForgets, TakeOwn, TakeFlags, Finish, SendClaim
<1>2. ASSUME NEW w \in Workers, TakeCard(w) \/ TakeProfile(w) \/ TakeRoute(w) \/ TakeApply(w) \/ TakeDone(w)
     PROVE  ReaderOK'
  BY <1>2 DEF TakeCard, TakeProfile, TakeRoute, TakeApply, TakeDone, SetCard,
      RouteOpensCard, RouteApplies
<1>3. ASSUME ReaderStep
     PROVE  ReaderOK'
  <2>1. CASE ReaderTakes
    <3>1. InGrace \in BOOLEAN
      BY Zenon DEF InGrace
    <3>2. Head(inbox) \in Reports
      BY <2>1 DEF ReaderTakes
    <3>3. reader' = [pc |-> "got", msg |-> Head(inbox), grace |-> InGrace]
      BY <2>1 DEF ReaderTakes
    <3> QED BY <3>1, <3>2, <3>3 DEF ReaderPC
  <2>2. CASE ReaderHandles
    <3>1. reader' = ReaderIdle \/ reader' = [ReaderIdle EXCEPT !.pc = "release"]
      BY <2>2 DEF ReaderHandles
    <3>2. ReaderIdle \in [pc: {"idle"}, msg: Reports, grace: BOOLEAN]
      BY DEF ReaderIdle, Reports
    <3> QED BY <3>1, <3>2 DEF ReaderPC
  <2>3. CASE ReaderLetsGo
    BY <2>3 DEF ReaderLetsGo, ReaderPC
  <2>4. CASE ReaderSpawns
    BY <2>4 DEF ReaderSpawns, ReaderIdle, Reports, ReaderPC
  <2> QED BY <1>3, <2>1, <2>2, <2>3, <2>4 DEF ReaderStep
<1>4. ASSUME HoldStep
     PROVE  ReaderOK'
  BY <1>4 DEF HoldStep, HoldBegins, HoldTakesOver, HoldOwns0,
      HoldForgets, HoldClaims, HoldClaimed, HoldForgetsAgain, HoldReleases,
      HoldSpawns, HoldLooks, HoldRests, TakeOver, SendClaim, LetGo, SpawnRelease
<1>5. ASSUME JobStep \/ CardListener
     PROVE  ReaderOK'
  BY <1>5 DEF JobStep, ReleaseLooks, ReleaseTurnsOff, JobRoutes, JobApplies,
      JobTurnsOff, CardListener, SetCard, RouteOpensCard, RouteApplies
<1>6. ASSUME ChannelStep \/ Connects \/ Disconnects \/ PodsClose
     PROVE  ReaderOK'
  BY <1>6 DEF ChannelStep, WorkerOpens, WorkerEnds, WorkerStops, Connects,
      Disconnects, PodsClose, LinkUnchanged, Spends, LinkUp, LinkDown,
      ChannelOpens, ChannelStarted, ChannelStops, PeerCloses
<1>7. ASSUME OtherTakes \/ PodsTell \/ PodsMove \/ UserSetsMode \/ UserPlays \/ CardAppears
              \/ GraceEnds
     PROVE  ReaderOK'
  BY <1>7 DEF OtherTakes, PodsTell, PodsMove, UserSetsMode, UserPlays,
      CardAppears, GraceEnds, Unheard, Spends, TakeOver, InGrace
<1>8. CASE UNCHANGED vars
  BY <1>8 DEF vars
<1> QED BY <1>1, <1>2, <1>3, <1>4, <1>5, <1>6, <1>7, <1>8
       DEF Next, Environment, TakeStep

(* So does what the hold worker is doing.                                  *)
LEMMA HoldStepOK == HoldOK /\ [Next]_vars => HoldOK'
<1> SUFFICES ASSUME HoldOK, [Next]_vars PROVE HoldOK'
  OBVIOUS
<1> USE DEF worldVars, noteVars, linkVars, podsVars, ownVars, pulseVars,
           jobVars, HoldOK
<1>1. ASSUME NEW w \in Workers, TakeLook(w) \/ TakeDecide(w) \/ TakeConnect(w) \/ TakeFailed(w)
              \/ TakeClaim(w) \/ TakeClaimed(w) \/ TakeForgets(w) \/ TakeOwn(w) \/ TakeFlags(w)
     PROVE  HoldOK'
  BY <1>1 DEF TakeLook, TakeDecide, TakeConnect, TakeFailed, TakeClaim,
      TakeClaimed, TakeForgets, TakeOwn, TakeFlags, Finish, SendClaim
<1>2. ASSUME NEW w \in Workers, TakeCard(w) \/ TakeProfile(w) \/ TakeRoute(w) \/ TakeApply(w) \/ TakeDone(w)
     PROVE  HoldOK'
  BY <1>2 DEF TakeCard, TakeProfile, TakeRoute, TakeApply, TakeDone, SetCard,
      RouteOpensCard, RouteApplies
<1>3. ASSUME ReaderStep
     PROVE  HoldOK'
  BY <1>3 DEF ReaderStep, ReaderTakes, ReaderHandles, ReaderLetsGo, ReaderSpawns,
      ReaderIdle, LetGo, SendYield, SpawnRelease, OwnsReportOf, SourceOf
<1>4. ASSUME HoldStep
     PROVE  HoldOK'
  <2>1. HoldLooks \in [pc: {"own0"}, plays: BOOLEAN]
    <3>1. (own /\ routed) \in BOOLEAN
      BY Zenon
    <3> QED BY <3>1 DEF HoldLooks, HoldPC
  <2>2. CASE HoldBegins
    <3>1. hold' = HoldLooks \/ hold' = [hold EXCEPT !.pc = "take"]
      BY <2>2 DEF HoldBegins
    <3> QED BY <2>1, <3>1 DEF HoldPC
  <2>3. CASE HoldTakesOver
    BY <2>1, <2>3 DEF HoldTakesOver, HoldPC
  <2>4. CASE HoldClaimSteps
    <3>1. \E pc \in HoldPC : \/ hold' = [hold EXCEPT !.pc = pc]
                            \/ hold' = [hold EXCEPT !.pc = pc, !.plays = FALSE]
      BY <2>4 DEF HoldClaimSteps, HoldOwns0, HoldRests, HoldForgets, HoldClaims, HoldClaimed,
                  HoldForgetsAgain, HoldPC
    <3> QED BY <3>1
  <2>5. CASE HoldReleases \/ HoldSpawns
    BY <2>5 DEF HoldReleases, HoldSpawns, HoldPC
  <2> QED BY <1>4, <2>2, <2>3, <2>4, <2>5 DEF HoldStep, HoldClaimSteps
<1>5. ASSUME JobStep \/ CardListener
     PROVE  HoldOK'
  BY <1>5 DEF JobStep, ReleaseLooks, ReleaseTurnsOff, JobRoutes, JobApplies,
      JobTurnsOff, CardListener, SetCard, RouteOpensCard, RouteApplies
<1>6. ASSUME ChannelStep \/ Connects \/ Disconnects \/ PodsClose
     PROVE  HoldOK'
  BY <1>6 DEF ChannelStep, WorkerOpens, WorkerEnds, WorkerStops, Connects,
      Disconnects, PodsClose, LinkUnchanged, Spends, LinkUp, LinkDown,
      ChannelOpens, ChannelStarted, ChannelStops, PeerCloses
<1>7. ASSUME OtherTakes \/ PodsTell \/ PodsMove \/ UserSetsMode \/ UserPlays \/ CardAppears
              \/ GraceEnds
     PROVE  HoldOK'
  BY <1>7 DEF OtherTakes, PodsTell, PodsMove, UserSetsMode, UserPlays,
      CardAppears, GraceEnds, Unheard, Spends, TakeOver, InGrace
<1>8. CASE UNCHANGED vars
  BY <1>8 DEF vars
<1> QED BY <1>1, <1>2, <1>3, <1>4, <1>5, <1>6, <1>7, <1>8
       DEF Next, Environment, TakeStep

(* All of them together.                                                   *)
LEMMA TypeStep == TypeOK /\ TakeInv /\ [Next]_vars => TypeOK'
<1> SUFFICES ASSUME TypeOK, TakeInv, [Next]_vars PROVE TypeOK'
  OBVIOUS
<1>1. FlagsOK /\ WorldOK /\ StatesOK /\ inbox \in Seq(Reports) /\ ReaderOK /\ HoldOK
  BY DEF TypeOK, LinkTypeOK, FlagsOK, WorldOK, StatesOK, ReaderOK, HoldOK
<1>2. FlagsOK' /\ WorldOK' /\ StatesOK' /\ (inbox \in Seq(Reports))' /\ ReaderOK' /\ HoldOK'
  BY <1>1, FlagsStep, WorldStep, StatesStep, InboxStep, ReaderStepOK, HoldStepOK
<1>3. TakeInv'
  BY TakeStepKeeps
<1> QED BY <1>2, <1>3 DEF TypeOK, LinkTypeOK, FlagsOK, WorldOK, StatesOK, ReaderOK, HoldOK,
                       TakeInv, TakeStates

(* Nothing ever leaves the types the variables are declared with.          *)
THEOREM TypeCorrect == Spec => []TypeOK
<1>1. Init => TypeOK
  <2> SUFFICES ASSUME Init PROVE TypeOK
    OBVIOUS
  <2>1. FlagsOK
    BY Zenon DEF Init, LinkInit, FlagsOK
  <2>2. WorldOK
    BY EnvironmentsAssumption DEF Init, WorldOK, EnvironmentOK
  <2>3. StatesOK
    BY DEF Init, StatesOK
  <2>4. inbox \in Seq(Reports)
    BY DEF Init
  <2>5. ReaderOK
    BY DEF Init, ReaderOK, ReaderIdle, Reports, ReaderPC
  <2>6. HoldOK
    BY DEF Init, HoldOK, HoldPC
  <2>7. take \in [Workers -> TakeStates]
    BY DEF Init, Idle, TakeStates, TakePC
  <2> QED BY <2>1, <2>2, <2>3, <2>4, <2>5, <2>6, <2>7
             DEF TypeOK, LinkTypeOK, FlagsOK, WorldOK, StatesOK, ReaderOK, HoldOK, TakeStates
<1> QED BY <1>1, TakeInvariant, TypeStep, PTL DEF Spec

-----------------------------------------------------------------------------
(* What the AirPods were told last, while the connection and its channel    *)
(* last.                                                                   *)
ChannelsLast == \A e \in Environments : e.drops = 0 /\ e.closes = 0

Lasts == env.drops = 0 /\ env.closes = 0 /\ stopAsked = FALSE

(* They say nothing before they listen.                                    *)
NothingSaid ==
  ~Listening => /\ inbox = <<>> /\ reader.pc = "idle"
                /\ podsOwner = "other" /\ ownsReport # 1

LastIsOwns0(s) ==
  \E i \in 1..Len(s) : s[i] = "owns0" /\ \A j \in 1..Len(s) : j > i => s[j] # "owns1"
NoOwns1(s) == \A j \in 1..Len(s) : s[j] # "owns1"

(* Of those the other device owns, the last word noted, held by the reader  *)
(* or under way is no confirmation.                                        *)
Unconfirmed ==
  \/ LastIsOwns0(inbox)
  \/ reader.pc = "got" /\ reader.msg = "owns0" /\ NoOwns1(inbox)
  \/ ownsReport # 1 /\ (reader.pc = "got" => reader.msg # "owns1") /\ NoOwns1(inbox)

(* A claim stands, or is about to: not one the reader is about to undo.     *)
Stands == (claimed /\ reader.pc # "release") \/ PacketOut

OthersUnconfirmed == podsOwner = "other" /\ ~crossed /\ Stands => Unconfirmed

WordInv == Lasts /\ NothingSaid /\ OthersUnconfirmed

(* A report under way behind the others.                                   *)
LEMMA ReportJoins ==
  ASSUME NEW s \in Seq(Reports), NEW m \in Reports
  PROVE  /\ m = "owns0" => LastIsOwns0(Append(s, m))
         /\ m # "owns1" /\ LastIsOwns0(s) => LastIsOwns0(Append(s, m))
         /\ m # "owns1" /\ NoOwns1(s) => NoOwns1(Append(s, m))
<1>1. /\ Len(Append(s, m)) = Len(s) + 1 /\ Append(s, m)[Len(s) + 1] = m
      /\ \A i \in 1..Len(s) : Append(s, m)[i] = s[i]
      /\ Len(s) \in Nat
  OBVIOUS
<1>2. m = "owns0" => LastIsOwns0(Append(s, m))
  BY <1>1 DEF LastIsOwns0
<1>3. ASSUME m # "owns1", LastIsOwns0(s) PROVE LastIsOwns0(Append(s, m))
  <2>1. PICK i \in 1..Len(s) : s[i] = "owns0" /\ \A j \in 1..Len(s) : j > i => s[j] # "owns1"
    BY <1>3 DEF LastIsOwns0
  <2>2. i \in 1..Len(Append(s, m)) /\ Append(s, m)[i] = "owns0"
    BY <1>1, <2>1
  <2>3. ASSUME NEW j \in 1..Len(Append(s, m)), j > i PROVE Append(s, m)[j] # "owns1"
    <3>1. j \in 1..Len(s) \/ j = Len(s) + 1
      BY <1>1
    <3> QED BY <1>1, <1>3, <2>1, <2>3, <3>1
  <2> QED BY <2>2, <2>3 DEF LastIsOwns0
<1>4. m # "owns1" /\ NoOwns1(s) => NoOwns1(Append(s, m))
  <2> SUFFICES ASSUME m # "owns1", NoOwns1(s), NEW j \in 1..Len(Append(s, m))
               PROVE  Append(s, m)[j] # "owns1"
    BY DEF NoOwns1
  <2>1. j \in 1..Len(s) \/ j = Len(s) + 1
    BY <1>1
  <2> QED BY <1>1, <2>1 DEF NoOwns1
<1> QED BY <1>2, <1>3, <1>4

(* The first report is taken from the others.                              *)
LEMMA ReportLeaves ==
  ASSUME NEW s \in Seq(Reports), s # <<>>
  PROVE  /\ LastIsOwns0(s) => LastIsOwns0(Tail(s)) \/ (Head(s) = "owns0" /\ NoOwns1(Tail(s)))
         /\ NoOwns1(s) => Head(s) # "owns1" /\ NoOwns1(Tail(s))
<1>1. /\ Head(s) = s[1] /\ Len(s) \in Nat /\ Len(s) >= 1 /\ Len(Tail(s)) = Len(s) - 1
      /\ \A j \in 1..Len(Tail(s)) : Tail(s)[j] = s[j + 1]
  OBVIOUS
<1>2. \A j \in 1..Len(Tail(s)) : j + 1 \in 1..Len(s)
  BY <1>1
<1>3. NoOwns1(s) => Head(s) # "owns1" /\ NoOwns1(Tail(s))
  BY <1>1, <1>2 DEF NoOwns1
<1>4. ASSUME LastIsOwns0(s)
      PROVE  LastIsOwns0(Tail(s)) \/ (Head(s) = "owns0" /\ NoOwns1(Tail(s)))
  <2>1. PICK i \in 1..Len(s) : s[i] = "owns0" /\ \A j \in 1..Len(s) : j > i => s[j] # "owns1"
    BY <1>4 DEF LastIsOwns0
  <2>2. \A j \in 1..Len(Tail(s)) : j + 1 > i => Tail(s)[j] # "owns1"
    BY <1>1, <1>2, <2>1
  <2>3. CASE i = 1
    <3>1. NoOwns1(Tail(s))
      BY <1>1, <2>2, <2>3 DEF NoOwns1
    <3> QED BY <1>1, <2>1, <2>3, <3>1
  <2>4. CASE i # 1
    <3>1. i - 1 \in 1..Len(Tail(s)) /\ (i - 1) + 1 = i
      BY <1>1, <2>4
    <3>2. Tail(s)[i - 1] = "owns0"
      BY <1>1, <2>1, <3>1
    <3>3. \A j \in 1..Len(Tail(s)) : j > i - 1 => Tail(s)[j] # "owns1"
      BY <1>1, <2>2
    <3> QED BY <3>1, <3>2, <3>3 DEF LastIsOwns0
  <2> QED BY <2>3, <2>4
<1> QED BY <1>3, <1>4

(* No thread of switching moves the link, the pods, the setting or what is   *)
(* still to happen.                                                        *)
LEMMA ThreadsLeaveTheWorld ==
  (\E w \in Workers : TakeStep(w)) \/ ReaderStep \/ HoldStep \/ JobStep \/ CardListener
    => UNCHANGED worldVars
<1>1. ASSUME NEW w \in Workers, TakeStep(w) PROVE UNCHANGED worldVars
  BY <1>1 DEF TakeStep, TakeLook, TakeDecide, TakeConnect, TakeFailed, TakeClaim, TakeClaimed,
              TakeForgets, TakeOwn, TakeFlags, TakeCard, TakeProfile, TakeRoute, TakeApply,
              TakeDone
<1>2. HoldStep => UNCHANGED worldVars
  BY DEF HoldStep, HoldBegins, HoldTakesOver, HoldOwns0, HoldForgets, HoldClaims, HoldClaimed,
         HoldForgetsAgain, HoldReleases, HoldSpawns
<1>3. ReaderStep \/ JobStep \/ CardListener => UNCHANGED worldVars
  BY DEF ReaderStep, ReaderTakes, ReaderHandles, ReaderLetsGo, ReaderSpawns, JobStep,
         ReleaseLooks, ReleaseTurnsOff, JobRoutes, JobApplies, JobTurnsOff, CardListener
<1> QED BY <1>1, <1>2, <1>3

(* The channel comes up once, and stays.                                   *)
LEMMA LastsStep ==
  ASSUME WorldOK, Lasts, [Next]_vars
  PROVE  Lasts' /\ (Listening => Listening')
<1> USE DEF Lasts, WorldOK, EnvironmentOK, Bounds, worldVars, linkVars
<1>1. ~Disconnects /\ ~PodsClose /\ ~WorkerStops
  BY DEF Disconnects, PodsClose, WorkerStops, Spends
<1>2. (\E w \in Workers : TakeStep(w)) \/ ReaderStep \/ HoldStep \/ JobStep \/ CardListener
        => UNCHANGED worldVars
  BY ThreadsLeaveTheWorld
<1>4. CASE UNCHANGED worldVars
  BY <1>4 DEF Listening
<1>5. CASE Connects \/ WorkerOpens \/ WorkerEnds
  BY <1>5 DEF Connects, WorkerOpens, WorkerEnds, LinkUp, ChannelOpens, ChannelStarted, Listening
<1>6. CASE PodsTell \/ UserSetsMode \/ CardAppears \/ GraceEnds
  BY <1>6 DEF PodsTell, UserSetsMode, CardAppears, GraceEnds, Unheard, Listening
<1>7. CASE OtherTakes \/ PodsMove \/ UserPlays
  <2>1. UNCHANGED linkVars /\ env'.drops = env.drops /\ env'.closes = env.closes
    BY <1>7 DEF OtherTakes, PodsMove, UserPlays, Unheard, Spends
  <2> QED BY <2>1 DEF Listening
<1>8. CASE UNCHANGED vars
  BY <1>8 DEF vars, Listening
<1> QED BY <1>1, <1>2, <1>4, <1>5, <1>6, <1>7, <1>8
        DEF Next, ChannelStep, Environment

(* All that ever happens to what was said of who owns them.                 *)
NoPacket == PacketOut' => PacketOut
SaidVars == <<podsOwner, inbox, crossed, reader>>

Keeps == UNCHANGED <<SaidVars, claimed, ownsReport>> /\ NoPacket
Packet == SendClaim /\ UNCHANGED <<claimed, ownsReport, reader>>
Flagged == PacketOut /\ claimed' = TRUE /\ UNCHANGED <<SaidVars, ownsReport>>
Unflagged == claimed' = FALSE /\ UNCHANGED <<SaidVars, ownsReport>> /\ NoPacket
Forgotten == ownsReport' = -1 /\ UNCHANGED <<SaidVars, claimed>> /\ NoPacket
Said == (ReaderStep \/ OtherTakes \/ PodsTell) /\ NoPacket
Opened ==
  /\ ~Listening /\ reader.pc = "idle" /\ inbox' = <<>>
  /\ UNCHANGED <<podsOwner, crossed, claimed, ownsReport, reader>> /\ NoPacket

WordSteps ==
  Keeps \/ Packet \/ Flagged \/ Unflagged \/ Forgotten \/ Said \/ Opened

(* A packet is out only by a claim: a worker's ...                         *)
LEMMA WorkerPackets ==
  ASSUME TakeInv, NEW w \in Workers, TakeStep(w), ~TakeClaim(w)
  PROVE  NoPacket
<1>1. UNCHANGED hold
  BY DEF TakeStep, TakeLook, TakeDecide, TakeConnect, TakeFailed, TakeClaim, TakeClaimed,
         TakeForgets, TakeOwn, TakeFlags, TakeCard, TakeProfile, TakeRoute, TakeApply, TakeDone
<1>2. SUFFICES \A v \in Workers : take'[v].pc = "claimed" => take[v].pc = "claimed"
  BY <1>1 DEF NoPacket, PacketOut
<1>3. ASSUME NEW pc \in TakePC \ {"claimed"}, Goto(w, pc)
      PROVE  \A v \in Workers : take'[v].pc = "claimed" => take[v].pc = "claimed"
  BY <1>3 DEF Goto, TakeInv, TakeStates
<1>4. CASE TakeLook(w)
  <2>1. \A v \in Workers : v # w => take'[v] = take[v]
    BY <1>4 DEF TakeLook, TakeInv
  <2>2. take'[w].pc = "decide"
    BY <1>4 DEF TakeLook, TakeInv, TakeStates
  <2> QED BY <2>1, <2>2
<1>5. CASE TakeDecide(w)
  <2>1. \A v \in Workers : v # w => take'[v] = take[v]
    BY <1>5 DEF TakeDecide, Finish, TakeInv
  <2>2. take'[w].pc \in {"idle", "connect"}
    BY <1>5 DEF TakeDecide, Finish, Idle, TakeInv, TakeStates
  <2> QED BY <2>1, <2>2
<1>6. CASE TakeFailed(w) \/ TakeDone(w)
  BY <1>6 DEF TakeFailed, TakeDone, Idle, TakeInv, TakeStates
<1>7. CASE TakeConnect(w)
  <2>1. \E pc \in {"await", "failed"} : Goto(w, pc)
    BY <1>7 DEF TakeConnect
  <2> QED BY <1>3, <2>1 DEF TakePC
<1>8. CASE TakeClaimed(w) \/ TakeForgets(w) \/ TakeOwn(w) \/ TakeFlags(w) \/ TakeCard(w)
  BY <1>3, <1>8 DEF TakeClaimed, TakeForgets, TakeOwn, TakeFlags, TakeCard, TakePC
<1>9. CASE TakeProfile(w) \/ TakeRoute(w) \/ TakeApply(w)
  BY <1>3, <1>9 DEF TakeProfile, TakeRoute, TakeApply, TakePC
<1> QED BY <1>4, <1>5, <1>6, <1>7, <1>8, <1>9 DEF TakeStep

(* ... or the hold worker's; whoever asks for a takeover sends none yet.    *)
LEMMA HoldPackets ==
  ASSUME TakeInv, HoldOK, HoldStep, ~HoldClaims
  PROVE  NoPacket
<1>1. HoldLooks.pc = "own0"
  BY DEF HoldLooks
<1>2. CASE HoldTakesOver
  <2>1. \A v \in Workers : take'[v].pc = "claimed" => take[v].pc = "claimed"
    BY <1>2 DEF HoldTakesOver, TakeOver, Idle, TakeInv, TakeStates
  <2>2. hold' = HoldLooks
    BY <1>2 DEF HoldTakesOver
  <2> QED BY <1>1, <2>1, <2>2 DEF NoPacket, PacketOut
<1>3. CASE ~HoldTakesOver
  <2>1. UNCHANGED take
    BY <1>3 DEF HoldStep, HoldBegins, HoldOwns0, HoldForgets, HoldClaimed, HoldForgetsAgain,
                HoldReleases, HoldSpawns
  <2>2. CASE HoldBegins
    <3>1. hold' = HoldLooks \/ hold' = [hold EXCEPT !.pc = "take"]
      BY <2>2 DEF HoldBegins
    <3>2. hold'.pc # "claimed"
      BY <1>1, <3>1 DEF HoldOK
    <3> QED BY <2>1, <3>2 DEF NoPacket, PacketOut
  <2>3. CASE ~HoldBegins
    <3>1. hold'.pc # "claimed"
      BY <1>3, <2>3 DEF HoldOK, HoldStep, HoldOwns0, HoldRests, HoldForgets, HoldClaimed,
                        HoldForgetsAgain, HoldReleases, HoldSpawns
    <3> QED BY <2>1, <3>1 DEF NoPacket, PacketOut
  <2> QED BY <2>2, <2>3
<1> QED BY <1>2, <1>3

(* Every step is one of these.                                             *)
LEMMA WordsStep ==
  ASSUME TakeInv, HoldOK, WorldOK, Lasts, [Next]_vars
  PROVE  WordSteps
<1> USE DEF podsVars, ownVars, noteVars, SaidVars
<1>0. UNCHANGED <<take, hold>> => NoPacket
  BY DEF NoPacket, PacketOut
<1>1. ~Disconnects /\ ~PodsClose /\ ~WorkerStops
  BY DEF Lasts, WorldOK, EnvironmentOK, Bounds, Disconnects, PodsClose, WorkerStops, Spends
<1>2. ASSUME NEW w \in Workers, TakeStep(w) PROVE WordSteps
  <2>1. CASE TakeClaim(w)
    BY <2>1 DEF TakeClaim, Packet, WordSteps
  <2>2. CASE TakeClaimed(w)
    <3>1. PacketOut
      BY <2>2 DEF TakeClaimed, PacketOut
    <3> QED BY <2>2, <3>1 DEF TakeClaimed, Flagged, WordSteps
  <2>3. CASE TakeForgets(w)
    <3>1. NoPacket
      BY <1>2, <2>3, WorkerPackets DEF TakeForgets, TakeClaim
    <3> QED BY <2>3, <3>1 DEF TakeForgets, Forgotten, WordSteps
  <2>4. CASE ~TakeClaim(w) /\ ~TakeClaimed(w) /\ ~TakeForgets(w)
    <3>1. NoPacket
      BY <1>2, <2>4, WorkerPackets
    <3>2. UNCHANGED <<SaidVars, claimed, ownsReport>>
      BY <1>2, <2>4 DEF TakeStep, TakeLook, TakeDecide, TakeConnect, TakeFailed, TakeOwn,
                        TakeFlags, TakeCard, TakeProfile, TakeRoute, TakeApply, TakeDone
    <3> QED BY <3>1, <3>2 DEF Keeps, WordSteps
  <2> QED BY <2>1, <2>2, <2>3, <2>4
<1>3. ASSUME HoldStep PROVE WordSteps
  <2>1. CASE HoldClaims
    BY <2>1 DEF HoldClaims, Packet, WordSteps
  <2>2. CASE HoldClaimed
    <3>1. PacketOut
      BY <2>2 DEF HoldClaimed, PacketOut
    <3> QED BY <2>2, <3>1 DEF HoldClaimed, Flagged, WordSteps
  <2>3. CASE ~HoldClaims /\ ~HoldClaimed
    <3>1. NoPacket
      BY <1>3, <2>3, HoldPackets
    <3>2. CASE HoldForgets \/ HoldForgetsAgain
      BY <3>1, <3>2 DEF HoldForgets, HoldForgetsAgain, Forgotten, WordSteps
    <3>3. CASE HoldReleases
      BY <3>1, <3>3 DEF HoldReleases, LetGo, Unflagged, WordSteps
    <3>4. CASE HoldBegins \/ HoldTakesOver \/ HoldOwns0 \/ HoldSpawns
      <4>1. UNCHANGED <<SaidVars, claimed, ownsReport>>
        BY <3>4 DEF HoldBegins, HoldTakesOver, HoldOwns0, HoldSpawns
      <4> QED BY <3>1, <4>1 DEF Keeps, WordSteps
    <3> QED BY <1>3, <2>3, <3>2, <3>3, <3>4 DEF HoldStep
  <2> QED BY <2>1, <2>2, <2>3
<1>4. ASSUME JobStep \/ CardListener \/ Connects \/ WorkerEnds \/ UNCHANGED vars PROVE WordSteps
  <2>1. UNCHANGED <<SaidVars, claimed, ownsReport, take, hold>>
    BY <1>4 DEF JobStep, ReleaseLooks, ReleaseTurnsOff, JobRoutes, JobApplies, JobTurnsOff,
                CardListener, Connects, WorkerEnds, LinkUnchanged, vars
  <2> QED BY <1>0, <2>1 DEF Keeps, WordSteps
<1>5. ASSUME PodsMove \/ UserSetsMode \/ CardAppears \/ GraceEnds PROVE WordSteps
  <2>1. UNCHANGED <<SaidVars, claimed, ownsReport, take, hold>>
    BY <1>5 DEF PodsMove, UserSetsMode, CardAppears, GraceEnds, Unheard
  <2> QED BY <1>0, <2>1 DEF Keeps, WordSteps
<1>6. CASE UserPlays
  <2>1. UNCHANGED <<SaidVars, claimed, ownsReport, hold>> /\ \E manual \in BOOLEAN : TakeOver(manual)
    BY <1>6 DEF UserPlays, Unheard
  <2>2. \A v \in Workers : take'[v].pc = "claimed" => take[v].pc = "claimed"
    BY <2>1 DEF TakeOver, Idle, TakeInv, TakeStates
  <2>3. NoPacket
    BY <2>1, <2>2 DEF NoPacket, PacketOut
  <2> QED BY <2>1, <2>3 DEF Keeps, WordSteps
<1>7. CASE WorkerOpens
  BY <1>0, <1>7 DEF WorkerOpens, ChannelOpens, LinkUnchanged, Listening, Opened, WordSteps
<1>8. CASE ReaderStep \/ OtherTakes \/ PodsTell
  <2>1. UNCHANGED <<take, hold>>
    BY <1>8 DEF ReaderStep, ReaderTakes, ReaderHandles, ReaderLetsGo, ReaderSpawns, OtherTakes,
                PodsTell, Unheard
  <2> QED BY <1>0, <1>8, <2>1 DEF Said, WordSteps
<1> QED BY <1>1, <1>2, <1>3, <1>4, <1>5, <1>6, <1>7, <1>8 DEF Next, ChannelStep, Environment

(* What the reader does with a report keeps the others' unconfirmed.       *)
LEMMA ReaderKeeps ==
  ASSUME inbox \in Seq(Reports), ReaderOK, WordInv, ReaderStep, NoPacket,
         Lasts', Listening => Listening'
  PROVE  WordInv'
<1> USE DEF WordInv
<1>0. Listening
  BY DEF NothingSaid, ReaderStep, ReaderTakes, ReaderHandles, ReaderLetsGo, ReaderSpawns
<1>1. SUFFICES OthersUnconfirmed'
  BY <1>0 DEF NothingSaid
<1>2. CASE ReaderTakes
  <2>1. /\ inbox # <<>> /\ inbox' = Tail(inbox)
        /\ UNCHANGED <<podsOwner, crossed, claimed, ownsReport>>
        /\ reader'.pc = "got" /\ reader'.msg = Head(inbox) /\ reader.pc = "idle"
    BY <1>2 DEF ReaderTakes, ownVars, noteVars
  <2>2. ASSUME podsOwner = "other", ~crossed, Stands PROVE Unconfirmed'
    <3>1. Unconfirmed
      BY <2>2 DEF OthersUnconfirmed
    <3>2. CASE LastIsOwns0(inbox)
      BY <2>1, <3>2, ReportLeaves DEF Unconfirmed
    <3>3. CASE ownsReport # 1 /\ NoOwns1(inbox)
      BY <2>1, <3>3, ReportLeaves DEF Unconfirmed
    <3> QED BY <2>1, <3>1, <3>2, <3>3 DEF Unconfirmed
  <2>3. Stands' => Stands
    BY <2>1 DEF Stands, NoPacket
  <2> QED BY <2>1, <2>2, <2>3 DEF OthersUnconfirmed
<1>3. CASE ReaderHandles
  <2>1. /\ reader.pc = "got" /\ UNCHANGED <<inbox, claimed>>
        /\ ownsReport' = OwnsReportOf(reader.msg)
    BY <1>3 DEF ReaderHandles, ownVars
  <2>2. \/ reader'.pc = "release" /\ crossed' = (crossed \/ PacketOut)
        \/ reader'.pc \in {"idle", "release"} /\ UNCHANGED <<podsOwner, crossed>>
    BY <1>0, <1>3 DEF ReaderHandles, ReaderIdle, SendYield
  <2>3. CASE reader'.pc = "release" /\ crossed' = (crossed \/ PacketOut)
    <3>1. Stands' => PacketOut
      BY <2>3 DEF Stands, NoPacket
    <3> QED BY <2>3, <3>1 DEF OthersUnconfirmed
  <2>4. CASE reader'.pc \in {"idle", "release"} /\ UNCHANGED <<podsOwner, crossed>>
    <3>1. Stands' => Stands
      BY <2>1, <2>4 DEF Stands, NoPacket
    <3>2. ASSUME Unconfirmed PROVE Unconfirmed'
      <4>1. CASE LastIsOwns0(inbox)
        BY <2>1, <4>1 DEF Unconfirmed
      <4>2. CASE NoOwns1(inbox) /\ reader.msg = "owns0"
        BY <2>1, <2>4, <4>2 DEF Unconfirmed, OwnsReportOf
      <4>3. CASE NoOwns1(inbox) /\ ownsReport # 1 /\ reader.msg # "owns1"
        BY <2>1, <2>4, <4>3 DEF Unconfirmed, OwnsReportOf
      <4> QED BY <2>1, <3>2, <4>1, <4>2, <4>3 DEF Unconfirmed
    <3> QED BY <2>4, <3>1, <3>2 DEF OthersUnconfirmed
  <2> QED BY <2>2, <2>3, <2>4
<1>4. CASE ReaderLetsGo \/ ReaderSpawns
  <2>1. /\ UNCHANGED <<podsOwner, inbox, crossed, ownsReport>>
        /\ reader.pc \in {"release", "spawn"} /\ reader'.pc # "got"
        /\ claimed' = FALSE \/ (UNCHANGED claimed /\ reader.pc = "spawn")
    BY <1>4 DEF ReaderLetsGo, ReaderSpawns, LetGo, ReaderIdle, ReaderOK, podsVars, noteVars
  <2>2. Stands' => Stands
    BY <2>1 DEF Stands, NoPacket
  <2>3. Unconfirmed => Unconfirmed'
    BY <2>1 DEF Unconfirmed
  <2> QED BY <2>1, <2>2, <2>3 DEF OthersUnconfirmed
<1> QED BY <1>2, <1>3, <1>4 DEF ReaderStep

(* Every word leaves the others' unconfirmed.                              *)
LEMMA WordKept ==
  ASSUME inbox \in Seq(Reports), ReaderOK, WorldOK, HoldOK, TakeInv,
         podsOwner \in {"us", "other"}, WordInv, [Next]_vars
  PROVE  WordInv'
<1> USE DEF WordInv, SaidVars
<1>1. Lasts' /\ (Listening => Listening')
  BY LastsStep
<1>2. CASE Keeps \/ Unflagged
  <2>1. /\ UNCHANGED <<podsOwner, inbox, crossed, ownsReport, reader>>
        /\ claimed' => claimed
        /\ NoPacket
    BY <1>2 DEF Keeps, Unflagged
  <2>2. Stands' => Stands
    BY <2>1 DEF Stands, NoPacket
  <2>3. NothingSaid' /\ OthersUnconfirmed'
    BY <1>1, <2>1, <2>2 DEF NothingSaid, OthersUnconfirmed, Unconfirmed
  <2> QED BY <1>1, <2>3
<1>3. CASE Packet
  <2>1. CASE Listening
    <3>1. podsOwner' = "us"
      BY <1>3, <2>1 DEF Packet, SendClaim
    <3>2. NothingSaid' /\ OthersUnconfirmed'
      BY <1>1, <2>1, <3>1 DEF NothingSaid, OthersUnconfirmed
    <3> QED BY <1>1, <3>2
  <2>2. CASE ~Listening
    <3>1. UNCHANGED <<podsOwner, inbox, reader, ownsReport>>
      BY <1>3, <2>2 DEF Packet, SendClaim, podsVars
    <3>2. inbox = <<>> /\ reader.pc = "idle" /\ podsOwner = "other" /\ ownsReport # 1
      BY <2>2 DEF NothingSaid
    <3>3. NoOwns1(inbox)
      BY <3>2 DEF NoOwns1
    <3>4. NothingSaid' /\ OthersUnconfirmed'
      BY <3>1, <3>2, <3>3 DEF NothingSaid, OthersUnconfirmed, Unconfirmed
    <3> QED BY <1>1, <3>4
  <2> QED BY <2>1, <2>2
<1>4. CASE Flagged
  <2>1. UNCHANGED <<podsOwner, inbox, crossed, ownsReport, reader>> /\ Stands
    BY <1>4 DEF Flagged, Stands
  <2>2. NothingSaid' /\ OthersUnconfirmed'
    BY <1>1, <2>1 DEF NothingSaid, OthersUnconfirmed, Unconfirmed
  <2> QED BY <1>1, <2>2
<1>5. CASE Forgotten
  <2>1. UNCHANGED <<podsOwner, inbox, crossed, reader>> /\ ownsReport' = -1 /\ (Stands' => Stands)
    BY <1>5 DEF Forgotten, Stands, NoPacket
  <2>2. NothingSaid' /\ OthersUnconfirmed'
    BY <1>1, <2>1 DEF NothingSaid, OthersUnconfirmed, Unconfirmed
  <2> QED BY <1>1, <2>2
<1>6. CASE Said /\ ReaderStep
  BY <1>1, <1>6, ReaderKeeps DEF Said
<1>7. CASE Said /\ ~ReaderStep
  <2>1. PICK msg \in Reports \ {"owns1"} :
          /\ Listening /\ inbox' = Append(inbox, msg) /\ podsOwner' = "other"
          /\ UNCHANGED <<claimed, ownsReport, reader>>
          /\ msg = "owns0" \/ (podsOwner = "other" /\ UNCHANGED crossed)
    BY <1>7 DEF Said, OtherTakes, PodsTell, Unheard, ownVars, noteVars, Reports, WorldOK,
                EnvironmentOK
  <2>2. Stands' => Stands
    BY <1>7, <2>1 DEF Said, Stands, NoPacket
  <2>3. ASSUME ~crossed', Stands PROVE Unconfirmed'
    <3>1. CASE msg = "owns0"
      BY <2>1, <3>1, ReportJoins DEF Unconfirmed
    <3>2. CASE msg # "owns0"
      <4>1. Unconfirmed
        BY <2>1, <2>3, <3>2 DEF OthersUnconfirmed
      <4> QED BY <2>1, <4>1, ReportJoins DEF Unconfirmed
    <3> QED BY <3>1, <3>2
  <2>4. NothingSaid' /\ OthersUnconfirmed'
    BY <1>1, <2>1, <2>2, <2>3 DEF NothingSaid, OthersUnconfirmed
  <2> QED BY <1>1, <2>4
<1>8. CASE Opened
  <2>1. inbox = <<>> /\ inbox' = <<>>
    BY <1>8 DEF Opened, NothingSaid
  <2>2. UNCHANGED <<podsOwner, crossed, claimed, ownsReport, reader>> /\ (Stands' => Stands)
    BY <1>8 DEF Opened, Stands, NoPacket
  <2>3. NothingSaid
    OBVIOUS
  <2>4. NothingSaid' /\ OthersUnconfirmed'
    BY <1>8, <2>1, <2>2, <2>3 DEF Opened, NothingSaid, OthersUnconfirmed, Unconfirmed
  <2> QED BY <1>1, <2>4
<1> QED BY <1>2, <1>3, <1>4, <1>5, <1>6, <1>7, <1>8, WordsStep DEF WordSteps

(* As long as the connection and its channel last, a claim the AirPods      *)
(* confirmed, with no report on its way, is one they still stand by unless   *)
(* a yield got between that claim's packet and its flag: nothing else that   *)
(* the reader, the hold worker, any number of takeovers or the AirPods do    *)
(* makes "already ours" a mistake.                                         *)
THEOREM ConfirmedClaimIsTheirs ==
  ASSUME ChannelsLast
  PROVE  Spec => []ConfirmedIsTheirsUnlessCrossed
<1>1. Init => WordInv
  <2> SUFFICES ASSUME Init PROVE WordInv
    OBVIOUS
  <2>1. Lasts
    BY DEF Init, LinkInit, Lasts, ChannelsLast
  <2>2. NothingSaid /\ ~Stands
    BY DEF Init, ReaderIdle, NothingSaid, Stands, PacketOut, Idle
  <2> QED BY <2>1, <2>2 DEF WordInv, OthersUnconfirmed
<1>2. TypeOK /\ TakeInv /\ WordInv /\ [Next]_vars => WordInv'
  <2> SUFFICES ASSUME TypeOK, TakeInv, WordInv, [Next]_vars PROVE WordInv'
    OBVIOUS
  <2>1. inbox \in Seq(Reports) /\ ReaderOK /\ WorldOK /\ HoldOK /\ podsOwner \in {"us", "other"}
    BY DEF TypeOK, ReaderOK, WorldOK, HoldOK
  <2> QED BY <2>1, WordKept
<1>3. TypeOK /\ WordInv => ConfirmedIsTheirsUnlessCrossed
  <2> SUFFICES ASSUME TypeOK, WordInv, claimed, ownsReport = 1, inbox = <<>>, reader.pc = "idle",
                      podsOwner # "us", ~crossed
               PROVE  FALSE
    BY DEF ConfirmedIsTheirs, ConfirmedIsTheirsUnlessCrossed
  <2>1. Unconfirmed
    BY DEF TypeOK, WordInv, OthersUnconfirmed, Stands
  <2> QED BY <2>1 DEF Unconfirmed, LastIsOwns0
<1> QED BY <1>1, <1>2, <1>3, TakeInvariant, TypeCorrect, PTL DEF Spec

=============================================================================
