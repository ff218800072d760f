----------------------------- MODULE AudioSwitch -----------------------------
(***************************************************************************)
(* Automatic switching of the AirPods between this computer and another    *)
(* device: AapAudioSwitchCapability, Device::RouteAudio and the first half *)
(* of UpdateHold, which decides who owns the AirPods (its second half, the *)
(* silent output, is HoldOutput.tla).                                      *)
(*                                                                         *)
(* The threads that meet in this capability:                               *)
(*   - takeover workers, one per TakeOver() that found busy clear;         *)
(*   - the reader of the control channel (OnReceivedData);                 *)
(*   - the hold worker, which looks every second (UpdateHold);             *)
(*   - the worker Release() detaches;                                      *)
(*   - the PulseAudio thread (card listener) and the jobs it detaches;     *)
(*   - the D-Bus thread: links that come and go (Reset).                   *)
(* One step is what a thread does between two points where another one can *)
(* get in: a wait, a call to another process, or a window the code leaves  *)
(* between a test and the statement that relies on it.                     *)
(*                                                                         *)
(* The AirPods, the other device, the user and BlueZ are the environment.  *)
(* Times are abstracted: `grace` holds while less than 3 s have passed     *)
(* since takeoverAt, and a wait with a limit may end early.                *)
(***************************************************************************)
EXTENDS AapLink, Naturals, Integers, Sequences, FiniteSets

CONSTANTS
  Workers,    \* identities for the threads TakeOver() detaches
  Environments, \* what the user, the pods and the other device may do in a behaviour
  MaxInbox,   \* bound: reports under way to this computer before the AirPods say more
  MaxJobs     \* bound: release workers told apart at each of their two stages

ASSUME WorkersAssumption == Workers # {}
ASSUME BoundsAssumption == MaxInbox \in Nat /\ MaxJobs \in Nat \ {0}

Reports == {"owns1", "owns0", "call", "media", "quiet", "yield"}

(* What is left of it: the settings the user may choose (0 automatically, 1 *)
(* when last connected here), where the pods may be, what the AirPods may   *)
(* relay of their own accord, the profiles a new card may come with; and    *)
(* bounds: playbacks and "Move here", links lost, channels the AirPods      *)
(* close, times the pods are put in, taken out or put away, times they say  *)
(* that the other device owns them.                                        *)
Bounds == {"plays", "drops", "closes", "moves", "takes"}

EnvironmentOK(e) ==
  /\ DOMAIN e = {"modes", "wears", "tells", "profiles"} \cup Bounds
  /\ e.modes \subseteq {0, 1} /\ e.wears \subseteq {"ear", "out", "case"}
  /\ e.tells \subseteq {"call", "media", "quiet", "yield"}
  /\ e.profiles \subseteq {"off", "a2dp"}
  /\ \A what \in Bounds : e[what] \in Nat

ASSUME EnvironmentsAssumption == \A e \in Environments : EnvironmentOK(e)

VARIABLES
  \* the AirPods
  podsOwner,     \* who they think has them: "us" or "other"
  inbox,         \* their reports, not yet read here
  crossed,       \* history: a yield overtook a claim's own statements (SendYield)
  wear,          \* what InEar() and InCase() find
  \* the capability's atomics
  mode, own, claimed, ownsReport, released, reclaimed, sourceType, busy,
  cardSeen, routeWhenWorn,
  grace,         \* NowMs() - takeoverAt < 3000
  \* PulseAudio
  card,          \* their card: "none", "off" or "a2dp"
  cardEvent,     \* a change of the card the listener has not seen yet
  routed,        \* the default output plays to them
  \* threads
  take,          \* [Workers -> what a takeover worker is doing]
  reader,        \* the reader: the report it holds, and the grace it read first
  hold,          \* the hold worker
  releasing,     \* release workers at each stage
  routeJob,      \* RouteAudio on a detached thread
  offJob,        \* SetCardProfile "off" on a detached thread (in the case)
  env            \* one of the Environments, and what is left of it

podsVars == <<podsOwner, inbox, crossed>>
ownVars == <<own, claimed, released>>
pulseVars == <<card, cardEvent, routed>>
jobVars == <<releasing, routeJob, offJob>>
(* What the pods, the wearer and the user change, and what a thread notes.  *)
worldVars == <<linkVars, wear, mode, env>>
noteVars == <<ownsReport, reclaimed, sourceType, cardSeen, routeWhenWorn>>
vars == <<worldVars, podsVars, ownVars, noteVars, busy, grace, pulseVars, take,
          reader, hold, jobVars>>

TakePC == {"idle", "look", "decide", "connect", "failed", "await", "claimed",
           "report", "own", "flags", "card", "profile", "route", "apply", "resume"}

ReaderPC == {"idle", "got", "release", "spawn"}

HoldPC == {"rest", "take", "own0", "forget", "claim", "claimed", "report",
           "release", "spawn"}

Idle == [pc |-> "idle", manual |-> FALSE, streaming |-> FALSE, paused |-> FALSE]

ReaderIdle == [pc |-> "idle", msg |-> "quiet", grace |-> FALSE]

TypeOK ==
  /\ LinkTypeOK
  /\ podsOwner \in {"us", "other"}
  /\ inbox \in Seq(Reports)
  /\ crossed \in BOOLEAN
  /\ wear \in {"ear", "out", "case"}
  /\ mode \in {0, 1}
  /\ own \in BOOLEAN /\ claimed \in BOOLEAN /\ released \in BOOLEAN
  /\ reclaimed \in BOOLEAN /\ busy \in BOOLEAN /\ grace \in BOOLEAN
  /\ cardSeen \in BOOLEAN /\ routeWhenWorn \in BOOLEAN
  /\ ownsReport \in {-1, 0, 1}
  /\ sourceType \in {0, 1, 2}
  /\ card \in {"none", "off", "a2dp"}
  /\ cardEvent \in BOOLEAN /\ routed \in BOOLEAN
  /\ take \in [Workers -> [pc: TakePC, manual: BOOLEAN, streaming: BOOLEAN,
                           paused: BOOLEAN]]
  /\ reader \in [pc: ReaderPC, msg: Reports, grace: BOOLEAN]
  /\ hold \in [pc: HoldPC, plays: BOOLEAN]
  /\ releasing \in [look: Nat, off: Nat]
  /\ routeJob \in {"none", "wait", "apply"}
  /\ offJob \in BOOLEAN
  /\ EnvironmentOK(env)

Init ==
  /\ LinkInit
  /\ podsOwner = "other" /\ inbox = <<>> /\ crossed = FALSE
  /\ env \in Environments
  /\ wear \in env.wears
  /\ mode \in env.modes
  /\ own = TRUE /\ claimed = FALSE /\ released = FALSE /\ reclaimed = FALSE
  /\ ownsReport = -1 /\ sourceType = 0
  /\ busy = FALSE /\ grace = FALSE
  /\ cardSeen = FALSE /\ routeWhenWorn = FALSE
  /\ card = "none" /\ cardEvent = FALSE /\ routed = FALSE
  /\ take = [w \in Workers |-> Idle]
  /\ reader = ReaderIdle
  /\ hold = [pc |-> "rest", plays |-> FALSE]
  /\ releasing = [look |-> 0, off |-> 0]
  /\ routeJob = "none" /\ offJob = FALSE

-----------------------------------------------------------------------------
(* The AirPods' side of what this computer sends.                          *)

InEar == wear = "ear"
InCase == wear = "case"

InGrace == busy \/ grace

(* Claim() is three statements: the packet, the flag, and the report before *)
(* it forgotten. Whose packet is out and flag not yet set:                  *)
PacketOut == hold.pc = "claimed" \/ \E w \in Workers : take[w].pc = "claimed"

(* ... and who still has a report to forget.                               *)
Claiming ==
  \/ hold.pc \in {"claimed", "report"}
  \/ \E w \in Workers : take[w].pc \in {"claimed", "report"}

(* Its first: "owns connection 1" and the hijack, answered with a report,   *)
(* if it reaches the AirPods at all.                                       *)
SendClaim ==
  IF Listening
  THEN podsOwner' = "us" /\ inbox' = Append(inbox, "owns1") /\ crossed' = FALSE
  ELSE UNCHANGED podsVars

(* "owns connection 0", answering a request: the first of Release()'s       *)
(* statements. Its `claimed = false` may be overtaken by the `claimed =     *)
(* true` of a claim whose packet is out already.                           *)
SendYield ==
  IF Listening
  THEN podsOwner' = "other" /\ crossed' = (crossed \/ PacketOut)
  ELSE UNCHANGED <<podsOwner, crossed>>

(* Then the two flags. (A claim that gets between them ends as one before.) *)
LetGo ==
  /\ own' = FALSE
  /\ claimed' = FALSE

(* Then one worker per released.exchange(true) that found it clear.         *)
SpawnRelease ==
  IF released
  THEN UNCHANGED <<released, releasing>>
  ELSE /\ released' = TRUE
       /\ releasing' = [releasing EXCEPT !.look = IF @ < MaxJobs THEN @ + 1 ELSE @]

SetCard(profile) ==
  /\ card' = IF card = "none" THEN "none" ELSE profile
  /\ cardEvent' = (cardEvent \/ (card' # card))
  /\ routed' = (routed /\ card' = "a2dp")

(* Slip: the flag is set, not exchanged: nobody looks what it was.         *)
TakeOverUntested(manual) ==
  /\ busy' = TRUE
  /\ IF \E w \in Workers : take[w].pc = "idle"
     THEN \E w \in Workers :
            /\ take[w].pc = "idle"
            /\ take' = [take EXCEPT ![w] = [Idle EXCEPT !.pc = "look", !.manual = manual]]
     ELSE UNCHANGED take

(* TakeOver(manual): busy.exchange(true) decides who gets a worker.        *)
TakeOver(manual) ==
  IF busy
  THEN UNCHANGED <<busy, take>>
  ELSE /\ busy' = TRUE
       /\ \E w \in Workers :
            /\ take[w].pc = "idle"
            /\ take' = [take EXCEPT ![w] = [Idle EXCEPT !.pc = "look", !.manual = manual]]

-----------------------------------------------------------------------------
(* The takeover worker.                                                    *)

Goto(w, pc) == take' = [take EXCEPT ![w].pc = pc]

(* Only Play() clears what PausePlaying() left paused.                     *)
Finish(w) ==
  /\ busy' = FALSE
  /\ take' = [take EXCEPT ![w] = [Idle EXCEPT !.paused = take[w].paused]]

(* Is there a card, and does it play?                                      *)
TakeLook(w) ==
  /\ take[w].pc = "look"
  /\ take' = [take EXCEPT ![w].pc = "decide",
                          ![w].streaming = connected /\ card = "a2dp"]
  /\ UNCHANGED <<worldVars, podsVars, ownVars, noteVars, pulseVars, jobVars, busy,
                 grace, reader, hold>>

(* R4, R12: ours already, once claimed and confirmed.                      *)
AlreadyOurs(w) ==
  /\ ~take[w].manual /\ own /\ take[w].streaming /\ claimed /\ ownsReport = 1

(* The setting says no, nobody wears them, or the other device is in a call *)
Refused(w) ==
  /\ ~take[w].manual
  /\ mode # 0 \/ ~InEar \/ (sourceType = 1 /\ ~own)

(* Slip: the players are paused before anything is decided.                *)
TakeDecidePausesFirst(w) ==
  /\ take[w].pc = "decide"
  /\ IF AlreadyOurs(w) \/ Refused(w)
     THEN /\ busy' = FALSE
          /\ \E p \in BOOLEAN : take' = [take EXCEPT ![w] = [Idle EXCEPT !.paused = p]]
     ELSE /\ \E p \in BOOLEAN :
               take' = [take EXCEPT ![w] = [Idle EXCEPT !.pc = "connect", !.paused = p]]
          /\ UNCHANGED busy
  /\ UNCHANGED <<worldVars, podsVars, ownVars, noteVars, pulseVars, jobVars, grace,
                 reader, hold>>

TakeDecide(w) ==
  /\ take[w].pc = "decide"
  /\ IF AlreadyOurs(w) \/ Refused(w)
     THEN Finish(w)
     ELSE /\ \E p \in BOOLEAN :   \* did a player play?
               take' = [take EXCEPT ![w] =
                          [Idle EXCEPT !.pc = "connect",
                                       !.paused = p /\ ~take[w].streaming]]
          /\ UNCHANGED busy
  /\ UNCHANGED <<worldVars, podsVars, ownVars, noteVars, pulseVars, jobVars, grace,
                 reader, hold>>

(* device.Connect() only asks BlueZ (LinkUp may follow); it may throw.     *)
TakeConnect(w) ==
  /\ take[w].pc = "connect"
  /\ \E pc \in {"await"} \cup (IF connected THEN {} ELSE {"failed"}) : Goto(w, pc)
  /\ UNCHANGED <<worldVars, podsVars, ownVars, noteVars, pulseVars, jobVars, busy,
                 grace, reader, hold>>

(* The connect failed: what was paused goes on, from the speakers.         *)
TakeFailed(w) ==
  /\ take[w].pc = "failed"
  /\ busy' = FALSE
  /\ take' = [take EXCEPT ![w] = Idle]
  /\ UNCHANGED <<worldVars, podsVars, ownVars, noteVars, pulseVars, jobVars, grace,
                 reader, hold>>

(* R12: the wait for aapReady (5 s at most), then for the device list, is   *)
(* over: the claim goes out.                                               *)
TakeClaim(w) ==
  /\ take[w].pc = "await"
  /\ grace' = TRUE
  /\ reclaimed' = FALSE
  /\ SendClaim
  /\ Goto(w, "claimed")
  /\ UNCHANGED <<worldVars, ownVars, ownsReport, sourceType, cardSeen, routeWhenWorn,
                 pulseVars, jobVars, busy, reader, hold>>

TakeClaimed(w) ==
  /\ take[w].pc = "claimed"
  /\ claimed' = TRUE
  /\ Goto(w, "report")
  /\ UNCHANGED <<worldVars, podsVars, own, released, noteVars, pulseVars, jobVars,
                 busy, grace, reader, hold>>

TakeForgets(w) ==
  /\ take[w].pc = "report"
  /\ ownsReport' = -1
  /\ Goto(w, "own")
  /\ UNCHANGED <<worldVars, podsVars, ownVars, reclaimed, sourceType, cardSeen,
                 routeWhenWorn, pulseVars, jobVars, busy, grace, reader, hold>>

TakeOwn(w) ==
  /\ take[w].pc = "own"
  /\ own' = TRUE
  /\ Goto(w, "flags")
  /\ UNCHANGED <<worldVars, podsVars, noteVars, pulseVars, jobVars, claimed,
                 released, busy, grace, reader, hold>>

TakeFlags(w) ==
  /\ take[w].pc = "flags"
  /\ released' = FALSE
  /\ sourceType' = 0
  /\ Goto(w, "card")
  /\ UNCHANGED <<worldVars, podsVars, pulseVars, jobVars, own, claimed, ownsReport,
                 reclaimed, cardSeen, routeWhenWorn, busy, grace, reader, hold>>

(* Look for the card; just connected, wait for it, 5 s at most.            *)
TakeCard(w) ==
  /\ take[w].pc = "card"
  /\ Goto(w, IF card = "off" THEN "profile" ELSE "route")
  /\ UNCHANGED <<worldVars, podsVars, ownVars, noteVars, pulseVars, jobVars, busy,
                 grace, reader, hold>>

TakeProfile(w) ==
  /\ take[w].pc = "profile"
  /\ SetCard("a2dp")
  /\ Goto(w, "route")
  /\ UNCHANGED <<worldVars, podsVars, ownVars, noteVars, jobVars, busy, grace,
                 reader, hold>>

(* RouteAudio holds a lock from its first to its last statement: nobody    *)
(* begins one while another is in its second half.                         *)
RouteFree ==
  /\ routeJob # "apply"
  /\ \A w \in Workers : take[w].pc # "apply"

(* Its first half switches the card on, whoever owns them.                 *)
RouteOpensCard ==
  IF connected /\ card = "off" THEN SetCard("a2dp") ELSE UNCHANGED pulseVars

(* Its second half makes them the default output, if they have one.        *)
RouteApplies ==
  /\ routed' = (routed \/ (connected /\ card = "a2dp"))
  /\ UNCHANGED <<card, cardEvent>>

TakeRoute(w) ==
  /\ take[w].pc = "route"
  /\ RouteFree
  /\ RouteOpensCard
  /\ Goto(w, "apply")
  /\ UNCHANGED <<worldVars, podsVars, ownVars, noteVars, jobVars, busy, grace,
                 reader, hold>>

TakeApply(w) ==
  /\ take[w].pc = "apply"
  /\ RouteApplies
  /\ Goto(w, "resume")
  /\ UNCHANGED <<worldVars, podsVars, ownVars, noteVars, jobVars, busy, grace,
                 reader, hold>>

(* Slip: the worker ends with the flag still set.                          *)
TakeDoneStaysBusy(w) ==
  /\ take[w].pc = "resume"
  /\ grace' = TRUE
  /\ take' = [take EXCEPT ![w] = Idle]
  /\ UNCHANGED <<worldVars, podsVars, ownVars, noteVars, pulseVars, jobVars, busy,
                 reader, hold>>

(* What was paused goes on, and the grace starts anew.                     *)
TakeDone(w) ==
  /\ take[w].pc = "resume"
  /\ grace' = TRUE
  /\ busy' = FALSE
  /\ take' = [take EXCEPT ![w] = Idle]
  /\ UNCHANGED <<worldVars, podsVars, ownVars, noteVars, pulseVars, jobVars, reader,
                 hold>>

TakeStep(w) ==
  \/ TakeLook(w) \/ TakeDecide(w) \/ TakeConnect(w) \/ TakeFailed(w)
  \/ TakeClaim(w) \/ TakeClaimed(w) \/ TakeForgets(w) \/ TakeOwn(w)
  \/ TakeFlags(w) \/ TakeCard(w) \/ TakeProfile(w) \/ TakeRoute(w) \/ TakeApply(w) \/ TakeDone(w)

-----------------------------------------------------------------------------
(* The reader: OnReceivedData, one report at a time. The grace is read      *)
(* once, before the report is looked at.                                   *)

ReaderTakes ==
  /\ reader.pc = "idle" /\ inbox # <<>>
  /\ reader' = [pc |-> "got", msg |-> Head(inbox), grace |-> InGrace]
  /\ inbox' = Tail(inbox)
  /\ UNCHANGED <<worldVars, ownVars, noteVars, pulseVars, jobVars, podsOwner,
                 crossed, busy, grace, take, hold>>

(* Slip: the type byte is off by one.                                      *)
SourceOfOffByOne(msg) == CASE msg = "call" -> 2 [] msg = "media" -> 3 [] OTHER -> 1

SourceOf(msg) == CASE msg = "call" -> 1 [] msg = "media" -> 2 [] OTHER -> 0

(* Slip: only "owns connection 1" is noted.                                 *)
OwnsReportOfOurs(msg) == CASE msg = "owns1" -> 1 [] OTHER -> ownsReport

(* Noted in the grace too: it waits there for UpdateHold.                  *)
OwnsReportOf(msg) == CASE msg = "owns1" -> 1 [] msg = "owns0" -> 0 [] OTHER -> ownsReport

(* 0x09 "owns connection", 0x0E audio source, 0x11 SetOwnershipToFalse: the *)
(* other device's stream or request means letting go, unless in the grace. *)
ReaderHandles ==
  /\ reader.pc = "got"
  /\ ownsReport' = OwnsReportOf(reader.msg)
  /\ sourceType' = IF reader.msg \in {"call", "media", "quiet"}
                   THEN SourceOf(reader.msg) ELSE sourceType
  /\ IF reader.msg \in {"owns0", "call", "media", "yield"} /\ ~reader.grace
     THEN /\ IF reader.msg = "owns0" THEN UNCHANGED <<podsOwner, crossed>> ELSE SendYield
          /\ reader' = [ReaderIdle EXCEPT !.pc = "release"]
     ELSE /\ reader' = ReaderIdle
          /\ UNCHANGED <<podsOwner, crossed>>
  /\ UNCHANGED <<worldVars, ownVars, pulseVars, jobVars, inbox, reclaimed, cardSeen,
                 routeWhenWorn, busy, grace, take, hold>>

ReaderLetsGo ==
  /\ reader.pc = "release"
  /\ LetGo
  /\ reader' = [reader EXCEPT !.pc = "spawn"]
  /\ UNCHANGED <<worldVars, podsVars, released, noteVars, pulseVars, jobVars, busy,
                 grace, take, hold>>

ReaderSpawns ==
  /\ reader.pc = "spawn"
  /\ SpawnRelease
  /\ reader' = ReaderIdle
  /\ UNCHANGED <<worldVars, podsVars, noteVars, pulseVars, own, claimed, busy,
                 grace, take, hold, routeJob, offJob>>

ReaderStep ==
  ReaderTakes \/ ReaderHandles \/ ReaderLetsGo \/ ReaderSpawns

-----------------------------------------------------------------------------
(* The hold worker: the first half of UpdateHold, every second.            *)

HoldLooks == [pc |-> "own0", plays |-> own /\ routed]

(* Audio that waited in the case comes on once they are worn. Else on to    *)
(* where this computer plays just now.                                     *)
HoldBegins ==
  /\ hold.pc = "rest"
  /\ IF InEar /\ connected /\ own /\ ~busy /\ routeWhenWorn
     THEN routeWhenWorn' = FALSE /\ hold' = [hold EXCEPT !.pc = "take"]
     ELSE UNCHANGED routeWhenWorn /\ hold' = HoldLooks
  /\ UNCHANGED <<worldVars, podsVars, ownVars, pulseVars, jobVars, ownsReport,
                 reclaimed, sourceType, cardSeen, busy, grace, take, reader>>

(* Slip: only the audio is switched on, without a claim.                   *)
HoldOnlyRoutes ==
  /\ hold.pc = "take"
  /\ routeJob' = IF routeJob = "none" THEN "wait" ELSE routeJob
  /\ hold' = HoldLooks
  /\ UNCHANGED <<worldVars, podsVars, ownVars, noteVars, pulseVars, busy, grace,
                 take, reader, releasing, offJob>>

HoldTakesOver ==
  /\ hold.pc = "take"
  /\ TakeOver(TRUE)
  /\ hold' = HoldLooks
  /\ UNCHANGED <<worldVars, podsVars, ownVars, noteVars, pulseVars, jobVars, grace,
                 reader>>

(* Slip: a report put aside is forgotten.                                  *)
HoldForgetsOwns0 ==
  /\ hold.pc = "own0"
  /\ hold' = [hold EXCEPT !.pc = "rest", !.plays = FALSE]
  /\ UNCHANGED <<worldVars, podsVars, ownVars, noteVars, pulseVars, jobVars, busy,
                 grace, take, reader>>

HoldRests == hold' = [hold EXCEPT !.pc = "rest", !.plays = FALSE]

(* R3: an "owns connection 0" put aside in the grace.                      *)
HoldOwns0 ==
  /\ hold.pc = "own0"
  /\ IF own /\ claimed /\ ~busy /\ ownsReport = 0 /\ ~grace
     THEN hold' = [hold EXCEPT !.pc = "forget"]
     ELSE HoldRests
  /\ UNCHANGED <<worldVars, podsVars, ownVars, noteVars, pulseVars, jobVars, busy,
                 grace, take, reader>>

(* Claimed once more while they play here, else let go. Short of playing,   *)
(* reclaimed.exchange(true) is not reached; and it is TRUE already if the   *)
(* exchange says no.                                                       *)
HoldForgets ==
  /\ hold.pc = "forget"
  /\ ownsReport' = -1
  /\ IF hold.plays /\ ~reclaimed
     THEN reclaimed' = TRUE /\ hold' = [hold EXCEPT !.pc = "claim", !.plays = FALSE]
     ELSE UNCHANGED reclaimed /\ hold' = [hold EXCEPT !.pc = "release", !.plays = FALSE]
  /\ UNCHANGED <<worldVars, podsVars, ownVars, sourceType, cardSeen, routeWhenWorn,
                 pulseVars, jobVars, busy, grace, take, reader>>

HoldClaims ==
  /\ hold.pc = "claim"
  /\ SendClaim
  /\ hold' = [hold EXCEPT !.pc = "claimed"]
  /\ UNCHANGED <<worldVars, ownVars, noteVars, pulseVars, jobVars, busy, grace, take,
                 reader>>

HoldClaimed ==
  /\ hold.pc = "claimed"
  /\ claimed' = TRUE
  /\ hold' = [hold EXCEPT !.pc = "report"]
  /\ UNCHANGED <<worldVars, podsVars, own, released, noteVars, pulseVars, jobVars,
                 busy, grace, take, reader>>

HoldForgetsAgain ==
  /\ hold.pc = "report"
  /\ ownsReport' = -1
  /\ hold' = [hold EXCEPT !.pc = "rest"]
  /\ UNCHANGED <<worldVars, podsVars, ownVars, reclaimed, sourceType, cardSeen,
                 routeWhenWorn, pulseVars, jobVars, busy, grace, take, reader>>

HoldReleases ==
  /\ hold.pc = "release"
  /\ LetGo
  /\ hold' = [hold EXCEPT !.pc = "spawn"]
  /\ UNCHANGED <<worldVars, podsVars, released, noteVars, pulseVars, jobVars, busy,
                 grace, take, reader>>

HoldSpawns ==
  /\ hold.pc = "spawn"
  /\ SpawnRelease
  /\ hold' = [hold EXCEPT !.pc = "rest"]
  /\ UNCHANGED <<worldVars, podsVars, noteVars, pulseVars, own, claimed, busy,
                 grace, take, reader, routeJob, offJob>>

HoldStep ==
  \/ HoldBegins \/ HoldTakesOver \/ HoldOwns0 \/ HoldForgets
  \/ HoldClaims \/ HoldClaimed \/ HoldForgetsAgain
  \/ HoldReleases \/ HoldSpawns

-----------------------------------------------------------------------------
(* Detached threads.                                                       *)

(* Release's worker: nothing to do without a playing card ...              *)
ReleaseLooks ==
  /\ releasing.look > 0
  /\ releasing' = IF card = "a2dp"
                  THEN [look |-> releasing.look - 1,
                        off  |-> IF releasing.off < MaxJobs THEN releasing.off + 1
                                                            ELSE releasing.off]
                  ELSE [releasing EXCEPT !.look = @ - 1]
  /\ UNCHANGED <<worldVars, podsVars, ownVars, noteVars, pulseVars, busy, grace,
                 take, reader, hold, routeJob, offJob>>

(* ... else, once players and effects have stopped, it goes off.           *)
ReleaseTurnsOff ==
  /\ releasing.off > 0
  /\ SetCard("off")
  /\ releasing' = [releasing EXCEPT !.off = @ - 1]
  /\ UNCHANGED <<worldVars, podsVars, ownVars, noteVars, busy, grace, take, reader,
                 hold, routeJob, offJob>>

JobRoutes ==
  /\ routeJob = "wait"
  /\ RouteFree
  /\ RouteOpensCard
  /\ routeJob' = "apply"
  /\ UNCHANGED <<worldVars, podsVars, ownVars, noteVars, busy, grace, take, reader,
                 hold, releasing, offJob>>

JobApplies ==
  /\ routeJob = "apply"
  /\ RouteApplies
  /\ routeJob' = "none"
  /\ UNCHANGED <<worldVars, podsVars, ownVars, noteVars, busy, grace, take, reader,
                 hold, releasing, offJob>>

JobTurnsOff ==
  /\ offJob
  /\ offJob' = FALSE
  /\ SetCard("off")
  /\ UNCHANGED <<worldVars, podsVars, ownVars, noteVars, busy, grace, take, reader,
                 hold, releasing, routeJob>>

JobStep ==
  \/ ReleaseLooks \/ ReleaseTurnsOff \/ JobRoutes \/ JobApplies \/ JobTurnsOff

(* The card listener, on the PulseAudio thread. The jobs of one kind run    *)
(* one after the other: one more while one waits changes nothing.          *)
CardListener ==
  /\ cardEvent
  /\ cardEvent' = FALSE
  /\ cardSeen' = (cardSeen \/ card # "none")
  /\ IF \/ card = "none"
        \/ card = "off" /\ cardSeen
        \/ ~own \/ busy
     THEN UNCHANGED <<routeWhenWorn, routeJob, offJob>>
     ELSE IF InCase
          THEN /\ routeWhenWorn' = TRUE
               /\ offJob' = (offJob \/ card = "a2dp")
               /\ UNCHANGED routeJob
          ELSE /\ routeJob' = IF routeJob = "none" THEN "wait" ELSE routeJob
               /\ UNCHANGED <<routeWhenWorn, offJob>>
  /\ UNCHANGED <<worldVars, podsVars, ownVars, ownsReport, reclaimed, sourceType,
                 busy, grace, card, routed, take, reader, hold, releasing>>

-----------------------------------------------------------------------------

Spends(what) == env[what] > 0 /\ env' = [env EXCEPT ![what] = @ - 1]

(* The link. A connection that ends resets the capability (Reset), on the  *)
(* D-Bus thread, whatever the other threads are in the middle of; its card *)
(* goes with it.                                                           *)

LinkUnchanged ==
  UNCHANGED <<ownVars, noteVars, pulseVars, jobVars, wear, mode, busy, grace, take,
              hold>>

Connects ==
  /\ LinkUp
  /\ LinkUnchanged
  /\ UNCHANGED <<podsVars, env, reader>>

Disconnects ==
  /\ Spends("drops")
  /\ LinkDown
  /\ podsOwner' = "other" /\ crossed' = FALSE
  /\ own' = TRUE /\ released' = FALSE /\ sourceType' = 0 /\ cardSeen' = FALSE
  /\ routeWhenWorn' = FALSE /\ claimed' = FALSE /\ reclaimed' = FALSE
  /\ ownsReport' = -1
  /\ card' = "none" /\ cardEvent' = FALSE /\ routed' = FALSE
  /\ UNCHANGED <<jobVars, wear, mode, inbox, busy, grace, take, reader, hold>>

(* The client worker: it opens the channel while connected (a stop asked    *)
(* for meanwhile waits until it is through), and stops it when it was asked *)
(* to. The reader ends with its session.                                   *)
WorkerOpens ==
  /\ ChannelOpens
  /\ reader.pc = "idle"
  /\ LinkUnchanged
  /\ inbox' = <<>>
  /\ UNCHANGED <<env, podsOwner, crossed, reader>>

WorkerEnds ==
  /\ ChannelStarted
  /\ LinkUnchanged
  /\ UNCHANGED <<podsVars, env, reader>>

WorkerStops ==
  /\ stopAsked
  /\ ChannelStops
  /\ reader.pc = "idle"
  /\ LinkUnchanged
  /\ inbox' = <<>>
  /\ UNCHANGED <<env, podsOwner, crossed, reader>>

PodsClose ==
  /\ Spends("closes")
  /\ PeerCloses
  /\ LinkUnchanged
  /\ UNCHANGED <<podsVars, reader>>

-----------------------------------------------------------------------------
(* The AirPods, the other device, the user, PipeWire and the clock.        *)

Unheard ==
  UNCHANGED <<linkVars, ownVars, noteVars, jobVars, reader, hold>>

(* The other device takes them, or has them: they say so.                  *)
OtherTakes ==
  /\ Spends("takes")
  /\ Listening /\ Len(inbox) < MaxInbox
  /\ podsOwner' = "other" /\ crossed' = FALSE
  /\ inbox' = Append(inbox, "owns0")
  /\ Unheard
  /\ UNCHANGED <<pulseVars, wear, mode, busy, grace, take>>

(* What they relay of a device that has them.                              *)
PodsTell ==
  /\ Listening /\ Len(inbox) < MaxInbox
  /\ podsOwner = "other"
  /\ \E msg \in env.tells : inbox' = Append(inbox, msg)
  /\ Unheard
  /\ UNCHANGED <<pulseVars, wear, mode, env, podsOwner, crossed, busy, grace, take>>

PodsMove ==
  /\ Spends("moves")
  /\ wear' \in env.wears \ {wear}
  /\ Unheard
  /\ UNCHANGED <<podsVars, pulseVars, mode, busy, grace, take>>

UserSetsMode ==
  /\ mode' \in env.modes \ {mode}
  /\ Unheard
  /\ UNCHANGED <<podsVars, pulseVars, wear, env, busy, grace, take>>

(* Something starts playing (MPRIS), or the user asks for "Move here".     *)
UserPlays ==
  /\ Spends("plays")
  /\ \E manual \in BOOLEAN : TakeOver(manual)
  /\ Unheard
  /\ UNCHANGED <<podsVars, pulseVars, wear, mode, grace>>

(* PipeWire makes a card for headphones that connected.                    *)
CardAppears ==
  /\ connected /\ card = "none"
  /\ card' \in env.profiles
  /\ cardEvent' = TRUE
  /\ Unheard
  /\ UNCHANGED <<podsVars, wear, mode, env, busy, grace, routed, take>>

GraceEnds ==
  /\ grace
  /\ grace' = FALSE
  /\ Unheard
  /\ UNCHANGED <<podsVars, pulseVars, wear, mode, env, busy, take>>

-----------------------------------------------------------------------------

ChannelStep == WorkerOpens \/ WorkerEnds \/ WorkerStops

Environment ==
  \/ Connects \/ Disconnects \/ PodsClose
  \/ OtherTakes \/ PodsTell \/ PodsMove \/ UserSetsMode \/ UserPlays
  \/ CardAppears \/ GraceEnds

Next ==
  \/ \E w \in Workers : TakeStep(w)
  \/ ReaderStep \/ HoldStep \/ JobStep \/ CardListener
  \/ ChannelStep \/ Environment

Spec == Init /\ [][Next]_vars

(* Every thread of the daemon runs; the clock and PipeWire too. The user,   *)
(* the AirPods and the link owe nothing.                                   *)
Fairness ==
  /\ WF_vars(\E w \in Workers : TakeStep(w))
  /\ WF_vars(ReaderStep)
  /\ WF_vars(HoldStep)
  /\ WF_vars(JobStep)
  /\ WF_vars(CardListener)
  /\ WF_vars(WorkerEnds \/ WorkerStops)
  /\ WF_vars(GraceEnds)

FairSpec == Spec /\ Fairness

-----------------------------------------------------------------------------
(* Properties.                                                             *)

Busy(w) == take[w].pc # "idle"

(* The exchange on `busy` lets one takeover run at a time, and every way    *)
(* out of it clears the flag: a second worker would claim, route and       *)
(* resume across the first; a flag left set would refuse every later one.  *)
OneTakeover ==
  /\ \A v, w \in Workers : Busy(v) /\ Busy(w) => v = w
  /\ busy <=> \E w \in Workers : Busy(w)

(* TakeOver pauses the players to keep the first seconds off the speakers;  *)
(* on every way out they have been resumed.                                *)
ResumesWhatItPaused ==
  \A w \in Workers : take[w].paused => Busy(w)

(* R4, R12: with no report on its way, a claim the AirPods confirmed is     *)
(* one they still stand by: what lets a takeover conclude "already ours"   *)
(* without sending anything. The code does not keep it: a yield between a   *)
(* claim's packet and its `claimed = true` is overwritten by the latter,    *)
(* and the answer to the claim then confirms what was given away.          *)
ConfirmedIsTheirs ==
  (claimed /\ ownsReport = 1 /\ inbox = <<>> /\ reader.pc = "idle")
    => podsOwner = "us"

(* ... and this is all that can come between: with no yield in that window  *)
(* since the last claim or "owns connection 0", whatever else crosses.      *)
ConfirmedIsTheirsUnlessCrossed == ConfirmedIsTheirs \/ crossed

(* R3: when the AirPods' last word is that another device owns them, this   *)
(* computer ends up letting go, claiming them again, or losing the          *)
(* connection, also when the word came in a grace. (Not a word read while    *)
(* a claim is between its packet and `ownsReport = -1`: that wipes it,       *)
(* whether it came before the packet or after.)                            *)
LearnsItLostThem ==
  (inbox # <<>> /\ inbox[Len(inbox)] = "owns0" /\ own /\ claimed /\ ~Claiming)
    ~> (~own \/ ~claimed \/ podsOwner = "us" \/ ~Listening)

(* A takeover always ends: no wait in it is without a limit.               *)
TakeoverEnds == busy ~> ~busy

(* R6: audio that waited in the case comes on, with a claim, once they are  *)
(* worn (or they leave again). A playback that takes busy between the       *)
(* exchange on the flag and TakeOver() does it instead, except where the    *)
(* setting refuses it ("when last connected"): then nobody does.           *)
WaitedAudioComesOn ==
  (routeWhenWorn /\ InEar)
    ~> \/ claimed \/ ~own \/ ~connected \/ ~InEar
       \/ ~routeWhenWorn /\ \E w \in Workers : take[w].pc = "decide" /\ Refused(w)

(* R3 as the document says it, for a claim or none: an "owns connection 0"  *)
(* kept in the grace is looked at once the grace is over.                  *)
KeptReportIsLookedAt ==
  (own /\ connected /\ ownsReport = 0)
    ~> (~own \/ ~connected \/ ownsReport # 0)

(* What Release is for: once the AirPods are let go, their card goes off    *)
(* and this computer plays from its own speakers.                          *)
LetGoTurnsCardOff ==
  (released /\ ~own /\ card = "a2dp") ~> (own \/ card # "a2dp")

(* `claimed`: "owns connection" sent on this connection; so never without   *)
(* one.                                                                    *)
ClaimedOnThisConnection == claimed => connected

(* The grace: nothing said of the other device while a takeover is under    *)
(* way gives the audio back.                                               *)
TakeoverNotUndone ==
  [][(\E w \in Workers : take[w].pc \in {"flags", "card", "profile", "route",
                                         "apply", "resume"}) /\ own
       => own']_vars

=============================================================================
