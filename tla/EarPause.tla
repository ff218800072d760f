------------------------------- MODULE EarPause -------------------------------
(***************************************************************************)
(* Automatic ear detection: EarDetectionPause, called by the AirPods' and  *)
(* the Galaxy Buds' ear detection capabilities. Every change of the number *)
(* of buds in the ears starts a detached thread; under one lock each       *)
(* decides, then pauses or resumes the players over MPRIS.                 *)
(***************************************************************************)
EXTENDS Integers, FiniteSets

CONSTANTS
  Players,
  MaxMoves,   \* bound: buds put in or taken out
  Shared,     \* whether another device may take the AirPods meanwhile
  Resets      \* whether they may disconnect meanwhile

(* Of the constants; MCCapabilities assumes it.                            *)
ConstantsOK == MaxMoves \in Nat /\ Shared \in BOOLEAN /\ Resets \in BOOLEAN

VARIABLES
  podsInEar,         \* -1 before the first reading
  owns,              \* ownsAudio
  paused,            \* EarDetectionPause::paused
  inEarBeforePause,
  threads,           \* of Changed, each the n-th
  playing,           \* the players that play
  wanted,            \* history: what would play if players were paused at once,
  due, dueAt,        \* what of it is paused, and how many buds were in then (0: none)
  strayed,           \* history: a thread ran before an earlier one, Reset overtook one, a
                     \* change was skipped while another device had them, or PlaysOn
  moves

vars == <<podsInEar, owns, paused, inEarBeforePause, threads, playing, wanted, due,
          dueAt, strayed, moves>>
pauseVars == <<paused, inEarBeforePause>>
dueVars == <<wanted, due, dueAt>>

Buds == 0..2

TypeOK ==
  /\ podsInEar \in {-1} \cup Buds
  /\ owns \in BOOLEAN
  /\ paused \subseteq Players /\ playing \subseteq Players /\ due \subseteq Players
  /\ wanted \subseteq Players /\ strayed \in BOOLEAN
  /\ inEarBeforePause \in Buds /\ dueAt \in Buds
  /\ threads \subseteq [n: 1..MaxMoves, before: {-1} \cup Buds, now: Buds]
  /\ moves \in 0..MaxMoves

Init ==
  /\ podsInEar = -1 /\ owns = TRUE
  /\ paused = {} /\ inEarBeforePause = 0
  /\ threads = {}
  /\ playing \in SUBSET Players
  /\ wanted = playing /\ due = {} /\ dueAt = 0
  /\ strayed = FALSE
  /\ moves = 0

-----------------------------------------------------------------------------

(* Decide: -1, a bud went out with nothing paused yet ...                   *)
Pauses(before, now) == before >= 0 /\ now < before /\ paused = {}

(* Slip: the other bud has to be in too.                                   *)
ResumesAbove(before, now) == before >= 0 /\ now # before /\ now > inEarBeforePause /\ paused # {}

(* ... or 1, as many are in as before, and something is paused.             *)
Resumes(before, now) ==
  before >= 0 /\ now # before /\ now >= inEarBeforePause /\ paused # {}

PausesPlaying(t) ==
  /\ paused' = playing /\ playing' = {}
  /\ inEarBeforePause' = t.before

(* One thread of Changed, its lock held. MPRIS calls that fail are not      *)
(* modelled: the players stay.                                             *)
ChangedRuns(t) ==
  /\ threads' = threads \ {t}
  /\ strayed' = (strayed \/ \E u \in threads : u.n < t.n)
  /\ IF Pauses(t.before, t.now) THEN PausesPlaying(t)
     ELSE IF Resumes(t.before, t.now)
          THEN playing' = playing \cup paused /\ paused' = {} /\ UNCHANGED inEarBeforePause
          ELSE UNCHANGED <<pauseVars, playing>>
  /\ UNCHANGED <<podsInEar, owns, dueVars, moves>>

(* AapEarDetectionCapability::Update: the count changes at once; while      *)
(* another device has the AirPods the players are left alone.               *)
Update(now) ==
  /\ podsInEar' = now
  /\ threads' = IF owns /\ now # podsInEar
                THEN threads \cup {[n |-> moves + 1, before |-> podsInEar, now |-> now]}
                ELSE threads

(* What the declaration promises, done at once: a bud out pauses whatever   *)
(* plays, as many in as before resume exactly that.                        *)
NowWanted(now) ==
  LET goesOut == podsInEar > now /\ wanted # {}
      isBack == dueAt # 0 /\ now >= dueAt
  IN  /\ dueAt' = IF goesOut THEN (IF dueAt = 0 THEN podsInEar ELSE dueAt)
                  ELSE IF isBack THEN 0 ELSE dueAt
      /\ due' = IF goesOut THEN due \cup wanted ELSE IF isBack THEN {} ELSE due
      /\ wanted' = IF goesOut THEN {} ELSE IF isBack THEN wanted \cup due ELSE wanted

(* The one bud is out and something was paused for it; the user starts a    *)
(* player, takes the other bud out, and it plays on: the code pauses only   *)
(* when nothing is paused yet.                                             *)
PlaysOn(now) == due # {} /\ podsInEar > now /\ wanted # {}

PodsMove ==
  /\ moves < MaxMoves
  /\ \E now \in Buds \ {podsInEar} :
       (podsInEar >= 0 => now - podsInEar \in {-1, 1}) /\ Update(now) /\ NowWanted(now)
       /\ strayed' = (strayed \/ (~owns /\ podsInEar >= 0) \/ PlaysOn(now))
  /\ moves' = moves + 1
  /\ UNCHANGED <<owns, pauseVars, playing>>

(* Disconnected: nothing to resume later.                                  *)
Reset ==
  /\ Resets /\ podsInEar # -1
  /\ podsInEar' = -1
  /\ paused' = {}
  /\ due' = {} /\ dueAt' = 0
  /\ strayed' = (strayed \/ threads # {})
  /\ UNCHANGED <<owns, inEarBeforePause, threads, playing, wanted, moves>>

(* The user starts and stops players. (Whether one that changes in the      *)
(* moment a thread is on its way is paused is chance: left out.)            *)
UserPlays(p) ==
  /\ p \notin playing /\ threads = {}
  /\ playing' = playing \cup {p}
  /\ wanted' = wanted \cup {p}
  /\ UNCHANGED <<podsInEar, owns, pauseVars, threads, due, dueAt, strayed, moves>>

UserStops(p) ==
  /\ p \in playing /\ threads = {}
  /\ playing' = playing \ {p}
  /\ wanted' = wanted \ {p}
  /\ UNCHANGED <<podsInEar, owns, pauseVars, threads, due, dueAt, strayed, moves>>

OwnershipChanges ==
  /\ Shared
  /\ owns' = ~owns
  /\ UNCHANGED <<podsInEar, pauseVars, threads, playing, dueVars, strayed, moves>>

Next ==
  \/ \E t \in threads : ChangedRuns(t)
  \/ PodsMove \/ Reset \/ OwnershipChanges
  \/ \E p \in Players : UserPlays(p) \/ UserStops(p)

Spec == Init /\ [][Next]_vars

-----------------------------------------------------------------------------
(* Properties.                                                             *)

Settled == threads = {}

(* "putting it back resumes exactly those players": whatever was taken out  *)
(* and put back how fast, every player that should play does. The threads   *)
(* get the mutex in any order, so the code does not keep this ...           *)
PutBackResumes == Settled => wanted \subseteq playing

(* ... but it does while its threads run in the order they started, the     *)
(* computer has the AirPods at every change, no Reset meets a thread and    *)
(* the user starts no player between one bud out and the other (PlaysOn);   *)
(* and "taking a bud out pauses what plays", no more is resumed than that.  *)
FollowsUnlessStrayed == Settled /\ ~strayed => playing = wanted

=============================================================================
