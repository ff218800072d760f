-------------------------------- MODULE Ducking --------------------------------
(***************************************************************************)
(* Conversation awareness lowers the volume while the wearer speaks:       *)
(* AapConversationAwarenessStateCapability::Duck and Reset. Every report   *)
(* of the AirPods starts a detached thread with a generation of its own;   *)
(* the threads ramp the volume under one lock, taken in any order.         *)
(***************************************************************************)
EXTENDS Integers, FiniteSets

CONSTANTS
  Full,         \* the volume the user has set
  Share,        \* the share of it left while speaking is 1 / Share ("caVolume")
  STEPS,        \* of a ramp
  MaxReports,   \* bound: reports, and resets with it
  MaxAbsences,  \* bound: times the AirPods' sink goes
  Resets        \* whether the AirPods may disconnect

(* Of the constants; MCCapabilities assumes it.                            *)
ConstantsOK ==
  /\ Full \in Nat \ {0} /\ Share \in Nat \ {0} /\ STEPS \in Nat \ {0}
  /\ MaxReports \in Nat /\ MaxAbsences \in Nat /\ Resets \in BOOLEAN

VARIABLES
  owns,       \* ownsAudio
  sink,       \* the AirPods' sink is there
  volume,     \* and its volume
  duckGeneration,
  volumeBeforeDuck,
  threads,    \* of Duck
  duckLock,   \* the generation of its holder, 0 free
  reset,      \* Reset has dropped volumeBeforeDuck, duckGeneration is next
  speaking,   \* the AirPods' last report
  heeded,     \* history: of the last one Duck started a thread for, FALSE after Reset
  cut,        \* history: a ramp back up was cut short, or Reset came before it
  short,      \* history: the last ramp down was cut short
  strayed,    \* history: a thread found no sink, or took the lock in the middle of Reset
  absences

sinkVars == <<owns, sink, absences>>
reportVars == <<speaking, heeded>>
historyVars == <<cut, short, strayed>>
vars == <<sinkVars, volume, duckGeneration, volumeBeforeDuck, threads, duckLock, reset,
          reportVars, historyVars>>

Generations == 0..MaxReports
Volumes == 0..Full
NoVolume == -1     \* an empty volumeBeforeDuck

TypeOK ==
  /\ owns \in BOOLEAN /\ sink \in BOOLEAN
  /\ volume \in Volumes
  /\ duckGeneration \in Generations
  /\ volumeBeforeDuck \in Volumes \cup {NoVolume}
  /\ threads \subseteq [generation: Generations \ {0}, speaking: BOOLEAN,
                        pc: {"find", "lock", "ramp"},
                        current: Volumes, target: Volumes, i: 0..(STEPS + 1)]
  /\ duckLock \in Generations
  /\ reset \in BOOLEAN /\ speaking \in BOOLEAN /\ heeded \in BOOLEAN
  /\ cut \in BOOLEAN /\ short \in BOOLEAN /\ strayed \in BOOLEAN
  /\ absences \in 0..MaxAbsences

Init ==
  /\ owns = TRUE /\ sink = TRUE
  /\ volume = Full
  /\ duckGeneration = 0
  /\ volumeBeforeDuck = NoVolume
  /\ threads = {} /\ duckLock = 0
  /\ reset = FALSE
  /\ speaking = FALSE /\ heeded = FALSE
  /\ cut = FALSE /\ short = FALSE /\ strayed = FALSE
  /\ absences = 0

-----------------------------------------------------------------------------
(* Duck, on the channel's reader.                                          *)

Heeds(talks) == talks => owns

(* In "lock" a thread has found the sink, and waits for duckLock.          *)
Reported(talks) ==
  /\ duckGeneration + (IF reset THEN 1 ELSE 0) < MaxReports
  /\ speaking' = talks
  /\ IF Heeds(talks)
     THEN /\ duckGeneration' = duckGeneration + 1
          /\ threads' = threads \cup
               {[generation |-> duckGeneration + 1, speaking |-> talks, pc |-> "find",
                 current |-> 0, target |-> 0, i |-> 0]}
          /\ heeded' = talks
     ELSE UNCHANGED <<duckGeneration, threads, heeded>>
  /\ UNCHANGED <<sinkVars, volume, volumeBeforeDuck, duckLock, reset,
                 historyVars>>

Becomes(t, u) == threads' = (threads \ {t}) \cup {u}
Ends(t) == threads' = threads \ {t}

FindsSink(t) ==
  /\ t.pc = "find"
  /\ IF sink THEN Becomes(t, [t EXCEPT !.pc = "lock"]) ELSE Ends(t)
  /\ strayed' = (strayed \/ ~sink)
  /\ UNCHANGED <<sinkVars, volume, duckGeneration, volumeBeforeDuck, duckLock, reset,
                 reportVars, cut, short>>

Lowered(v) == v \div Share

(* Slip: every report of speaking notes the volume to come back to.        *)
RampsForAgain(t) == IF t.speaking THEN TRUE ELSE volumeBeforeDuck # NoVolume

(* "already lowered", or nothing to bring back.                            *)
RampsFor(t) == IF t.speaking THEN volumeBeforeDuck = NoVolume ELSE volumeBeforeDuck # NoVolume

IsNewest(t) == t.generation = duckGeneration

LockFree == duckLock = 0

(* The lock is taken: a newer report, no sink or nothing to do, or the      *)
(* ramp's two ends are set.                                                *)
TakesLock(t) ==
  /\ t.pc = "lock" /\ LockFree
  /\ IF IsNewest(t) /\ sink /\ RampsFor(t)
     THEN /\ duckLock' = t.generation
          /\ volumeBeforeDuck' = IF t.speaking THEN volume ELSE NoVolume
          /\ Becomes(t, [t EXCEPT !.pc = "ramp", !.i = 1, !.current = volume,
                                  !.target = IF t.speaking THEN Lowered(volume)
                                             ELSE volumeBeforeDuck])
          /\ short' = (short /\ ~t.speaking)
     ELSE Ends(t) /\ UNCHANGED <<duckLock, volumeBeforeDuck, short>>
  /\ strayed' = (strayed \/ ~sink \/ reset)
  /\ UNCHANGED <<sinkVars, volume, duckGeneration, reset, reportVars, cut>>

(* One round of the loop, as long as no newer report came in.               *)
RampStep(t) ==
  /\ t.pc = "ramp" /\ t.i <= STEPS /\ t.generation = duckGeneration
  /\ volume' = IF sink THEN t.current + ((t.target - t.current) * t.i) \div STEPS
               ELSE volume
  /\ Becomes(t, [t EXCEPT !.i = @ + 1])
  /\ strayed' = (strayed \/ ~sink)
  /\ UNCHANGED <<sinkVars, duckGeneration, volumeBeforeDuck, duckLock, reset, reportVars,
                 cut, short>>

RampEnds(t) ==
  /\ t.pc = "ramp" /\ (t.i > STEPS \/ t.generation # duckGeneration)
  /\ Ends(t) /\ duckLock' = 0
  /\ cut' = (cut \/ (t.i <= STEPS /\ ~t.speaking))
  /\ short' = (short \/ (t.i <= STEPS /\ t.speaking))
  /\ UNCHANGED <<sinkVars, volume, duckGeneration, volumeBeforeDuck, reset, reportVars,
                 strayed>>

DuckThread ==
  \E t \in threads : FindsSink(t) \/ TakesLock(t) \/ RampStep(t) \/ RampEnds(t)

-----------------------------------------------------------------------------
(* Reset, when they disconnect: first under the lock, then without it.      *)

ResetForgets ==
  /\ Resets /\ ~reset /\ LockFree /\ duckGeneration < MaxReports
  /\ volumeBeforeDuck' = NoVolume
  /\ reset' = TRUE
  /\ cut' = (cut \/ volumeBeforeDuck # NoVolume)
  /\ UNCHANGED <<sinkVars, volume, duckGeneration, threads, duckLock, reportVars, short,
                 strayed>>

ResetBumps ==
  /\ reset /\ duckGeneration < MaxReports
  /\ duckGeneration' = duckGeneration + 1
  /\ reset' = FALSE
  /\ heeded' = FALSE
  /\ UNCHANGED <<sinkVars, volume, volumeBeforeDuck, threads, duckLock, speaking, historyVars>>

(* The AirPods, the audio switch and the sound server. Their sink goes and  *)
(* comes with their card's profile; it comes back with the volume it had.   *)

PodsReport == \E talks \in BOOLEAN : Reported(talks)

OwnershipChanges ==
  /\ owns' = ~owns
  /\ UNCHANGED <<sink, absences, volume, duckGeneration, volumeBeforeDuck, threads,
                 duckLock, reset, reportVars, historyVars>>

SinkGoes ==
  /\ sink /\ absences < MaxAbsences
  /\ sink' = FALSE /\ absences' = absences + 1
  /\ UNCHANGED <<owns, volume, duckGeneration, volumeBeforeDuck, threads, duckLock,
                 reset, reportVars, historyVars>>

SinkComes ==
  /\ ~sink /\ sink' = TRUE
  /\ UNCHANGED <<owns, absences, volume, duckGeneration, volumeBeforeDuck, threads,
                 duckLock, reset, reportVars, historyVars>>

Next ==
  \/ PodsReport \/ DuckThread
  \/ ResetForgets \/ ResetBumps
  \/ OwnershipChanges \/ SinkGoes \/ SinkComes

Spec == Init /\ [][Next]_vars

-----------------------------------------------------------------------------
(* Properties.                                                             *)

(* "... lowers the volume to 30 % of its level while you speak" (README):   *)
(* once all threads are done, whatever the order they took the lock in, the *)
(* volume is at that share of the level the user had set, if the last       *)
(* report acted on in this connection said so. Not if a ramp down was cut   *)
(* short and no ramp since has set out, for a second report of speaking     *)
(* finds the volume "already lowered"; nor after a ramp back up was cut,    *)
(* for the level is lost then. (A thread that meets no sink, or Reset half   *)
(* done, is lost too.)                                                     *)
LoweredUnlessCut ==
  (threads = {} /\ heeded /\ ~reset /\ ~short /\ ~cut /\ ~strayed)
    => volume = Lowered(Full)

(* "... and brings it back afterwards" (README), to where it was, however   *)
(* often the wearer starts and stops. The code does not keep it.           *)
BroughtBack == (threads = {} /\ ~speaking /\ sink) => volume = Full

(* What it does keep: back to where it was, unless a ramp back up was cut   *)
(* short by any newer report (a start notes the volume it finds half way, a  *)
(* second stop finds nothing to bring back), or Reset came while lowered.  *)
BroughtBackUnlessCut == ~cut /\ ~strayed => BroughtBack

=============================================================================
