--------------------------- MODULE CapabilitiesProofs ---------------------------
(***************************************************************************)
(* The capabilities, for any characteristics, setters, players, headphones, *)
(* volumes and number of reports: what the runs of MCCapabilities check of  *)
(* the ATT requests, conversation awareness, ear detection and the effects. *)
(***************************************************************************)
EXTENDS MCCapabilities, Integers, TLAPS

-----------------------------------------------------------------------------
(* The ATT requests.                                                       *)

(* Whatever was queued and whether a request was outstanding: after Next    *)
(* one is, or nothing waits.                                               *)
LEMMA NextLeavesNoneWaiting ==
  ASSUME NEW q, NEW isBusy, NEW sent, SendNext(q, isBusy, sent)
  PROVE  WaitsForAnother'
<1>1. CASE (isBusy \/ q = <<>>) /\ queue' = q /\ busy' = isBusy
  BY <1>1 DEF WaitsForAnother
<1>2. CASE busy' = TRUE
  BY <1>2 DEF WaitsForAnother
<1> QED BY <1>1, <1>2 DEF SendNext

(* Each of the queue's callers goes through Next, or empties it.            *)
LEMMA WaitsForAnotherKept ==
  WaitsForAnother /\ [Next]_vars => WaitsForAnother'
<1> SUFFICES ASSUME WaitsForAnother, [Next]_vars
             PROVE  WaitsForAnother'
  OBVIOUS
<1>1. CASE Worker
  <2>1. CASE Connects \/ ConnectFails \/ Connected
    BY <2>1 DEF Connects, ConnectFails, Connected, queueVars, WaitsForAnother
  <2>2. CASE Reads
    BY <2>2, NextLeavesNoneWaiting DEF Reads, Push
  <2>3. CASE Clears
    BY <2>3 DEF Clears, Clear, WaitsForAnother
  <2> QED BY <1>1, <2>1, <2>2, <2>3 DEF Worker
<1>2. CASE Stops
  BY <1>2 DEF Stops, WaitsForAnother
<1>3. ASSUME NEW s \in Setters, SetterLooks(s) \/ SetterPushes(s)
      PROVE  WaitsForAnother'
  <2>1. CASE SetterLooks(s)
    BY <2>1 DEF SetterLooks, queueVars, WaitsForAnother
  <2>2. CASE SetterPushes(s)
    BY <2>2, NextLeavesNoneWaiting DEF SetterPushes, Push
  <2> QED BY <1>3, <2>1, <2>2
<1>4. CASE ReaderAnswered
  BY <1>4, NextLeavesNoneWaiting DEF ReaderAnswered, Answered
<1>5. CASE PodsIgnore \/ TwoSecondsPass
  BY <1>5 DEF PodsIgnore, TwoSecondsPass, WaitsForAnother
<1>6. CASE UNCHANGED vars
  BY <1>6 DEF vars, queueVars, WaitsForAnother
<1> QED BY <1>1, <1>2, <1>3, <1>4, <1>5, <1>6 DEF Next

(* A request waits only behind an outstanding one, through stops, restarts  *)
(* and requests that were given up.                                        *)
THEOREM NoneIsStranded == Spec => []WaitsForAnother
<1>1. Init => WaitsForAnother
  BY DEF Init, WaitsForAnother
<1> QED BY <1>1, WaitsForAnotherKept, PTL DEF Spec

(* At most one request is unanswered, only while the channel is up, and it  *)
(* is the one the queue takes to be outstanding.                           *)
OnlyOneOut ==
  /\ air # <<>> => /\ chan = "up" /\ busy /\ ~overdue
                  /\ \E r : air = <<r>> /\ (r.read => reading = r.handle)
  /\ stopped => chan = "off"
  /\ RightHandle

(* What Next sends is the only request out if none is unanswered.           *)
LEMMA NextSendsOne ==
  ASSUME NEW q, NEW isBusy, SendNext(q, isBusy, <<>>)
  PROVE  air' = <<>> \/ (/\ chan = "up" /\ busy' /\ ~overdue'
                        /\ \E r : air' = <<r>> /\ (r.read => reading' = r.handle))
<1>1. CASE air' = <<>>
  BY <1>1
<1>2. CASE /\ busy' = TRUE /\ overdue' = FALSE
           /\ reading' = IF Head(q).read THEN Head(q).handle ELSE NoHandle
           /\ air' = Out(<<>>, Head(q))
  BY <1>2 DEF Out
<1> QED BY <1>1, <1>2 DEF SendNext

(* A push leaves the unanswered request alone.                             *)
LEMMA PushKeepsOneOut ==
  ASSUME OnlyOneOut, NEW r, Push(r), UNCHANGED <<chan, stopped, value>>
  PROVE  OnlyOneOut'
<1>1. CASE air = <<>>
  BY <1>1, NextSendsOne DEF Push, OnlyOneOut, RightHandle
<1>2. CASE air # <<>>
  <2>1. /\ chan = "up" /\ busy /\ ~overdue
    BY <1>2 DEF OnlyOneOut
  <2>2. air' = air /\ busy' /\ ~overdue' /\ reading' = reading
    BY <2>1 DEF Push, SendNext
  <2> QED BY <1>2, <2>1, <2>2 DEF OnlyOneOut, RightHandle
<1> QED BY <1>1, <1>2

(* The invariant of the ATT queue is inductive while no answer comes late. *)
LEMMA OnlyOneOutKept ==
  ASSUME ~Late
  PROVE  OnlyOneOut /\ [Next]_vars => OnlyOneOut'
<1> SUFFICES ASSUME OnlyOneOut, [Next]_vars
             PROVE  OnlyOneOut'
  OBVIOUS
<1>1. CASE Connects \/ ConnectFails \/ Connected
  BY <1>1 DEF Connects, ConnectFails, Connected, queueVars, OnlyOneOut, RightHandle
<1>2. CASE Reads
  BY <1>2, PushKeepsOneOut DEF Reads
<1>3. CASE Clears
  BY <1>3 DEF Clears, Clear, OnlyOneOut, RightHandle
<1>4. CASE Stops
  BY <1>4 DEF Stops, OnlyOneOut, RightHandle
<1>5. ASSUME NEW s \in Setters, SetterLooks(s) PROVE OnlyOneOut'
  BY <1>5 DEF SetterLooks, queueVars, OnlyOneOut, RightHandle
<1>6. ASSUME NEW s \in Setters, SetterPushes(s) PROVE OnlyOneOut'
  BY <1>6, PushKeepsOneOut DEF SetterPushes
<1>7. CASE ReaderAnswered
  <2>1. PICK r : air = <<r>> /\ (r.read => reading = r.handle)
    BY <1>7 DEF ReaderAnswered, OnlyOneOut
  <2>2. chan = "up" /\ busy /\ Head(air) = r /\ Tail(air) = <<>>
    BY <1>7, <2>1 DEF ReaderAnswered, OnlyOneOut
  <2>3. RightHandle'
    BY <1>7, <2>1, <2>2 DEF ReaderAnswered, OnlyOneOut, RightHandle
  <2> QED BY <1>7, <2>2, <2>3, NextSendsOne DEF ReaderAnswered, Answered, OnlyOneOut
<1>8. CASE PodsIgnore
  <2>1. PICK r : air = <<r>>
    BY <1>8 DEF PodsIgnore, OnlyOneOut
  <2>2. Tail(air) = <<>>
    BY <2>1
  <2> QED BY <1>8, <2>2 DEF PodsIgnore, OnlyOneOut, RightHandle
<1>9. CASE TwoSecondsPass
  BY <1>9 DEF TwoSecondsPass, OnlyOneOut, RightHandle
<1>10. CASE UNCHANGED vars
  BY <1>10 DEF vars, queueVars, OnlyOneOut, RightHandle
<1> QED BY <1>1, <1>2, <1>3, <1>4, <1>5, <1>6, <1>7, <1>8, <1>9, <1>10 DEF Next, Worker

(* OnAttData hands on what was read from the characteristic it is taken     *)
(* for, through requests that are never answered, stops and restarts: if    *)
(* the AirPods answer within the two seconds or not at all.                *)
THEOREM AnsweredAsAsked ==
  ASSUME ~Late
  PROVE  Spec => []RightHandle
<1>1. Init => OnlyOneOut
  BY DEF Init, OnlyOneOut, RightHandle
<1>2. OnlyOneOut => RightHandle
  BY DEF OnlyOneOut
<1> QED BY <1>1, <1>2, OnlyOneOutKept, PTL DEF Spec

-----------------------------------------------------------------------------
(* Conversation awareness.                                                 *)

(* A round of the ramp lies between its two ends, and the last one at its   *)
(* target: d is what lies between them, n the number of rounds.             *)
LEMMA ShareOf ==
  ASSUME NEW d \in Int, NEW n \in Nat \ {0}, NEW i \in 1..n
  PROVE  /\ (d * i) \div n \in Int
         /\ d >= 0 => 0 <= (d * i) \div n /\ (d * i) \div n <= d
         /\ d <= 0 => d <= (d * i) \div n /\ (d * i) \div n <= 0
         /\ i = n => (d * i) \div n = d
<1> DEFINE q == (d * i) \div n
<1>1. d * i \in Int /\ q \in Int /\ n * q <= d * i /\ d * i < n * q + n
  OBVIOUS
<1>2. d >= 0 => 0 <= d * i /\ d * i <= d * n
  OBVIOUS
<1>3. d <= 0 => d * n <= d * i /\ d * i <= 0
  OBVIOUS
<1> HIDE DEF q
<1>4. d >= 0 => 0 <= q /\ q <= d
  BY <1>1, <1>2
<1>5. d <= 0 => d <= q /\ q <= 0
  BY <1>1, <1>3
<1>6. i = n => q = d
  BY <1>1
<1> QED BY <1>1, <1>4, <1>5, <1>6 DEF q

(* Ducking's constants are among those assumed of the whole.               *)
LEMMA DucksAssumed == Ducks!ConstantsOK
BY CapabilitiesAssumption

(* A round sets a volume between the ramp's ends.                          *)
LEMMA RoundIsVolume ==
  ASSUME NEW c \in Ducks!Volumes, NEW v \in Ducks!Volumes, NEW i \in 1..STEPS
  PROVE  /\ c + ((v - c) * i) \div STEPS \in Ducks!Volumes
         /\ i = STEPS => c + ((v - c) * i) \div STEPS = v
<1>1. Full \in Nat /\ STEPS \in Nat \ {0} /\ c \in Int /\ v \in Int
  BY DucksAssumed DEF Ducks!ConstantsOK, Ducks!Volumes
<1> DEFINE d == v - c
           q == (d * i) \div STEPS
<1>9. d \in Int
  BY <1>1
<1> HIDE DEF d
<1>8. /\ q \in Int
      /\ d >= 0 => 0 <= q /\ q <= d
      /\ d <= 0 => d <= q /\ q <= 0
      /\ i = STEPS => q = d
  BY <1>9, <1>1, ShareOf, Zenon
<1> HIDE DEF q
<1>2. /\ q \in Int
      /\ v - c >= 0 => 0 <= q /\ q <= v - c
      /\ v - c <= 0 => v - c <= q /\ q <= 0
      /\ i = STEPS => q = v - c
  BY <1>8 DEF d
<1>3. c + q \in 0..Full /\ (i = STEPS => c + q = v)
  BY <1>1, <1>2 DEF Ducks!Volumes
<1> QED BY <1>3 DEF q, d, Ducks!Volumes

(* What is left while they speak.                                          *)
LEMMA LoweredIsVolume ==
  ASSUME NEW v \in Ducks!Volumes
  PROVE  Ducks!Lowered(v) \in Ducks!Volumes
<1>1. Full \in Nat /\ Share \in Nat \ {0} /\ v \in Nat
  BY DucksAssumed DEF Ducks!ConstantsOK, Ducks!Volumes
<1> DEFINE q == v \div Share
<1>2. q \in Int /\ Share * q <= v /\ v < Share * q + Share
  BY <1>1
<1> HIDE DEF q
<1>3. 0 <= q /\ q <= v
  BY <1>1, <1>2
<1> QED BY <1>1, <1>2, <1>3 DEF q, Ducks!Lowered, Ducks!Volumes

DuckThreads == [generation: Ducks!Generations \ {0}, speaking: BOOLEAN,
                pc: {"find", "lock", "ramp"},
                current: Ducks!Volumes, target: Ducks!Volumes, i: 0..(STEPS + 1)]

DuckType ==
  /\ volume \in Ducks!Volumes
  /\ duckGeneration \in Ducks!Generations
  /\ volumeBeforeDuck \in Ducks!Volumes \cup {Ducks!NoVolume}
  /\ threads \subseteq DuckThreads
  /\ duckLock \in Ducks!Generations

DuckFlags ==
  /\ owns \in BOOLEAN /\ sink \in BOOLEAN /\ reset \in BOOLEAN
  /\ speaking \in BOOLEAN /\ heeded \in BOOLEAN
  /\ cut \in BOOLEAN /\ short \in BOOLEAN /\ strayed \in BOOLEAN

(* Every report has a generation of its own, and the holder of duckLock is  *)
(* the one thread that ramps.                                              *)
OneRamps ==
  /\ \A t \in threads : t.generation <= duckGeneration
  /\ \A t, u \in threads : t.generation = u.generation => t = u
  /\ \A t \in threads : t.pc = "ramp" => t.generation = duckLock
  /\ duckLock # 0 => \E t \in threads : t.pc = "ramp"

(* Only the newest thread counts: it has lowered the volume or brought it   *)
(* back once it ramps, and what it has done holds when it is gone.          *)
NewestDecides ==
  ~strayed =>
    /\ reset => volumeBeforeDuck = Ducks!NoVolume
    /\ ~reset =>
         /\ \A t \in threads : t.generation = duckGeneration => (t.speaking <=> heeded)
         /\ (\A t \in threads : t.generation = duckGeneration => t.pc = "ramp")
              => (heeded <=> volumeBeforeDuck # Ducks!NoVolume)

(* The user's volume is the sink's, is noted, or is what a ramp ends at.    *)
VolumeIsKept ==
  /\ heeded => speaking
  /\ ~cut /\ ~strayed =>
       /\ duckLock = 0 => IF volumeBeforeDuck = Ducks!NoVolume THEN volume = Full
                          ELSE volumeBeforeDuck = Full
       /\ \A t \in threads :
            /\ t.pc = "ramp" /\ t.speaking => volumeBeforeDuck = Full
            /\ t.pc = "ramp" /\ ~t.speaking =>
                 /\ volumeBeforeDuck = Ducks!NoVolume /\ t.target = Full
                 /\ t.i > STEPS => volume = Full

(* A ramp down ends at the share of it, and leaves the volume there.        *)
LoweringIsKept ==
  ~cut /\ ~strayed /\ ~short =>
    /\ duckLock = 0 /\ volumeBeforeDuck # Ducks!NoVolume => volume = Ducks!Lowered(Full)
    /\ \A t \in threads :
         t.pc = "ramp" /\ t.speaking =>
           /\ t.target = Ducks!Lowered(Full)
           /\ t.i > STEPS => volume = Ducks!Lowered(Full)

RampsFromOne == \A t \in threads : t.pc = "ramp" => t.i # 0

DuckInv ==
  /\ DuckType /\ DuckFlags /\ OneRamps /\ RampsFromOne
  /\ NewestDecides /\ VolumeIsKept /\ LoweringIsKept

(* It holds before the first report.                                       *)
LEMMA DuckInit == Ducks!Init => DuckInv
<1> SUFFICES ASSUME Ducks!Init PROVE DuckInv
  OBVIOUS
<1>1. Full \in Nat \ {0} /\ MaxReports \in Nat
  BY DucksAssumed DEF Ducks!ConstantsOK
<1>2. DuckFlags
  BY DEF Ducks!Init, DuckFlags
<1> QED BY <1>1, <1>2 DEF Ducks!Init, DuckInv, DuckType, OneRamps, RampsFromOne,
           NewestDecides, VolumeIsKept, LoweringIsKept, Ducks!Volumes, Ducks!Generations

(* A report: a new generation, or none.                                    *)
LEMMA DuckReports ==
  ASSUME DuckInv, Ducks!PodsReport
  PROVE  DuckInv'
<1> USE DEF Ducks!sinkVars, Ducks!historyVars
<1>1. PICK talks \in BOOLEAN : Ducks!Reported(talks)
  BY DEF Ducks!PodsReport
<1>2. CASE ~Ducks!Heeds(talks)
  <2>1. UNCHANGED <<volume, duckGeneration, volumeBeforeDuck, threads, duckLock>>
        /\ UNCHANGED <<owns, sink, reset, heeded, cut, short, strayed>> /\ speaking' = talks
        /\ talks = TRUE
    BY <1>1, <1>2 DEF Ducks!Reported, Ducks!Heeds
  <2>2. DuckFlags'
    BY <2>1 DEF DuckFlags, DuckInv
  <2>3. DuckType' /\ OneRamps' /\ RampsFromOne'
    BY <2>1 DEF DuckInv, DuckType, OneRamps, RampsFromOne
  <2>4. NewestDecides' /\ VolumeIsKept' /\ LoweringIsKept'
    BY <2>1 DEF DuckInv, NewestDecides, VolumeIsKept, LoweringIsKept
  <2> QED BY <2>2, <2>3, <2>4 DEF DuckInv
<1>3. CASE Ducks!Heeds(talks)
  <2> DEFINE u == [generation |-> duckGeneration + 1, speaking |-> talks, pc |-> "find",
                   current |-> 0, target |-> 0, i |-> 0]
  <2>1. /\ duckGeneration' = duckGeneration + 1 /\ threads' = threads \cup {u}
        /\ UNCHANGED <<volume, volumeBeforeDuck, duckLock>>
        /\ UNCHANGED <<owns, sink, reset, cut, short, strayed>>
        /\ speaking' = talks /\ heeded' = talks
    BY <1>1, <1>3 DEF Ducks!Reported
  <2>2. duckGeneration \in Nat /\ duckGeneration + 1 \in Ducks!Generations \ {0}
    <3>1. MaxReports \in Nat /\ duckGeneration \in 0..MaxReports
      BY DucksAssumed DEF DuckInv, DuckType, Ducks!Generations, Ducks!ConstantsOK
    <3>2. duckGeneration + (IF reset THEN 1 ELSE 0) < MaxReports
      BY <1>1 DEF Ducks!Reported
    <3> QED BY <3>1, <3>2 DEF Ducks!Generations
  <2>3. u \in DuckThreads
    <3>1. 0 \in Ducks!Volumes /\ 0 \in 0..(STEPS + 1)
      BY DucksAssumed DEF Ducks!ConstantsOK, Ducks!Volumes
    <3> QED BY <2>2, <3>1 DEF DuckThreads
  <2>4. /\ u.generation = duckGeneration + 1 /\ (u.speaking <=> talks)
        /\ u.pc = "find"
    OBVIOUS
  <2> HIDE DEF u
  <2>5. DuckFlags'
    BY <2>1 DEF DuckFlags, DuckInv
  <2>6. DuckType'
    BY <2>1, <2>2, <2>3 DEF DuckInv, DuckType
  <2>7. \A t \in threads : t.generation \in Nat /\ t.generation <= duckGeneration
    BY DucksAssumed
       DEF DuckInv, DuckType, DuckThreads, OneRamps, Ducks!Generations, Ducks!ConstantsOK
  <2>8. OneRamps' /\ RampsFromOne'
    BY <2>1, <2>2, <2>4, <2>7 DEF DuckInv, OneRamps, RampsFromOne
  <2>9. NewestDecides'
    <3>1. \A t \in threads' : t.generation = duckGeneration' => t = u
      BY <2>1, <2>2, <2>7
    <3> QED BY <2>1, <2>4, <3>1 DEF DuckInv, NewestDecides
  <2>10. VolumeIsKept' /\ LoweringIsKept'
    BY <2>1, <2>4 DEF DuckInv, VolumeIsKept, LoweringIsKept
  <2> QED BY <2>5, <2>6, <2>8, <2>9, <2>10 DEF DuckInv
<1> QED BY <1>2, <1>3

(* A thread moves on, or is gone: what that leaves alone.                   *)
LEMMA DuckThreadMoves ==
  ASSUME DuckInv, NEW t \in threads, NEW u \in DuckThreads,
         u.generation = t.generation, u.speaking <=> t.speaking, threads' = (threads \ {t}) \cup {u},
         UNCHANGED duckGeneration
  PROVE  /\ threads' \subseteq DuckThreads
         /\ \A w \in threads' : w.generation <= duckGeneration'
         /\ \A w, x \in threads' : w.generation = x.generation => w = x
         /\ \A w \in threads' : w = u \/ (w \in threads /\ w.generation # t.generation)
BY DEF DuckInv, DuckType, OneRamps

(* A thread that ends leaves the others as they were.                      *)
LEMMA DuckThreadGoes ==
  ASSUME DuckInv, NEW t \in threads, threads' = threads \ {t}, UNCHANGED duckGeneration
  PROVE  /\ threads' \subseteq DuckThreads
         /\ \A w \in threads' : w.generation <= duckGeneration'
         /\ \A w, x \in threads' : w.generation = x.generation => w = x
         /\ \A w \in threads' : w \in threads /\ w.generation # t.generation
BY DEF DuckInv, DuckType, OneRamps

(* A thread finds the sink, or does not.                                   *)
LEMMA DuckFinds ==
  ASSUME DuckInv, NEW t \in threads, Ducks!FindsSink(t)
  PROVE  DuckInv'
<1> USE DEF Ducks!sinkVars, Ducks!reportVars
<1> DEFINE u == [t EXCEPT !.pc = "lock"]
<1>1. /\ UNCHANGED <<volume, duckGeneration, volumeBeforeDuck, duckLock>>
      /\ UNCHANGED <<owns, sink, reset, speaking, heeded, cut, short>>
      /\ t.pc = "find" /\ strayed' = (strayed \/ ~sink)
  BY DEF Ducks!FindsSink
<1>2. t \in DuckThreads
  BY DEF DuckInv, DuckType
<1>3. /\ u \in DuckThreads /\ u.generation = t.generation /\ (u.speaking <=> t.speaking)
      /\ u.pc = "lock"
  BY <1>2 DEF DuckThreads
<1>4. \/ sink /\ threads' = (threads \ {t}) \cup {u}
      \/ ~sink /\ threads' = threads \ {t}
  BY Zenon DEF Ducks!FindsSink, Ducks!Becomes, Ducks!Ends
<1> HIDE DEF u
<1>5. DuckFlags'
  BY <1>1 DEF DuckInv, DuckFlags
<1>6. CASE sink /\ threads' = (threads \ {t}) \cup {u}
  <2>1. DuckType' /\ OneRamps' /\ RampsFromOne'
    BY <1>1, <1>3, <1>6, DuckThreadMoves DEF DuckInv, DuckType, OneRamps, RampsFromOne
  <2>2. NewestDecides' /\ VolumeIsKept' /\ LoweringIsKept'
    BY <1>1, <1>3, <1>6 DEF DuckInv, NewestDecides, VolumeIsKept, LoweringIsKept
  <2> QED BY <1>5, <2>1, <2>2 DEF DuckInv
<1>7. CASE ~sink /\ threads' = threads \ {t}
  <2>1. DuckType' /\ OneRamps' /\ RampsFromOne'
    BY <1>1, <1>7, DuckThreadGoes DEF DuckInv, DuckType, OneRamps, RampsFromOne
  <2>2. NewestDecides' /\ VolumeIsKept' /\ LoweringIsKept'
    BY <1>1, <1>7 DEF DuckInv, NewestDecides, VolumeIsKept, LoweringIsKept
  <2> QED BY <1>5, <2>1, <2>2 DEF DuckInv
<1> QED BY <1>4, <1>6, <1>7

(* A thread takes duckLock and sets out from the volume of the moment.     *)
LEMMA DuckTakesLock ==
  ASSUME DuckInv, NEW t \in threads, Ducks!TakesLock(t)
  PROVE  DuckInv'
<1> USE DEF Ducks!sinkVars, Ducks!reportVars
<1> DEFINE target == IF t.speaking THEN Ducks!Lowered(volume) ELSE volumeBeforeDuck
           u == [t EXCEPT !.pc = "ramp", !.i = 1, !.current = volume, !.target = target]
<1>1. /\ UNCHANGED <<volume, duckGeneration>>
      /\ UNCHANGED <<owns, sink, reset, speaking, heeded, cut>>
      /\ t.pc = "lock" /\ duckLock = 0
      /\ strayed' = (strayed \/ ~sink \/ reset)
  BY DEF Ducks!TakesLock, Ducks!LockFree
<1>2. t \in DuckThreads /\ (t.speaking = TRUE \/ t.speaking = FALSE)
  BY DEF DuckInv, DuckType, DuckThreads
<1>3. \/ /\ t.generation = duckGeneration /\ sink /\ Ducks!RampsFor(t)
         /\ threads' = (threads \ {t}) \cup {u} /\ duckLock' = t.generation
         /\ volumeBeforeDuck' = IF t.speaking THEN volume ELSE Ducks!NoVolume
         /\ short' = (short /\ ~t.speaking)
      \/ /\ ~(t.generation = duckGeneration /\ sink /\ Ducks!RampsFor(t))
         /\ threads' = threads \ {t} /\ UNCHANGED <<duckLock, volumeBeforeDuck, short>>
  BY Zenon DEF Ducks!TakesLock, Ducks!Becomes, Ducks!Ends, Ducks!IsNewest
<1>4. \A w \in threads : w.pc # "ramp"
  <2>1. \A w \in threads : w.generation # 0
    BY DEF DuckInv, DuckType, DuckThreads
  <2> QED BY <1>1, <2>1 DEF DuckInv, OneRamps
<1>5. DuckFlags'
  <2>1. short' \in BOOLEAN
    BY <1>3, Zenon DEF DuckInv, DuckFlags
  <2> QED BY <1>1, <2>1 DEF DuckInv, DuckFlags
<1>6. CASE /\ t.generation = duckGeneration /\ sink /\ Ducks!RampsFor(t)
           /\ threads' = (threads \ {t}) \cup {u} /\ duckLock' = t.generation
           /\ volumeBeforeDuck' = IF t.speaking THEN volume ELSE Ducks!NoVolume
           /\ short' = (short /\ ~t.speaking)
  <2>1. t.speaking => volumeBeforeDuck = Ducks!NoVolume
    BY <1>6 DEF Ducks!RampsFor
  <2>2. ~t.speaking => volumeBeforeDuck \in Ducks!Volumes
    BY <1>6 DEF Ducks!RampsFor, DuckInv, DuckType
  <2>3. target \in Ducks!Volumes /\ volume \in Ducks!Volumes
    <3>1. volume \in Ducks!Volumes
      BY DEF DuckInv, DuckType
    <3>2. Ducks!Lowered(volume) \in Ducks!Volumes
      BY <3>1, LoweredIsVolume
    <3> QED BY <1>2, <2>2, <3>1, <3>2
  <2>4. target = IF t.speaking THEN Ducks!Lowered(volume) ELSE volumeBeforeDuck
    OBVIOUS
  <2> HIDE DEF target
  <2>5. /\ u \in DuckThreads /\ u.generation = t.generation /\ (u.speaking <=> t.speaking)
        /\ u.pc = "ramp" /\ u.i = 1 /\ u.target = target
    <3>1. 1 \in 0..(STEPS + 1)
      BY DucksAssumed DEF Ducks!ConstantsOK
    <3> QED BY <1>2, <2>3, <3>1 DEF DuckThreads
  <2> HIDE DEF u
  <2>6. volume # Ducks!NoVolume
    BY <2>3, DucksAssumed DEF Ducks!NoVolume, Ducks!Volumes, Ducks!ConstantsOK
  <2>7. /\ t.speaking => volumeBeforeDuck' = volume
        /\ ~t.speaking => volumeBeforeDuck' = Ducks!NoVolume
    BY <1>6
  <2>8. DuckType'
    BY <1>1, <1>2, <1>6, <2>3, <2>5, <2>7, DuckThreadMoves DEF DuckInv, DuckType, DuckThreads
  <2>9. OneRamps' /\ RampsFromOne'
    BY <1>1, <1>4, <1>6, <2>5, DuckThreadMoves DEF DuckInv, OneRamps, RampsFromOne
  <2>10. NewestDecides'
    <3>1. SUFFICES ASSUME ~strayed' PROVE NewestDecides'
      BY DEF NewestDecides
    <3>2. ~strayed /\ ~reset /\ ~reset'
      BY <1>1, <3>1
    <3>3. t.speaking <=> heeded
      BY <1>6, <3>2 DEF DuckInv, NewestDecides
    <3>4. \A w \in threads' : w.generation = duckGeneration' => w = u
      BY <1>1, <1>6, <2>5, DuckThreadMoves
    <3>5. heeded' <=> volumeBeforeDuck' # Ducks!NoVolume
      BY <1>1, <2>6, <2>7, <3>3
    <3> QED BY <1>1, <2>5, <3>2, <3>3, <3>4, <3>5 DEF NewestDecides
  <2>11. VolumeIsKept'
    <3>1. heeded' => speaking'
      BY <1>1 DEF DuckInv, VolumeIsKept
    <3>2. SUFFICES ASSUME ~cut', ~strayed'
                   PROVE  /\ duckLock' # 0
                          /\ u.speaking => volumeBeforeDuck' = Full
                          /\ ~u.speaking => /\ volumeBeforeDuck' = Ducks!NoVolume
                                            /\ u.target = Full /\ ~(u.i > STEPS)
      <4>1. \A w \in threads' : w.pc = "ramp" => w = u
        BY <1>4, <1>6
      <4> QED BY <3>1, <4>1 DEF VolumeIsKept
    <3>3. ~cut /\ ~strayed
      BY <1>1, <3>2
    <3>4. duckLock' # 0
      BY <1>2, <1>6 DEF DuckThreads
    <3>5. ~(1 > STEPS)
      BY DucksAssumed DEF Ducks!ConstantsOK
    <3>6. t.speaking => volume = Full
      BY <1>1, <2>1, <3>3 DEF DuckInv, VolumeIsKept
    <3>7. ~t.speaking => volumeBeforeDuck = Full
      BY <1>1, <1>6, <3>3 DEF DuckInv, VolumeIsKept, Ducks!RampsFor
    <3> QED BY <2>4, <2>5, <2>7, <3>4, <3>5, <3>6, <3>7
  <2>12. LoweringIsKept'
    <3>1. SUFFICES ASSUME ~cut', ~strayed' PROVE LoweringIsKept'
      BY DEF LoweringIsKept
    <3>2. ~cut /\ ~strayed
      BY <1>1, <3>1
    <3>3. duckLock' # 0
      BY <1>2, <1>6 DEF DuckThreads
    <3>4. ~(1 > STEPS)
      BY DucksAssumed DEF Ducks!ConstantsOK
    <3>5. \A w \in threads' : w.pc = "ramp" => w = u
      BY <1>4, <1>6
    <3>6. t.speaking => u.target = Ducks!Lowered(Full)
      BY <1>1, <2>1, <2>4, <2>5, <3>2 DEF DuckInv, VolumeIsKept
    <3> QED BY <2>5, <3>3, <3>4, <3>5, <3>6 DEF LoweringIsKept
  <2> QED BY <1>5, <2>8, <2>9, <2>10, <2>11, <2>12 DEF DuckInv
<1>7. CASE /\ ~(t.generation = duckGeneration /\ sink /\ Ducks!RampsFor(t))
           /\ threads' = threads \ {t} /\ UNCHANGED <<duckLock, volumeBeforeDuck, short>>
  <2>1. DuckType' /\ OneRamps' /\ RampsFromOne'
    BY <1>1, <1>7, DuckThreadGoes DEF DuckInv, DuckType, OneRamps, RampsFromOne
  <2>2. NewestDecides'
    <3>1. SUFFICES ASSUME ~strayed' PROVE NewestDecides'
      BY DEF NewestDecides
    <3>2. ~strayed /\ ~reset /\ ~reset' /\ sink
      BY <1>1, <3>1 DEF DuckInv, DuckFlags
    <3>3. CASE t.generation # duckGeneration
      BY <1>1, <1>7, <3>2, <3>3, DuckThreadGoes DEF DuckInv, NewestDecides
    <3>4. CASE t.generation = duckGeneration
      <4>1. t.speaking <=> heeded
        BY <3>2, <3>4 DEF DuckInv, NewestDecides
      <4>2. heeded <=> volumeBeforeDuck # Ducks!NoVolume
        BY <1>2, <1>7, <3>2, <3>4, <4>1 DEF Ducks!RampsFor
      <4>3. \A w \in threads' : w.generation # duckGeneration'
        BY <1>1, <1>7, <3>4, DuckThreadGoes
      <4> QED BY <1>1, <1>7, <3>2, <4>2, <4>3 DEF NewestDecides
    <3> QED BY <3>3, <3>4
  <2>3. VolumeIsKept' /\ LoweringIsKept'
    BY <1>1, <1>7 DEF DuckInv, VolumeIsKept, LoweringIsKept
  <2> QED BY <1>5, <2>1, <2>2, <2>3 DEF DuckInv
<1> QED BY <1>3, <1>6, <1>7

(* A step of the ramp.                                                     *)
LEMMA DuckRampSteps ==
  ASSUME DuckInv, NEW t \in threads, Ducks!RampStep(t)
  PROVE  DuckInv'
<1> USE DEF Ducks!sinkVars, Ducks!reportVars
<1> DEFINE u == [t EXCEPT !.i = @ + 1]
<1>1. /\ UNCHANGED <<duckGeneration, volumeBeforeDuck, duckLock>>
      /\ UNCHANGED <<owns, sink, reset, speaking, heeded, cut, short>>
      /\ t.pc = "ramp" /\ t.i <= STEPS /\ t.generation = duckGeneration
      /\ strayed' = (strayed \/ ~sink)
      /\ threads' = (threads \ {t}) \cup {u}
  BY DEF Ducks!RampStep, Ducks!Becomes
<1>2. t \in DuckThreads /\ volume \in Ducks!Volumes
  BY DEF DuckInv, DuckType
<1>3. STEPS \in Nat /\ t.i \in 0..(STEPS + 1) /\ t.i <= STEPS
  BY <1>1, <1>2, DucksAssumed DEF DuckThreads, Ducks!ConstantsOK
<1>4. t.i + 1 \in 0..(STEPS + 1)
  BY <1>3
<1>5. /\ u \in DuckThreads /\ u.generation = t.generation /\ (u.speaking <=> t.speaking)
      /\ u.pc = "ramp" /\ u.i = t.i + 1 /\ u.target = t.target
  BY <1>1, <1>2, <1>4 DEF DuckThreads
<1> HIDE DEF u
<1>6. t.i # 0
  BY DEF DuckInv, RampsFromOne, Ducks!RampStep
<1>7. /\ ~sink => volume' = volume
      /\ sink => volume' = t.current + ((t.target - t.current) * t.i) \div STEPS
  BY DEF Ducks!RampStep
<1>8. /\ t.current + ((t.target - t.current) * t.i) \div STEPS \in Ducks!Volumes
      /\ t.i = STEPS => t.current + ((t.target - t.current) * t.i) \div STEPS = t.target
  <2>1. t.i \in 1..STEPS
    BY <1>3, <1>6
  <2>2. t.current \in Ducks!Volumes /\ t.target \in Ducks!Volumes
    BY <1>2 DEF DuckThreads
  <2> QED BY <2>1, <2>2, RoundIsVolume
<1>9. DuckFlags'
  BY <1>1 DEF DuckInv, DuckFlags
<1>10. DuckType'
  <2>1. volume' \in Ducks!Volumes
    BY <1>2, <1>7, <1>8, Zenon
  <2> QED BY <1>1, <1>5, <2>1, DuckThreadMoves DEF DuckInv, DuckType
<1>11. OneRamps'
  BY <1>1, <1>5, DuckThreadMoves DEF DuckInv, OneRamps
<1>12. NewestDecides'
  BY <1>1, <1>5 DEF DuckInv, NewestDecides
<1>13. \A w \in threads' : w.pc = "ramp" => w = u
  <2>1. \A w \in threads : w.pc = "ramp" => w.generation = t.generation
    BY <1>1 DEF DuckInv, OneRamps
  <2> QED BY <1>1, <1>5, <2>1, DuckThreadMoves
<1>14. sink /\ u.i > STEPS => volume' = t.target
  <2>1. u.i > STEPS => t.i = STEPS
    BY <1>3, <1>5
  <2> QED BY <1>7, <1>8, <2>1
<1>15. duckLock' # 0
  BY <1>1, <1>2 DEF DuckInv, OneRamps, DuckThreads
<1>16. LoweringIsKept'
  <2>1. SUFFICES ASSUME ~cut', ~strayed', ~short' PROVE LoweringIsKept'
    BY DEF LoweringIsKept
  <2>2. ~cut /\ ~strayed /\ ~short /\ sink
    BY <1>1, <2>1 DEF DuckInv, DuckFlags
  <2>3. t.speaking => t.target = Ducks!Lowered(Full)
    BY <1>1, <2>2 DEF DuckInv, LoweringIsKept
  <2> QED BY <1>5, <1>13, <1>14, <1>15, <2>2, <2>3 DEF LoweringIsKept
<1>17. VolumeIsKept'
  <2>1. heeded' => speaking'
    BY <1>1 DEF DuckInv, VolumeIsKept
  <2>2. SUFFICES ASSUME ~cut', ~strayed' PROVE VolumeIsKept'
    BY <2>1 DEF VolumeIsKept
  <2>3. ~cut /\ ~strayed /\ sink
    BY <1>1, <2>2 DEF DuckInv, DuckFlags
  <2>4. t.speaking => volumeBeforeDuck = Full
    BY <1>1, <2>3 DEF DuckInv, VolumeIsKept
  <2>5. ~t.speaking => volumeBeforeDuck = Ducks!NoVolume /\ t.target = Full
    BY <1>1, <2>3 DEF DuckInv, VolumeIsKept
  <2> QED BY <1>1, <1>5, <1>13, <1>14, <1>15, <2>1, <2>3, <2>4, <2>5 DEF VolumeIsKept
<1>18. RampsFromOne'
  <2>1. u.i # 0
    BY <1>3, <1>5
  <2> QED BY <1>1, <1>5, <2>1 DEF DuckInv, RampsFromOne
<1> QED BY <1>9, <1>10, <1>11, <1>12, <1>17, <1>18, <1>16 DEF DuckInv

(* A ramp ends, at its target or because it was overtaken.                 *)
LEMMA DuckRampEnds ==
  ASSUME DuckInv, NEW t \in threads, Ducks!RampEnds(t)
  PROVE  DuckInv'
<1> USE DEF Ducks!sinkVars, Ducks!reportVars
<1>1. /\ UNCHANGED <<volume, duckGeneration, volumeBeforeDuck>>
      /\ UNCHANGED <<owns, sink, reset, speaking, heeded, strayed>>
      /\ t.pc = "ramp" /\ cut' = (cut \/ (t.i <= STEPS /\ ~t.speaking))
      /\ threads' = threads \ {t} /\ duckLock' = 0
      /\ short' = (short \/ (t.i <= STEPS /\ t.speaking))
  BY DEF Ducks!RampEnds, Ducks!Ends
<1>2. \A w \in threads' : w.pc # "ramp"
  BY <1>1 DEF DuckInv, OneRamps
<1>3. DuckFlags'
  <2>1. short' \in BOOLEAN
    BY <1>1, Zenon DEF DuckInv, DuckFlags
  <2> QED BY <1>1, <2>1 DEF DuckInv, DuckFlags
<1>4. DuckType'
  BY <1>1, DuckThreadGoes, DucksAssumed
     DEF DuckInv, DuckType, Ducks!Generations, Ducks!ConstantsOK
<1>5. OneRamps'
  BY <1>1, <1>2, DuckThreadGoes DEF DuckInv, OneRamps
<1>6. NewestDecides'
  BY <1>1, <1>2, DuckThreadGoes DEF DuckInv, NewestDecides
<1>7. STEPS \in Nat /\ t.i \in Nat
  BY DucksAssumed DEF DuckInv, DuckType, DuckThreads, Ducks!ConstantsOK
<1>8. LoweringIsKept'
  <2>1. SUFFICES ASSUME ~cut', ~strayed', ~short' PROVE LoweringIsKept'
    BY DEF LoweringIsKept
  <2>2. ~cut /\ ~strayed /\ ~short
    BY <1>1, <2>1
  <2>3. CASE t.speaking
    <3>1. t.i > STEPS
      <4>1. ~(t.i <= STEPS)
        BY <1>1, <2>1, <2>3, Zenon
      <4> QED BY <1>7, <4>1
    <3> QED BY <1>1, <1>2, <2>2, <2>3, <3>1 DEF DuckInv, LoweringIsKept
  <2>4. CASE ~t.speaking
    BY <1>1, <1>2, <2>2, <2>4 DEF DuckInv, VolumeIsKept, LoweringIsKept
  <2> QED BY <2>3, <2>4
<1>9. VolumeIsKept'
  <2>1. heeded' => speaking'
    BY <1>1 DEF DuckInv, VolumeIsKept
  <2>2. SUFFICES ASSUME ~cut', ~strayed' PROVE VolumeIsKept'
    BY <2>1 DEF VolumeIsKept
  <2>3. ~cut /\ ~strayed
    BY <1>1, <2>2
  <2>4. CASE t.speaking
    BY <1>1, <1>2, <2>1, <2>3, <2>4, DucksAssumed
       DEF DuckInv, VolumeIsKept, Ducks!NoVolume, Ducks!ConstantsOK
  <2>5. CASE ~t.speaking
    <3>2. t.i > STEPS
      <4>1. ~(t.i <= STEPS)
        BY <1>1, <2>2, <2>5, Zenon
      <4> QED BY <1>7, <4>1
    <3> QED BY <1>1, <1>2, <2>1, <2>3, <2>5, <3>2 DEF DuckInv, VolumeIsKept
  <2> QED BY <2>4, <2>5
<1>10. RampsFromOne'
  BY <1>1 DEF DuckInv, RampsFromOne
<1> QED BY <1>3, <1>4, <1>5, <1>6, <1>9, <1>10, <1>8 DEF DuckInv

(* Reset forgets the volume and moves the generation on.                   *)
LEMMA DuckResets ==
  ASSUME DuckInv, Ducks!ResetForgets \/ Ducks!ResetBumps
  PROVE  DuckInv'
<1> USE DEF Ducks!sinkVars, Ducks!reportVars, Ducks!historyVars
<1>1. CASE Ducks!ResetForgets
  <2>1. /\ UNCHANGED <<volume, duckGeneration, threads, duckLock>>
        /\ UNCHANGED <<owns, sink, speaking, heeded, short, strayed>>
        /\ volumeBeforeDuck' = Ducks!NoVolume /\ reset' = TRUE /\ duckLock = 0
        /\ cut' = (cut \/ volumeBeforeDuck # Ducks!NoVolume)
    BY <1>1 DEF Ducks!ResetForgets, Ducks!LockFree
  <2>2. DuckFlags'
    BY <2>1 DEF DuckInv, DuckFlags
  <2>3. DuckType' /\ OneRamps' /\ RampsFromOne'
    BY <2>1 DEF DuckInv, DuckType, OneRamps, RampsFromOne
  <2>4. NewestDecides'
    BY <2>1 DEF NewestDecides
  <2>5. \A w \in threads : w.pc # "ramp"
    <3>1. \A w \in threads : w.generation # 0
      BY DEF DuckInv, DuckType, DuckThreads
    <3> QED BY <2>1, <3>1 DEF DuckInv, OneRamps
  <2>6. VolumeIsKept' /\ LoweringIsKept'
    BY <2>1, <2>5 DEF DuckInv, VolumeIsKept, LoweringIsKept
  <2> QED BY <2>2, <2>3, <2>4, <2>6 DEF DuckInv
<1>2. CASE Ducks!ResetBumps
  <2>1. /\ UNCHANGED <<volume, volumeBeforeDuck, threads, duckLock>>
        /\ UNCHANGED <<owns, sink, speaking, cut, short, strayed>>
        /\ reset = TRUE /\ reset' = FALSE /\ heeded' = FALSE
        /\ duckGeneration' = duckGeneration + 1 /\ duckGeneration < MaxReports
    BY <1>2 DEF Ducks!ResetBumps, DuckInv, DuckFlags
  <2>2. /\ MaxReports \in Nat /\ duckGeneration \in Nat
        /\ \A t \in threads : t.generation \in Nat /\ t.generation <= duckGeneration
    BY DucksAssumed
       DEF DuckInv, DuckType, DuckThreads, OneRamps, Ducks!Generations, Ducks!ConstantsOK
  <2>3. DuckFlags'
    BY <2>1 DEF DuckInv, DuckFlags
  <2>4. DuckType' /\ OneRamps' /\ RampsFromOne'
    <3>1. duckGeneration' \in Ducks!Generations
      BY <2>1, <2>2 DEF Ducks!Generations
    <3>2. \A t \in threads' : t.generation <= duckGeneration'
      BY <2>1, <2>2
    <3> QED BY <2>1, <3>1, <3>2 DEF DuckInv, DuckType, OneRamps, RampsFromOne
  <2>5. NewestDecides'
    <3>1. \A t \in threads' : t.generation # duckGeneration'
      BY <2>1, <2>2
    <3> QED BY <2>1, <3>1 DEF DuckInv, NewestDecides
  <2>6. VolumeIsKept' /\ LoweringIsKept'
    BY <2>1 DEF DuckInv, VolumeIsKept, LoweringIsKept
  <2> QED BY <2>3, <2>4, <2>5, <2>6 DEF DuckInv
<1> QED BY <1>1, <1>2

(* Who has the AirPods, and their sink.                                    *)
LEMMA DuckSurroundings ==
  ASSUME DuckInv,
         Ducks!OwnershipChanges \/ Ducks!SinkGoes \/ Ducks!SinkComes \/ UNCHANGED duckVars
  PROVE  DuckInv'
<1>1. /\ UNCHANGED <<volume, duckGeneration, volumeBeforeDuck, threads, duckLock>>
      /\ UNCHANGED <<reset, speaking, heeded, cut, short, strayed>>
  BY DEF Ducks!OwnershipChanges, Ducks!SinkGoes, Ducks!SinkComes, duckVars, Ducks!reportVars,
         Ducks!historyVars
<1>2. owns' \in BOOLEAN /\ sink' \in BOOLEAN
  BY Zenon
     DEF Ducks!OwnershipChanges, Ducks!SinkGoes, Ducks!SinkComes, duckVars, DuckInv, DuckFlags
<1>3. DuckFlags'
  BY <1>1, <1>2 DEF DuckInv, DuckFlags
<1>4. DuckType' /\ OneRamps' /\ RampsFromOne'
  BY <1>1 DEF DuckInv, DuckType, OneRamps, RampsFromOne
<1>5. NewestDecides' /\ VolumeIsKept' /\ LoweringIsKept'
  BY <1>1 DEF DuckInv, NewestDecides, VolumeIsKept, LoweringIsKept
<1> QED BY <1>3, <1>4, <1>5 DEF DuckInv

(* The invariant of conversation awareness is inductive.                   *)
LEMMA DuckInvKept == DuckInv /\ [CapabilitiesNext]_allVars => DuckInv'
<1> SUFFICES ASSUME DuckInv, [CapabilitiesNext]_allVars PROVE DuckInv'
  OBVIOUS
<1>1. Ducks!Next \/ UNCHANGED duckVars
  BY Zenon DEF CapabilitiesNext, allVars
<1> QED BY <1>1, DuckReports, DuckFinds, DuckTakesLock, DuckRampSteps, DuckRampEnds, DuckResets,
           DuckSurroundings DEF Ducks!Next, Ducks!DuckThread

(* So it holds in every reachable state.                                   *)
LEMMA DuckInvariant == CapabilitiesSpec => []DuckInv
<1>1. CapabilitiesInit => DuckInv
  BY DuckInit DEF CapabilitiesInit
<1> QED BY <1>1, DuckInvKept, PTL DEF CapabilitiesSpec

(* Conversation awareness' threads take the lock in any order, and reports  *)
(* may come while one ramps; yet if the last report that counts said so,    *)
(* the volume is at its share of the user's once all are done, for any      *)
(* volume, share, number of reports and steps of a ramp: unless a newer     *)
(* report cut a ramp, or a thread met no sink or Reset half done.          *)
THEOREM AlwaysLoweredUnlessCut == CapabilitiesSpec => []LoweredUnlessCut
<1>1. DuckInv => LoweredUnlessCut
  <2> SUFFICES ASSUME DuckInv, threads = {}, heeded, ~reset, ~short, ~cut, ~strayed
               PROVE  volume = Ducks!Lowered(Full)
    BY DEF LoweredUnlessCut, Ducks!LoweredUnlessCut
  <2>1. duckLock = 0
    BY DEF DuckInv, OneRamps
  <2>2. volumeBeforeDuck # Ducks!NoVolume
    BY DEF DuckInv, NewestDecides
  <2> QED BY <2>1, <2>2 DEF DuckInv, LoweringIsKept
<1> QED BY <1>1, DuckInvariant, PTL

(* And back where the user had it, as long as no ramp back up is cut short  *)
(* by a newer report and no disconnection takes what was noted.            *)
THEOREM AlwaysBroughtBackUnlessCut == CapabilitiesSpec => []BroughtBackUnlessCut
<1>1. DuckInv => BroughtBackUnlessCut
  <2> SUFFICES ASSUME DuckInv, ~cut, ~strayed, threads = {}, ~speaking
               PROVE  volume = Full
    BY DEF BroughtBackUnlessCut, Ducks!BroughtBackUnlessCut, Ducks!BroughtBack
  <2>1. duckLock = 0 /\ ~heeded
    BY DEF DuckInv, OneRamps, VolumeIsKept
  <2>2. volumeBeforeDuck = Ducks!NoVolume
    BY <2>1 DEF DuckInv, NewestDecides
  <2> QED BY <2>1, <2>2 DEF DuckInv, VolumeIsKept
<1> QED BY <1>1, DuckInvariant, PTL

-----------------------------------------------------------------------------
(* Ear detection.                                                          *)

(* Ear detection's constants are among those assumed of the whole.         *)
LEMMA EarsAssumed == Ears!ConstantsOK
BY CapabilitiesAssumption

(* A step of the ears is one of these, the rest of the state being others'. *)
EarStep ==
  \/ \E t \in earThreads : Ears!ChangedRuns(t)
  \/ Ears!PodsMove \/ Ears!Reset \/ Ears!OwnershipChanges
  \/ \E p \in Players : Ears!UserPlays(p) \/ Ears!UserStops(p)
  \/ UNCHANGED earVars

(* A step of the composition is one of these for ear detection.            *)
LEMMA EarSteps == [CapabilitiesNext]_allVars => EarStep
BY Zenon DEF CapabilitiesNext, allVars, EarStep, Ears!Next

(* The players, what is paused of them and how many buds were in then: as   *)
(* they are, and as they should be.                                        *)
PlayersAre ==
  [playing |-> playing, paused |-> paused, at |-> IF paused = {} THEN 0 ELSE inEarBeforePause]
PlayersShould == [playing |-> wanted, paused |-> due, at |-> dueAt]

(* What a change of the number of buds makes of that.                       *)
After(s, before, now) ==
  IF before >= 0 /\ now < before /\ s.paused = {} /\ s.playing # {}
  THEN [playing |-> {}, paused |-> s.playing, at |-> before]
  ELSE IF before >= 0 /\ now >= s.at /\ s.paused # {}
       THEN [playing |-> s.playing \cup s.paused, paused |-> {}, at |-> 0]
       ELSE s

EarThreads == [n: 1..MaxMoves, before: {-1} \cup Ears!Buds, now: Ears!Buds]

EarType ==
  /\ podsInEar \in {-1} \cup Ears!Buds
  /\ moves \in 0..MaxMoves
  /\ earThreads \subseteq EarThreads /\ \A t \in earThreads : t.now # t.before
  /\ inEarBeforePause \in Ears!Buds /\ dueAt \in Ears!Buds
  /\ dueAt = 0 <=> due = {}
  /\ podsInEar = -1 => dueAt = 0

EarFlags == earOwns \in BOOLEAN /\ earStrayed \in BOOLEAN

(* The threads on their way are those of the last moves, from the one after *)
(* m on, and lead step by step from the players as they are to the players  *)
(* as they should be: s[k] is what the k-th leaves behind.                  *)
LeadsThere(m, s) ==
  /\ m \in 0..moves
  /\ s = [k \in 0..MaxMoves |-> s[k]]
  /\ s[m] = PlayersAre /\ s[moves] = PlayersShould
  /\ \A t \in earThreads : m < t.n /\ t.n <= moves /\ s[t.n] = After(s[t.n - 1], t.before, t.now)
  /\ \A k \in (m + 1)..moves : \E t \in earThreads : t.n = k
  /\ \A t, u \in earThreads : t.n = u.n => t = u

OnTheWay == \E m, s : LeadsThere(m, s)

EarInv ==
  /\ EarType /\ EarFlags
  /\ ~earStrayed =>
       /\ podsInEar = -1 => earThreads = {}
       /\ OnTheWay

(* With no thread on its way the players are as they should be.            *)
LEMMA SettledIsThere ==
  ASSUME EarInv, ~earStrayed, earThreads = {}
  PROVE  PlayersAre = PlayersShould
<1>1. PICK m, s : LeadsThere(m, s)
  BY DEF EarInv, OnTheWay
<1>2. moves \in Nat /\ m \in 0..moves
  BY <1>1, EarsAssumed DEF EarInv, EarType, LeadsThere, Ears!ConstantsOK
<1>3. m = moves
  <2>1. SUFFICES ASSUME m # moves PROVE FALSE
    OBVIOUS
  <2>2. moves \in (m + 1)..moves
    BY <1>2, <2>1
  <2> QED BY <1>1, <2>2 DEF LeadsThere
<1> QED BY <1>1, <1>3 DEF LeadsThere

(* And where they are as they should be, they stay there.                   *)
AllThere == EarType /\ earThreads = {} /\ PlayersAre = PlayersShould

(* It is the last state of a chain of none.                                *)
LEMMA ThereIsThere == AllThere => OnTheWay
<1> SUFFICES ASSUME AllThere PROVE OnTheWay
  OBVIOUS
<1> DEFINE s == [k \in 0..MaxMoves |-> PlayersAre]
<1>1. moves \in 0..MaxMoves /\ moves \in 0..moves
  BY EarsAssumed DEF AllThere, EarType, Ears!ConstantsOK
<1>2. s[moves] = PlayersAre /\ s = [k \in 0..MaxMoves |-> s[k]]
  BY <1>1
<1> HIDE DEF s
<1>3. \A k \in (moves + 1)..moves : FALSE
  BY <1>1
<1>4. LeadsThere(moves, s)
  BY <1>1, <1>2, <1>3 DEF LeadsThere, AllThere
<1> QED BY <1>4 DEF OnTheWay

(* The same of the next state.                                             *)
LEMMA ThereAfterwards == AllThere' => OnTheWay'
BY ThereIsThere, PTL

(* NowWanted is what After makes of the players as they should be, unless   *)
(* one plays on.                                                           *)
LEMMA ShouldFollow ==
  ASSUME EarType, NEW now \in Ears!Buds, now # podsInEar, Ears!NowWanted(now)
  PROVE  /\ ~Ears!PlaysOn(now) => PlayersShould' = After(PlayersShould, podsInEar, now)
         /\ dueAt' \in Ears!Buds /\ (dueAt' = 0 <=> due' = {})
<1> DEFINE goesOut == podsInEar > now /\ wanted # {}
           isBack == dueAt # 0 /\ now >= dueAt
<1>1. /\ podsInEar \in {-1} \cup Ears!Buds /\ dueAt \in Ears!Buds
      /\ dueAt = 0 <=> due = {}
      /\ podsInEar = -1 => dueAt = 0
  BY DEF EarType
<1>2. /\ PlayersShould.playing = wanted /\ PlayersShould.paused = due /\ PlayersShould.at = dueAt
      /\ PlayersShould' = [playing |-> wanted', paused |-> due', at |-> dueAt']
  BY DEF PlayersShould
<1>3. CASE Ears!PlaysOn(now)
  <2>1. due # {} /\ dueAt # 0 /\ dueAt' = dueAt /\ due' = due \cup wanted
    BY <1>1, <1>3 DEF Ears!NowWanted, Ears!PlaysOn
  <2> QED BY <1>1, <1>3, <2>1
<1>4. CASE goesOut /\ ~Ears!PlaysOn(now)
  <2>1. podsInEar >= 0 /\ now < podsInEar /\ due = {} /\ podsInEar # 0 /\ podsInEar \in Ears!Buds
    BY <1>1, <1>4 DEF Ears!Buds, Ears!PlaysOn
  <2>2. dueAt' = podsInEar /\ due' = wanted /\ wanted' = {}
    BY <1>1, <1>4, <2>1 DEF Ears!NowWanted
  <2> QED BY <1>2, <1>4, <2>2, <2>1 DEF After
<1>5. CASE ~goesOut /\ isBack
  <2>1. dueAt' = 0 /\ due' = {} /\ wanted' = wanted \cup due
    BY <1>5 DEF Ears!NowWanted
  <2>2. podsInEar >= 0 /\ due # {} /\ now >= dueAt /\ 0 \in Ears!Buds
    BY <1>1, <1>5 DEF Ears!Buds
  <2> QED BY <1>2, <2>1, <2>2 DEF After
<1>6. CASE ~goesOut /\ ~isBack
  <2>1. dueAt' = dueAt /\ due' = due /\ wanted' = wanted
    BY <1>6 DEF Ears!NowWanted
  <2>2. ~(podsInEar >= 0 /\ now < podsInEar /\ due = {} /\ wanted # {})
    BY <1>1, <1>6 DEF Ears!Buds
  <2>3. ~(podsInEar >= 0 /\ now >= dueAt /\ due # {})
    BY <1>1, <1>6 DEF Ears!Buds
  <2>4. After(PlayersShould, podsInEar, now) = PlayersShould
    BY <1>2, <2>2, <2>3 DEF After
  <2> QED BY <1>1, <2>1, <2>4 DEF PlayersShould
<1> QED BY <1>4, <1>5, <1>6, <1>3

(* And ChangedRuns does to the players as they are.                         *)
LEMMA ChangeFollows ==
  ASSUME EarType, NEW t \in earThreads, Ears!ChangedRuns(t)
  PROVE  /\ PlayersAre' = After(PlayersAre, t.before, t.now)
         /\ inEarBeforePause' \in Ears!Buds
<1>1. /\ t.before \in {-1} \cup Ears!Buds /\ t.now \in Ears!Buds /\ t.now # t.before
      /\ inEarBeforePause \in Ears!Buds
  BY DEF EarType, EarThreads
<1>2. /\ PlayersAre.playing = playing /\ PlayersAre.paused = paused
      /\ PlayersAre.at = IF paused = {} THEN 0 ELSE inEarBeforePause
      /\ PlayersAre' = [playing |-> playing', paused |-> paused',
                        at |-> IF paused' = {} THEN 0 ELSE inEarBeforePause']
  BY DEF PlayersAre
<1>3. CASE Ears!Pauses(t.before, t.now)
  <2>1. paused' = playing /\ playing' = {} /\ inEarBeforePause' = t.before
    BY <1>3 DEF Ears!ChangedRuns, Ears!PausesPlaying
  <2>2. t.before >= 0 /\ t.now < t.before /\ paused = {} /\ t.before \in Ears!Buds
    BY <1>1, <1>3 DEF Ears!Pauses, Ears!Buds
  <2>3. CASE playing # {}
    BY <1>2, <2>1, <2>2, <2>3 DEF After
  <2>4. CASE playing = {}
    BY <1>2, <2>1, <2>2, <2>4 DEF After, PlayersAre
  <2> QED BY <2>3, <2>4
<1>4. CASE ~Ears!Pauses(t.before, t.now) /\ Ears!Resumes(t.before, t.now)
  <2>1. playing' = playing \cup paused /\ paused' = {} /\ inEarBeforePause' = inEarBeforePause
    BY <1>4 DEF Ears!ChangedRuns
  <2>2. t.before >= 0 /\ t.now >= inEarBeforePause /\ paused # {}
    BY <1>4 DEF Ears!Resumes
  <2> QED BY <1>1, <1>2, <2>1, <2>2 DEF After
<1>5. CASE ~Ears!Pauses(t.before, t.now) /\ ~Ears!Resumes(t.before, t.now)
  <2>1. playing' = playing /\ paused' = paused /\ inEarBeforePause' = inEarBeforePause
    BY <1>5 DEF Ears!ChangedRuns, Ears!pauseVars
  <2>2. ~(t.before >= 0 /\ t.now < t.before /\ paused = {})
    BY <1>5 DEF Ears!Pauses
  <2>3. ~(t.before >= 0 /\ t.now >= inEarBeforePause /\ paused # {})
    BY <1>1, <1>5 DEF Ears!Resumes
  <2>4. After(PlayersAre, t.before, t.now) = PlayersAre
    BY <1>2, <2>2, <2>3 DEF After
  <2> QED BY <1>1, <2>1, <2>4 DEF PlayersAre
<1> QED BY <1>3, <1>4, <1>5

(* A move of the buds: the change is appended to those on their way.        *)
LEMMA EarsMove ==
  ASSUME EarInv, Ears!PodsMove
  PROVE  EarInv'
<1>1. PICK now \in Ears!Buds :
        /\ now # podsInEar /\ Ears!Update(now) /\ Ears!NowWanted(now)
        /\ earStrayed' = (earStrayed \/ (~earOwns /\ podsInEar >= 0) \/ Ears!PlaysOn(now))
  BY DEF Ears!PodsMove
<1>2. /\ UNCHANGED <<earOwns, paused, inEarBeforePause, playing>>
      /\ moves < MaxMoves /\ moves' = moves + 1 /\ podsInEar' = now
      /\ podsInEar' # -1
  BY <1>1 DEF Ears!PodsMove, Ears!Update, Ears!pauseVars, Ears!Buds
<1>3. moves \in Nat /\ MaxMoves \in Nat /\ moves' \in 1..MaxMoves
  BY <1>2, EarsAssumed DEF EarInv, EarType, Ears!ConstantsOK
<1> DEFINE u == [n |-> moves + 1, before |-> podsInEar, now |-> now]
<1>4. /\ u \in EarThreads /\ u.n = moves + 1 /\ u.before = podsInEar /\ u.now = now
      /\ u.now # u.before
  BY <1>1, <1>2, <1>3 DEF EarThreads, EarInv, EarType
<1>5. \/ earOwns /\ earThreads' = earThreads \cup {u}
      \/ ~earOwns /\ earThreads' = earThreads
  BY <1>1, Zenon DEF Ears!Update, EarInv, EarFlags
<1> HIDE DEF u
<1>6. /\ ~Ears!PlaysOn(now) => PlayersShould' = After(PlayersShould, podsInEar, now)
      /\ dueAt' \in Ears!Buds /\ (dueAt' = 0 <=> due' = {})
      /\ PlayersAre' = PlayersAre
  BY <1>1, <1>2, ShouldFollow DEF EarInv, PlayersAre
<1>7. EarType'
  BY <1>1, <1>2, <1>3, <1>4, <1>5, <1>6 DEF EarInv, EarType
<1>8. EarFlags'
  <2>1. earStrayed' \in BOOLEAN
    BY <1>1, Zenon DEF EarInv, EarFlags
  <2> QED BY <1>2, <2>1 DEF EarInv, EarFlags
<1>9. ASSUME ~earStrayed' PROVE OnTheWay'
  <2>1. ~earStrayed /\ (earOwns \/ ~(podsInEar >= 0)) /\ ~Ears!PlaysOn(now)
    BY <1>1, <1>9, Zenon DEF EarInv, EarFlags
  <2>2. PlayersShould' = After(PlayersShould, podsInEar, now)
    BY <1>6, <2>1
  <2>3. CASE earOwns
    <3>1. PICK m, s : LeadsThere(m, s)
      BY <2>1 DEF EarInv, OnTheWay
    <3>9. PICK z : z = [k \in 0..MaxMoves |-> IF k = moves + 1 THEN PlayersShould' ELSE s[k]]
      OBVIOUS
    <3>2. m \in 0..moves /\ earThreads' = earThreads \cup {u}
      BY <1>5, <2>3, <3>1 DEF LeadsThere
    <3>3. /\ z = [k \in 0..MaxMoves |-> z[k]]
          /\ z[moves + 1] = PlayersShould'
          /\ \A k \in 0..moves : z[k] = s[k]
      BY <1>2, <1>3, <3>9
    <3>4. m \in 0..moves' /\ z[m] = PlayersAre' /\ z[moves'] = PlayersShould'
      <4>1. s[m] = PlayersAre /\ s[moves] = PlayersShould
        BY <3>1, Zenon DEF LeadsThere
      <4>2. z[m] = s[m]
        BY <3>2, <3>3
      <4>3. m \in 0..moves'
        BY <1>2, <1>3, <3>2
      <4> QED BY <1>2, <1>6, <3>3, <4>1, <4>2, <4>3
    <3>5. ASSUME NEW t \in earThreads'
          PROVE  m < t.n /\ t.n <= moves' /\ z[t.n] = After(z[t.n - 1], t.before, t.now)
      <4>1. CASE t = u
        <5>1. z[t.n] = PlayersShould' /\ z[t.n - 1] = PlayersShould
          <6>1. t.n = moves + 1 /\ t.n - 1 = moves /\ moves \in 0..moves
            BY <1>3, <1>4, <4>1
          <6>2. s[moves] = PlayersShould
            BY <3>1, Zenon DEF LeadsThere
          <6> QED BY <3>3, <6>1, <6>2
        <5> QED BY <1>2, <1>3, <1>4, <2>2, <3>2, <4>1, <5>1
      <4>2. CASE t \in earThreads
        <5>1. m < t.n /\ t.n <= moves /\ s[t.n] = After(s[t.n - 1], t.before, t.now)
          BY <3>1, <4>2 DEF LeadsThere
        <5>2. t.n \in 0..moves /\ t.n - 1 \in 0..moves
          BY <1>3, <4>2, <5>1 DEF EarInv, EarType, EarThreads
        <5>3. z[t.n] = s[t.n] /\ z[t.n - 1] = s[t.n - 1]
          BY <3>3, <5>2
        <5>4. t.n <= moves'
          BY <1>2, <1>3, <5>1, <5>2
        <5> QED BY <5>1, <5>3, <5>4
      <4> QED BY <3>2, <4>1, <4>2
    <3>6. \A k \in (m + 1)..moves' : \E t \in earThreads' : t.n = k
      <4> SUFFICES ASSUME NEW k \in (m + 1)..moves' PROVE \E t \in earThreads' : t.n = k
        OBVIOUS
      <4>1. CASE k = moves + 1
        BY <1>4, <3>2, <4>1
      <4>2. CASE k # moves + 1
        <5>1. k \in (m + 1)..moves
          BY <1>2, <1>3, <3>2, <4>2
        <5> QED BY <3>1, <3>2, <5>1 DEF LeadsThere
      <4> QED BY <4>1, <4>2
    <3>7. \A t, w \in earThreads' : t.n = w.n => t = w
      <4>1. \A t \in earThreads : t.n # u.n
        BY <1>3, <1>4, <3>1 DEF LeadsThere, EarInv, EarType, EarThreads
      <4> QED BY <3>1, <3>2, <4>1 DEF LeadsThere
    <3>8. LeadsThere(m, z)'
      BY <3>3, <3>4, <3>5, <3>6, <3>7 DEF LeadsThere
    <3> QED BY <3>8 DEF OnTheWay
  <2>4. CASE ~earOwns
    <3>1. podsInEar = -1 /\ ~(podsInEar >= 0)
      BY <2>1, <2>4 DEF EarInv, EarType, Ears!Buds
    <3>2. earThreads' = {} /\ PlayersAre = PlayersShould
      BY <1>5, <2>1, <2>4, <3>1, SettledIsThere DEF EarInv
    <3>3. PlayersShould' = PlayersShould
      BY <2>2, <3>1 DEF After
    <3>4. AllThere'
      BY <1>6, <1>7, <3>2, <3>3 DEF AllThere
    <3> QED BY <3>4, ThereAfterwards
  <2> QED BY <2>3, <2>4
<1> QED BY <1>2, <1>7, <1>8, <1>9 DEF EarInv

(* The first thread on its way runs.                                       *)
LEMMA EarsRun ==
  ASSUME EarInv, NEW t \in earThreads, Ears!ChangedRuns(t)
  PROVE  EarInv'
<1>1. /\ UNCHANGED <<podsInEar, earOwns, wanted, due, dueAt, moves>>
      /\ earThreads' = earThreads \ {t}
      /\ earStrayed' = (earStrayed \/ \E u \in earThreads : u.n < t.n)
  BY DEF Ears!ChangedRuns, Ears!dueVars
<1>2. /\ PlayersAre' = After(PlayersAre, t.before, t.now)
      /\ inEarBeforePause' \in Ears!Buds /\ PlayersShould' = PlayersShould
  BY <1>1, ChangeFollows DEF EarInv, PlayersShould
<1>3. EarType' /\ EarFlags'
  <2>1. EarFlags'
    BY <1>1 DEF EarInv, EarFlags
  <2> QED BY <1>1, <1>2, <2>1 DEF EarInv, EarType
<1>4. ASSUME ~earStrayed' PROVE OnTheWay' /\ (podsInEar' = -1 => earThreads' = {})
  <2>1. ~earStrayed /\ \A u \in earThreads : ~(u.n < t.n)
    BY <1>1, <1>4
  <2>2. PICK m, s : LeadsThere(m, s)
    BY <2>1 DEF EarInv, OnTheWay
  <2>3. /\ m \in Nat /\ moves \in Nat /\ m <= moves /\ moves' = moves
        /\ \A u \in earThreads : u.n \in Nat
    BY <1>1, <2>2, EarsAssumed DEF EarInv, EarType, EarThreads, LeadsThere, Ears!ConstantsOK
  <2>4. m < t.n /\ t.n <= moves /\ s[t.n] = After(s[t.n - 1], t.before, t.now)
    BY <2>2 DEF LeadsThere
  <2>5. t.n = m + 1
    <3>1. m + 1 \in (m + 1)..moves
      BY <2>3, <2>4
    <3>2. PICK u \in earThreads : u.n = m + 1
      BY <2>2, <3>1 DEF LeadsThere
    <3> QED BY <2>1, <2>3, <2>4, <3>2
  <2>6. m + 1 \in 0..moves' /\ s[m + 1] = PlayersAre' /\ s[moves'] = PlayersShould'
    <3>1. t.n - 1 = m
      BY <2>3, <2>5
    <3>2. s[m] = PlayersAre /\ s[moves] = PlayersShould
      BY <2>2 DEF LeadsThere
    <3> QED BY <1>2, <2>3, <2>4, <2>5, <3>1, <3>2
  <2>7. ASSUME NEW u \in earThreads'
        PROVE  m + 1 < u.n /\ u.n <= moves' /\ s[u.n] = After(s[u.n - 1], u.before, u.now)
    <3>1. u \in earThreads /\ u # t
      BY <1>1
    <3>2. m < u.n /\ u.n <= moves /\ s[u.n] = After(s[u.n - 1], u.before, u.now) /\ u.n # t.n
      BY <2>2, <3>1 DEF LeadsThere
    <3> QED BY <2>3, <2>5, <3>1, <3>2
  <2>8. \A k \in (m + 1 + 1)..moves' : \E u \in earThreads' : u.n = k
    <3> SUFFICES ASSUME NEW k \in (m + 1 + 1)..moves' PROVE \E u \in earThreads' : u.n = k
      OBVIOUS
    <3>1. k \in (m + 1)..moves /\ k # m + 1
      BY <2>3
    <3>2. PICK u \in earThreads : u.n = k
      BY <2>2, <3>1 DEF LeadsThere
    <3> QED BY <1>1, <2>5, <3>1, <3>2
  <2>9. /\ \A u, w \in earThreads' : u.n = w.n => u = w
        /\ s = [k \in 0..MaxMoves |-> s[k]]
    BY <1>1, <2>2 DEF LeadsThere
  <2>10. LeadsThere(m + 1, s)'
    BY <2>6, <2>7, <2>8, <2>9 DEF LeadsThere
  <2> QED BY <1>1, <2>1, <2>10 DEF OnTheWay, EarInv
<1> QED BY <1>3, <1>4 DEF EarInv

(* Once all have run: a disconnection, and what the user plays.             *)
LEMMA EarsSettled ==
  ASSUME EarInv, \/ Ears!Reset \/ Ears!OwnershipChanges \/ UNCHANGED earVars
                 \/ \E p \in Players : Ears!UserPlays(p) \/ Ears!UserStops(p)
  PROVE  EarInv'
<1>1. CASE Ears!OwnershipChanges \/ UNCHANGED earVars
  <2>1. /\ UNCHANGED <<podsInEar, earThreads, playing, paused, inEarBeforePause>>
        /\ UNCHANGED <<wanted, due, dueAt, earStrayed, moves>>
    BY <1>1 DEF Ears!OwnershipChanges, Ears!pauseVars, Ears!dueVars, earVars
  <2>2. earOwns' \in BOOLEAN
    BY <1>1, Zenon DEF Ears!OwnershipChanges, earVars, EarInv, EarFlags
  <2>3. EarType' /\ (earStrayed' <=> earStrayed) /\ EarFlags'
    BY <2>1, <2>2 DEF EarInv, EarType, EarFlags
  <2>4. PlayersAre' = PlayersAre /\ PlayersShould' = PlayersShould
    BY <2>1 DEF PlayersAre, PlayersShould
  <2>5. OnTheWay' <=> OnTheWay
    BY <2>1, <2>4 DEF OnTheWay, LeadsThere
  <2> QED BY <2>1, <2>3, <2>5 DEF EarInv
<1>2. CASE Ears!Reset
  <2>1. /\ podsInEar' = -1 /\ paused' = {} /\ due' = {} /\ dueAt' = 0
        /\ UNCHANGED <<earOwns, inEarBeforePause, earThreads, playing, wanted, moves>>
        /\ earStrayed' = (earStrayed \/ earThreads # {})
    BY <1>2 DEF Ears!Reset
  <2>2. EarType' /\ EarFlags'
    <3>1. EarFlags'
      BY <2>1 DEF EarInv, EarFlags
    <3> QED BY <2>1, <3>1 DEF EarInv, EarType, Ears!Buds
  <2>3. ASSUME ~earStrayed' PROVE OnTheWay' /\ earThreads' = {}
    <3>1. ~earStrayed /\ earThreads = {} /\ PlayersAre = PlayersShould
      BY <2>1, <2>3, SettledIsThere
    <3>2. playing = wanted
      BY <3>1 DEF PlayersAre, PlayersShould
    <3>3. AllThere'
      BY <2>1, <2>2, <3>1, <3>2 DEF AllThere, PlayersAre, PlayersShould
    <3> QED BY <2>1, <3>1, <3>3, ThereAfterwards
  <2> QED BY <2>2, <2>3 DEF EarInv
<1>3. ASSUME NEW p \in Players, Ears!UserPlays(p) \/ Ears!UserStops(p) PROVE EarInv'
  <2>1. /\ UNCHANGED <<podsInEar, earOwns, paused, inEarBeforePause, earThreads>>
        /\ UNCHANGED <<due, dueAt, earStrayed, moves>> /\ earThreads = {}
        /\ \/ playing' = playing \cup {p} /\ wanted' = wanted \cup {p}
           \/ playing' = playing \ {p} /\ wanted' = wanted \ {p}
    BY <1>3 DEF Ears!UserPlays, Ears!UserStops, Ears!pauseVars
  <2>2. EarType' /\ EarFlags'
    <3>1. EarFlags'
      BY <2>1 DEF EarInv, EarFlags
    <3> QED BY <2>1, <3>1 DEF EarInv, EarType
  <2>3. ASSUME ~earStrayed' PROVE OnTheWay'
    <3>1. ~earStrayed /\ PlayersAre = PlayersShould
      BY <2>1, <2>3, SettledIsThere
    <3>2. playing = wanted /\ paused = due /\ dueAt = IF paused = {} THEN 0 ELSE inEarBeforePause
      BY <3>1 DEF PlayersAre, PlayersShould
    <3>3. AllThere'
      BY <2>1, <2>2, <3>2 DEF AllThere, PlayersAre, PlayersShould
    <3> QED BY <3>3, ThereAfterwards
  <2> QED BY <2>1, <2>2, <2>3 DEF EarInv
<1> QED BY <1>1, <1>2, <1>3

(* The invariant of ear detection is inductive.                            *)
LEMMA EarInvKept == EarInv /\ [CapabilitiesNext]_allVars => EarInv'
BY EarSteps, EarsMove, EarsRun, EarsSettled DEF EarStep

(* Ear detection: while the threads run in the order they started, whatever *)
(* the number of changes, what plays once all have run is what was paused   *)
(* and resumed bud by bud.                                                 *)
THEOREM AlwaysFollowsUnlessStrayed == CapabilitiesSpec => []FollowsUnlessStrayed
<1>1. CapabilitiesInit => EarInv
  <2> SUFFICES ASSUME CapabilitiesInit PROVE EarInv
    OBVIOUS
  <2>1. EarFlags
    BY DEF CapabilitiesInit, Ears!Init, EarFlags
  <2>2. EarType /\ earThreads = {} /\ ~earStrayed
    BY EarsAssumed DEF CapabilitiesInit, Ears!Init, EarType, Ears!Buds, Ears!ConstantsOK
  <2>3. PlayersAre = PlayersShould
    BY DEF CapabilitiesInit, Ears!Init, PlayersAre, PlayersShould
  <2> QED BY <2>1, <2>2, <2>3, ThereIsThere DEF AllThere, EarInv
<1>2. EarInv => FollowsUnlessStrayed
  BY SettledIsThere
     DEF FollowsUnlessStrayed, Ears!FollowsUnlessStrayed, Ears!Settled, PlayersAre, PlayersShould
<1> QED BY <1>1, <1>2, EarInvKept, PTL DEF CapabilitiesSpec

-----------------------------------------------------------------------------
(* The effect chain.                                                       *)

EffectStep ==
  \/ Effects!ServerGoes \/ Effects!Reconnected \/ Effects!SignalStops \/ Effects!Exits
  \/ Effects!Looks \/ Effects!LooksInVain \/ Effects!LoadEffectsConfig
  \/ phase # "gone" /\ Effects!Applies
  \/ \E d \in Headphones :
       \/ Effects!LinkChanges(d) \/ Effects!SinkComes(d) \/ Effects!SinkGoes(d)
       \/ Effects!UserSets(d) \/ Effects!CardLooks(d) \/ Effects!TakesLock(d)
       \/ Effects!Hears(d) \/ Effects!StopEffects(d)
  \/ UNCHANGED effectsVars

(* A step of the composition is one of these for the effect chain.         *)
LEMMA EffectSteps == [CapabilitiesNext]_allVars => EffectStep
<1> SUFFICES ASSUME [CapabilitiesNext]_allVars PROVE EffectStep
  OBVIOUS
<1>1. Effects!Next \/ UNCHANGED effectsVars
  BY Zenon DEF CapabilitiesNext, allVars
<1> QED BY <1>1, Zenon
           DEF EffectStep, Effects!Next, Effects!Environment, Effects!Routes, Effects!Listeners

(* No headphones are mistaken for none.                                    *)
LEMMA NoChainIsNone == NoChain \notin Headphones
BY CapabilitiesAssumption DEF Effects!ConstantsOK

(* A thread that will look at the card, and one that will route them.       *)
ToLook(d) == [on |-> d, what |-> "card"]
ToRoute(d) == [on |-> d, what |-> "route"]

(* What the sets of threads of a device hold.                              *)
LEMMA ThreadsAre ==
  ASSUME NEW d
  PROVE  /\ Effects!Card({d}) = {ToLook(d)} /\ Effects!Route({d}) = {ToRoute(d)}
         /\ \A e : ToLook(d) # ToRoute(e) /\ (ToRoute(d) = ToRoute(e) => d = e)
                   /\ (ToLook(d) = ToLook(e) => d = e)
         /\ \A S : d \in S => ToLook(d) \in Effects!Card(S)
         /\ \A S : ToRoute(d) \notin Effects!Card(S)
<1>1. Effects!Card({d}) = {ToLook(d)} /\ Effects!Route({d}) = {ToRoute(d)}
  BY DEF Effects!Card, Effects!Route, ToLook, ToRoute
<1>2. \A e : /\ ToLook(d) # ToRoute(e)
             /\ ToRoute(d) = ToRoute(e) => d = e
             /\ ToLook(d) = ToLook(e) => d = e
  <2> SUFFICES ASSUME NEW e
               PROVE  /\ ToLook(d) # ToRoute(e)
                      /\ ToRoute(d) = ToRoute(e) => d = e
                      /\ ToLook(d) = ToLook(e) => d = e
    OBVIOUS
  <2>1. /\ ToLook(d).on = d /\ ToLook(d).what = "card" /\ ToLook(e).on = e
        /\ ToRoute(d).on = d /\ ToRoute(e).on = e /\ ToRoute(e).what = "route"
    BY DEF ToLook, ToRoute
  <2>2. "card" # "route"
    OBVIOUS
  <2> QED BY <2>1, <2>2
<1>3. \A S : d \in S => ToLook(d) \in Effects!Card(S)
  BY DEF Effects!Card, ToLook
<1>4. \A S : ToRoute(d) \notin Effects!Card(S)
  <2>1. \A S, x : x \in Effects!Card(S) => x.what = "card"
    BY DEF Effects!Card
  <2>2. ToRoute(d).what = "route" /\ "card" # "route"
    BY DEF ToRoute
  <2> QED BY <2>1, <2>2
<1> QED BY <1>1, <1>2, <1>3, <1>4

Chains == [on : Headphones, config : Effects!Configs, runs : BOOLEAN]
Routings == [on : Headphones, step : Effects!Steps, config : Effects!Configs]

EffectsType ==
  /\ phase \in {"up", "stops", "gone"}
  /\ link \subseteq Headphones /\ connected \subseteq Headphones /\ leaving \subseteq Headphones
  /\ sinks \subseteq link
  /\ saved \in [Headphones -> Effects!Configs]
  /\ routing = Effects!Nobody \/ routing \in Routings
  /\ chain = Effects!None \/ chain \in Chains

EffectsFlags == server \in BOOLEAN /\ effectsStrayed \in BOOLEAN

(* StopEffects runs before the headphones can be connected again.           *)
LeavingAreGone == \A d \in leaving : d \notin connected /\ d \notin link

(* Threads that will give d the effects that are saved by then.             *)
WillRoute(d) ==
  \/ ToRoute(d) \in waiting
  \/ routing.on = d /\ (routing.step # "apply" \/ routing.config = saved[d])

(* Whoever has been found connected is, or StopEffects is still to come.    *)
OfConnected ==
  /\ sinks \subseteq connected
  /\ chain # Effects!None => chain.on \in connected \cup leaving
  /\ routing # Effects!Nobody /\ routing.step # "look" => routing.on \in connected \cup leaving

(* Effects that are not the saved ones will be replaced.                    *)
AsSaved ==
  /\ routing # Effects!Nobody /\ routing.step = "apply" /\ routing.on \in connected
       => routing.config = saved[routing.on] \/ ToRoute(routing.on) \in waiting
  /\ chain # Effects!None /\ chain.on \in connected
       => chain.config = saved[chain.on] \/ WillRoute(chain.on)

(* Who should have the chain has it or will.                               *)
InFront ==
  /\ server /\ chain # Effects!None => chain.runs
  /\ phase = "up" /\ server =>
       \A d \in sinks \ displaced :
         saved[d] # "flat" => chain.on = d \/ ToLook(d) \in waiting \/ WillRoute(d)
  /\ phase # "up" => chain = Effects!None

EffectsInv ==
  /\ EffectsType /\ EffectsFlags /\ LeavingAreGone
  /\ ~effectsStrayed => OfConnected /\ AsSaved /\ InFront

(* It holds before the first sink comes.                                   *)
LEMMA EffectsInit == CapabilitiesInit => EffectsInv
<1> SUFFICES ASSUME CapabilitiesInit PROVE EffectsInv
  OBVIOUS
<1>1. Effects!Init
  BY DEF CapabilitiesInit
<1>2. EffectsFlags
  BY <1>1 DEF Effects!Init, EffectsFlags
<1>3. EffectsType /\ LeavingAreGone
  BY <1>1 DEF Effects!Init, EffectsType, LeavingAreGone
<1>4. OfConnected /\ AsSaved
  BY <1>1 DEF Effects!Init, OfConnected, AsSaved
<1>5. InFront
  <2>1. \A d \in sinks : ToLook(d) \in waiting
    BY <1>1, ThreadsAre DEF Effects!Init
  <2> QED BY <1>1, <2>1 DEF Effects!Init, InFront
<1> QED BY <1>2, <1>3, <1>4, <1>5 DEF EffectsInv

(* For headphones, nobody is not one of them.                              *)
LEMMA NobodyIsNot ==
  /\ Effects!Nobody.on = NoChain /\ Effects!None.on = NoChain /\ Effects!None.runs = FALSE
  /\ EffectsType => /\ routing # Effects!Nobody => routing \in Routings
                    /\ chain # Effects!None => chain \in Chains
                    /\ \A d \in Headphones : (routing.on = d => routing # Effects!Nobody)
                                             /\ (chain.on = d => chain # Effects!None)
<1>1. Effects!Nobody.on = NoChain /\ Effects!None.on = NoChain /\ Effects!None.runs = FALSE
  BY DEF Effects!Nobody, Effects!None
<1> QED BY <1>1, NoChainIsNone DEF EffectsType

(* Links, outputs and the server come and go.                              *)
LEMMA EffectsEnvironment ==
  ASSUME EffectsInv,
         \/ Effects!ServerGoes \/ UNCHANGED effectsVars
         \/ \E d \in Headphones : Effects!LinkChanges(d) \/ Effects!SinkComes(d)
                                  \/ Effects!SinkGoes(d) \/ Effects!UserSets(d)
  PROVE  EffectsInv'
<1> USE DEF Effects!linkVars, Effects!serverVars, Effects!threadVars, Effects!historyVars, EffectsInv
<1>1. CASE UNCHANGED effectsVars
  <2>1. UNCHANGED <<phase, link, connected, leaving, sinks, saved, waiting>>
        /\ UNCHANGED <<routing, chain, displaced, server, effectsStrayed>>
    BY <1>1 DEF effectsVars
  <2>2. EffectsFlags'
    BY <2>1 DEF EffectsFlags
  <2>3. EffectsType' /\ LeavingAreGone'
    BY <2>1 DEF EffectsType, LeavingAreGone
  <2>4. ~effectsStrayed' => OfConnected' /\ AsSaved' /\ InFront'
    BY <2>1 DEF OfConnected, AsSaved, InFront, WillRoute
  <2> QED BY <2>2, <2>3, <2>4
<1>2. CASE Effects!ServerGoes
  <2>1. UNCHANGED <<phase, link, connected, leaving, saved, waiting, routing>>
        /\ UNCHANGED <<displaced, effectsStrayed>> /\ server' = FALSE /\ sinks' = {}
        /\ chain' = IF chain = Effects!None THEN Effects!None ELSE [chain EXCEPT !.runs = FALSE]
    BY <1>2 DEF Effects!ServerGoes
  <2>2. EffectsFlags'
    BY <2>1 DEF EffectsFlags
  <2>3. \/ chain = Effects!None /\ chain' = Effects!None
        \/ /\ chain # Effects!None /\ chain \in Chains /\ chain' \in Chains
           /\ chain'.on = chain.on /\ chain'.config = chain.config
    <3>1. CASE chain = Effects!None
      BY <2>1, <3>1
    <3>2. CASE chain # Effects!None
      <4>1. chain \in Chains /\ chain' = [chain EXCEPT !.runs = FALSE]
        BY <2>1, <3>2 DEF EffectsType
      <4> QED BY <3>2, <4>1 DEF Chains
    <3> QED BY <3>1, <3>2
  <2>4. chain' # Effects!None => chain # Effects!None
    BY <2>1
  <2>5. EffectsType' /\ LeavingAreGone'
    BY <2>1, <2>3 DEF EffectsType, LeavingAreGone
  <2>6. ~effectsStrayed' => OfConnected' /\ AsSaved' /\ InFront'
    BY <2>1, <2>3, <2>4 DEF OfConnected, AsSaved, InFront, WillRoute
  <2> QED BY <2>2, <2>5, <2>6
<1>3. ASSUME NEW d \in Headphones, Effects!LinkChanges(d) PROVE EffectsInv'
  <2>1. UNCHANGED <<phase, connected, leaving, server, saved, waiting, routing, chain>>
        /\ UNCHANGED <<displaced, effectsStrayed>> /\ sinks' = sinks \ {d} /\ d \notin leaving
        /\ link' = IF d \in link THEN link \ {d} ELSE link \cup {d}
    BY <1>3 DEF Effects!LinkChanges
  <2>2. EffectsFlags'
    BY <2>1 DEF EffectsFlags
  <2>3. EffectsType' /\ LeavingAreGone'
    BY <2>1 DEF EffectsType, LeavingAreGone
  <2>4. ~effectsStrayed' => OfConnected' /\ AsSaved' /\ InFront'
    BY <2>1 DEF OfConnected, AsSaved, InFront, WillRoute
  <2> QED BY <2>2, <2>3, <2>4
<1>4. ASSUME NEW d \in Headphones, Effects!SinkComes(d) PROVE EffectsInv'
  <2>1. UNCHANGED <<phase, link, connected, leaving, saved, routing, chain, displaced, server>>
        /\ sinks' = sinks \cup {d} /\ d \in link \ sinks
    BY <1>4 DEF Effects!SinkComes
  <2>7. /\ effectsStrayed' = (effectsStrayed \/ d \notin connected)
        /\ waiting' = IF server THEN waiting \cup Effects!Card({d}) ELSE waiting
    BY <1>4, Zenon DEF Effects!SinkComes
  <2>8. waiting' = waiting \/ waiting' = waiting \cup {ToLook(d)}
    BY <2>7, ThreadsAre, Zenon
  <2>9. server => waiting' = waiting \cup {ToLook(d)}
    BY <2>7, ThreadsAre, Zenon
  <2>2. EffectsFlags'
    BY <2>1, <2>7, Zenon DEF EffectsFlags
  <2>3. EffectsType' /\ LeavingAreGone'
    BY <2>1 DEF EffectsType, LeavingAreGone
  <2>4. /\ \A e : ToRoute(e) \in waiting => ToRoute(e) \in waiting'
        /\ \A e : ToLook(e) \in waiting => ToLook(e) \in waiting'
        /\ server => ToLook(d) \in waiting'
    BY <2>8, <2>9
  <2>5. ~effectsStrayed' => ~effectsStrayed /\ d \in connected
    BY <2>7, Zenon
  <2>6. ~effectsStrayed' => OfConnected' /\ AsSaved' /\ InFront'
    BY <2>1, <2>4, <2>5 DEF OfConnected, AsSaved, InFront, WillRoute
  <2> QED BY <2>2, <2>3, <2>6
<1>5. ASSUME NEW d \in Headphones, Effects!SinkGoes(d) PROVE EffectsInv'
  <2>1. UNCHANGED <<phase, link, connected, leaving, server, saved, waiting, routing, chain>>
        /\ UNCHANGED <<displaced, effectsStrayed>> /\ sinks' = sinks \ {d}
    BY <1>5 DEF Effects!SinkGoes
  <2>2. EffectsFlags'
    BY <2>1 DEF EffectsFlags
  <2>3. EffectsType' /\ LeavingAreGone'
    BY <2>1 DEF EffectsType, LeavingAreGone
  <2>4. ~effectsStrayed' => OfConnected' /\ AsSaved' /\ InFront'
    BY <2>1 DEF OfConnected, AsSaved, InFront, WillRoute
  <2> QED BY <2>2, <2>3, <2>4
<1>6. ASSUME NEW d \in Headphones, Effects!UserSets(d) PROVE EffectsInv'
  <2>1. UNCHANGED <<phase, link, connected, leaving, server, sinks, routing, chain>>
        /\ UNCHANGED <<displaced, effectsStrayed>>
        /\ waiting' = IF d \in connected THEN waiting \cup Effects!Route({d}) ELSE waiting
    BY <1>6 DEF Effects!UserSets
  <2>2. saved' \in [Headphones -> Effects!Configs] /\ \A e \in Headphones \ {d} : saved'[e] = saved[e]
    BY <1>6 DEF Effects!UserSets, EffectsType
  <2>3. EffectsFlags'
    BY <2>1 DEF EffectsFlags
  <2>4. EffectsType' /\ LeavingAreGone'
    BY <2>1, <2>2 DEF EffectsType, LeavingAreGone
  <2>5. /\ \A e : ToRoute(e) \in waiting => ToRoute(e) \in waiting'
        /\ \A e : ToLook(e) \in waiting => ToLook(e) \in waiting'
        /\ d \in connected => ToRoute(d) \in waiting'
    BY <2>1, ThreadsAre
  <2>6. \A e \in connected : e # d => (WillRoute(e) => WillRoute(e)')
    BY <2>1, <2>2, <2>5 DEF WillRoute, EffectsType
  <2>7. ASSUME ~effectsStrayed' PROVE OfConnected' /\ AsSaved' /\ InFront'
    <3>1. OfConnected /\ AsSaved /\ InFront
      BY <2>1, <2>7
    <3>2. OfConnected'
      BY <2>1, <3>1 DEF OfConnected
    <3>3. AsSaved'
      BY <2>1, <2>2, <2>5, <2>6, <3>1 DEF AsSaved, WillRoute, EffectsType
    <3>4. InFront'
      <4>1. sinks \subseteq connected /\ connected \subseteq Headphones
        BY <3>1 DEF OfConnected, EffectsType
      <4>2. \A e \in sinks : e # d => saved'[e] = saved[e] /\ (WillRoute(e) => WillRoute(e)')
        BY <2>2, <2>6, <4>1
      <4>3. d \in sinks => WillRoute(d)'
        BY <2>5, <4>1 DEF WillRoute
      <4> QED BY <2>1, <2>5, <3>1, <4>2, <4>3 DEF InFront
    <3> QED BY <3>2, <3>3, <3>4
  <2> QED BY <2>3, <2>4, <2>7
<1> QED BY <1>1, <1>2, <1>3, <1>4, <1>5, <1>6

(* What the daemon hears of them.                                          *)
LEMMA EffectsListeners ==
  ASSUME EffectsInv,
         \/ Effects!Reconnected \/ Effects!SignalStops \/ Effects!Exits
         \/ \E d \in Headphones : Effects!Hears(d) \/ Effects!StopEffects(d)
  PROVE  EffectsInv'
<1> USE DEF Effects!linkVars, Effects!serverVars, Effects!threadVars, Effects!historyVars, EffectsInv
<1>1. CASE Effects!Reconnected
  <2>1. PICK active \in SUBSET connected :
          waiting' = waiting \cup Effects!Card(sinks) \cup Effects!Route(active)
    BY <1>1 DEF Effects!Reconnected
  <2>2. UNCHANGED <<phase, link, connected, leaving, sinks, saved, routing, displaced>>
        /\ UNCHANGED effectsStrayed /\ server' = TRUE /\ chain' = Effects!None
    BY <1>1 DEF Effects!Reconnected
  <2>3. EffectsFlags'
    BY <2>2 DEF EffectsFlags
  <2>4. EffectsType' /\ LeavingAreGone'
    BY <2>2 DEF EffectsType, LeavingAreGone
  <2>5. /\ \A e : ToRoute(e) \in waiting => ToRoute(e) \in waiting'
        /\ \A e \in sinks : ToLook(e) \in waiting'
    BY <2>1, ThreadsAre
  <2>6. ~effectsStrayed' => OfConnected' /\ AsSaved' /\ InFront'
    BY <2>2, <2>5 DEF OfConnected, AsSaved, InFront, WillRoute
  <2> QED BY <2>3, <2>4, <2>6
<1>2. CASE Effects!SignalStops
  <2>1. UNCHANGED <<link, connected, leaving, server, sinks, saved, waiting, routing>>
        /\ UNCHANGED <<displaced, effectsStrayed>> /\ chain' = Effects!None /\ phase' = "stops"
    BY <1>2 DEF Effects!SignalStops
  <2>2. EffectsFlags'
    BY <2>1 DEF EffectsFlags
  <2>3. EffectsType' /\ LeavingAreGone'
    BY <2>1 DEF EffectsType, LeavingAreGone
  <2>4. ~effectsStrayed' => OfConnected' /\ AsSaved' /\ InFront'
    BY <2>1 DEF OfConnected, AsSaved, InFront, WillRoute
  <2> QED BY <2>2, <2>3, <2>4
<1>3. CASE Effects!Exits
  <2>1. UNCHANGED <<link, connected, server, sinks, saved, displaced, effectsStrayed, chain>>
        /\ waiting' = {} /\ routing' = Effects!Nobody /\ leaving' = {}
        /\ phase = "stops" /\ phase' = "gone"
    BY <1>3 DEF Effects!Exits
  <2>2. EffectsFlags'
    BY <2>1 DEF EffectsFlags
  <2>3. EffectsType' /\ LeavingAreGone'
    BY <2>1 DEF EffectsType, LeavingAreGone
  <2>4. ~effectsStrayed' => OfConnected' /\ AsSaved' /\ InFront'
    BY <2>1 DEF OfConnected, AsSaved, InFront
  <2> QED BY <2>2, <2>3, <2>4
<1>4. ASSUME NEW d \in Headphones, Effects!Hears(d) PROVE EffectsInv'
  <2>1. UNCHANGED <<phase, link, server, sinks, saved, waiting, routing, chain, displaced>>
        /\ UNCHANGED effectsStrayed
        /\ \/ d \in link /\ connected' = connected \cup {d} /\ leaving' = leaving
           \/ d \notin link /\ connected' = connected \ {d} /\ leaving' = leaving \cup {d}
    BY <1>4 DEF Effects!Hears
  <2>2. EffectsFlags'
    BY <2>1 DEF EffectsFlags
  <2>3. EffectsType' /\ LeavingAreGone'
    BY <2>1 DEF EffectsType, LeavingAreGone
  <2>4. ASSUME ~effectsStrayed' PROVE OfConnected' /\ AsSaved' /\ InFront'
    <3>1. OfConnected /\ AsSaved /\ InFront
      BY <2>1, <2>4
    <3>2. OfConnected'
      BY <2>1, <3>1 DEF OfConnected, EffectsType
    <3>3. chain # Effects!None /\ chain.on \in connected' => chain.on \in connected
      BY <2>1, <3>1 DEF OfConnected, LeavingAreGone
    <3>4. routing # Effects!Nobody /\ routing.step # "look" /\ routing.on \in connected'
            => routing.on \in connected
      BY <2>1, <3>1 DEF OfConnected, LeavingAreGone
    <3>5. AsSaved'
      BY <2>1, <3>1, <3>3, <3>4 DEF AsSaved, WillRoute
    <3>6. InFront'
      BY <2>1, <3>1 DEF InFront, WillRoute
    <3> QED BY <3>2, <3>5, <3>6
  <2> QED BY <2>2, <2>3, <2>4
<1>5. ASSUME NEW d \in Headphones, Effects!StopEffects(d) PROVE EffectsInv'
  <2>1. UNCHANGED <<phase, link, connected, server, sinks, saved, waiting, routing>>
        /\ d \in leaving /\ leaving' = leaving \ {d} /\ displaced' = displaced \ {d}
        /\ chain' = IF chain.on = d THEN Effects!None ELSE chain
    BY <1>5 DEF Effects!StopEffects, Effects!StoppedFor
  <2>2. effectsStrayed' = (effectsStrayed \/ (routing.on = d /\ routing.step # "look"))
    BY <1>5, Zenon DEF Effects!StopEffects
  <2>3. EffectsFlags'
    BY <2>1, <2>2 DEF EffectsFlags
  <2>4. EffectsType' /\ LeavingAreGone'
    BY <2>1 DEF EffectsType, LeavingAreGone
  <2>5. ~effectsStrayed' => ~effectsStrayed /\ ~(routing.on = d /\ routing.step # "look")
    BY <2>2, Zenon
  <2>6. ASSUME ~effectsStrayed' PROVE OfConnected' /\ AsSaved' /\ InFront'
    <3>1. OfConnected /\ AsSaved /\ InFront
      BY <2>5, <2>6
    <3>2. d \notin sinks
      BY <2>1 DEF LeavingAreGone, EffectsType
    <3> QED BY <2>1, <2>5, <2>6, <3>1, <3>2 DEF OfConnected, AsSaved, InFront, WillRoute
  <2> QED BY <2>3, <2>4, <2>6
<1> QED BY <1>1, <1>2, <1>3, <1>4, <1>5

(* RouteAudio.                                                             *)
LEMMA EffectsRouted ==
  ASSUME EffectsInv,
         \/ Effects!Looks \/ Effects!LooksInVain \/ Effects!LoadEffectsConfig
         \/ phase # "gone" /\ Effects!Applies
         \/ \E d \in Headphones : Effects!CardLooks(d) \/ Effects!TakesLock(d)
  PROVE  EffectsInv'
<1> USE DEF Effects!linkVars, Effects!serverVars, Effects!threadVars, Effects!historyVars, EffectsInv
<1>1. ASSUME NEW d \in Headphones, Effects!CardLooks(d) PROVE EffectsInv'
  <2>1. UNCHANGED <<phase, link, connected, leaving, server, sinks, saved, routing, chain>>
        /\ UNCHANGED <<displaced, effectsStrayed>>
        /\ \/ saved[d] = "flat" /\ waiting' = waiting \ {ToLook(d)}
           \/ saved[d] # "flat" /\ waiting' = (waiting \ {ToLook(d)}) \cup {ToRoute(d)}
    BY <1>1, ThreadsAre DEF Effects!CardLooks
  <2>2. EffectsFlags'
    BY <2>1 DEF EffectsFlags
  <2>3. EffectsType' /\ LeavingAreGone'
    BY <2>1 DEF EffectsType, LeavingAreGone
  <2>4. /\ \A e : ToRoute(e) \in waiting => ToRoute(e) \in waiting'
        /\ \A e : e # d /\ ToLook(e) \in waiting => ToLook(e) \in waiting'
        /\ saved[d] # "flat" => ToRoute(d) \in waiting'
    BY <2>1, ThreadsAre
  <2>5. ~effectsStrayed' => OfConnected' /\ AsSaved' /\ InFront'
    BY <2>1, <2>4 DEF OfConnected, AsSaved, InFront, WillRoute
  <2> QED BY <2>2, <2>3, <2>5
<1>2. ASSUME NEW d \in Headphones, Effects!TakesLock(d) PROVE EffectsInv'
  <2>1. UNCHANGED <<phase, link, connected, leaving, server, sinks, saved, chain>>
        /\ UNCHANGED <<displaced, effectsStrayed>> /\ routing = Effects!Nobody
        /\ waiting' = waiting \ {ToRoute(d)}
        /\ routing' = [on |-> d, step |-> "look", config |-> "flat"]
    BY <1>2, ThreadsAre DEF Effects!TakesLock
  <2>2. /\ routing' \in Routings /\ routing'.on = d /\ routing'.step = "look"
        /\ routing.on \notin Headphones
    BY <2>1, NobodyIsNot, NoChainIsNone DEF Routings, Effects!Steps, Effects!Configs
  <2>3. EffectsFlags'
    BY <2>1 DEF EffectsFlags
  <2>4. EffectsType' /\ LeavingAreGone'
    BY <2>1, <2>2 DEF EffectsType, LeavingAreGone
  <2>5. /\ \A e : e # d /\ ToRoute(e) \in waiting => ToRoute(e) \in waiting'
        /\ \A e : ToLook(e) \in waiting => ToLook(e) \in waiting'
    BY <2>1, ThreadsAre
  <2>6. \A e \in Headphones : WillRoute(e) => WillRoute(e)'
    BY <2>1, <2>2, <2>5 DEF WillRoute
  <2>7. chain # Effects!None => chain.on \in Headphones
    BY DEF EffectsType, Chains
  <2>8. ASSUME ~effectsStrayed' PROVE OfConnected' /\ AsSaved' /\ InFront'
    <3>1. OfConnected /\ AsSaved /\ InFront
      BY <2>1, <2>8
    <3>2. OfConnected' /\ AsSaved'
      BY <2>1, <2>2, <2>6, <2>7, <3>1 DEF OfConnected, AsSaved
    <3>3. InFront'
      BY <2>1, <2>5, <2>6, <3>1 DEF InFront, EffectsType
    <3> QED BY <3>2, <3>3
  <2> QED BY <2>3, <2>4, <2>8
<1>3. CASE Effects!Looks
  <2>1. UNCHANGED <<phase, link, connected, leaving, server, sinks, saved, waiting, chain>>
        /\ UNCHANGED <<displaced, effectsStrayed>> /\ routing # Effects!Nobody
        /\ routing.step = "look" /\ routing.on \in connected
        /\ routing' = [routing EXCEPT !.step = "load"]
    BY <1>3 DEF Effects!Looks, Effects!HasOutput
  <2>2. routing \in Routings
    BY <2>1 DEF EffectsType
  <2>3. routing' \in Routings /\ routing'.on = routing.on /\ routing'.step = "load"
    BY <2>1, <2>2 DEF Routings, Effects!Steps
  <2>4. EffectsFlags'
    BY <2>1 DEF EffectsFlags
  <2>5. EffectsType' /\ LeavingAreGone'
    BY <2>1, <2>3 DEF EffectsType, LeavingAreGone
  <2>6. ~effectsStrayed' => OfConnected' /\ AsSaved' /\ InFront'
    BY <2>1, <2>3 DEF OfConnected, AsSaved, InFront, WillRoute
  <2> QED BY <2>4, <2>5, <2>6
<1>4. CASE Effects!LooksInVain
  <2>1. UNCHANGED <<phase, link, connected, leaving, server, sinks, saved, waiting>>
        /\ UNCHANGED <<displaced, effectsStrayed>> /\ routing # Effects!Nobody
        /\ routing.step = "look" /\ ~Effects!HasOutput(routing.on)
        /\ routing' = Effects!Nobody
        /\ chain' = IF chain.on = routing.on THEN Effects!None ELSE chain
    BY <1>4 DEF Effects!LooksInVain, Effects!StoppedFor
  <2>2. \A e : e # routing.on => (WillRoute(e) => WillRoute(e)')
    BY <2>1 DEF WillRoute
  <2>3. EffectsFlags'
    BY <2>1 DEF EffectsFlags
  <2>4. EffectsType' /\ LeavingAreGone'
    BY <2>1 DEF EffectsType, LeavingAreGone
  <2>5. ASSUME ~effectsStrayed' PROVE OfConnected' /\ AsSaved' /\ InFront'
    <3>1. OfConnected /\ AsSaved /\ InFront
      BY <2>1, <2>5
    <3>2. OfConnected' /\ AsSaved'
      BY <2>1, <2>2, <3>1 DEF OfConnected, AsSaved
    <3>3. server => routing.on \notin sinks
      BY <2>1, <3>1 DEF OfConnected, Effects!HasOutput
    <3>4. InFront'
      BY <2>1, <2>2, <3>1, <3>3 DEF InFront
    <3> QED BY <3>2, <3>4
  <2> QED BY <2>3, <2>4, <2>5
<1>5. CASE Effects!LoadEffectsConfig
  <2>1. UNCHANGED <<phase, link, connected, leaving, server, sinks, saved, waiting, chain>>
        /\ UNCHANGED <<displaced, effectsStrayed>> /\ routing # Effects!Nobody
        /\ routing.step = "load"
        /\ routing' = [routing EXCEPT !.step = "apply", !.config = saved[routing.on]]
    BY <1>5 DEF Effects!LoadEffectsConfig
  <2>2. routing \in Routings /\ saved[routing.on] \in Effects!Configs
    BY <2>1 DEF EffectsType, Routings
  <2>3. /\ routing' \in Routings /\ routing'.on = routing.on /\ routing'.step = "apply"
        /\ routing'.config = saved[routing.on]
    BY <2>1, <2>2 DEF Routings, Effects!Steps
  <2>4. EffectsFlags'
    BY <2>1 DEF EffectsFlags
  <2>5. EffectsType' /\ LeavingAreGone'
    BY <2>1, <2>3 DEF EffectsType, LeavingAreGone
  <2>6. ~effectsStrayed' => OfConnected' /\ AsSaved' /\ InFront'
    BY <2>1, <2>3 DEF OfConnected, AsSaved, InFront, WillRoute
  <2> QED BY <2>4, <2>5, <2>6
<1>6. CASE phase # "gone" /\ Effects!Applies
  <2> DEFINE d == routing.on
             c == routing.config
  <2>1. UNCHANGED <<phase, link, connected, leaving, server, sinks, saved, waiting>>
        /\ routing # Effects!Nobody /\ routing.step = "apply" /\ routing' = Effects!Nobody
        /\ displaced' = (displaced \cup ({chain.on} \cap Headphones)) \ {d}
        /\ chain' = Effects!Applied(d, c)
    BY <1>6 DEF Effects!Applies
  <2>2. effectsStrayed' = (effectsStrayed \/ phase = "stops")
    BY <1>6, Zenon DEF Effects!Applies
  <2>3. d \in Headphones /\ c \in Effects!Configs
    BY <2>1 DEF EffectsType, Routings
  <2>4. \/ chain' = Effects!None /\ c = "flat"
        \/ /\ chain' # Effects!None /\ chain' \in Chains /\ chain'.on = d /\ chain'.config = c
           /\ \/ chain'.runs = server
              \/ chain # Effects!None /\ chain'.runs = chain.runs
    <3>1. CASE chain.on = d /\ Effects!Graph(c) = Effects!Graph(chain.config)
      <4>1. chain \in Chains /\ chain # Effects!None
        BY <2>3, <3>1, NobodyIsNot
      <4>2. chain' = [chain EXCEPT !.config = c]
        BY <2>1, <3>1 DEF Effects!Applied
      <4>3. chain' \in Chains /\ chain'.on = d /\ chain'.config = c /\ chain'.runs = chain.runs
        BY <2>3, <3>1, <4>1, <4>2 DEF Chains
      <4> QED BY <2>3, <4>1, <4>3, NobodyIsNot, NoChainIsNone
    <3>2. CASE ~(chain.on = d /\ Effects!Graph(c) = Effects!Graph(chain.config))
      <4>1. CASE c = "flat"
        BY <2>1, <3>2, <4>1 DEF Effects!Applied
      <4>2. CASE c # "flat"
        <5>1. chain' = [on |-> d, config |-> c, runs |-> server]
          BY <2>1, <3>2, <4>2 DEF Effects!Applied
        <5>2. server \in BOOLEAN
          BY DEF EffectsFlags
        <5>3. chain' \in Chains /\ chain'.on = d /\ chain'.config = c /\ chain'.runs = server
          BY <2>3, <5>1, <5>2 DEF Chains
        <5> QED BY <2>3, <5>3, NobodyIsNot, NoChainIsNone
      <4> QED BY <4>1, <4>2
    <3> QED BY <3>1, <3>2
  <2> HIDE DEF c
  <2>5. EffectsFlags'
    BY <2>1, <2>2 DEF EffectsFlags
  <2>6. EffectsType' /\ LeavingAreGone'
    BY <2>1, <2>3, <2>4 DEF EffectsType, LeavingAreGone
  <2>7. ~effectsStrayed' => ~effectsStrayed /\ phase # "stops"
    BY <2>2, Zenon
  <2>8. \A e : e # d => (WillRoute(e) => WillRoute(e)')
    BY <2>1 DEF WillRoute
  <2>9. ASSUME ~effectsStrayed' PROVE OfConnected' /\ AsSaved' /\ InFront'
    <3>1. OfConnected /\ AsSaved /\ InFront
      BY <2>7, <2>9
    <3>2. d \in connected \cup leaving /\ (d \in connected => c = saved[d] \/ ToRoute(d) \in waiting)
      BY <2>1, <3>1 DEF OfConnected, AsSaved, c
    <3>3. OfConnected'
      BY <2>1, <2>4, <3>1, <3>2 DEF OfConnected
    <3>4. AsSaved'
      BY <2>1, <2>4, <3>1, <3>2 DEF AsSaved, WillRoute
    <3>5. InFront'
      <4>1. server /\ chain' # Effects!None => chain'.runs
        BY <2>4, <3>1 DEF InFront
      <4>2. phase # "up" => chain' = Effects!None
        BY <1>6, <2>7, <2>9 DEF EffectsType
      <4>3. ASSUME phase = "up", server, NEW e \in sinks \ displaced', saved[e] # "flat"
            PROVE  chain'.on = e \/ ToLook(e) \in waiting' \/ WillRoute(e)'
        <5>1. CASE e = d
          BY <2>1, <2>4, <3>1, <3>2, <4>3, <5>1 DEF OfConnected, WillRoute
        <5>2. CASE e # d
          <6>1. e \in Headphones /\ e \in sinks \ displaced /\ chain.on # e
            BY <2>1, <4>3, <5>2 DEF EffectsType
          <6> QED BY <2>1, <2>8, <3>1, <4>3, <5>2, <6>1 DEF InFront
        <5> QED BY <5>1, <5>2
      <4> QED BY <2>1, <4>1, <4>2, <4>3 DEF InFront
    <3> QED BY <3>3, <3>4, <3>5
  <2> QED BY <2>5, <2>6, <2>9
<1> QED BY <1>1, <1>2, <1>3, <1>4, <1>5, <1>6

(* The invariant of the effect chain is inductive.                         *)
LEMMA EffectsInvKept == EffectsInv /\ [CapabilitiesNext]_allVars => EffectsInv'
BY EffectSteps, EffectsEnvironment, EffectsListeners, EffectsRouted DEF EffectStep

(* With nothing under way the chain is in front of connected headphones     *)
(* with the effects that were saved last, whoever has an output and effects *)
(* has it or lost it to others, and it does not outlive the daemon: unless  *)
(* a RouteAudio overtakes the headphones' leaving or the signal.            *)
THEOREM ChainAlwaysFollows == CapabilitiesSpec => []ChainFollowsUnlessStrayed
<1>1. EffectsInv => ChainFollowsUnlessStrayed
  <2> SUFFICES ASSUME EffectsInv, ~effectsStrayed
               PROVE  Effects!ChainFollows
    BY DEF ChainFollowsUnlessStrayed, Effects!ChainFollowsUnlessStrayed
  <2>1. EffectsType /\ OfConnected /\ AsSaved /\ InFront
    BY DEF EffectsInv
  <2>2. Effects!AtRest => \A d \in Headphones : ~WillRoute(d) /\ ToLook(d) \notin waiting
    BY NobodyIsNot, NoChainIsNone DEF Effects!AtRest, WillRoute
  <2>3. Effects!AtRest /\ chain # Effects!None
          => chain.on \in connected /\ chain.config = saved[chain.on]
    <3>1. connected \subseteq Headphones
      BY <2>1 DEF EffectsType
    <3> QED BY <2>1, <2>2, <3>1 DEF Effects!AtRest, OfConnected, AsSaved
  <2>4. Effects!AtRest => \A d \in sinks \ displaced : saved[d] # "flat" => chain.on = d /\ chain.runs
    <3> SUFFICES ASSUME Effects!AtRest, NEW d \in sinks \ displaced, saved[d] # "flat"
                 PROVE  chain.on = d /\ chain.runs
      OBVIOUS
    <3>1. d \in Headphones
      BY <2>1 DEF EffectsType
    <3>2. chain.on = d
      BY <2>1, <2>2, <3>1 DEF Effects!AtRest, InFront
    <3>3. chain # Effects!None
      BY <2>1, <3>1, <3>2, NobodyIsNot
    <3> QED BY <2>1, <3>2, <3>3 DEF Effects!AtRest, InFront
  <2>5. phase = "gone" => chain = Effects!None
    BY <2>1 DEF InFront
  <2> QED BY <2>3, <2>4, <2>5 DEF Effects!ChainFollows
<1>2. CapabilitiesSpec => []EffectsInv
  BY EffectsInit, EffectsInvKept, PTL DEF CapabilitiesSpec
<1> QED BY <1>1, <1>2, PTL

=============================================================================
