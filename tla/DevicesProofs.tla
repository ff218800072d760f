---------------------------- MODULE DevicesProofs ----------------------------
(***************************************************************************)
(* What the daemon promises of the devices it keeps, for any headphones,    *)
(* workers and threads that advertise.                                     *)
(***************************************************************************)
EXTENDS MCDevices, Sequences, WellFoundedInduction, TLAPS

(* What the selection picks from: a set of numbers has a least, a bounded   *)
(* one a greatest.                                                         *)
LEMMA SmallestNat ==
  ASSUME NEW S \in SUBSET Nat, S # {}
  PROVE  \E x \in S : \A y \in S : x <= y
<1> DEFINE R == {ss \in Nat \X Nat : ss[1] < ss[2]}
<1>1. OpToRel(<, Nat) = R
  BY DEF OpToRel
<1>2. IsWellFoundedOn(R, Nat)
  BY <1>1, NatLessThanWellFounded
<1> HIDE DEF R
<1>3. \E x \in S : \A y \in S : ~ (<<y, x>> \in R)
  BY <1>2, WFMin
<1>4. PICK x \in S : \A y \in S : ~ (<<y, x>> \in R)
  BY <1>3
<1>5. ASSUME NEW y \in S PROVE ~ (y < x)
  <2>1. <<y, x>> \in Nat \X Nat /\ <<y, x>>[1] = y /\ <<y, x>>[2] = x
    OBVIOUS
  <2>2. ~ (<<y, x>> \in R)
    BY <1>4
  <2> QED BY <2>1, <2>2, Zenon DEF R
<1> QED BY <1>5

(* The least of some numbers is one of them.                               *)
LEMMA MinIs ==
  ASSUME NEW S \in SUBSET Nat, S # {}
  PROVE  Active!Min(S) \in S
BY SmallestNat DEF Active!Min

(* The greatest of bounded numbers is one of them.                         *)
LEMMA MaxIs ==
  ASSUME NEW n \in Nat, NEW S \in SUBSET Nat, \A x \in S : x <= n, S # {}
  PROVE  Active!Max(S) \in S
<1> DEFINE T == {n - x : x \in S}
<1>1. T \in SUBSET Nat /\ T # {}
  <2>1. ASSUME NEW x \in S PROVE n - x \in Nat
    OBVIOUS
  <2> QED BY <2>1
<1>2. PICK t \in T : \A y \in T : t <= y
  BY <1>1, SmallestNat
<1>3. PICK x \in S : t = n - x
  OBVIOUS
<1>4. \A y \in S : x >= y
  <2> SUFFICES ASSUME NEW y \in S PROVE x >= y
    OBVIOUS
  <2>1. n - y \in T
    OBVIOUS
  <2>2. t <= n - y
    BY <1>2, <2>1
  <2> QED BY <1>3, <2>2
<1> QED BY <1>4 DEF Active!Max

-----------------------------------------------------------------------------
(* The active device: what is assumed of its constants.                    *)
LEMMA ActiveConstants ==
  /\ Bluetooth \subseteq Nat \ {0} /\ Known \subseteq Bluetooth /\ Wired \in Nat \ {0}
  /\ \A d \in Bluetooth : d < Wired
  /\ Workers \subseteq Nat \ {0} /\ MaxMoves \in Nat
BY DevicesAssumption DEF Active!ConstantsOK

(* A jack's headphones come last in the map, and no address is nobody's.    *)
LEMMA AddressesAre ==
  /\ Active!Devices \subseteq Nat \ {0} /\ \A d \in Active!Devices : d <= Wired
  /\ Bluetooth \subseteq Active!Devices /\ Wired \in Active!Devices /\ Wired \notin Bluetooth
  /\ Active!Devices = Bluetooth \cup {Wired}
  /\ Workers \subseteq Nat \ {0} /\ MaxMoves \in Nat /\ Active!Nobody = 0
BY ActiveConstants DEF Active!Devices, Active!Nobody

(* A usable device is a device.                                            *)
LEMMA UsableAre == Active!Usable \subseteq Active!Devices
BY DEF Active!Usable, Active!Map, Active!Devices

(* Whoever is preferred, a connected one is selected if there is any.       *)
LEMMA SelectedIs ==
  ASSUME NEW preferred
  PROVE  IF Active!Usable = {} THEN Active!Selected(preferred) = Active!Nobody ELSE Active!Selected(preferred) \in Active!Usable
<1>1. Active!Usable # {} => Active!Max(Active!Usable) \in Active!Usable
  BY AddressesAre, UsableAre, MaxIs
<1> QED BY <1>1 DEF Active!Selected

(* An event wakes a worker that is idle, or one sleeps already.            *)
LEMMA RefreshWakes ==
  ASSUME Active!TypeOK, Active!RefreshWiredSoon
  PROVE  \/ (pending \/ ~started) /\ pending' = pending /\ worker' = worker
         \/ /\ ~pending /\ started /\ pending' = TRUE
            /\ \E w \in Workers : worker[w] = "off" /\ worker' = [worker EXCEPT ![w] = "sleep"]
<1> DEFINE idle == {w \in Workers : worker[w] = "off"}
<1>1. idle # {} => Active!Min(idle) \in idle
  <2>1. idle \in SUBSET Nat
    BY AddressesAre
  <2> HIDE DEF idle
  <2> QED BY <2>1, MinIs
<1>2. \/ (pending \/ ~started) /\ pending' = pending /\ worker' = worker
      \/ /\ ~pending /\ started /\ pending' = TRUE
         /\ idle # {} /\ worker' = [worker EXCEPT ![Active!Min(idle)] = "sleep"]
  BY Zenon DEF Active!RefreshWiredSoon
<1> QED BY <1>1, <1>2

(* The type invariant of automatic switching is inductive.                 *)
LEMMA TypeStep == Active!TypeOK /\ [Active!Next]_(Active!vars) => Active!TypeOK'
<1> SUFFICES ASSUME Active!TypeOK, [Active!Next]_(Active!vars) PROVE Active!TypeOK'
  OBVIOUS
<1> USE AddressesAre DEF Active!TypeOK, Active!Phases, Active!vars, Active!wiredVars, Active!historyVars, Active!Moves, Active!Grows, Active!Steps, Active!OutputAfter
<1>1. CASE Active!JackChanges
  BY <1>1 DEF Active!JackChanges
<1>2. CASE Active!OutputChanges
  BY <1>2 DEF Active!OutputChanges
<1>3. CASE Active!Starts
  BY <1>3 DEF Active!Starts
<1>4. CASE Active!RefreshWiredSoon
  <2>1. /\ event' = FALSE
        /\ UNCHANGED <<link, connected, phase, fetched, told, started, output, looked, wiredLock,
                       routing, outputAddress, active, overwritten, missed, early, moves>>
    BY <1>4, Zenon DEF Active!RefreshWiredSoon
  <2>2. pending' \in BOOLEAN
    BY <1>4, RefreshWakes
  <2>3. worker' = worker \/ \E w \in Workers : worker' = [worker EXCEPT ![w] = "sleep"]
    BY <1>4, RefreshWakes, Zenon
  <2>4. worker' \in [Workers -> {"off", "sleep", "wait", "plug", "select", "output", "publish", "pick"}]
    BY <2>3
  <2> QED BY <2>1, <2>2, <2>4
<1>5. ASSUME NEW d \in Bluetooth, Active!LinkChanges(d) PROVE Active!TypeOK'
  BY <1>5 DEF Active!LinkChanges
<1>6. ASSUME NEW d \in Bluetooth, Active!DeviceHears(d) PROVE Active!TypeOK'
  BY <1>6 DEF Active!DeviceHears
<1>7. ASSUME NEW d \in Bluetooth, Active!SelectsConnected(d) PROVE Active!TypeOK'
  BY <1>7, SelectedIs, UsableAre DEF Active!SelectsConnected
<1>8. ASSUME NEW d \in Bluetooth, Active!InitListens(d) PROVE Active!TypeOK'
  BY <1>8 DEF Active!InitListens
<1>9. ASSUME NEW d \in Bluetooth, Active!InitReads(d) PROVE Active!TypeOK'
  BY <1>9 DEF Active!InitReads
<1>10. ASSUME NEW d \in Bluetooth, Active!InitWrites(d) PROVE Active!TypeOK'
  BY <1>10 DEF Active!InitWrites
<1>11. ASSUME NEW d \in Bluetooth, Active!FetcherListens(d) PROVE Active!TypeOK'
  BY <1>11 DEF Active!FetcherListens
<1>12. ASSUME NEW d \in Bluetooth, Active!Inserts(d) PROVE Active!TypeOK'
  BY <1>12 DEF Active!Inserts
<1>13. ASSUME NEW d \in Bluetooth, Active!Inserted(d) PROVE Active!TypeOK'
  BY <1>13, SelectedIs, UsableAre DEF Active!Inserted
<1>14. ASSUME NEW d \in Bluetooth, Active!RemovedIsSelected(d) PROVE Active!TypeOK'
  BY <1>14, SelectedIs, UsableAre DEF Active!RemovedIsSelected
<1>15. ASSUME NEW d \in Bluetooth, Active!Removed(d) PROVE Active!TypeOK'
  BY <1>15 DEF Active!Removed
<1>16. ASSUME NEW d \in Active!Devices, Active!SetActiveDevice(d) PROVE Active!TypeOK'
  <2>1. active' \in Active!Devices \cup {Active!Nobody}
    BY <1>16, SelectedIs, UsableAre DEF Active!SetActiveDevice
  <2>2. routing' \subseteq Active!Devices
    BY <1>16 DEF Active!SetActiveDevice
  <2> QED BY <1>16, <2>1, <2>2 DEF Active!SetActiveDevice
<1>17. ASSUME NEW d \in Active!Devices, Active!Routes(d) PROVE Active!TypeOK'
  BY <1>17 DEF Active!Routes
<1>18. ASSUME NEW w \in Workers, Active!WakesUp(w) PROVE Active!TypeOK'
  BY <1>18 DEF Active!WakesUp
<1>19. ASSUME NEW w \in Workers, Active!Looks(w) PROVE Active!TypeOK'
  BY <1>19 DEF Active!Looks
<1>20. ASSUME NEW w \in Workers, Active!Plugs(w) PROVE Active!TypeOK'
  <2>1. connected' = connected \/ connected' = [connected EXCEPT ![Wired] = (looked[w] = Wired)]
    BY <1>20, Zenon DEF Active!Plugs
  <2>2. routing' = routing \/ routing' = routing \cup {Wired}
    BY <1>20 DEF Active!Plugs
  <2>3. worker' = [worker EXCEPT ![w] = "select"] \/ worker' = [worker EXCEPT ![w] = "output"]
    BY <1>20, Zenon DEF Active!Plugs
  <2>4. connected' \in [Active!Devices -> BOOLEAN]
    BY <2>1
  <2>5. /\ looked' = [looked EXCEPT ![w] = Active!Nobody]
        /\ UNCHANGED <<link, phase, fetched, told, started, output, event, pending, wiredLock,
                       outputAddress, active, Active!historyVars, moves>>
    BY <1>20, Zenon DEF Active!Plugs
  <2>6. routing' \subseteq Active!Devices
    BY <2>2
  <2>7. worker' \in [Workers -> {"off", "sleep", "wait", "plug", "select", "output", "publish", "pick"}]
    BY <2>3
  <2>8. looked' \in [Workers -> Active!Devices \cup {Active!Nobody}]
    BY <2>5
  <2> QED BY <2>4, <2>5, <2>6, <2>7, <2>8
<1>21. ASSUME NEW w \in Workers, Active!SelectsPlugged(w) PROVE Active!TypeOK'
  <2>1. active' \in Active!Devices \cup {Active!Nobody}
    BY <1>21, SelectedIs, UsableAre DEF Active!SelectsPlugged
  <2>2. CASE ~connected[Wired] /\ active' # Active!Nobody
    BY <1>21, <2>1, <2>2 DEF Active!SelectsPlugged
  <2>3. CASE ~(~connected[Wired] /\ active' # Active!Nobody)
    BY <1>21, <2>1, <2>3 DEF Active!SelectsPlugged
  <2> QED BY <2>2, <2>3
<1>22. ASSUME NEW w \in Workers, Active!LooksAtOutput(w) PROVE Active!TypeOK'
  BY <1>22 DEF Active!LooksAtOutput
<1>23. ASSUME NEW w \in Workers, Active!PublishesOutput(w) PROVE Active!TypeOK'
  BY <1>23 DEF Active!PublishesOutput
<1>24. ASSUME NEW w \in Workers, Active!PicksPlaying(w) PROVE Active!TypeOK'
  BY <1>24, SelectedIs, UsableAre DEF Active!PicksPlaying
<1>25. CASE UNCHANGED Active!vars
  BY <1>25
<1> QED
  BY <1>1, <1>2, <1>3, <1>4, <1>5, <1>6, <1>7, <1>8, <1>9, <1>10, <1>11, <1>12, <1>13, <1>14,
     <1>15, <1>16, <1>17, <1>18, <1>19, <1>20, <1>21, <1>22, <1>23, <1>24, <1>25
     DEF Active!Next, Active!Makes, Active!Runs

(* Every change of what is connected is followed by a selection.            *)
Right == IF Active!Usable = {} THEN active = Active!Nobody ELSE active \in Active!Usable
Selecting ==
  \/ \E d \in Bluetooth : told[d] = "select" \/ phase[d] \in {"in", "out"}
  \/ \E w \in Workers : worker[w] = "select"
SelectionInv == Selecting \/ Right

(* A selection leaves the right device selected.                           *)
LEMMA SelectsRight ==
  ASSUME NEW preferred, active' = Active!Selected(preferred), Active!Usable' = Active!Usable
  PROVE  Right'
BY SelectedIs DEF Right

(* The selection is right, or about to be made.                            *)
LEMMA SelectionStep ==
  ASSUME Active!TypeOK, SelectionInv, [Active!Next]_(Active!vars)
  PROVE  SelectionInv'
<1> USE AddressesAre DEF Active!TypeOK, Active!Phases, Active!vars, Active!wiredVars, Active!historyVars, Active!Grows, Active!Steps
<1>1. CASE Active!JackChanges
  BY <1>1 DEF Active!JackChanges, SelectionInv, Selecting, Right, Active!Usable, Active!Map
<1>2. CASE Active!OutputChanges
  BY <1>2 DEF Active!OutputChanges, SelectionInv, Selecting, Right, Active!Usable, Active!Map
<1>3. CASE Active!Starts
  BY <1>3 DEF Active!Starts, SelectionInv, Selecting, Right, Active!Usable, Active!Map
<1>4. CASE Active!RefreshWiredSoon
  <2>1. UNCHANGED <<connected, phase, told, active>>
    BY <1>4, Zenon DEF Active!RefreshWiredSoon
  <2>2. CASE worker' = worker
    BY <2>1, <2>2 DEF SelectionInv, Selecting, Right, Active!Usable, Active!Map
  <2>3. CASE \E w \in Workers : worker[w] = "off" /\ worker' = [worker EXCEPT ![w] = "sleep"]
    BY <2>1, <2>3 DEF SelectionInv, Selecting, Right, Active!Usable, Active!Map
  <2> QED BY <1>4, <2>2, <2>3, RefreshWakes
<1>5. ASSUME NEW d \in Bluetooth, Active!LinkChanges(d) PROVE SelectionInv'
  BY <1>5 DEF Active!LinkChanges, SelectionInv, Selecting, Right, Active!Usable, Active!Map
<1>6. ASSUME NEW d \in Bluetooth, Active!DeviceHears(d) PROVE SelectionInv'
  BY <1>6 DEF Active!DeviceHears, SelectionInv, Selecting, Right, Active!Usable, Active!Map
<1>7. ASSUME NEW d \in Bluetooth, Active!SelectsConnected(d) PROVE SelectionInv'
  BY <1>7, SelectsRight
     DEF Active!SelectsConnected, SelectionInv, Selecting, Right, Active!Usable, Active!Map
<1>8. ASSUME NEW d \in Bluetooth, Active!InitListens(d) PROVE SelectionInv'
  BY <1>8 DEF Active!InitListens, SelectionInv, Selecting, Right, Active!Usable, Active!Map
<1>9. ASSUME NEW d \in Bluetooth, Active!InitReads(d) PROVE SelectionInv'
  BY <1>9 DEF Active!InitReads, SelectionInv, Selecting, Right, Active!Usable, Active!Map
<1>10. ASSUME NEW d \in Bluetooth, Active!InitWrites(d) PROVE SelectionInv'
  BY <1>10 DEF Active!InitWrites, SelectionInv, Selecting, Right, Active!Usable, Active!Map
<1>11. ASSUME NEW d \in Bluetooth, Active!FetcherListens(d) PROVE SelectionInv'
  BY <1>11 DEF Active!FetcherListens, SelectionInv, Selecting, Right, Active!Usable, Active!Map
<1>12. ASSUME NEW d \in Bluetooth, Active!Inserts(d) PROVE SelectionInv'
  BY <1>12 DEF Active!Inserts, SelectionInv, Selecting, Right, Active!Usable, Active!Map
<1>13. ASSUME NEW d \in Bluetooth, Active!Inserted(d) PROVE SelectionInv'
  BY <1>13, SelectsRight
     DEF Active!Inserted, SelectionInv, Selecting, Right, Active!Usable, Active!Map
<1>14. ASSUME NEW d \in Bluetooth, Active!RemovedIsSelected(d) PROVE SelectionInv'
  BY <1>14, SelectsRight
     DEF Active!RemovedIsSelected, SelectionInv, Selecting, Right, Active!Usable, Active!Map
<1>15. ASSUME NEW d \in Bluetooth, Active!Removed(d) PROVE SelectionInv'
  BY <1>15 DEF Active!Removed, SelectionInv, Selecting, Right, Active!Usable, Active!Map
<1>16. ASSUME NEW d \in Active!Devices, Active!SetActiveDevice(d) PROVE SelectionInv'
  BY <1>16, SelectsRight
     DEF Active!SetActiveDevice, SelectionInv, Selecting, Right, Active!Usable, Active!Map
<1>17. ASSUME NEW d \in Active!Devices, Active!Routes(d) PROVE SelectionInv'
  BY <1>17 DEF Active!Routes, SelectionInv, Selecting, Right, Active!Usable, Active!Map
<1>18. ASSUME NEW w \in Workers, Active!WakesUp(w) PROVE SelectionInv'
  BY <1>18 DEF Active!WakesUp, SelectionInv, Selecting, Right, Active!Usable, Active!Map
<1>19. ASSUME NEW w \in Workers, Active!Looks(w) PROVE SelectionInv'
  BY <1>19 DEF Active!Looks, SelectionInv, Selecting, Right, Active!Usable, Active!Map
<1>20. ASSUME NEW w \in Workers, Active!Plugs(w) PROVE SelectionInv'
  BY <1>20 DEF Active!Plugs, SelectionInv, Selecting, Right, Active!Usable, Active!Map
<1>21. ASSUME NEW w \in Workers, Active!SelectsPlugged(w) PROVE SelectionInv'
  BY <1>21, SelectsRight
     DEF Active!SelectsPlugged, SelectionInv, Selecting, Right, Active!Usable, Active!Map
<1>22. ASSUME NEW w \in Workers, Active!LooksAtOutput(w) PROVE SelectionInv'
  BY <1>22 DEF Active!LooksAtOutput, SelectionInv, Selecting, Right, Active!Usable, Active!Map
<1>23. ASSUME NEW w \in Workers, Active!PublishesOutput(w) PROVE SelectionInv'
  BY <1>23 DEF Active!PublishesOutput, SelectionInv, Selecting, Right, Active!Usable, Active!Map
<1>24. ASSUME NEW w \in Workers, Active!PicksPlaying(w) PROVE SelectionInv'
  BY <1>24, SelectsRight
     DEF Active!PicksPlaying, SelectionInv, Selecting, Right, Active!Usable, Active!Map
<1>25. CASE UNCHANGED Active!vars
  BY <1>25 DEF SelectionInv, Selecting, Right, Active!Usable, Active!Map
<1> QED
  BY <1>1, <1>2, <1>3, <1>4, <1>5, <1>6, <1>7, <1>8, <1>9, <1>10, <1>11, <1>12, <1>13, <1>14,
     <1>15, <1>16, <1>17, <1>18, <1>19, <1>20, <1>21, <1>22, <1>23, <1>24, <1>25
     DEF Active!Next, Active!Makes, Active!Runs

(* A Bluetooth device counts as connected while it is, but for a change its *)
(* thread has still to hear, or one Init wrote over.                       *)
HeardInv ==
  ~overwritten =>
    \A d \in Bluetooth :
      phase[d] \notin {"none", "listens", "read"} /\ told[d] # "told" => connected[d] = link[d]

(* Whoever heard of a Bluetooth device knows its link.                     *)
LEMMA HeardStep ==
  ASSUME Active!TypeOK, HeardInv, [Active!Next]_(Active!vars)
  PROVE  HeardInv'
<1> USE AddressesAre DEF Active!TypeOK, Active!Phases, Active!vars, Active!wiredVars, Active!historyVars, Active!Grows, Active!Steps
<1>1. CASE Active!JackChanges
  BY <1>1 DEF Active!JackChanges, HeardInv
<1>2. CASE Active!OutputChanges
  BY <1>2 DEF Active!OutputChanges, HeardInv
<1>3. CASE Active!Starts
  BY <1>3 DEF Active!Starts, HeardInv
<1>4. CASE Active!RefreshWiredSoon
  BY <1>4 DEF Active!RefreshWiredSoon, HeardInv
<1>5. ASSUME NEW d \in Bluetooth, Active!LinkChanges(d) PROVE HeardInv'
  BY <1>5 DEF Active!LinkChanges, HeardInv
<1>6. ASSUME NEW d \in Bluetooth, Active!DeviceHears(d) PROVE HeardInv'
  BY <1>6 DEF Active!DeviceHears, HeardInv
<1>7. ASSUME NEW d \in Bluetooth, Active!SelectsConnected(d) PROVE HeardInv'
  BY <1>7 DEF Active!SelectsConnected, HeardInv
<1>8. ASSUME NEW d \in Bluetooth, Active!InitListens(d) PROVE HeardInv'
  BY <1>8 DEF Active!InitListens, HeardInv
<1>9. ASSUME NEW d \in Bluetooth, Active!InitReads(d) PROVE HeardInv'
  BY <1>9 DEF Active!InitReads, HeardInv
<1>10. ASSUME NEW d \in Bluetooth, Active!InitWrites(d) PROVE HeardInv'
  BY <1>10 DEF Active!InitWrites, HeardInv
<1>11. ASSUME NEW d \in Bluetooth, Active!FetcherListens(d) PROVE HeardInv'
  BY <1>11 DEF Active!FetcherListens, HeardInv
<1>12. ASSUME NEW d \in Bluetooth, Active!Inserts(d) PROVE HeardInv'
  BY <1>12 DEF Active!Inserts, HeardInv
<1>13. ASSUME NEW d \in Bluetooth, Active!Inserted(d) PROVE HeardInv'
  BY <1>13 DEF Active!Inserted, HeardInv
<1>14. ASSUME NEW d \in Bluetooth, Active!RemovedIsSelected(d) PROVE HeardInv'
  BY <1>14 DEF Active!RemovedIsSelected, HeardInv
<1>15. ASSUME NEW d \in Bluetooth, Active!Removed(d) PROVE HeardInv'
  BY <1>15 DEF Active!Removed, HeardInv
<1>16. ASSUME NEW d \in Active!Devices, Active!SetActiveDevice(d) PROVE HeardInv'
  BY <1>16 DEF Active!SetActiveDevice, HeardInv
<1>17. ASSUME NEW d \in Active!Devices, Active!Routes(d) PROVE HeardInv'
  BY <1>17 DEF Active!Routes, HeardInv
<1>18. ASSUME NEW w \in Workers, Active!WakesUp(w) PROVE HeardInv'
  BY <1>18 DEF Active!WakesUp, HeardInv
<1>19. ASSUME NEW w \in Workers, Active!Looks(w) PROVE HeardInv'
  BY <1>19 DEF Active!Looks, HeardInv
<1>20. ASSUME NEW w \in Workers, Active!Plugs(w) PROVE HeardInv'
  BY <1>20 DEF Active!Plugs, HeardInv
<1>21. ASSUME NEW w \in Workers, Active!SelectsPlugged(w) PROVE HeardInv'
  BY <1>21 DEF Active!SelectsPlugged, HeardInv
<1>22. ASSUME NEW w \in Workers, Active!LooksAtOutput(w) PROVE HeardInv'
  BY <1>22 DEF Active!LooksAtOutput, HeardInv
<1>23. ASSUME NEW w \in Workers, Active!PublishesOutput(w) PROVE HeardInv'
  BY <1>23 DEF Active!PublishesOutput, HeardInv
<1>24. ASSUME NEW w \in Workers, Active!PicksPlaying(w) PROVE HeardInv'
  BY <1>24 DEF Active!PicksPlaying, HeardInv
<1>25. CASE UNCHANGED Active!vars
  BY <1>25 DEF HeardInv
<1> QED
  BY <1>1, <1>2, <1>3, <1>4, <1>5, <1>6, <1>7, <1>8, <1>9, <1>10, <1>11, <1>12, <1>13, <1>14,
     <1>15, <1>16, <1>17, <1>18, <1>19, <1>20, <1>21, <1>22, <1>23, <1>24, <1>25
     DEF Active!Next, Active!Makes, Active!Runs

(* The workers: one at a time has the lock, a pending one sleeps, and none  *)
(* runs before the constructor has subscribed.                             *)
WorkersInv ==
  /\ \A w \in Workers :
       worker[w] \in {"plug", "select", "output", "publish", "pick"} => wiredLock = w
  /\ pending => \E w \in Workers : worker[w] = "sleep"
  /\ ~started => /\ ~event /\ ~pending /\ routing = {} /\ output = Active!Nobody /\ outputAddress = Active!Nobody
                 /\ \A w \in Workers : worker[w] = "off"

(* The workers keep to that.                                               *)
LEMMA WorkersStep ==
  ASSUME Active!TypeOK, WorkersInv, [Active!Next]_(Active!vars)
  PROVE  WorkersInv'
<1> USE AddressesAre DEF Active!TypeOK, Active!vars, Active!wiredVars, Active!historyVars, Active!Grows, Active!Steps, Active!OutputAfter
<1>1. CASE Active!JackChanges
  BY <1>1 DEF Active!JackChanges, WorkersInv
<1>2. CASE Active!OutputChanges
  BY <1>2 DEF Active!OutputChanges, WorkersInv
<1>3. CASE Active!Starts
  BY <1>3 DEF Active!Starts, WorkersInv
<1>4. CASE Active!RefreshWiredSoon
  <2>1. ~event' /\ UNCHANGED <<started, routing, output, outputAddress, wiredLock>>
    BY <1>4, Zenon DEF Active!RefreshWiredSoon
  <2>2. CASE (pending \/ ~started) /\ pending' = pending /\ worker' = worker
    BY <2>1, <2>2, Zenon DEF WorkersInv
  <2>3. CASE /\ ~pending /\ started /\ pending' = TRUE
             /\ \E w \in Workers : worker[w] = "off" /\ worker' = [worker EXCEPT ![w] = "sleep"]
    BY <2>1, <2>3 DEF WorkersInv
  <2> QED BY <1>4, <2>2, <2>3, RefreshWakes
<1>5. ASSUME NEW d \in Bluetooth, Active!LinkChanges(d) PROVE WorkersInv'
  BY <1>5 DEF Active!LinkChanges, WorkersInv
<1>6. ASSUME NEW d \in Bluetooth, Active!DeviceHears(d) PROVE WorkersInv'
  BY <1>6 DEF Active!DeviceHears, WorkersInv
<1>7. ASSUME NEW d \in Bluetooth, Active!SelectsConnected(d) PROVE WorkersInv'
  BY <1>7 DEF Active!SelectsConnected, WorkersInv
<1>8. ASSUME NEW d \in Bluetooth, Active!InitListens(d) PROVE WorkersInv'
  BY <1>8 DEF Active!InitListens, WorkersInv
<1>9. ASSUME NEW d \in Bluetooth, Active!InitReads(d) PROVE WorkersInv'
  BY <1>9 DEF Active!InitReads, WorkersInv
<1>10. ASSUME NEW d \in Bluetooth, Active!InitWrites(d) PROVE WorkersInv'
  BY <1>10 DEF Active!InitWrites, WorkersInv
<1>11. ASSUME NEW d \in Bluetooth, Active!FetcherListens(d) PROVE WorkersInv'
  BY <1>11 DEF Active!FetcherListens, WorkersInv
<1>12. ASSUME NEW d \in Bluetooth, Active!Inserts(d) PROVE WorkersInv'
  BY <1>12 DEF Active!Inserts, WorkersInv
<1>13. ASSUME NEW d \in Bluetooth, Active!Inserted(d) PROVE WorkersInv'
  BY <1>13 DEF Active!Inserted, WorkersInv
<1>14. ASSUME NEW d \in Bluetooth, Active!RemovedIsSelected(d) PROVE WorkersInv'
  BY <1>14 DEF Active!RemovedIsSelected, WorkersInv
<1>15. ASSUME NEW d \in Bluetooth, Active!Removed(d) PROVE WorkersInv'
  BY <1>15 DEF Active!Removed, WorkersInv
<1>16. ASSUME NEW d \in Active!Devices, Active!SetActiveDevice(d) PROVE WorkersInv'
  BY <1>16 DEF Active!SetActiveDevice, WorkersInv
<1>17. ASSUME NEW d \in Active!Devices, Active!Routes(d) PROVE WorkersInv'
  BY <1>17 DEF Active!Routes, WorkersInv
<1>18. ASSUME NEW w \in Workers, Active!WakesUp(w) PROVE WorkersInv'
  BY <1>18 DEF Active!WakesUp, WorkersInv
<1>19. ASSUME NEW w \in Workers, Active!Looks(w) PROVE WorkersInv'
  BY <1>19 DEF Active!Looks, WorkersInv
<1>20. ASSUME NEW w \in Workers, Active!Plugs(w) PROVE WorkersInv'
  BY <1>20 DEF Active!Plugs, WorkersInv
<1>21. ASSUME NEW w \in Workers, Active!SelectsPlugged(w) PROVE WorkersInv'
  BY <1>21 DEF Active!SelectsPlugged, WorkersInv
<1>22. ASSUME NEW w \in Workers, Active!LooksAtOutput(w) PROVE WorkersInv'
  BY <1>22 DEF Active!LooksAtOutput, WorkersInv
<1>23. ASSUME NEW w \in Workers, Active!PublishesOutput(w) PROVE WorkersInv'
  BY <1>23 DEF Active!PublishesOutput, WorkersInv
<1>24. ASSUME NEW w \in Workers, Active!PicksPlaying(w) PROVE WorkersInv'
  BY <1>24 DEF Active!PicksPlaying, WorkersInv
<1>25. CASE UNCHANGED Active!vars
  BY <1>25 DEF WorkersInv
<1> QED
  BY <1>1, <1>2, <1>3, <1>4, <1>5, <1>6, <1>7, <1>8, <1>9, <1>10, <1>11, <1>12, <1>13, <1>14,
     <1>15, <1>16, <1>17, <1>18, <1>19, <1>20, <1>21, <1>22, <1>23, <1>24, <1>25
     DEF Active!Next, Active!Makes, Active!Runs

(* A worker is about to look at the jack, and has the last word on it.      *)
Ahead == event \/ \E w \in Workers : worker[w] \in {"sleep", "wait"}

JackInv ==
  ~missed /\ ~Ahead =>
    /\ \A w \in Workers : worker[w] = "plug" => looked[w] = IF link[Wired] THEN Wired ELSE Active!Nobody
    /\ (\A w \in Workers : worker[w] # "plug") => connected[Wired] = link[Wired]

(* The jack is known, or a worker is about to note it.                     *)
LEMMA JackStep ==
  ASSUME Active!TypeOK, WorkersInv, JackInv, [Active!Next]_(Active!vars)
  PROVE  JackInv'
<1> USE AddressesAre DEF Active!TypeOK, WorkersInv, Active!vars, Active!wiredVars, Active!historyVars, Active!Grows, Active!Steps
<1>1. CASE Active!JackChanges
  BY <1>1 DEF Active!JackChanges, JackInv, Ahead
<1>2. CASE Active!OutputChanges
  BY <1>2 DEF Active!OutputChanges, JackInv, Ahead
<1>3. CASE Active!Starts
  BY <1>3 DEF Active!Starts, JackInv, Ahead
<1>4. CASE Active!RefreshWiredSoon
  <2>1. event /\ started
    BY <1>4, Zenon DEF Active!RefreshWiredSoon, WorkersInv
  <2>2. \E w \in Workers : worker'[w] = "sleep"
    <3>1. CASE pending
      BY <1>4, <2>1, <3>1, RefreshWakes DEF WorkersInv
    <3>2. CASE ~pending
      BY <1>4, <2>1, <3>2, RefreshWakes
    <3> QED BY <3>1, <3>2
  <2> QED BY <2>2, Zenon DEF JackInv, Ahead
<1>5. ASSUME NEW d \in Bluetooth, Active!LinkChanges(d) PROVE JackInv'
  BY <1>5 DEF Active!LinkChanges, JackInv, Ahead
<1>6. ASSUME NEW d \in Bluetooth, Active!DeviceHears(d) PROVE JackInv'
  BY <1>6 DEF Active!DeviceHears, JackInv, Ahead
<1>7. ASSUME NEW d \in Bluetooth, Active!SelectsConnected(d) PROVE JackInv'
  BY <1>7 DEF Active!SelectsConnected, JackInv, Ahead
<1>8. ASSUME NEW d \in Bluetooth, Active!InitListens(d) PROVE JackInv'
  BY <1>8 DEF Active!InitListens, JackInv, Ahead
<1>9. ASSUME NEW d \in Bluetooth, Active!InitReads(d) PROVE JackInv'
  BY <1>9 DEF Active!InitReads, JackInv, Ahead
<1>10. ASSUME NEW d \in Bluetooth, Active!InitWrites(d) PROVE JackInv'
  BY <1>10 DEF Active!InitWrites, JackInv, Ahead
<1>11. ASSUME NEW d \in Bluetooth, Active!FetcherListens(d) PROVE JackInv'
  BY <1>11 DEF Active!FetcherListens, JackInv, Ahead
<1>12. ASSUME NEW d \in Bluetooth, Active!Inserts(d) PROVE JackInv'
  BY <1>12 DEF Active!Inserts, JackInv, Ahead
<1>13. ASSUME NEW d \in Bluetooth, Active!Inserted(d) PROVE JackInv'
  BY <1>13 DEF Active!Inserted, JackInv, Ahead
<1>14. ASSUME NEW d \in Bluetooth, Active!RemovedIsSelected(d) PROVE JackInv'
  BY <1>14 DEF Active!RemovedIsSelected, JackInv, Ahead
<1>15. ASSUME NEW d \in Bluetooth, Active!Removed(d) PROVE JackInv'
  BY <1>15 DEF Active!Removed, JackInv, Ahead
<1>16. ASSUME NEW d \in Active!Devices, Active!SetActiveDevice(d) PROVE JackInv'
  BY <1>16 DEF Active!SetActiveDevice, JackInv, Ahead
<1>17. ASSUME NEW d \in Active!Devices, Active!Routes(d) PROVE JackInv'
  BY <1>17 DEF Active!Routes, JackInv, Ahead
<1>18. ASSUME NEW w \in Workers, Active!WakesUp(w) PROVE JackInv'
  BY <1>18 DEF Active!WakesUp, JackInv, Ahead
<1>19. ASSUME NEW w \in Workers, Active!Looks(w) PROVE JackInv'
  BY <1>19 DEF Active!Looks, JackInv, Ahead
<1>20. ASSUME NEW w \in Workers, Active!Plugs(w) PROVE JackInv'
  BY <1>20 DEF Active!Plugs, JackInv, Ahead
<1>21. ASSUME NEW w \in Workers, Active!SelectsPlugged(w) PROVE JackInv'
  BY <1>21 DEF Active!SelectsPlugged, JackInv, Ahead
<1>22. ASSUME NEW w \in Workers, Active!LooksAtOutput(w) PROVE JackInv'
  BY <1>22 DEF Active!LooksAtOutput, JackInv, Ahead
<1>23. ASSUME NEW w \in Workers, Active!PublishesOutput(w) PROVE JackInv'
  BY <1>23 DEF Active!PublishesOutput, JackInv, Ahead
<1>24. ASSUME NEW w \in Workers, Active!PicksPlaying(w) PROVE JackInv'
  BY <1>24 DEF Active!PicksPlaying, JackInv, Ahead
<1>25. CASE UNCHANGED Active!vars
  BY <1>25 DEF JackInv, Ahead
<1> QED
  BY <1>1, <1>2, <1>3, <1>4, <1>5, <1>6, <1>7, <1>8, <1>9, <1>10, <1>11, <1>12, <1>13, <1>14,
     <1>15, <1>16, <1>17, <1>18, <1>19, <1>20, <1>21, <1>22, <1>23, <1>24, <1>25
     DEF Active!Next, Active!Makes, Active!Runs

(* What plays is linked.                                                   *)
PlaysLinked == output # Active!Nobody => link[output]

(* What plays stays linked.                                                *)
LEMMA PlaysStep ==
  ASSUME Active!TypeOK, PlaysLinked, [Active!Next]_(Active!vars)
  PROVE  PlaysLinked'
<1> USE AddressesAre DEF Active!TypeOK, Active!vars, Active!wiredVars, Active!historyVars, Active!Grows, Active!Steps, Active!OutputAfter
<1>1. CASE Active!JackChanges
  BY <1>1 DEF Active!JackChanges, PlaysLinked
<1>2. CASE Active!OutputChanges
  BY <1>2 DEF Active!OutputChanges, PlaysLinked
<1>3. CASE Active!Starts
  BY <1>3 DEF Active!Starts, PlaysLinked
<1>4. CASE Active!RefreshWiredSoon
  BY <1>4 DEF Active!RefreshWiredSoon, PlaysLinked
<1>5. ASSUME NEW d \in Bluetooth, Active!LinkChanges(d) PROVE PlaysLinked'
  BY <1>5 DEF Active!LinkChanges, PlaysLinked
<1>6. ASSUME NEW d \in Bluetooth, Active!DeviceHears(d) PROVE PlaysLinked'
  BY <1>6 DEF Active!DeviceHears, PlaysLinked
<1>7. ASSUME NEW d \in Bluetooth, Active!SelectsConnected(d) PROVE PlaysLinked'
  BY <1>7 DEF Active!SelectsConnected, PlaysLinked
<1>8. ASSUME NEW d \in Bluetooth, Active!InitListens(d) PROVE PlaysLinked'
  BY <1>8 DEF Active!InitListens, PlaysLinked
<1>9. ASSUME NEW d \in Bluetooth, Active!InitReads(d) PROVE PlaysLinked'
  BY <1>9 DEF Active!InitReads, PlaysLinked
<1>10. ASSUME NEW d \in Bluetooth, Active!InitWrites(d) PROVE PlaysLinked'
  BY <1>10 DEF Active!InitWrites, PlaysLinked
<1>11. ASSUME NEW d \in Bluetooth, Active!FetcherListens(d) PROVE PlaysLinked'
  BY <1>11 DEF Active!FetcherListens, PlaysLinked
<1>12. ASSUME NEW d \in Bluetooth, Active!Inserts(d) PROVE PlaysLinked'
  BY <1>12 DEF Active!Inserts, PlaysLinked
<1>13. ASSUME NEW d \in Bluetooth, Active!Inserted(d) PROVE PlaysLinked'
  BY <1>13 DEF Active!Inserted, PlaysLinked
<1>14. ASSUME NEW d \in Bluetooth, Active!RemovedIsSelected(d) PROVE PlaysLinked'
  BY <1>14 DEF Active!RemovedIsSelected, PlaysLinked
<1>15. ASSUME NEW d \in Bluetooth, Active!Removed(d) PROVE PlaysLinked'
  BY <1>15 DEF Active!Removed, PlaysLinked
<1>16. ASSUME NEW d \in Active!Devices, Active!SetActiveDevice(d) PROVE PlaysLinked'
  BY <1>16 DEF Active!SetActiveDevice, PlaysLinked
<1>17. ASSUME NEW d \in Active!Devices, Active!Routes(d) PROVE PlaysLinked'
  BY <1>17 DEF Active!Routes, PlaysLinked
<1>18. ASSUME NEW w \in Workers, Active!WakesUp(w) PROVE PlaysLinked'
  BY <1>18 DEF Active!WakesUp, PlaysLinked
<1>19. ASSUME NEW w \in Workers, Active!Looks(w) PROVE PlaysLinked'
  BY <1>19 DEF Active!Looks, PlaysLinked
<1>20. ASSUME NEW w \in Workers, Active!Plugs(w) PROVE PlaysLinked'
  BY <1>20 DEF Active!Plugs, PlaysLinked
<1>21. ASSUME NEW w \in Workers, Active!SelectsPlugged(w) PROVE PlaysLinked'
  BY <1>21 DEF Active!SelectsPlugged, PlaysLinked
<1>22. ASSUME NEW w \in Workers, Active!LooksAtOutput(w) PROVE PlaysLinked'
  BY <1>22 DEF Active!LooksAtOutput, PlaysLinked
<1>23. ASSUME NEW w \in Workers, Active!PublishesOutput(w) PROVE PlaysLinked'
  BY <1>23 DEF Active!PublishesOutput, PlaysLinked
<1>24. ASSUME NEW w \in Workers, Active!PicksPlaying(w) PROVE PlaysLinked'
  BY <1>24 DEF Active!PicksPlaying, PlaysLinked
<1>25. CASE UNCHANGED Active!vars
  BY <1>25 DEF PlaysLinked
<1> QED
  BY <1>1, <1>2, <1>3, <1>4, <1>5, <1>6, <1>7, <1>8, <1>9, <1>10, <1>11, <1>12, <1>13, <1>14,
     <1>15, <1>16, <1>17, <1>18, <1>19, <1>20, <1>21, <1>22, <1>23, <1>24, <1>25
     DEF Active!Next, Active!Makes, Active!Runs

(* ... or at the output: what was seen of it is what plays, and usable.     *)
LooksAhead == Ahead \/ \E w \in Workers : worker[w] \in {"plug", "select", "output"}

OutputInv ==
  ~early /\ ~LooksAhead =>
    /\ output \in Active!Usable \cup {Active!Nobody}
    /\ \A w \in Workers : worker[w] = "publish" => looked[w] = output
    /\ (\A w \in Workers : worker[w] # "publish") => outputAddress = output

(* The output is published, or a worker is about to.                       *)
LEMMA OutputStep ==
  ASSUME Active!TypeOK, WorkersInv, PlaysLinked, OutputInv, [Active!Next]_(Active!vars)
  PROVE  OutputInv'
<1> USE AddressesAre DEF Active!TypeOK, WorkersInv, PlaysLinked, Active!vars, Active!wiredVars, Active!historyVars, Active!Grows, Active!Steps, Active!OutputAfter
<1>1. CASE Active!JackChanges
  BY <1>1 DEF Active!JackChanges, OutputInv, Ahead, LooksAhead, Active!Usable, Active!Map
<1>2. CASE Active!OutputChanges
  BY <1>2 DEF Active!OutputChanges, OutputInv, Ahead, LooksAhead, Active!Usable, Active!Map
<1>3. CASE Active!Starts
  BY <1>3 DEF Active!Starts, OutputInv, Ahead, LooksAhead, Active!Usable, Active!Map
<1>4. CASE Active!RefreshWiredSoon
  <2>1. event /\ started
    BY <1>4, Zenon DEF Active!RefreshWiredSoon, WorkersInv
  <2>2. \E w \in Workers : worker'[w] = "sleep"
    <3>1. CASE pending
      BY <1>4, <2>1, <3>1, RefreshWakes DEF WorkersInv
    <3>2. CASE ~pending
      BY <1>4, <2>1, <3>2, RefreshWakes
    <3> QED BY <3>1, <3>2
  <2> QED BY <2>2, Zenon DEF OutputInv, Ahead, LooksAhead
<1>5. ASSUME NEW d \in Bluetooth, Active!LinkChanges(d) PROVE OutputInv'
  BY <1>5 DEF Active!LinkChanges, OutputInv, Ahead, LooksAhead, Active!Usable, Active!Map
<1>6. ASSUME NEW d \in Bluetooth, Active!DeviceHears(d) PROVE OutputInv'
  BY <1>6 DEF Active!DeviceHears, OutputInv, Ahead, LooksAhead, Active!Usable, Active!Map
<1>7. ASSUME NEW d \in Bluetooth, Active!SelectsConnected(d) PROVE OutputInv'
  BY <1>7 DEF Active!SelectsConnected, OutputInv, Ahead, LooksAhead, Active!Usable, Active!Map
<1>8. ASSUME NEW d \in Bluetooth, Active!InitListens(d) PROVE OutputInv'
  BY <1>8 DEF Active!InitListens, OutputInv, Ahead, LooksAhead, Active!Usable, Active!Map
<1>9. ASSUME NEW d \in Bluetooth, Active!InitReads(d) PROVE OutputInv'
  BY <1>9 DEF Active!InitReads, OutputInv, Ahead, LooksAhead, Active!Usable, Active!Map
<1>10. ASSUME NEW d \in Bluetooth, Active!InitWrites(d) PROVE OutputInv'
  BY <1>10 DEF Active!InitWrites, OutputInv, Ahead, LooksAhead, Active!Usable, Active!Map
<1>11. ASSUME NEW d \in Bluetooth, Active!FetcherListens(d) PROVE OutputInv'
  BY <1>11 DEF Active!FetcherListens, OutputInv, Ahead, LooksAhead, Active!Usable, Active!Map
<1>12. ASSUME NEW d \in Bluetooth, Active!Inserts(d) PROVE OutputInv'
  BY <1>12 DEF Active!Inserts, OutputInv, Ahead, LooksAhead, Active!Usable, Active!Map
<1>13. ASSUME NEW d \in Bluetooth, Active!Inserted(d) PROVE OutputInv'
  BY <1>13 DEF Active!Inserted, OutputInv, Ahead, LooksAhead, Active!Usable, Active!Map
<1>14. ASSUME NEW d \in Bluetooth, Active!RemovedIsSelected(d) PROVE OutputInv'
  BY <1>14 DEF Active!RemovedIsSelected, OutputInv, Ahead, LooksAhead, Active!Usable, Active!Map
<1>15. ASSUME NEW d \in Bluetooth, Active!Removed(d) PROVE OutputInv'
  BY <1>15 DEF Active!Removed, OutputInv, Ahead, LooksAhead, Active!Usable, Active!Map
<1>16. ASSUME NEW d \in Active!Devices, Active!SetActiveDevice(d) PROVE OutputInv'
  BY <1>16 DEF Active!SetActiveDevice, OutputInv, Ahead, LooksAhead, Active!Usable, Active!Map
<1>17. ASSUME NEW d \in Active!Devices, Active!Routes(d) PROVE OutputInv'
  BY <1>17 DEF Active!Routes, OutputInv, Ahead, LooksAhead, Active!Usable, Active!Map
<1>18. ASSUME NEW w \in Workers, Active!WakesUp(w) PROVE OutputInv'
  BY <1>18 DEF Active!WakesUp, OutputInv, Ahead, LooksAhead, Active!Usable, Active!Map
<1>19. ASSUME NEW w \in Workers, Active!Looks(w) PROVE OutputInv'
  BY <1>19 DEF Active!Looks, OutputInv, Ahead, LooksAhead, Active!Usable, Active!Map
<1>20. ASSUME NEW w \in Workers, Active!Plugs(w) PROVE OutputInv'
  BY <1>20 DEF Active!Plugs, OutputInv, Ahead, LooksAhead, Active!Usable, Active!Map
<1>21. ASSUME NEW w \in Workers, Active!SelectsPlugged(w) PROVE OutputInv'
  BY <1>21 DEF Active!SelectsPlugged, OutputInv, Ahead, LooksAhead, Active!Usable, Active!Map
<1>22. ASSUME NEW w \in Workers, Active!LooksAtOutput(w) PROVE OutputInv'
  BY <1>22 DEF Active!LooksAtOutput, OutputInv, Ahead, LooksAhead, Active!Usable, Active!Map
<1>23. ASSUME NEW w \in Workers, Active!PublishesOutput(w) PROVE OutputInv'
  BY <1>23 DEF Active!PublishesOutput, OutputInv, Ahead, LooksAhead, Active!Usable, Active!Map
<1>24. ASSUME NEW w \in Workers, Active!PicksPlaying(w) PROVE OutputInv'
  BY <1>24 DEF Active!PicksPlaying, OutputInv, Ahead, LooksAhead, Active!Usable, Active!Map
<1>25. CASE UNCHANGED Active!vars
  BY <1>25 DEF OutputInv, Ahead, LooksAhead, Active!Usable, Active!Map
<1> QED
  BY <1>1, <1>2, <1>3, <1>4, <1>5, <1>6, <1>7, <1>8, <1>9, <1>10, <1>11, <1>12, <1>13, <1>14,
     <1>15, <1>16, <1>17, <1>18, <1>19, <1>20, <1>21, <1>22, <1>23, <1>24, <1>25
     DEF Active!Next, Active!Makes, Active!Runs

ActiveInv ==
  Active!TypeOK /\ SelectionInv /\ HeardInv /\ WorkersInv /\ JackInv /\ PlaysLinked /\ OutputInv

(* The invariant of automatic switching holds at the start.                *)
LEMMA ActiveInit == Active!Init => ActiveInv
<1> SUFFICES ASSUME Active!Init PROVE ActiveInv
  OBVIOUS
<1> USE AddressesAre DEF Active!Init
<1>1. Active!TypeOK
  <2>1. connected \in [Active!Devices -> BOOLEAN]
    BY Zenon
  <2>2. phase \in [Bluetooth -> Active!Phases] /\ active \in Active!Devices \cup {Active!Nobody} /\ moves \in 0..MaxMoves
    BY DEF Active!Phases
  <2> QED BY <2>1, <2>2, Zenon DEF Active!TypeOK
<1>2. SelectionInv
  BY DEF SelectionInv, Right, Active!Usable, Active!Map
<1>3. HeardInv
  BY ActiveConstants DEF HeardInv
<1>4. WorkersInv /\ PlaysLinked
  BY DEF WorkersInv, PlaysLinked
<1>5. JackInv
  BY DEF JackInv
<1>6. OutputInv
  BY DEF OutputInv
<1> QED BY <1>1, <1>2, <1>3, <1>4, <1>5, <1>6 DEF ActiveInv

(* It holds in every reachable state.                                      *)
LEMMA ActiveInvariant == DevicesSpec => []ActiveInv
<1>1. DevicesInit => ActiveInv
  BY ActiveInit DEF DevicesInit
<1>2. ActiveInv /\ [DevicesNext]_allVars => ActiveInv'
  <2>1. [DevicesNext]_allVars => Active!Next \/ UNCHANGED activeVars
    BY Zenon DEF DevicesNext, allVars
  <2>2. UNCHANGED activeVars => UNCHANGED Active!vars
    BY DEF activeVars, Active!vars, Active!wiredVars, Active!historyVars
  <2>3. ActiveInv /\ [Active!Next]_(Active!vars) => ActiveInv'
    BY TypeStep, SelectionStep, HeardStep, WorkersStep, JackStep, PlaysStep, OutputStep
       DEF ActiveInv
  <2> QED BY <2>1, <2>2, <2>3
<1> QED BY <1>1, <1>2, PTL DEF DevicesSpec

(* With every change heard, the active headphones are connected ones if any *)
(* are, whatever threads and workers selected them and in which order; what *)
(* counts as connected is, and so is the jack.                             *)
THEOREM ActiveAlwaysFollows == DevicesSpec => []ActiveFollows
<1>1. ActiveInv => ActiveFollows
  <2> SUFFICES ASSUME ActiveInv PROVE ActiveFollows
    OBVIOUS
  <2>1. Active!Heard => Right
    BY DEF ActiveInv, Active!Heard, SelectionInv, Selecting
  <2>2. Active!Heard /\ ~overwritten => \A d \in Bluetooth : phase[d] = "here" => connected[d] = link[d]
    BY DEF ActiveInv, Active!Heard, HeardInv
  <2>3. Active!AtRest /\ ~missed => connected[Wired] = link[Wired]
    BY DEF ActiveInv, Active!AtRest, JackInv, Ahead
  <2> QED BY <2>1, <2>2, <2>3, Zenon DEF ActiveFollows, Active!ActiveFollows, Right
<1> QED BY <1>1, ActiveInvariant, PTL

(* At rest the headphones shown as playing are those that do, however the   *)
(* events of the sound server fell together and the workers overtook each  *)
(* other.                                                                  *)
THEOREM OutputAlwaysFollows == DevicesSpec => []OutputFollows
<1>1. ActiveInv => OutputFollows
  BY AddressesAre, UsableAre
     DEF ActiveInv, OutputFollows, Active!OutputFollows, Active!AtRest, OutputInv, LooksAhead,
         Ahead
<1> QED BY <1>1, ActiveInvariant, PTL

-----------------------------------------------------------------------------
(* The locks around the settings: each is held by the thread that took it,  *)
(* exactly while it is between taking and releasing it.                    *)
LinkPlaces == {"idle", "told", "update", "decide", "stop", "drain", "start"}
LoopPlaces == {"idle", "fire", "update", "decide", "stop", "drain", "start"}
ReaderPlaces == {"idle", "tell", "save", "fire"}
AdPlaces == {"idle", "emit", "handle", "save", "fire"}

PlacesOK ==
  /\ lockPc \in [Locked!Threads -> Locked!Places]
  /\ lockPc["loop"] \in LoopPlaces /\ lockPc["link"] \in LinkPlaces
  /\ lockPc["reader"] \in ReaderPlaces /\ \A a \in AdThreads : lockPc[a] \in AdPlaces
  /\ heard \subseteq AdThreads

Holds(t) ==
  /\ owner["state"] = t <=> lockPc[t] \in {"decide", "stop", "start", "drain"}
  /\ owner["scan"] = t <=> lockPc[t] = "drain"
  /\ owner["setting"] = t <=> t = "loop" /\ lockPc[t] \in {"update", "decide", "stop", "start", "drain"}
  /\ owner["ads"] = t <=> t \in AdThreads /\ lockPc[t] \in {"handle", "save", "fire"}
  /\ owner["locker"] = t <=> t # "loop" /\ lockPc[t] \in {"save", "fire"}
  /\ \A a \in AdThreads : owner[a] = t <=> t = a /\ lockPc[a] \in {"emit", "handle", "save", "fire"}

OwnersOK ==
  /\ owner \in [Locked!Locks -> Locked!Threads \cup {Locked!None}]
  /\ owner["table"] = Locked!None
  /\ \A t \in Locked!Threads : Holds(t)

LockInv == PlacesOK /\ OwnersOK

(* The threads and the locks by name.                                      *)
LEMMA ThreadsAndLocks ==
  /\ Locked!Threads = {"loop", "link", "reader"} \cup AdThreads
  /\ Locked!Locks = {"table", "setting", "state", "scan", "ads", "locker"} \cup AdThreads
  /\ \A a \in AdThreads :
       a \notin {"loop", "link", "reader", "none", "table", "setting", "state", "scan", "ads", "locker"}
  /\ Locked!None = "none" /\ Locked!None \notin Locked!Threads
BY DevicesAssumption DEF Locked!ConstantsOK, Locked!Threads, Locked!Locks, Locked!None

(* No lock is held at the start.                                           *)
LEMMA LockInit == Locked!Init => LockInv
BY ThreadsAndLocks DEF Locked!Init, LockInv, PlacesOK, OwnersOK, Holds, Locked!Places, LoopPlaces,
   LinkPlaces, ReaderPlaces, AdPlaces

(* Who holds which lock follows from where the threads are.                *)
LEMMA LockStep == LockInv /\ [Locked!Next]_(Locked!vars) => LockInv'
<1> SUFFICES ASSUME LockInv, [Locked!Next]_(Locked!vars) PROVE PlacesOK' /\ OwnersOK'
  BY DEF LockInv
<1> USE ThreadsAndLocks DEF LockInv, PlacesOK, OwnersOK, Locked!Places, LoopPlaces, LinkPlaces,
        ReaderPlaces, AdPlaces, Locked!Goes, Locked!Takes, Locked!Releases, Locked!Free, Locked!Saves
<1>1. CASE Locked!UserSaves
  <2>1. PlacesOK'
    BY <1>1 DEF Locked!UserSaves
  <2>2. OwnersOK'
    BY <1>1 DEF Locked!UserSaves, Holds
  <2> QED BY <2>1, <2>2
<1>2. CASE Locked!ListenerUpdates
  <2>1. PlacesOK'
    BY <1>2 DEF Locked!ListenerUpdates
  <2>2. OwnersOK'
    BY <1>2 DEF Locked!ListenerUpdates, Holds
  <2> QED BY <2>1, <2>2
<1>3. CASE Locked!LinkChanges
  <2>1. PlacesOK'
    BY <1>3 DEF Locked!LinkChanges
  <2>2. OwnersOK'
    BY <1>3 DEF Locked!LinkChanges, Holds
  <2> QED BY <2>1, <2>2
<1>4. CASE Locked!PopupHears
  <2>1. PlacesOK'
    BY <1>4 DEF Locked!PopupHears
  <2>2. OwnersOK'
    BY <1>4 DEF Locked!PopupHears, Holds
  <2> QED BY <2>1, <2>2
<1>5. CASE Locked!KeysCome
  <2>1. PlacesOK'
    BY <1>5 DEF Locked!KeysCome
  <2>2. OwnersOK'
    BY <1>5 DEF Locked!KeysCome, Holds
  <2> QED BY <2>1, <2>2
<1>6. CASE Locked!LocksKeys
  <2>1. PlacesOK'
    BY <1>6 DEF Locked!LocksKeys
  <2>2. OwnersOK'
    BY <1>6 DEF Locked!LocksKeys, Holds
  <2> QED BY <2>1, <2>2
<1>7. CASE Locked!SavesKeys
  <2>1. PlacesOK'
    BY <1>7 DEF Locked!SavesKeys
  <2>2. OwnersOK'
    BY <1>7 DEF Locked!SavesKeys, Holds
  <2> QED BY <2>1, <2>2
<1>8. ASSUME NEW t \in {"loop", "link"}, Locked!LocksState(t) PROVE PlacesOK' /\ OwnersOK'
  <2>1. PlacesOK'
    BY <1>8 DEF Locked!LocksState
  <2>2. OwnersOK'
    BY <1>8 DEF Locked!LocksState, Holds
  <2> QED BY <2>1, <2>2
<1>9. ASSUME NEW t \in {"loop", "link"}, Locked!Decides(t) PROVE PlacesOK' /\ OwnersOK'
  <2>0. /\ lockPc[t] = "decide" /\ heard' = heard
        /\ \/ lockPc' = [lockPc EXCEPT ![t] = "idle"] /\ Locked!Releases(t)
           \/ lockPc' = [lockPc EXCEPT ![t] = "start"] /\ owner' = owner
           \/ lockPc' = [lockPc EXCEPT ![t] = "stop"] /\ owner' = owner
    BY <1>9, Zenon DEF Locked!Decides
  <2>1. PlacesOK'
    BY <2>0
  <2>2. CASE lockPc' = [lockPc EXCEPT ![t] = "idle"] /\ Locked!Releases(t)
    BY <2>0, <2>2 DEF Holds
  <2>3. CASE lockPc' = [lockPc EXCEPT ![t] = "start"] /\ owner' = owner
    BY <2>0, <2>3 DEF Holds
  <2>4. CASE lockPc' = [lockPc EXCEPT ![t] = "stop"] /\ owner' = owner
    BY <2>0, <2>4 DEF Holds
  <2> QED BY <2>0, <2>1, <2>2, <2>3, <2>4
<1>10. ASSUME NEW t \in {"loop", "link"}, Locked!StartsScan(t) PROVE PlacesOK' /\ OwnersOK'
  <2>1. PlacesOK'
    BY <1>10 DEF Locked!StartsScan
  <2>2. OwnersOK'
    BY <1>10 DEF Locked!StartsScan, Holds
  <2> QED BY <2>1, <2>2
<1>11. ASSUME NEW t \in {"loop", "link"}, Locked!LocksScan(t) PROVE PlacesOK' /\ OwnersOK'
  <2>1. PlacesOK'
    BY <1>11 DEF Locked!LocksScan
  <2>2. OwnersOK'
    BY <1>11 DEF Locked!LocksScan, Holds
  <2> QED BY <2>1, <2>2
<1>12. ASSUME NEW t \in {"loop", "link"}, Locked!Unsubscribes(t) PROVE PlacesOK' /\ OwnersOK'
  <2>1. PlacesOK'
    BY <1>12 DEF Locked!Unsubscribes
  <2>2. OwnersOK'
    BY <1>12 DEF Locked!Unsubscribes, Holds
  <2> QED BY <2>1, <2>2
<1>13. ASSUME NEW t \in {"loop", "link"}, Locked!ScanStopped(t) PROVE PlacesOK' /\ OwnersOK'
  <2>1. PlacesOK'
    BY <1>13 DEF Locked!ScanStopped
  <2>2. OwnersOK'
    BY <1>13 DEF Locked!ScanStopped, Holds
  <2> QED BY <2>1, <2>2
<1>14. ASSUME NEW t \in Locked!Threads, Locked!ListenerPasses(t) PROVE PlacesOK' /\ OwnersOK'
  <2>1. PlacesOK'
    BY <1>14 DEF Locked!ListenerPasses
  <2>2. OwnersOK'
    BY <1>14 DEF Locked!ListenerPasses, Holds
  <2> QED BY <2>1, <2>2
<1>15. ASSUME NEW a \in AdThreads, Locked!AdComes(a) PROVE PlacesOK' /\ OwnersOK'
  <2>1. PlacesOK'
    BY <1>15 DEF Locked!AdComes
  <2>2. OwnersOK'
    BY <1>15 DEF Locked!AdComes, Holds
  <2> QED BY <2>1, <2>2
<1>16. ASSUME NEW a \in AdThreads, Locked!AdEmitted(a) PROVE PlacesOK' /\ OwnersOK'
  <2>1. PlacesOK'
    BY <1>16 DEF Locked!AdEmitted
  <2>2. OwnersOK'
    BY <1>16 DEF Locked!AdEmitted, Holds
  <2> QED BY <2>1, <2>2
<1>17. ASSUME NEW a \in AdThreads, Locked!AdHandled(a) PROVE PlacesOK' /\ OwnersOK'
  <2>1. PlacesOK'
    BY <1>17 DEF Locked!AdHandled
  <2>2. CASE lockPc' = [lockPc EXCEPT ![a] = "idle"] /\ Locked!Releases(a)
    BY <1>17, <2>2 DEF Locked!AdHandled, Holds
  <2>3. CASE lockPc' = [lockPc EXCEPT ![a] = "save"] /\ Locked!Takes(a, "locker")
    <3>1. lockPc[a] = "handle"
      BY <1>17 DEF Locked!AdHandled
    <3>2. owner' \in [Locked!Locks -> Locked!Threads \cup {Locked!None}] /\ owner'["table"] = Locked!None
      BY <2>3
    <3>0. /\ a \in Locked!Threads /\ a # "loop" /\ Holds(a)
          /\ lockPc'[a] = "save" /\ owner'["locker"] = a
          /\ \A l \in Locked!Locks : l # "locker" => owner'[l] = owner[l]
          /\ \A u \in Locked!Threads : u # a => lockPc'[u] = lockPc[u]
      BY <2>3, <3>1
    <3>3. Holds(a)'
      BY <3>0, <3>1 DEF Holds
    <3>4. ASSUME NEW u \in Locked!Threads, u # a PROVE Holds(u)'
      BY <2>3, <3>1, <3>4 DEF Holds
    <3>5. \A u \in Locked!Threads : Holds(u)'
      BY <3>3, <3>4, Zenon
    <3> QED BY <2>1, <3>2, <3>5, Zenon DEF OwnersOK
  <2> QED BY <1>17, <2>1, <2>2, <2>3 DEF Locked!AdHandled
<1>18. ASSUME NEW a \in AdThreads, Locked!SavesColor(a) PROVE PlacesOK' /\ OwnersOK'
  <2>1. PlacesOK'
    BY <1>18 DEF Locked!SavesColor
  <2>2. OwnersOK'
    BY <1>18 DEF Locked!SavesColor, Holds
  <2> QED BY <2>1, <2>2
<1>19. CASE UNCHANGED Locked!vars
  BY <1>19 DEF Locked!vars, Holds
<1> QED
  BY <1>1, <1>2, <1>3, <1>4, <1>5, <1>6, <1>7, <1>8, <1>9, <1>10, <1>11, <1>12, <1>13, <1>14,
     <1>15, <1>16, <1>17, <1>18, <1>19
  DEF Locked!Next, Locked!Updates, Locked!Handles

(* A circle goes through the scan's listener to an advertisement, and from  *)
(* there to the popup's lock, whose owner then waits for the listener.     *)
LEMMA CircleThroughLocker == LockInv => Locked!CircleOnlyUnderLocker
<1> SUFFICES ASSUME LockInv, NEW S \in SUBSET Locked!Threads, Locked!Circle(S),
                    \A t \in S : ~(owner["locker"] = t /\ lockPc[t] = "fire")
             PROVE  FALSE
  BY DEF Locked!CircleOnlyUnderLocker
<1> USE ThreadsAndLocks DEF LockInv, PlacesOK, OwnersOK, Locked!Free
<1>1. \A t \in S : Locked!WaitsFor(t) \ {Locked!None} # {} /\ Locked!WaitsFor(t) \subseteq S
  BY DEF Locked!Circle
<1>2. \A t \in S : lockPc[t] \notin {"idle", "decide", "save"}
  BY <1>1 DEF Locked!WaitsFor
<1>3. \A t \in S : lockPc[t] # "fire"
  BY <1>1 DEF Locked!WaitsFor, Holds
<1>4. \A t \in S : lockPc[t] \notin {"told", "handle", "tell"}
  BY <1>1, <1>2, <1>3 DEF Locked!WaitsFor, Holds
<1>5. \A t \in S : lockPc[t] # "emit"
  BY <1>1, <1>2, <1>3, <1>4 DEF Locked!WaitsFor, Holds
<1>6. \A t \in S : lockPc[t] # "drain"
  BY <1>1, <1>2, <1>3, <1>4, <1>5 DEF Locked!WaitsFor, Holds, AdPlaces
<1>7. \A t \in S : lockPc[t] \notin {"stop", "start"}
  BY <1>1, <1>6 DEF Locked!WaitsFor, Holds
<1>8. \A t \in S : lockPc[t] # "update"
  BY <1>1, <1>2, <1>6, <1>7 DEF Locked!WaitsFor, Holds
<1>9. PICK t \in S : TRUE
  BY DEF Locked!Circle
<1> QED BY <1>2, <1>3, <1>4, <1>5, <1>6, <1>7, <1>8, <1>9 DEF Locked!Places

(* Threads around the settings wait for each other only where one of them   *)
(* saves a setting from under the popup's lock.                            *)
THEOREM CirclesGoThroughLocker == DevicesSpec => []CircleOnlyUnderLocker
<1>1. DevicesInit => LockInv
  BY LockInit DEF DevicesInit
<1>2. LockInv /\ [DevicesNext]_allVars => LockInv'
  <2>1. [DevicesNext]_allVars => [Locked!Next]_(Locked!vars)
    BY DEF DevicesNext, allVars, lockVars, Locked!vars
  <2> QED BY <2>1, LockStep
<1>3. LockInv => CircleOnlyUnderLocker
  BY CircleThroughLocker DEF CircleOnlyUnderLocker
<1> QED BY <1>1, <1>2, <1>3, PTL DEF DevicesSpec

-----------------------------------------------------------------------------
(* The registry.                                                           *)

(* Of what BlueZ may tell after a state of the headphones.                  *)
Afterwards(s) ==
  CASE s = "found" -> {"paired", "resolved"}
    [] s \in {"paired", "resolved", "stored"} -> {"ready"}
    [] OTHER -> {}

Path(s, q) == \A n \in 1..Len(q) : q[n] \in Afterwards(IF n = 1 THEN s ELSE q[n - 1])
LastOf(s, q) == IF Len(q) = 0 THEN s ELSE q[Len(q)]

Forgetting == job["root"].op = "forget"
Knows == known # NoInfo /\ ~Forgetting
At(t, ops) == job[t].op \in ops

(* What the root proxy is told, in the order it is told.                    *)
Signal == [what : {"added", "removed"}, state : Registry!States]

RegistryType ==
  /\ bluez \in Registry!States
  /\ signals \in Seq(Signal)
  /\ seen \in [Infos -> Registry!States \cup {"unmade"}]
  /\ props \in [Infos -> Seq(Registry!States)]
  /\ known \in Infos \cup {NoInfo} /\ paired \subseteq Infos /\ map \in Infos \cup {NoInfo}
  /\ start \in Registry!Starts
  /\ job \in [Registry!Threads -> [op : Registry!Ops \cup {"idle"}, info : Infos \cup {NoInfo}]]
  /\ \A i \in Infos : seen[i] = "unmade" => props[i] = <<>>
  /\ start \in {"register", "make"} => snapshot \in Registry!States
  /\ start = "fill" => snapshot \in Infos \cup {NoInfo}

(* Before the main thread has made what there was.                          *)
StartsInOrder ==
  /\ start \in {"list", "register"} =>
       signals = <<>> /\ known = NoInfo /\ listening = {} /\ \A t \in Registry!Threads : job[t].op = "idle"
  /\ start \in {"list", "register", "make"} => job["main"].op = "idle"
  /\ start = "register" => snapshot = bluez
  /\ start = "make" /\ snapshot # "gone" =>
       /\ known = NoInfo /\ ~Forgetting
       /\ IF signals = <<>> THEN bluez = snapshot ELSE signals[1].what = "removed"

(* Signals come in turn; what came before them is told to nobody.           *)
SignalsInTurn ==
  /\ \A n \in 1..Len(signals) : signals[n].state = IF signals[n].what = "added" THEN "found" ELSE "gone"
  /\ \A n \in 2..Len(signals) : signals[n].what # signals[n - 1].what
  /\ signals # <<>> => bluez = signals[Len(signals)].state

(* The object the service knows is the one there is, but for the signals.   *)
KnowsWhatIs ==
  start \notin {"list", "register"} /\ (start = "make" => snapshot = "gone") =>
    IF signals = <<>> THEN Knows <=> bluez # "gone" ELSE Knows <=> signals[1].what = "removed"

(* And its properties, but for those on their way to it.                    *)
SeesWhatIs ==
  Knows => /\ seen[known] # "unmade" /\ Path(seen[known], props[known])
           /\ signals = <<>> => LastOf(seen[known], props[known]) = bluez

(* It is paired, or somebody will look again.                              *)
PairsWhatIs ==
  /\ paired \subseteq {known}
  /\ Forgetting => known # NoInfo /\ job["root"].info = known
  /\ Knows => IF known \in paired
              THEN seen[known] \in {"ready", "stored"}
              ELSE /\ seen[known] # "stored"
                   /\ \/ known \in listening
                      \/ \E t \in Registry!Threads : job[t].op = "listen" /\ job[t].info = known
                   /\ seen[known] = "ready" => \E t \in Registry!Threads : At(t, {"listen", "try"})

(* A paired one is told of, or was; and no other.                           *)
TellsWhatIs ==
  \A t \in Registry!Threads :
    /\ At(t, {"tell", "create"}) => job[t].info = known /\ known \in paired /\ ~Forgetting
    /\ At(t, {"create"}) => start \in {"hearRemoved", "up"}

(* The map has it, or will.                                                *)
MapsWhatIs ==
  /\ map # NoInfo => /\ map = known /\ known \in paired /\ ~Forgetting
                     /\ start \in {"hearAdded", "hearRemoved", "up"}
  /\ start \in {"fill", "hearAdded"} /\ snapshot # NoInfo =>
       /\ snapshot = known /\ known \in paired /\ ~Forgetting
       /\ start = "hearAdded" => map = known
  /\ Knows /\ known \in paired =>
       \/ map = known
       \/ \E t \in Registry!Threads : At(t, {"tell", "create"})
       \/ start \in {"list", "register", "make", "read"}
       \/ start = "fill" /\ snapshot = known

(* All of it, once nothing was missed; where something was, only the types   *)
(* are left.                                                               *)
AllInTurn ==
  /\ StartsInOrder /\ SignalsInTurn /\ KnowsWhatIs /\ SeesWhatIs
  /\ PairsWhatIs /\ TellsWhatIs /\ MapsWhatIs

RegistryInv == RegistryType /\ (~unheard => AllInTurn)

(* A signal more ...                                                       *)
LEMMA SignalsGrow ==
  ASSUME NEW q \in Seq(Signal), NEW x \in Signal
  PROVE  /\ Append(q, x) \in Seq(Signal) /\ Append(q, x) # <<>> /\ Len(q) \in Nat
         /\ Len(Append(q, x)) = Len(q) + 1 /\ Append(q, x)[Len(q) + 1] = x
         /\ \A n \in 1..Len(q) : Append(q, x)[n] = q[n]
         /\ q = <<>> <=> Len(q) = 0
         /\ q = <<>> => Append(q, x)[1] = x
         /\ q # <<>> => Append(q, x)[1] = q[1] /\ q[1].what \in {"added", "removed"}
         /\ x.what \in {"added", "removed"}
<1>1. /\ Append(q, x) \in Seq(Signal) /\ Append(q, x) # <<>> /\ Len(q) \in Nat
      /\ Len(Append(q, x)) = Len(q) + 1 /\ Append(q, x)[Len(q) + 1] = x
      /\ \A n \in 1..Len(q) : Append(q, x)[n] = q[n]
  OBVIOUS
<1>2. q = <<>> <=> Len(q) = 0
  OBVIOUS
<1>3. q = <<>> => Append(q, x)[1] = x
  BY <1>1, <1>2
<1>4. q # <<>> => 1 \in 1..Len(q) /\ q[1] \in Signal
  BY <1>1, <1>2
<1>5. \A y \in Signal : y.what \in {"added", "removed"}
  BY DEF Signal
<1> QED BY <1>1, <1>2, <1>3, <1>4, <1>5, Zenon

(* ... and one less.                                                       *)
LEMMA SignalsShrink ==
  ASSUME NEW q \in Seq(Signal), q # <<>>
  PROVE  /\ Head(q) = q[1] /\ Head(q) \in Signal /\ Head(q).state \in Registry!States
         /\ Tail(q) \in Seq(Signal) /\ Len(q) \in Nat \ {0} /\ Len(Tail(q)) = Len(q) - 1
         /\ Tail(q) = <<>> <=> Len(q) = 1
         /\ \A n \in 1..Len(Tail(q)) : Tail(q)[n] = q[n + 1]
<1>1. /\ Head(q) = q[1] /\ Head(q) \in Signal
      /\ Tail(q) \in Seq(Signal) /\ Len(q) \in Nat \ {0} /\ Len(Tail(q)) = Len(q) - 1
      /\ \A n \in 1..Len(Tail(q)) : Tail(q)[n] = q[n + 1]
  OBVIOUS
<1>3. \A r \in Seq(Signal) : r = <<>> <=> Len(r) = 0
  OBVIOUS
<1>2. \A x \in Signal : x.state \in Registry!States
  BY DEF Signal
<1>4. Tail(q) = <<>> <=> Len(Tail(q)) = 0
  BY <1>1, <1>3, Zenon
<1>5. Tail(q) = <<>> <=> Len(q) = 1
  <2>1. Len(q) \in Nat /\ Len(Tail(q)) = Len(q) - 1
    BY <1>1
  <2> QED BY <1>4, <2>1
<1> QED BY <1>1, <1>2, <1>5, Zenon

(* Threads are told apart, from each other and from no object at all.      *)
LEMMA RegistryConstants ==
  /\ NoInfo \notin Infos
  /\ Registry!Threads = {"main", "root"} \cup Infos
  /\ \A i \in Infos : i # "main" /\ i # "root"
  /\ Registry!Idle.op = "idle" /\ Registry!Idle.info = NoInfo
  /\ \A op, i : Registry!Does(op, i).op = op /\ Registry!Does(op, i).info = i
BY DevicesAssumption DEF Registry!ConstantsOK, Registry!Threads, Registry!Idle, Registry!Does

(* What a thread is in the middle of changes, and no other's.               *)
LEMMA JobMoves ==
  ASSUME RegistryType, NEW t \in Registry!Threads, NEW op \in Registry!Ops \cup {"idle"},
         NEW i \in Infos \cup {NoInfo},
         job' = [job EXCEPT ![t] = Registry!Does(op, i)]
  PROVE  /\ job'[t].op = op /\ job'[t].info = i
         /\ \A u \in Registry!Threads \ {t} : job'[u] = job[u]
         /\ job' \in [Registry!Threads -> [op : Registry!Ops \cup {"idle"}, info : Infos \cup {NoInfo}]]
BY DEF RegistryType, Registry!Does

(* Or it is done.                                                          *)
LEMMA JobEnds ==
  ASSUME RegistryType, NEW t \in Registry!Threads, job' = [job EXCEPT ![t] = Registry!Idle]
  PROVE  /\ job'[t].op = "idle"
         /\ \A u \in Registry!Threads \ {t} : job'[u] = job[u]
         /\ job' \in [Registry!Threads -> [op : Registry!Ops \cup {"idle"}, info : Infos \cup {NoInfo}]]
BY DEF RegistryType, Registry!Idle

(* What BlueZ says next goes on from what it said last.                     *)
LEMMA PathGrows ==
  ASSUME NEW s, NEW q \in Seq(Registry!States), NEW x \in Registry!States,
         Path(s, q), x \in Afterwards(LastOf(s, q))
  PROVE  Path(s, Append(q, x)) /\ LastOf(s, Append(q, x)) = x
<1>1. /\ Len(q) \in Nat /\ Len(Append(q, x)) = Len(q) + 1 /\ Append(q, x)[Len(q) + 1] = x
      /\ \A n \in 1..Len(q) : Append(q, x)[n] = q[n]
  OBVIOUS
<1>2. LastOf(s, Append(q, x)) = x
  BY <1>1 DEF LastOf
<1>3. ASSUME NEW n \in 1..Len(Append(q, x))
      PROVE  Append(q, x)[n] \in Afterwards(IF n = 1 THEN s ELSE Append(q, x)[n - 1])
  <2>1. CASE n \in 1..Len(q)
    <3>1. q[n] \in Afterwards(IF n = 1 THEN s ELSE q[n - 1])
      BY <2>1 DEF Path
    <3>2. n = 1 \/ n - 1 \in 1..Len(q)
      BY <1>1, <2>1
    <3>3. (IF n = 1 THEN s ELSE q[n - 1]) = (IF n = 1 THEN s ELSE Append(q, x)[n - 1])
      BY <1>1, <3>2
    <3> QED BY <1>1, <2>1, <3>1, <3>3
  <2>2. CASE n = Len(q) + 1
    <3>1. LastOf(s, q) = IF n = 1 THEN s ELSE Append(q, x)[n - 1]
      BY <1>1, <2>2 DEF LastOf
    <3> QED BY <1>1, <2>2, <3>1
  <2> QED BY <1>1, <2>1, <2>2
<1> QED BY <1>2, <1>3 DEF Path

(* And what is heard of it first, from what was known.                      *)
LEMMA PathShrinks ==
  ASSUME NEW s, NEW q \in Seq(Registry!States), q # <<>>, Path(s, q)
  PROVE  /\ Head(q) \in Afterwards(s) /\ Path(Head(q), Tail(q))
         /\ LastOf(Head(q), Tail(q)) = LastOf(s, q)
<1>1. /\ Len(q) \in Nat /\ Len(q) >= 1 /\ Head(q) = q[1] /\ Len(Tail(q)) = Len(q) - 1
      /\ \A n \in 1..Len(Tail(q)) : Tail(q)[n] = q[n + 1]
  OBVIOUS
<1>2. Head(q) \in Afterwards(s)
  BY <1>1 DEF Path
<1>3. LastOf(Head(q), Tail(q)) = LastOf(s, q)
  BY <1>1 DEF LastOf
<1>4. ASSUME NEW n \in 1..Len(Tail(q))
      PROVE  Tail(q)[n] \in Afterwards(IF n = 1 THEN Head(q) ELSE Tail(q)[n - 1])
  <2>1. n + 1 \in 1..Len(q) /\ n + 1 # 1 /\ (n + 1) - 1 = n
    BY <1>1
  <2>2. q[n + 1] \in Afterwards(q[n])
    BY <2>1 DEF Path
  <2>3. q[n] = IF n = 1 THEN Head(q) ELSE Tail(q)[n - 1]
    BY <1>1
  <2> QED BY <1>1, <2>2, <2>3
<1> QED BY <1>2, <1>3, <1>4 DEF Path

(* Every value stays what it is, also where something was missed.          *)
LEMMA RegistryTypeStep == RegistryType /\ [Registry!Next]_(Registry!vars) => RegistryType'
<1> SUFFICES ASSUME RegistryType, [Registry!Next]_(Registry!vars) PROVE RegistryType'
  OBVIOUS
<1> USE RegistryConstants DEF RegistryType
<1>1. ASSUME Registry!Appears \/ Registry!Vanishes PROVE RegistryType'
  <2>1. PICK sig \in Signal, s \in Registry!States :
          /\ bluez' = s /\ (signals' = signals \/ signals' = Append(signals, sig))
          /\ UNCHANGED <<seen, props, Registry!serviceVars, map, start, snapshot, job>>
    <3>1. ASSUME NEW s \in Registry!States, NEW w \in {"added", "removed"}, Registry!ObjectChanges(s, w)
          PROVE  \E sig \in Signal, z \in Registry!States :
                   /\ bluez' = z /\ (signals' = signals \/ signals' = Append(signals, sig))
                   /\ UNCHANGED <<seen, props, Registry!serviceVars, map, start, snapshot, job>>
      <4>1. [what |-> w, state |-> s] \in Signal
        BY DEF Signal
      <4> QED BY <3>1, <4>1 DEF Registry!ObjectChanges
    <3>2. "found" \in Registry!States /\ "gone" \in Registry!States
      BY DEF Registry!States
    <3> QED BY <1>1, <3>1, <3>2 DEF Registry!Appears, Registry!Vanishes
  <2>2. signals' \in Seq(Signal)
    BY <2>1, SignalsGrow
  <2> QED BY <2>1, <2>2 DEF Registry!serviceVars
<1>2. ASSUME NEW s \in Registry!States, Registry!PropertyChanges(s) PROVE RegistryType'
  <2>1. props' \in [Infos -> Seq(Registry!States)]
    BY <1>2 DEF Registry!PropertyChanges
  <2>2. \A i \in Infos : seen[i] = "unmade" => props'[i] = <<>>
    BY <1>2 DEF Registry!PropertyChanges
  <2> QED BY <1>2, <2>1, <2>2 DEF Registry!PropertyChanges, Registry!serviceVars
<1>3. ASSUME NEW t \in Registry!Threads, Registry!Listens(t) PROVE RegistryType'
  <2>1. job[t] \in [op : Registry!Ops \cup {"idle"}, info : Infos \cup {NoInfo}] /\ job[t].op = "listen"
    BY <1>3 DEF Registry!Listens
  <2>2. job[t].info \in Infos \cup {NoInfo} /\ "try" \in Registry!Ops
    BY <2>1 DEF Registry!Ops
  <2>3. job' = [job EXCEPT ![t] = [job[t] EXCEPT !.op = "try"]]
    BY <1>3 DEF Registry!Listens
  <2>4. [job[t] EXCEPT !.op = "try"] \in [op : Registry!Ops \cup {"idle"}, info : Infos \cup {NoInfo}]
    BY <2>1, <2>2
  <2>5. job' \in [Registry!Threads -> [op : Registry!Ops \cup {"idle"}, info : Infos \cup {NoInfo}]]
    BY <2>3, <2>4
  <2> QED BY <1>3, <2>2, <2>5 DEF Registry!Listens, Registry!bluezVars
<1>4. ASSUME NEW t \in Registry!Threads, Registry!Tries(t) PROVE RegistryType'
  BY <1>4 DEF Registry!Tries, Registry!bluezVars, Registry!Ops, Registry!Does, Registry!Idle
<1>5. ASSUME NEW t \in Registry!Threads, Registry!Tells(t) PROVE RegistryType'
  BY <1>5 DEF Registry!Tells, Registry!bluezVars, Registry!serviceVars, Registry!Ops,
     Registry!Does, Registry!Idle
<1>6. ASSUME NEW t \in Registry!Threads, Registry!Inserts(t) PROVE RegistryType'
  <2>1. map' \in Infos \cup {NoInfo}
    BY <1>6 DEF Registry!Inserts
  <2>2. job' \in [Registry!Threads -> [op : Registry!Ops \cup {"idle"}, info : Infos \cup {NoInfo}]]
    BY <1>6 DEF Registry!Inserts, Registry!Idle
  <2> QED BY <1>6, <2>1, <2>2 DEF Registry!Inserts, Registry!bluezVars, Registry!serviceVars
<1>7. ASSUME NEW i \in Infos, Registry!PropertyIsHeard(i) PROVE RegistryType'
  <2>1. /\ Head(props[i]) \in Registry!States /\ Tail(props[i]) \in Seq(Registry!States)
        /\ seen' = [seen EXCEPT ![i] = Head(props[i])] /\ props' = [props EXCEPT ![i] = Tail(props[i])]
        /\ props[i] # <<>>
    BY <1>7 DEF Registry!PropertyIsHeard
  <2>2. job' \in [Registry!Threads -> [op : Registry!Ops \cup {"idle"}, info : Infos \cup {NoInfo}]]
    BY <1>7 DEF Registry!PropertyIsHeard, Registry!Idle, Registry!Does, Registry!Ops
  <2>3. "unmade" \notin Registry!States
    BY DEF Registry!States
  <2>4. /\ seen' \in [Infos -> Registry!States \cup {"unmade"}] /\ props' \in [Infos -> Seq(Registry!States)]
        /\ \A k \in Infos : seen'[k] = "unmade" => props'[k] = <<>>
    BY <2>1, <2>3
  <2> QED BY <1>7, <2>2, <2>4
             DEF Registry!PropertyIsHeard, Registry!bluezVars, Registry!serviceVars
<1>8. ASSUME NEW t \in Registry!Threads, NEW s \in Registry!States, Registry!TryCreateDevice(t, s)
      PROVE  /\ seen' \in [Infos -> Registry!States \cup {"unmade"}]
             /\ known' \in Infos /\ paired' \subseteq Infos
             /\ job' \in [Registry!Threads -> [op : Registry!Ops \cup {"idle"}, info : Infos \cup {NoInfo}]]
             /\ \A i \in Infos : seen'[i] = "unmade" => seen[i] = "unmade"
  <2>1. PICK i \in Infos : i = CHOOSE j \in Infos : seen[j] = "unmade"
    BY <1>8 DEF Registry!TryCreateDevice
  <2>2. /\ seen' = [seen EXCEPT ![i] = s] /\ known' = i /\ listening' = listening
        /\ paired' \subseteq Infos
        /\ job' = [job EXCEPT ![t] = Registry!Does(IF Registry!IsPaired(s) THEN "tell" ELSE "listen", i)]
    BY <1>8, <2>1 DEF Registry!TryCreateDevice
  <2>3. "unmade" \notin Registry!States
    BY DEF Registry!States
  <2> QED BY <2>2, <2>3 DEF Registry!Ops, Registry!Does
<1>9. ASSUME Registry!ObjectAdded PROVE RegistryType'
  <2>1. Head(signals).state \in Registry!States /\ Tail(signals) \in Seq(Signal)
    BY <1>9, SignalsShrink DEF Registry!ObjectAdded, Registry!NextSignal
  <2> QED BY <1>8, <1>9, <2>1 DEF Registry!ObjectAdded, Registry!bluezVars
<1>10. ASSUME Registry!ObjectRemoved PROVE RegistryType'
  BY <1>10
     DEF Registry!ObjectRemoved, Registry!NextSignal, Registry!bluezVars, Registry!serviceVars,

     Registry!Does, Registry!Idle, Registry!Ops
<1>11. ASSUME Registry!Forgets PROVE RegistryType'
  BY <1>11 DEF Registry!Forgets, Registry!bluezVars, Registry!Idle
<1>12. ASSUME Registry!MakesInfos PROVE RegistryType'
  <2>1. CASE snapshot = "gone"
    BY <1>12, <2>1
       DEF Registry!MakesInfos, Registry!bluezVars, Registry!serviceVars, Registry!Starts
  <2>2. CASE snapshot # "gone"
    BY <1>8, <1>12, <2>2 DEF Registry!MakesInfos, Registry!bluezVars, Registry!Starts
  <2> QED BY <2>1, <2>2
<1>13. ASSUME Registry!GetManagedObjects \/ Registry!Registers \/ Registry!FillsMap \/ Registry!Subscribes
       PROVE  RegistryType'
  BY <1>13
     DEF Registry!GetManagedObjects, Registry!Registers, Registry!FillsMap,
         Registry!Subscribes,
     Registry!bluezVars, Registry!serviceVars, Registry!Starts
<1>14. ASSUME Registry!GetPairedDevices PROVE RegistryType'
  BY <1>14
     DEF Registry!GetPairedDevices, Registry!bluezVars, Registry!serviceVars, Registry!Starts
<1>15. ASSUME UNCHANGED Registry!vars PROVE RegistryType'
  BY <1>15 DEF Registry!vars, Registry!bluezVars, Registry!serviceVars
<1>16. Registry!Pairs \/ Registry!ServicesResolve => \E s \in Registry!States : Registry!PropertyChanges(s)
  BY DEF Registry!Pairs, Registry!ServicesResolve, Registry!States
<1> QED
  BY <1>1, <1>2, <1>3, <1>4, <1>5, <1>6, <1>7, <1>9, <1>10, <1>11, <1>12, <1>13, <1>14, <1>15,
     <1>16, Zenon
  DEF Registry!Next, Registry!BlueZ, Registry!Root, Registry!Main, Registry!Works

(* BlueZ tells of the object: the signals go on in turn.                    *)
LEMMA ObjectStep ==
  ASSUME RegistryType, AllInTurn, Registry!Appears \/ Registry!Vanishes, ~unheard'
  PROVE  AllInTurn'
<1> USE RegistryConstants DEF RegistryType, AllInTurn
<1>1. /\ UNCHANGED <<seen, props, known, paired, listening, map, start, snapshot, job>>
      /\ start # "register"
  BY DEF Registry!Appears, Registry!Vanishes, Registry!ObjectChanges, Registry!serviceVars
<1>2. PICK x \in Signal :
        /\ x.state = bluez' /\ bluez' = (IF x.what = "added" THEN "found" ELSE "gone")
        /\ x.what = "added" <=> bluez = "gone"
        /\ signals' = IF start = "list" THEN signals ELSE Append(signals, x)
  <2>1. CASE Registry!Appears
    <3> DEFINE x == [what |-> "added", state |-> "found"]
    <3>1. x \in Signal /\ x.what = "added" /\ x.state = "found"
      BY DEF Signal, Registry!States
    <3>2. bluez = "gone" /\ bluez' = "found" /\ signals' = IF start = "list" THEN signals ELSE Append(signals, x)
      BY <1>1, <2>1 DEF Registry!Appears, Registry!ObjectChanges, Registry!Registered
    <3> QED BY <3>1, <3>2
  <2>2. CASE Registry!Vanishes
    <3> DEFINE x == [what |-> "removed", state |-> "gone"]
    <3>1. x \in Signal /\ x.what = "removed" /\ x.state = "gone"
      BY DEF Signal, Registry!States
    <3>2. bluez # "gone" /\ bluez' = "gone" /\ signals' = IF start = "list" THEN signals ELSE Append(signals, x)
      BY <1>1, <2>2 DEF Registry!Vanishes, Registry!ObjectChanges, Registry!Registered
    <3> QED BY <3>1, <3>2
  <2> QED BY <2>1, <2>2
<1>0. signals \in Seq(Signal) /\ x \in Signal
  OBVIOUS
<1>3. /\ Append(signals, x) \in Seq(Signal) /\ Append(signals, x) # <<>> /\ Len(signals) \in Nat
      /\ Len(Append(signals, x)) = Len(signals) + 1 /\ Append(signals, x)[Len(signals) + 1] = x
      /\ \A n \in 1..Len(signals) : Append(signals, x)[n] = signals[n]
      /\ signals = <<>> <=> Len(signals) = 0
      /\ x.what \in {"added", "removed"}
  BY <1>0, SignalsGrow
<1>4. signals = <<>> => Append(signals, x)[1] = x
  BY <1>0, SignalsGrow
<1>5. signals # <<>> => Append(signals, x)[1] = signals[1] /\ signals[1].what \in {"added", "removed"}
  BY <1>0, SignalsGrow
<1>6. StartsInOrder'
  <2>1. start = "make" /\ snapshot # "gone" => signals' # <<>> /\ signals'[1].what = "removed"
    BY <1>1, <1>2, <1>3, <1>4, <1>5 DEF StartsInOrder
  <2>2. start # "register" /\ (start = "list" => signals' = signals)
    BY <1>1, <1>2
  <2> QED BY <1>1, <2>1, <2>2 DEF StartsInOrder, Forgetting
<1>7. SignalsInTurn'
  <2>1. CASE start = "list"
    BY <1>1, <1>2, <2>1 DEF SignalsInTurn, StartsInOrder
  <2>2. CASE start # "list"
    <3>1. signals' = Append(signals, x) /\ Len(signals') = Len(signals) + 1
      BY <1>2, <1>3, <2>2
    <3>2. signals # <<>> => x.what # signals[Len(signals)].what
      BY <1>2, <1>3 DEF SignalsInTurn, Signal
    <3>3. ASSUME NEW n \in 1..Len(signals') PROVE signals'[n].state = IF signals'[n].what = "added" THEN "found" ELSE "gone"
      BY <1>2, <1>3, <3>1 DEF SignalsInTurn
    <3>4. ASSUME NEW n \in 2..Len(signals') PROVE signals'[n].what # signals'[n - 1].what
      <4>1. CASE n = Len(signals) + 1
        BY <1>3, <3>1, <3>2, <4>1
      <4>2. CASE n \in 2..Len(signals)
        <5>1. n - 1 \in 1..Len(signals) /\ n \in 1..Len(signals)
          BY <1>3, <4>2
        <5> QED BY <1>3, <3>1, <4>2, <5>1 DEF SignalsInTurn
      <4> QED BY <1>3, <3>1, <4>1, <4>2
    <3> QED BY <1>2, <1>3, <3>1, <3>3, <3>4 DEF SignalsInTurn
  <2> QED BY <2>1, <2>2
<1>8. KnowsWhatIs'
  BY <1>1, <1>2, <1>3, <1>4, <1>5 DEF KnowsWhatIs, Knows, Forgetting
<1>9. SeesWhatIs'
  BY <1>1, <1>2, <1>3 DEF SeesWhatIs, Knows, Forgetting, StartsInOrder
<1>10. PairsWhatIs' /\ TellsWhatIs' /\ MapsWhatIs'
  BY <1>1 DEF PairsWhatIs, TellsWhatIs, MapsWhatIs, Knows, Forgetting, At
<1> QED BY <1>6, <1>7, <1>8, <1>9, <1>10

(* BlueZ tells of a property: nothing else is on its way.                   *)
LEMMA PropertyStep ==
  ASSUME RegistryType, AllInTurn, Registry!Pairs \/ Registry!ServicesResolve, ~unheard'
  PROVE  AllInTurn'
<1> USE RegistryConstants DEF RegistryType, AllInTurn
<1>1. PICK s \in Registry!States :
        /\ Registry!PropertyChanges(s) /\ bluez # "gone" /\ s # "gone" /\ s \in Afterwards(bluez)
  BY DEF Registry!Pairs, Registry!ServicesResolve, Registry!States, Afterwards
<1>2. /\ UNCHANGED <<signals, seen, known, paired, listening, map, start, snapshot, job>>
      /\ bluez' = s
      /\ start # "register" /\ ~(start = "make" /\ snapshot # "gone")
      /\ \A n \in 1..Len(signals) : signals[n].what # "added"
  BY <1>1 DEF Registry!PropertyChanges, Registry!serviceVars
<1>3. signals = <<>>
  <2>1. signals # <<>> => Len(signals) \in 1..Len(signals)
    BY SignalsShrink
  <2> QED BY <1>1, <1>2, <2>1 DEF SignalsInTurn
<1>4. StartsInOrder' /\ KnowsWhatIs'
  BY <1>1, <1>2, <1>3 DEF StartsInOrder, KnowsWhatIs, Knows, Forgetting
<1>5. SignalsInTurn'
  BY <1>2, <1>3 DEF SignalsInTurn
<1>6. SeesWhatIs'
  <2> SUFFICES ASSUME Knows PROVE /\ seen[known] # "unmade" /\ Path(seen[known], props'[known])
                                  /\ LastOf(seen[known], props'[known]) = s
    BY <1>2, Zenon DEF SeesWhatIs, Knows, Forgetting
  <2>1. known \in Infos /\ seen[known] # "unmade" /\ Path(seen[known], props[known])
        /\ LastOf(seen[known], props[known]) = bluez
    BY <1>3 DEF SeesWhatIs, Knows
  <2>2. props'[known] = Append(props[known], s)
    BY <1>1, <2>1 DEF Registry!PropertyChanges, Registry!Held
  <2> QED BY <1>1, <2>1, <2>2, PathGrows
<1>7. PairsWhatIs' /\ TellsWhatIs' /\ MapsWhatIs'
  BY <1>2 DEF PairsWhatIs, TellsWhatIs, MapsWhatIs, Knows, Forgetting, At
<1> QED BY <1>4, <1>5, <1>6, <1>7

(* tryAddPaired and its listeners, on whatever thread.                      *)
LEMMA ListensStep ==
  ASSUME RegistryType, AllInTurn, NEW t \in Registry!Threads, Registry!Listens(t)
  PROVE  AllInTurn'
<1> USE RegistryConstants DEF RegistryType, AllInTurn
<1>1. /\ UNCHANGED <<bluez, signals, seen, props, known, paired, map, start, snapshot>>
      /\ listening' = listening \cup {job[t].info}
      /\ job[t].op = "listen" /\ job'[t].op = "try" /\ job'[t].info = job[t].info
      /\ \A u \in Registry!Threads \ {t} : job'[u] = job[u]
  <2>1. /\ job' = [job EXCEPT ![t] = [job[t] EXCEPT !.op = "try"]]
        /\ job[t] \in [op : Registry!Ops \cup {"idle"}, info : Infos \cup {NoInfo}]
    BY DEF Registry!Listens
  <2>2. job'[t] = [job[t] EXCEPT !.op = "try"] /\ \A u \in Registry!Threads \ {t} : job'[u] = job[u]
    BY <2>1
  <2> QED BY <2>1, <2>2 DEF Registry!Listens, Registry!bluezVars
<1>2. Forgetting' <=> Forgetting
  BY <1>1 DEF Forgetting
<1>3. Knows' <=> Knows
  BY <1>1, <1>2 DEF Knows
<1>4. StartsInOrder'
  BY <1>1, <1>2 DEF StartsInOrder
<1>5. SignalsInTurn' /\ KnowsWhatIs' /\ SeesWhatIs'
  BY <1>1, <1>3 DEF SignalsInTurn, KnowsWhatIs, SeesWhatIs
<1>6. PairsWhatIs'
  <2>1. Forgetting => job'["root"] = job["root"]
    BY <1>1 DEF Forgetting
  <2>2. known \in listening \/ (\E u \in Registry!Threads : job[u].op = "listen" /\ job[u].info = known)
        => known \in listening' \/ (\E u \in Registry!Threads : job'[u].op = "listen" /\ job'[u].info = known)
    BY <1>1
  <2>3. \E u \in Registry!Threads : At(u, {"listen", "try"})'
    BY <1>1 DEF At
  <2> QED BY <1>1, <1>2, <1>3, <2>1, <2>2, <2>3, Zenon DEF PairsWhatIs
<1>7. \A u \in Registry!Threads : /\ At(u, {"tell", "create"})' <=> At(u, {"tell", "create"})
                                  /\ At(u, {"create"})' <=> At(u, {"create"})
                                  /\ At(u, {"tell", "create"}) => job'[u] = job[u]
  BY <1>1 DEF At
<1>8. TellsWhatIs' /\ MapsWhatIs'
  BY <1>1, <1>2, <1>3, <1>7 DEF TellsWhatIs, MapsWhatIs
<1> QED BY <1>4, <1>5, <1>6, <1>8

(* A paired one is announced once.                                         *)
LEMMA TriesStep ==
  ASSUME RegistryType, AllInTurn, NEW t \in Registry!Threads, Registry!Tries(t), ~unheard'
  PROVE  AllInTurn'
<1> USE RegistryConstants DEF RegistryType, AllInTurn
<1>1. /\ UNCHANGED <<bluez, signals, seen, props, known, listening, map, start, snapshot>>
      /\ job[t].op = "try"
  BY DEF Registry!Tries, Registry!bluezVars
<1>2. "tell" \in Registry!Ops
  BY DEF Registry!Ops
<1>a. CASE known # NoInfo /\ Registry!IsComplete(known) /\ known \notin paired
  <2>1. /\ paired' = paired \cup {known}
        /\ job' = [job EXCEPT ![t] = Registry!Does("tell", known)]
        /\ ~Forgetting
    BY <1>a DEF Registry!Tries, Forgetting
  <2>2. /\ job'[t].op = "tell" /\ job'[t].info = known
        /\ \A u \in Registry!Threads \ {t} : job'[u] = job[u]
    BY <1>2, <2>1, JobMoves
  <2>3. seen[known] = "ready"
    BY <1>a DEF Registry!IsComplete, Registry!IsPaired, Registry!IsResolved, Registry!States
  <2>4. ~Forgetting' /\ Knows /\ Knows'
    BY <1>1, <1>a, <2>1, <2>2 DEF Forgetting, Knows
  <2>5. StartsInOrder'
    BY <1>1, <2>1, <2>4 DEF StartsInOrder
  <2>6. SignalsInTurn' /\ KnowsWhatIs' /\ SeesWhatIs'
    BY <1>1, <2>4 DEF SignalsInTurn, KnowsWhatIs, SeesWhatIs
  <2>7. PairsWhatIs'
    BY <1>1, <2>1, <2>3, <2>4 DEF PairsWhatIs
  <2>8. TellsWhatIs'
    BY <1>1, <2>1, <2>2, <2>4 DEF TellsWhatIs, At
  <2>9. MapsWhatIs'
    BY <1>1, <2>1, <2>2, <2>4 DEF MapsWhatIs, At
  <2> QED BY <2>5, <2>6, <2>7, <2>8, <2>9
<1>b. CASE ~(known # NoInfo /\ Registry!IsComplete(known) /\ known \notin paired)
  <2>1. /\ paired' = paired /\ job' = [job EXCEPT ![t] = Registry!Idle]
    BY <1>b DEF Registry!Tries
  <2>2. /\ job'[t].op = "idle" /\ \A u \in Registry!Threads \ {t} : job'[u] = job[u]
    BY <2>1, JobEnds
  <2>3. Forgetting' <=> Forgetting
    BY <1>1, <2>2 DEF Forgetting
  <2>4. Knows' <=> Knows
    BY <1>1, <2>3 DEF Knows
  <2>5. Knows /\ known \notin paired => seen[known] # "ready"
    BY <1>b DEF Knows, Registry!IsComplete, Registry!IsPaired, Registry!IsResolved
  <2>6. StartsInOrder'
    BY <1>1, <2>2, <2>3 DEF StartsInOrder
  <2>7. SignalsInTurn' /\ KnowsWhatIs' /\ SeesWhatIs'
    BY <1>1, <2>4 DEF SignalsInTurn, KnowsWhatIs, SeesWhatIs
  <2>8. PairsWhatIs'
    <3>1. Forgetting => job'["root"] = job["root"]
      BY <1>1, <2>2 DEF Forgetting
    <3>2. (\E u \in Registry!Threads : job[u].op = "listen" /\ job[u].info = known)
          => \E u \in Registry!Threads : job'[u].op = "listen" /\ job'[u].info = known
      BY <1>1, <2>2
    <3> QED BY <1>1, <2>1, <2>3, <2>4, <2>5, <3>1, <3>2, Zenon DEF PairsWhatIs
  <2>9. \A u \in Registry!Threads : /\ At(u, {"tell", "create"})' <=> At(u, {"tell", "create"})
                                    /\ At(u, {"create"})' <=> At(u, {"create"})
                                    /\ At(u, {"tell", "create"}) => job'[u] = job[u]
    BY <1>1, <2>2 DEF At
  <2>10. TellsWhatIs' /\ MapsWhatIs'
    BY <1>1, <2>1, <2>3, <2>4, <2>9 DEF TellsWhatIs, MapsWhatIs
  <2> QED BY <2>6, <2>7, <2>8, <2>10
<1> QED BY <1>a, <1>b

(* An info hears of its properties, and looks if it listens.                *)
LEMMA HearsStep ==
  ASSUME RegistryType, AllInTurn, NEW i \in Infos, Registry!PropertyIsHeard(i)
  PROVE  AllInTurn'
<1> USE RegistryConstants DEF RegistryType, AllInTurn
<1>1. /\ UNCHANGED <<bluez, signals, known, paired, listening, map, start, snapshot>>
      /\ props[i] # <<>> /\ job[i].op = "idle" /\ i \in Registry!Threads /\ i # "root" /\ i # "main"
      /\ seen'[i] = Head(props[i]) /\ props'[i] = Tail(props[i])
      /\ \A k \in Infos \ {i} : seen'[k] = seen[k] /\ props'[k] = props[k]
      /\ Head(props[i]) \in Registry!States
  BY DEF Registry!PropertyIsHeard, Registry!bluezVars, Registry!serviceVars
<1>2. /\ \A u \in Registry!Threads \ {i} : job'[u] = job[u]
      /\ job'[i].op = IF i \in listening THEN "try" ELSE "idle"
  <2>1. CASE i \in listening
    <3>1. job' = [job EXCEPT ![i] = Registry!Does("try", i)] /\ "try" \in Registry!Ops
      BY <2>1 DEF Registry!PropertyIsHeard, Registry!Ops
    <3> QED BY <1>1, <2>1, <3>1, JobMoves
  <2>2. CASE i \notin listening
    <3>1. job' = [job EXCEPT ![i] = Registry!Idle]
      BY <2>2 DEF Registry!PropertyIsHeard
    <3> QED BY <1>1, <2>2, <3>1, JobEnds
  <2> QED BY <2>1, <2>2
<1>3. job'["root"] = job["root"] /\ job'["main"] = job["main"]
  BY <1>1, <1>2
<1>4. (Forgetting' <=> Forgetting) /\ (Knows' <=> Knows)
  BY <1>1, <1>3 DEF Forgetting, Knows
<1>5. StartsInOrder'
  BY <1>1, <1>2, <1>3, <1>4 DEF StartsInOrder
<1>6. SignalsInTurn' /\ KnowsWhatIs'
  BY <1>1, <1>4 DEF SignalsInTurn, KnowsWhatIs
<1>7. Knows /\ known = i => /\ Head(props[i]) \in Afterwards(seen[i])
                            /\ Path(Head(props[i]), Tail(props[i]))
                            /\ LastOf(Head(props[i]), Tail(props[i])) = LastOf(seen[i], props[i])
  BY <1>1, PathShrinks DEF SeesWhatIs
<1>8. SeesWhatIs'
  <2>1. CASE known = i
    <3>1. Head(props[i]) # "unmade"
      BY <1>1 DEF Registry!States
    <3> QED BY <1>1, <1>4, <1>7, <2>1, <3>1 DEF SeesWhatIs
  <2>2. CASE known # i
    <3>1. Knows => known \in Infos /\ seen'[known] = seen[known] /\ props'[known] = props[known]
      BY <1>1, <2>2 DEF Knows
    <3> QED BY <1>1, <1>4, <2>2, <3>1 DEF SeesWhatIs
  <2> QED BY <2>1, <2>2
<1>9. PairsWhatIs'
  <2>1. (\E u \in Registry!Threads : job[u].op = "listen" /\ job[u].info = known)
        => \E u \in Registry!Threads : job'[u].op = "listen" /\ job'[u].info = known
    BY <1>1, <1>2
  <2>2. \A u \in Registry!Threads : At(u, {"listen", "try"}) => At(u, {"listen", "try"})'
    BY <1>1, <1>2 DEF At
  <2>3. CASE known = i /\ Knows
    <3>1. /\ known \in paired => seen'[known] = "ready"
          /\ seen'[known] # "stored"
      BY <1>1, <1>7, <2>3 DEF PairsWhatIs, Afterwards
    <3>2. known \in listening => At(i, {"listen", "try"})'
      BY <1>1, <1>2, <2>3 DEF At
    <3>3. known \notin paired => \E u \in Registry!Threads : At(u, {"listen", "try"})'
      <4>1. CASE known \in listening
        BY <1>1, <3>2, <4>1
      <4>2. CASE known \notin listening
        <5>1. known \notin paired => \E u \in Registry!Threads : job[u].op = "listen"
          BY <2>3, <4>2 DEF PairsWhatIs
        <5> QED BY <2>2, <5>1 DEF At
      <4> QED BY <4>1, <4>2
    <3> QED BY <1>1, <1>3, <1>4, <2>1, <2>3, <3>1, <3>3 DEF PairsWhatIs
  <2>4. CASE known # i \/ ~Knows
    <3>1. Knows => known \in Infos /\ seen'[known] = seen[known]
      BY <1>1, <2>4 DEF Knows
    <3> QED BY <1>1, <1>3, <1>4, <2>1, <2>2, <2>4, <3>1 DEF PairsWhatIs
  <2> QED BY <2>3, <2>4
<1>10. \A u \in Registry!Threads : /\ At(u, {"tell", "create"})' <=> At(u, {"tell", "create"})
                                   /\ At(u, {"create"})' <=> At(u, {"create"})
                                   /\ At(u, {"tell", "create"}) => job'[u] = job[u]
  BY <1>1, <1>2 DEF At
<1>11. TellsWhatIs' /\ MapsWhatIs'
  BY <1>1, <1>4, <1>10 DEF TellsWhatIs, MapsWhatIs
<1> QED BY <1>5, <1>6, <1>8, <1>9, <1>11

(* The listener of added devices, and what it makes of one.                 *)
LEMMA TellsStep ==
  ASSUME RegistryType, AllInTurn, NEW t \in Registry!Threads, Registry!Tells(t), ~unheard'
  PROVE  AllInTurn'
<1> USE RegistryConstants DEF RegistryType, AllInTurn
<1>1. /\ UNCHANGED <<bluez, signals, seen, props, known, paired, listening, map, start, snapshot>>
      /\ job[t].op = "tell"
      /\ start \in {"fill", "hearAdded"} => snapshot = job[t].info
  BY DEF Registry!Tells, Registry!bluezVars, Registry!serviceVars
<1>2. job[t].info = known /\ known \in paired /\ ~Forgetting /\ Knows
  BY <1>1 DEF TellsWhatIs, At, Knows
<1>3. \A u \in Registry!Threads : ~At(u, {"create"})
  BY DEF Registry!Tells, At
<1>4. /\ \A u \in Registry!Threads \ {t} : job'[u] = job[u]
      /\ \/ job'[t].op = "create" /\ job'[t].info = known /\ start \in {"hearRemoved", "up"} /\ map = NoInfo
         \/ job'[t].op = "idle" /\ (map # NoInfo \/ start \notin {"hearRemoved", "up"})
  <2>1. CASE Registry!AddedIsHeard /\ map = NoInfo
    <3>1. job' = [job EXCEPT ![t] = Registry!Does("create", known)] /\ "create" \in Registry!Ops
      BY <1>2, <2>1 DEF Registry!Tells, Registry!Ops
    <3> QED BY <2>1, <3>1, JobMoves DEF Registry!AddedIsHeard
  <2>2. CASE ~(Registry!AddedIsHeard /\ map = NoInfo)
    <3>1. job' = [job EXCEPT ![t] = Registry!Idle]
      BY <2>2 DEF Registry!Tells
    <3> QED BY <2>2, <3>1, JobEnds DEF Registry!AddedIsHeard
  <2> QED BY <2>1, <2>2
<1>5. ~Forgetting' /\ Knows'
  BY <1>1, <1>2, <1>4 DEF Forgetting, Knows
<1>6. StartsInOrder'
  BY <1>1, <1>4, <1>5 DEF StartsInOrder
<1>7. SignalsInTurn' /\ KnowsWhatIs' /\ SeesWhatIs'
  BY <1>1, <1>2, <1>5 DEF SignalsInTurn, KnowsWhatIs, SeesWhatIs
<1>8. PairsWhatIs'
  BY <1>1, <1>2, <1>5 DEF PairsWhatIs
<1>9. TellsWhatIs'
  BY <1>1, <1>2, <1>4, <1>5 DEF TellsWhatIs, At
<1>10. MapsWhatIs'
  <2>1. CASE job'[t].op = "create"
    BY <1>1, <1>2, <1>4, <1>5, <2>1 DEF MapsWhatIs, At
  <2>2. CASE job'[t].op = "idle" /\ map # NoInfo
    BY <1>1, <1>2, <1>4, <1>5, <2>2 DEF MapsWhatIs
  <2>3. CASE start \notin {"hearRemoved", "up"}
    <3>1. start = "hearAdded" => map = known
      BY <1>1, <1>2 DEF MapsWhatIs
    <3> QED BY <1>1, <1>2, <1>5, <2>3, <3>1 DEF MapsWhatIs, Registry!Starts
  <2> QED BY <1>4, <2>1, <2>2, <2>3
<1> QED BY <1>6, <1>7, <1>8, <1>9, <1>10

(* What is made of it goes into the map.                                   *)
LEMMA InsertsStep ==
  ASSUME RegistryType, AllInTurn, NEW t \in Registry!Threads, Registry!Inserts(t)
  PROVE  AllInTurn'
<1> USE RegistryConstants DEF RegistryType, AllInTurn
<1>1. /\ UNCHANGED <<bluez, signals, seen, props, known, paired, listening, start, snapshot>>
      /\ job[t].op = "create" /\ job' = [job EXCEPT ![t] = Registry!Idle]
  BY DEF Registry!Inserts, Registry!bluezVars, Registry!serviceVars
<1>2. /\ job[t].info = known /\ known \in paired /\ known \in Infos /\ ~Forgetting /\ Knows
      /\ start \in {"hearRemoved", "up"}
  BY <1>1 DEF TellsWhatIs, At, Knows
<1>3. /\ job'[t].op = "idle" /\ \A u \in Registry!Threads \ {t} : job'[u] = job[u]
  BY <1>1, JobEnds
<1>4. seen[known] \in {"ready", "stored"}
  BY <1>2 DEF PairsWhatIs
<1>5. map' = known
  BY <1>2, <1>4 DEF Registry!Inserts, Registry!HasUuids, MapsWhatIs
<1>6. ~Forgetting' /\ Knows'
  BY <1>1, <1>2, <1>3 DEF Forgetting, Knows
<1>7. StartsInOrder'
  BY <1>1, <1>2, <1>3 DEF StartsInOrder
<1>8. SignalsInTurn' /\ KnowsWhatIs' /\ SeesWhatIs'
  BY <1>1, <1>2, <1>6 DEF SignalsInTurn, KnowsWhatIs, SeesWhatIs
<1>9. PairsWhatIs'
  BY <1>1, <1>2, <1>6 DEF PairsWhatIs
<1>10. TellsWhatIs'
  BY <1>1, <1>2, <1>3, <1>6 DEF TellsWhatIs, At
<1>11. MapsWhatIs'
  BY <1>1, <1>2, <1>5, <1>6 DEF MapsWhatIs
<1> QED BY <1>7, <1>8, <1>9, <1>10, <1>11

(* A new object: what was known of an older one is forgotten by then.       *)
LEMMA CreateStep ==
  ASSUME RegistryType, AllInTurn, known = NoInfo, NEW t \in Registry!Threads, job[t].op = "idle",
         NEW s \in Registry!States \ {"gone", "paired"}, Registry!TryCreateDevice(t, s),
         ~Forgetting, UNCHANGED <<props, map>>,
         start' \notin {"list", "register"}, start' = start \/ start' = "read",
         start' = "make" => snapshot' = "gone" /\ t = "root",
         start' = start => snapshot' = snapshot,
         signals' = <<>> => bluez' = s,
         start' \in {"read"} \/ s \in {"found", "resolved"}
  PROVE  /\ Knows' /\ StartsInOrder' /\ SeesWhatIs' /\ PairsWhatIs' /\ TellsWhatIs' /\ MapsWhatIs'
<1> USE RegistryConstants DEF RegistryType, AllInTurn
<1>1. paired = {} /\ map = NoInfo /\ \A u \in Registry!Threads : ~At(u, {"tell", "create"})
  BY DEF PairsWhatIs, TellsWhatIs, MapsWhatIs
<1>2. PICK i \in Infos : seen[i] = "unmade" /\ i = CHOOSE j \in Infos : seen[j] = "unmade"
  BY DEF Registry!TryCreateDevice
<1>3. /\ seen' = [seen EXCEPT ![i] = s] /\ known' = i
      /\ paired' = IF Registry!IsPaired(s) THEN {i} ELSE {}
      /\ job' = [job EXCEPT ![t] = Registry!Does(IF Registry!IsPaired(s) THEN "tell" ELSE "listen", i)]
  BY <1>1, <1>2 DEF Registry!TryCreateDevice
<1>4. /\ job'[t].op = (IF Registry!IsPaired(s) THEN "tell" ELSE "listen") /\ job'[t].info = i
      /\ \A u \in Registry!Threads \ {t} : job'[u] = job[u]
  <2>1. (IF Registry!IsPaired(s) THEN "tell" ELSE "listen") \in Registry!Ops
    BY DEF Registry!Ops
  <2> QED BY <1>3, <2>1, JobMoves
<1>5. ~Forgetting' /\ Knows'
  BY <1>3, <1>4 DEF Forgetting, Knows
<1>6. seen'[i] = s /\ s # "unmade" /\ props'[i] = <<>>
  BY <1>2, <1>3 DEF Registry!States
<1>7. SeesWhatIs'
  BY <1>3, <1>6 DEF SeesWhatIs, Path, LastOf
<1>8. StartsInOrder'
  BY <1>4 DEF StartsInOrder
<1>9. Registry!IsPaired(s) <=> s \in {"ready", "stored"}
  BY DEF Registry!IsPaired
<1>10. PairsWhatIs'
  BY <1>3, <1>4, <1>5, <1>6, <1>9 DEF PairsWhatIs
<1>11. TellsWhatIs'
  BY <1>1, <1>3, <1>4, <1>5 DEF TellsWhatIs, At
<1>12. MapsWhatIs'
  <2>1. start' # "read" => paired' = {} /\ start' = start /\ snapshot' = snapshot
    BY <1>3, <1>9
  <2> QED BY <1>1, <1>3, <2>1 DEF MapsWhatIs
<1> QED BY <1>5, <1>7, <1>8, <1>10, <1>11, <1>12

(* Signals that are left are in turn.                                       *)
LEMMA SignalsAgain ==
  ASSUME RegistryType, SignalsInTurn, signals # <<>>, signals' = Tail(signals), bluez' = bluez
  PROVE  SignalsInTurn'
<1>1. /\ Len(signals) \in Nat \ {0} /\ Len(signals') = Len(signals) - 1
      /\ signals' = <<>> <=> Len(signals) = 1
      /\ \A n \in 1..Len(signals') : signals'[n] = signals[n + 1]
  BY SignalsShrink DEF RegistryType
<1>2. ASSUME NEW n \in 1..Len(signals')
      PROVE  signals'[n].state = IF signals'[n].what = "added" THEN "found" ELSE "gone"
  <2>1. n + 1 \in 1..Len(signals) /\ signals'[n] = signals[n + 1]
    BY <1>1
  <2> QED BY <2>1 DEF SignalsInTurn
<1>3. ASSUME NEW n \in 2..Len(signals') PROVE signals'[n].what # signals'[n - 1].what
  <2>1. /\ n + 1 \in 2..Len(signals) /\ (n + 1) - 1 = n /\ (n - 1) + 1 = n
        /\ n \in 1..Len(signals') /\ n - 1 \in 1..Len(signals')
    BY <1>1
  <2>2. signals'[n] = signals[n + 1] /\ signals'[n - 1] = signals[n]
    BY <1>1, <2>1
  <2>3. signals[n + 1].what # signals[(n + 1) - 1].what
    BY <2>1 DEF SignalsInTurn
  <2> QED BY <2>1, <2>2, <2>3
<1>4. signals' # <<>> => bluez' = signals'[Len(signals')].state
  <2>1. signals' # <<>> => Len(signals') \in 1..Len(signals') /\ Len(signals') + 1 = Len(signals)
    BY <1>1
  <2> QED BY <1>1, <2>1 DEF SignalsInTurn
<1> QED BY <1>2, <1>3, <1>4 DEF SignalsInTurn

(* The root proxy's thread hears of objects ...                             *)
LEMMA AddedStep ==
  ASSUME RegistryType, AllInTurn, Registry!ObjectAdded
  PROVE  AllInTurn'
<1> USE RegistryConstants DEF RegistryType, AllInTurn
<1>1. /\ UNCHANGED <<bluez, props, map, start, snapshot>>
      /\ job["root"].op = "idle" /\ signals # <<>> /\ signals' = Tail(signals)
      /\ Head(signals).what = "added" /\ Registry!TryCreateDevice("root", Head(signals).state)
  BY DEF Registry!ObjectAdded, Registry!NextSignal, Registry!bluezVars
<1>2. /\ Head(signals) = signals[1] /\ Len(signals) \in Nat \ {0} /\ Len(signals') = Len(signals) - 1
      /\ signals' = <<>> <=> Len(signals) = 1
      /\ \A n \in 1..Len(signals') : signals'[n] = signals[n + 1]
  BY <1>1, SignalsShrink
<1>3. signals[1].what = "added" /\ signals[1].state = "found"
  BY <1>1, <1>2 DEF SignalsInTurn
<1>4. start \notin {"list", "register"} /\ (start = "make" => snapshot = "gone")
  BY <1>1, <1>3 DEF StartsInOrder
<1>5. ~Forgetting /\ known = NoInfo
  BY <1>1, <1>3, <1>4 DEF KnowsWhatIs, Knows, Forgetting
<1>6. signals' = <<>> => bluez' = "found"
  BY <1>1, <1>2, <1>3 DEF SignalsInTurn
<1>7. /\ Knows' /\ StartsInOrder' /\ SeesWhatIs' /\ PairsWhatIs' /\ TellsWhatIs' /\ MapsWhatIs'
  <2>1. "found" \in Registry!States \ {"gone", "paired"} /\ "root" \in Registry!Threads
    BY DEF Registry!States
  <2>2. Registry!TryCreateDevice("root", "found")
    BY <1>1, <1>2, <1>3
  <2> QED BY <1>1, <1>4, <1>5, <1>6, <2>1, <2>2, CreateStep
<1>8. SignalsInTurn'
  BY <1>1, <1>2, SignalsAgain
<1>9. KnowsWhatIs'
  <2>1. signals' # <<>> => signals'[1].what = "removed"
    <3>1. signals' # <<>> => 1 \in 1..Len(signals') /\ 2 \in 2..Len(signals)
      BY <1>2
    <3>2. signals' # <<>> => signals'[1] = signals[2] /\ signals[2].what # "added"
      BY <1>2, <1>3, <3>1 DEF SignalsInTurn
    <3>3. signals' # <<>> => signals[2] \in Signal
      BY <1>2, <3>1
    <3> QED BY <3>2, <3>3 DEF Signal
  <2> QED BY <1>6, <1>7, <2>1 DEF KnowsWhatIs
<1> QED BY <1>7, <1>8, <1>9

(* ... their removal, which the map hears of before the service forgets ... *)
LEMMA RemovedStep ==
  ASSUME RegistryType, AllInTurn, Registry!ObjectRemoved, ~unheard'
  PROVE  AllInTurn'
<1> USE RegistryConstants DEF RegistryType, AllInTurn
<1>1. /\ UNCHANGED <<bluez, seen, props, known, paired, listening, start, snapshot>>
      /\ job["root"].op = "idle" /\ signals # <<>> /\ signals' = Tail(signals)
      /\ Head(signals).what = "removed" /\ ~Registry!Overtakes
  BY DEF Registry!ObjectRemoved, Registry!NextSignal, Registry!bluezVars, Registry!serviceVars
<1>2. /\ Head(signals) = signals[1] /\ Len(signals) \in Nat \ {0} /\ Len(signals') = Len(signals) - 1
      /\ signals' = <<>> <=> Len(signals) = 1
      /\ \A n \in 1..Len(signals') : signals'[n] = signals[n + 1]
  BY <1>1, SignalsShrink
<1>3. signals[1].what = "removed" /\ signals[1].state = "gone"
  BY <1>1, <1>2 DEF SignalsInTurn
<1>4. start \notin {"list", "register"} /\ (start = "make" => snapshot = "gone")
  BY <1>1 DEF StartsInOrder, Registry!Overtakes
<1>5. Knows /\ known # NoInfo
  BY <1>1, <1>3, <1>4 DEF KnowsWhatIs, Knows
<1>6. /\ job'["root"].op = "forget" /\ job'["root"].info = known
      /\ \A u \in Registry!Threads \ {"root"} : job'[u] = job[u]
  <2>1. job' = [job EXCEPT !["root"] = Registry!Does("forget", known)] /\ "forget" \in Registry!Ops
    BY <1>5 DEF Registry!ObjectRemoved, Registry!Ops
  <2> QED BY <2>1, JobMoves
<1>7. Forgetting' /\ ~Knows'
  BY <1>6 DEF Forgetting, Knows
<1>8. map' = NoInfo
  <2>1. CASE start = "up"
    BY <1>5, <2>1 DEF Registry!ObjectRemoved, Registry!RemovedIsHeard
  <2>2. CASE start # "up"
    <3>1. map # NoInfo => start \in {"hearAdded", "hearRemoved"} /\ map = known
      BY <2>2 DEF MapsWhatIs
    <3>2. map = NoInfo
      BY <1>1, <3>1 DEF Registry!Overtakes
    <3> QED BY <2>2, <3>2 DEF Registry!ObjectRemoved, Registry!RemovedIsHeard
  <2> QED BY <2>1, <2>2
<1>9. StartsInOrder'
  BY <1>1, <1>4, <1>6 DEF StartsInOrder
<1>10. SignalsInTurn'
  BY <1>1, <1>2, SignalsAgain
<1>11. KnowsWhatIs'
  <2>1. signals' = <<>> => bluez' = "gone"
    BY <1>1, <1>2, <1>3 DEF SignalsInTurn
  <2>2. signals' # <<>> => signals'[1].what # "removed"
    <3>1. signals' # <<>> => 1 \in 1..Len(signals') /\ 2 \in 2..Len(signals)
      BY <1>2
    <3> QED BY <1>2, <1>3, <3>1 DEF SignalsInTurn
  <2> QED BY <1>7, <2>1, <2>2 DEF KnowsWhatIs
<1>12. SeesWhatIs'
  BY <1>7 DEF SeesWhatIs
<1>13. PairsWhatIs'
  BY <1>1, <1>5, <1>6, <1>7 DEF PairsWhatIs
<1>14. \A u \in Registry!Threads : ~At(u, {"tell", "create"})'
  BY <1>1, <1>6 DEF Registry!Overtakes, At
<1>15. TellsWhatIs'
  BY <1>14 DEF TellsWhatIs, At
<1>16. MapsWhatIs'
  <2>1. start \in {"fill", "hearAdded"} => snapshot = NoInfo
    BY <1>1 DEF MapsWhatIs, Registry!Overtakes
  <2> QED BY <1>1, <1>7, <1>8, <2>1 DEF MapsWhatIs
<1> QED BY <1>9, <1>10, <1>11, <1>12, <1>13, <1>15, <1>16

(* ... and then does.                                                      *)
LEMMA ForgetsStep ==
  ASSUME RegistryType, AllInTurn, Registry!Forgets
  PROVE  AllInTurn'
<1> USE RegistryConstants DEF RegistryType, AllInTurn
<1>1. /\ UNCHANGED <<bluez, signals, seen, props, listening, map, start, snapshot>>
      /\ job' = [job EXCEPT !["root"] = Registry!Idle]
      /\ Forgetting /\ ~Knows
  BY DEF Registry!Forgets, Registry!bluezVars, Forgetting, Knows
<1>2. job["root"].info = known /\ known # NoInfo /\ paired \subseteq {known}
  BY <1>1 DEF PairsWhatIs
<1>3. paired' = {} /\ known' = NoInfo
  BY <1>2 DEF Registry!Forgets
<1>4. job'["root"].op = "idle" /\ \A u \in Registry!Threads \ {"root"} : job'[u] = job[u]
  BY <1>1, JobEnds
<1>5. ~Forgetting' /\ ~Knows'
  BY <1>3, <1>4 DEF Forgetting, Knows
<1>6. map = NoInfo /\ (\A u \in Registry!Threads : ~At(u, {"tell", "create"}))
      /\ (start \in {"fill", "hearAdded"} => snapshot = NoInfo)
  BY <1>1 DEF MapsWhatIs, TellsWhatIs
<1>7. StartsInOrder'
  BY <1>1, <1>2, <1>3, <1>4, <1>5 DEF StartsInOrder
<1>8. SignalsInTurn' /\ KnowsWhatIs' /\ SeesWhatIs'
  BY <1>1, <1>5 DEF SignalsInTurn, KnowsWhatIs, SeesWhatIs
<1>9. PairsWhatIs' /\ MapsWhatIs'
  BY <1>1, <1>3, <1>5, <1>6 DEF PairsWhatIs, MapsWhatIs
<1>10. TellsWhatIs'
  BY <1>4, <1>6 DEF TellsWhatIs, At
<1> QED BY <1>7, <1>8, <1>9, <1>10

(* ... and the main thread starts.                                          *)
LEMMA StartStep ==
  ASSUME RegistryType, AllInTurn, ~unheard',
         Registry!GetManagedObjects \/ Registry!Registers \/ Registry!GetPairedDevices
           \/ Registry!FillsMap \/ Registry!Subscribes
  PROVE  AllInTurn'
<1> USE RegistryConstants DEF RegistryType, AllInTurn
<1>1. UNCHANGED <<bluez, signals, seen, props, known, paired, listening, job>>
  BY DEF Registry!GetManagedObjects, Registry!Registers, Registry!GetPairedDevices,
     Registry!FillsMap, Registry!Subscribes, Registry!bluezVars, Registry!serviceVars
<1>2. (Forgetting' <=> Forgetting) /\ (Knows' <=> Knows)
  BY <1>1 DEF Forgetting, Knows
<1>3. SignalsInTurn' /\ SeesWhatIs' /\ PairsWhatIs'
  BY <1>1, <1>2 DEF SignalsInTurn, SeesWhatIs, PairsWhatIs, At
<1>4. \A u \in Registry!Threads : /\ At(u, {"tell", "create"})' <=> At(u, {"tell", "create"})
                                  /\ At(u, {"create"})' <=> At(u, {"create"})
  BY <1>1 DEF At
<1>5. ASSUME Registry!GetManagedObjects
      PROVE  StartsInOrder' /\ KnowsWhatIs' /\ TellsWhatIs' /\ MapsWhatIs'
  BY <1>1, <1>2, <1>4, <1>5
     DEF Registry!GetManagedObjects, StartsInOrder, KnowsWhatIs, TellsWhatIs,
     MapsWhatIs, At
<1>6. ASSUME Registry!Registers
      PROVE  StartsInOrder' /\ KnowsWhatIs' /\ TellsWhatIs' /\ MapsWhatIs'
  <2>1. start = "register" /\ start' = "make" /\ UNCHANGED <<map, snapshot>>
    BY <1>6 DEF Registry!Registers
  <2>2. /\ signals = <<>> /\ known = NoInfo /\ snapshot = bluez
        /\ \A t \in Registry!Threads : job[t].op = "idle"
    BY <2>1 DEF StartsInOrder
  <2>3. ~Forgetting /\ ~Knows
    BY <2>2 DEF Forgetting, Knows
  <2> QED
    BY <1>1, <1>2, <1>4, <2>1, <2>2, <2>3 DEF StartsInOrder, KnowsWhatIs, TellsWhatIs, MapsWhatIs
<1>7. ASSUME Registry!GetPairedDevices
      PROVE  StartsInOrder' /\ KnowsWhatIs' /\ TellsWhatIs' /\ MapsWhatIs'
  <2>1. /\ start = "read" /\ start' = "fill" /\ UNCHANGED map /\ ~Forgetting
        /\ \/ paired = {} /\ snapshot' = NoInfo
           \/ snapshot' \in paired
    BY <1>7 DEF Registry!GetPairedDevices, Forgetting
  <2>2. StartsInOrder' /\ KnowsWhatIs' /\ TellsWhatIs'
    BY <1>1, <1>2, <1>4, <2>1 DEF StartsInOrder, KnowsWhatIs, TellsWhatIs
  <2>3. map = NoInfo /\ paired \subseteq {known}
    BY <2>1 DEF MapsWhatIs, PairsWhatIs
  <2> QED BY <1>1, <1>2, <1>4, <2>1, <2>2, <2>3 DEF MapsWhatIs
<1>8. ASSUME Registry!FillsMap
      PROVE  StartsInOrder' /\ KnowsWhatIs' /\ TellsWhatIs' /\ MapsWhatIs'
  <2>1. start = "fill" /\ start' = "hearAdded" /\ UNCHANGED snapshot
    BY <1>8 DEF Registry!FillsMap
  <2>2. StartsInOrder' /\ KnowsWhatIs' /\ TellsWhatIs'
    BY <1>1, <1>2, <1>4, <2>1 DEF StartsInOrder, KnowsWhatIs, TellsWhatIs
  <2>3. snapshot # NoInfo => snapshot = known /\ known \in paired /\ ~Forgetting /\ Knows
    BY <2>1 DEF MapsWhatIs, Knows
  <2>4. snapshot # NoInfo => seen[snapshot] \in {"ready", "stored"}
    BY <2>3 DEF PairsWhatIs
  <2>5. map' = snapshot
    BY <1>8, <2>4 DEF Registry!FillsMap, Registry!HasUuids
  <2> QED BY <1>1, <1>2, <1>4, <2>1, <2>2, <2>3, <2>5 DEF MapsWhatIs
<1>9. ASSUME Registry!Subscribes
      PROVE  StartsInOrder' /\ KnowsWhatIs' /\ TellsWhatIs' /\ MapsWhatIs'
  BY <1>1, <1>2, <1>4, <1>9
     DEF Registry!Subscribes, StartsInOrder, KnowsWhatIs, TellsWhatIs, MapsWhatIs
<1> QED BY <1>3, <1>5, <1>6, <1>7, <1>8, <1>9

(* ... and makes what there was when it asked.                             *)
LEMMA MakesStep ==
  ASSUME RegistryType, AllInTurn, Registry!MakesInfos, ~unheard'
  PROVE  AllInTurn'
<1> USE RegistryConstants DEF RegistryType, AllInTurn
<1>1. /\ UNCHANGED <<bluez, signals, props, map>>
      /\ start = "make" /\ start' = "read" /\ snapshot # "paired" /\ job["main"].op = "idle"
  BY DEF Registry!MakesInfos, Registry!bluezVars, StartsInOrder
<1>2. SignalsInTurn'
  BY <1>1 DEF SignalsInTurn
<1>3. CASE snapshot = "gone"
  <2>1. UNCHANGED <<seen, known, paired, listening, job>>
    BY <1>3 DEF Registry!MakesInfos, Registry!serviceVars
  <2>2. map = NoInfo
    BY <1>1 DEF MapsWhatIs
  <2> QED BY <1>1, <1>2, <1>3, <2>1, <2>2 DEF StartsInOrder, KnowsWhatIs, SeesWhatIs, PairsWhatIs,
          TellsWhatIs, MapsWhatIs, Knows, Forgetting, At
<1>4. CASE snapshot # "gone"
  <2>1. /\ known = NoInfo /\ ~Forgetting
        /\ IF signals = <<>> THEN bluez = snapshot ELSE signals[1].what = "removed"
    BY <1>1, <1>4 DEF StartsInOrder
  <2>2. snapshot \in Registry!States \ {"gone", "paired"} /\ Registry!TryCreateDevice("main", snapshot)
        /\ "main" \in Registry!Threads
    BY <1>1, <1>4 DEF Registry!MakesInfos
  <2>3. /\ Knows' /\ StartsInOrder' /\ SeesWhatIs' /\ PairsWhatIs' /\ TellsWhatIs' /\ MapsWhatIs'
    BY <1>1, <2>1, <2>2, CreateStep
  <2>4. KnowsWhatIs'
    BY <1>1, <1>4, <2>1, <2>3 DEF KnowsWhatIs
  <2> QED BY <1>2, <2>3, <2>4
<1> QED BY <1>3, <1>4

(* No step loses track of the headphones unless something is missed.       *)
LEMMA RegistryStep == RegistryInv /\ [Registry!Next]_(Registry!vars) => RegistryInv'
<1> SUFFICES ASSUME RegistryInv, [Registry!Next]_(Registry!vars) PROVE RegistryInv'
  OBVIOUS
<1>1. RegistryType /\ RegistryType'
  BY RegistryTypeStep DEF RegistryInv
<1> SUFFICES ASSUME ~unheard' PROVE AllInTurn'
  BY <1>1 DEF RegistryInv
<1>2. ~unheard
  BY DEF Registry!Next, Registry!BlueZ, Registry!Root, Registry!Main, Registry!Works,
         Registry!vars,
     Registry!Appears, Registry!Vanishes, Registry!ObjectChanges, Registry!Pairs,
     Registry!ServicesResolve, Registry!PropertyChanges, Registry!Listens, Registry!Tries,
     Registry!Tells, Registry!Inserts, Registry!PropertyIsHeard, Registry!ObjectAdded,
     Registry!ObjectRemoved, Registry!Forgets, Registry!GetManagedObjects, Registry!Registers,
     Registry!MakesInfos, Registry!GetPairedDevices, Registry!FillsMap, Registry!Subscribes
<1>3. AllInTurn
  BY <1>2 DEF RegistryInv
<1>4. CASE UNCHANGED Registry!vars
  BY <1>3, <1>4
     DEF Registry!vars, Registry!bluezVars, Registry!serviceVars, AllInTurn, StartsInOrder,
     SignalsInTurn, KnowsWhatIs, SeesWhatIs, PairsWhatIs, TellsWhatIs, MapsWhatIs, Knows, Forgetting, At
<1> QED
  BY <1>1, <1>3, <1>4, ObjectStep, PropertyStep, ListensStep, TriesStep, TellsStep, InsertsStep,
     HearsStep, AddedStep, RemovedStep, ForgetsStep, StartStep, MakesStep, Zenon
  DEF Registry!Next, Registry!BlueZ, Registry!Root, Registry!Main, Registry!Works

(* With nothing left to do, what the service knows is what BlueZ has, and   *)
(* the map has what the service knows.                                     *)
LEMMA MapThenFollows == RegistryInv => Registry!MapFollowsUnlessMissed
<1> SUFFICES ASSUME RegistryInv, ~unheard, Registry!AtRest
             PROVE  /\ map # NoInfo <=> Registry!IsDue
                    /\ paired \subseteq {known} /\ map \in {NoInfo, known}
  BY Zenon DEF Registry!MapFollowsUnlessMissed, Registry!MapFollows
<1> USE RegistryConstants
<1>1. RegistryType /\ AllInTurn
  BY DEF RegistryInv
<1>2. /\ start = "up" /\ signals = <<>>
      /\ \A t \in Registry!Threads : job[t].op = "idle"
      /\ \A i \in Infos : props[i] = <<>>
  BY DEF Registry!AtRest
<1>3. ~Forgetting /\ (known # NoInfo <=> bluez # "gone") /\ (Knows <=> known # NoInfo)
  BY <1>1, <1>2 DEF AllInTurn, KnowsWhatIs, Knows, Forgetting
<1>4. /\ paired \subseteq {known} /\ (map # NoInfo => map = known /\ known \in paired)
      /\ Knows /\ known \in paired => map = known
  BY <1>1, <1>2 DEF AllInTurn, PairsWhatIs, MapsWhatIs, At
<1>5. CASE known = NoInfo
  BY <1>1, <1>3, <1>4, <1>5 DEF RegistryType, Registry!IsDue, Registry!IsPaired
<1>6. CASE known # NoInfo
  <2>1. known \in Infos /\ seen[known] = bluez
    BY <1>1, <1>2, <1>3, <1>6 DEF RegistryType, AllInTurn, SeesWhatIs, LastOf
  <2>2. IF known \in paired THEN bluez \in {"ready", "stored"} ELSE bluez \notin {"ready", "stored"}
    BY <1>1, <1>2, <1>3, <1>6, <2>1 DEF AllInTurn, PairsWhatIs, At
  <2>3. Registry!IsDue <=> bluez \in {"ready", "stored"}
    BY DEF Registry!IsDue, Registry!IsPaired, Registry!HasUuids
  <2>4. map # NoInfo <=> known \in paired
    BY <1>3, <1>4, <1>6, <2>1
  <2> QED BY <1>4, <2>2, <2>3, <2>4
<1> QED BY <1>5, <1>6

(* The headphones are listed exactly while they are paired, for any number  *)
(* of objects BlueZ makes of them and any history of theirs that nothing    *)
(* came too early in or undid too soon.                                    *)
THEOREM MapAlwaysFollows == DevicesSpec => []MapFollowsUnlessMissed
<1>1. DevicesInit => RegistryInv
  <2> SUFFICES ASSUME Registry!Init PROVE RegistryInv
    BY DEF DevicesInit
  <2> USE RegistryConstants DEF Registry!Init
  <2>1. \A t \in Registry!Threads : job[t].op = "idle" /\ ~At(t, {"tell", "create"}) /\ ~At(t, {"create"})
    BY DEF At
  <2>2. RegistryType
    BY DEF RegistryType, Registry!Starts, Registry!States, Registry!Idle
  <2>3. StartsInOrder /\ SignalsInTurn /\ KnowsWhatIs /\ SeesWhatIs /\ PairsWhatIs
    BY <2>1
       DEF StartsInOrder, SignalsInTurn, KnowsWhatIs, SeesWhatIs, PairsWhatIs, Knows,
           Forgetting
  <2>4. TellsWhatIs /\ MapsWhatIs
    BY <2>1 DEF TellsWhatIs, MapsWhatIs, Knows
  <2> QED BY <2>2, <2>3, <2>4 DEF RegistryInv, AllInTurn
<1>2. RegistryInv /\ [DevicesNext]_allVars => RegistryInv'
  <2>1. [DevicesNext]_allVars => Registry!Next \/ UNCHANGED registryVars
    BY Zenon DEF DevicesNext, allVars
  <2>2. UNCHANGED registryVars => UNCHANGED Registry!vars
    BY DEF registryVars, Registry!vars, Registry!bluezVars, Registry!serviceVars
  <2> QED BY <2>1, <2>2, RegistryStep
<1>3. RegistryInv => MapFollowsUnlessMissed
  BY MapThenFollows DEF MapFollowsUnlessMissed
<1> QED BY <1>1, <1>2, <1>3, PTL DEF DevicesSpec

=============================================================================
