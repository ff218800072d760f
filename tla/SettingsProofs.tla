---------------------------- MODULE SettingsProofs ----------------------------
(***************************************************************************)
(* What one daemon keeps of its settings, for any keys the AirPods tell and *)
(* any number of saves, ends, failed writes and edits by hand: the file     *)
(* follows memory, and is the durable table the rest of the daemon relies  *)
(* on. A second daemon opens the same temporary file; with two, neither     *)
(* holds.                                                                  *)
(***************************************************************************)
EXTENDS Settings, FiniteSetTheorems, TLAPS

OneDaemon == \E d : Daemons = {d}

(* What the tables are: whole ones, which a damaged file is not.           *)
LEMMA TablesAre ==
  ASSUME ConstantsOK
  PROVE  /\ NoTable \in Tables /\ Damaged \notin Tables
         /\ [own |-> Unset, old |-> Unset, keys |-> Unset] = NoTable
         /\ [own |-> "down", old |-> Unset, keys |-> Unset] = Abstract!Down
         /\ Abstract!Down \notin Tables
         /\ \A t \in Tables : Abstract!Fresh(t) \in Tables
         /\ \A t \in Tables, v \in {"on", "off"} : [t EXCEPT !.own = v] \in Tables
         /\ \A t \in Tables, v \in AirPodsKeys : [t EXCEPT !.keys = v] \in Tables
<1> USE DEF Tables, NoTable, Damaged, Abstract!Tables, Abstract!NoTable, Abstract!Damaged,
        Abstract!NotATable, Abstract!Down
<1>1. Unset \notin AirPodsKeys \cup {"on", "off", "down", "damaged", "partly"}
  BY DEF ConstantsOK, Abstract!ConstantsOK
<1>2. NoTable \in Tables
  OBVIOUS
<1>3. NoTable = [own |-> Unset, old |-> Unset, keys |-> Unset]
  OBVIOUS
<1>4. Damaged = [own |-> "damaged", old |-> Unset, keys |-> Unset]
  OBVIOUS
<1>5. Abstract!Down = [own |-> "down", old |-> Unset, keys |-> Unset]
  OBVIOUS
<1>6. Damaged \notin Tables /\ Abstract!Down \notin Tables
  BY <1>1, <1>4, <1>5
<1>7. \A t \in Tables : Abstract!Fresh(t) \in Tables
  BY DEF Abstract!Fresh, Abstract!Merged, Abstract!Moved
<1>8. \A t \in Tables, v \in {"on", "off"} : [t EXCEPT !.own = v] \in Tables
  OBVIOUS
<1>9. \A t \in Tables, v \in AirPodsKeys : [t EXCEPT !.keys = v] \in Tables
  OBVIOUS
<1> QED BY <1>2, <1>3, <1>5, <1>6, <1>7, <1>8, <1>9

-----------------------------------------------------------------------------
(* The names stand for different files, and the only writer writes the      *)
(* temporary one.                                                          *)
Apart == \A m, n \in Names : inode[m] = inode[n] /\ inode[m] # 0 => m = n

Writer(d) ==
  /\ fd[d] = IF pc[d] \in {"write", "flush"} THEN inode["tmp"] ELSE 0
  /\ pc[d] \in {"write", "flush", "rename"} => inode["tmp"] # 0
  /\ pc[d] = "rename" => content[inode["tmp"]] = mem[d]
  /\ pc[d] = "abandon" => fails # 0

(* The file is whole, or damaged by hand while nobody had loaded it; what   *)
(* was damaged is there, or put aside.                                     *)
Whole ==
  /\ Kept \in Tables \cup {Damaged}
  /\ Kept = Damaged => \A d \in Daemons : pc[d] \in {"down", "load"}
  /\ \A d \in Daemons : pc[d] = "up" /\ fails = 0 => Kept = mem[d]
  /\ edits > 0 => \E n \in {"config", "broken"} : inode[n] # 0 /\ content[inode[n]] = Damaged

FileInv == TypeOK /\ Apart /\ (\A d \in Daemons : Writer(d)) /\ Whole

(* One daemon needs four inodes: three names and one more.                 *)
LEMMA FourInodes == OneDaemon => Inodes = 1..4
<1> SUFFICES ASSUME NEW d, Daemons = {d} PROVE Inodes = 1..4
  BY DEF OneDaemon
<1>1. Cardinality({d}) = 1
  BY FS_Singleton
<1> QED BY <1>1 DEF Inodes

(* There is a free inode for the temporary file.                           *)
LEMMA UnusedIsFree ==
  ASSUME OneDaemon, TypeOK, NEW d \in Daemons, Writer(d), pc[d] = "open", inode["tmp"] = 0
  PROVE  Unused \in Inodes /\ \A n \in Names : inode[n] # Unused
<1> DEFINE S == {i \in Inodes : (\A n \in Names : inode[n] # i) /\ (\A e \in Daemons : fd[e] # i)}
<1>1. \A e \in Daemons : fd[e] = 0
  BY DEF OneDaemon, Writer
<1>2. 1 \in S \/ 2 \in S \/ 3 \in S
  BY <1>1, FourInodes DEF Names, TypeOK
<1>3. \E x \in S : \A y \in S : x <= y
  <2>1. S \subseteq 1..4
    BY FourInodes
  <2> HIDE DEF S
  <2>2. CASE 1 \in S
    BY <2>1, <2>2
  <2>3. CASE 1 \notin S /\ 2 \in S
    BY <2>1, <2>3
  <2>4. CASE 1 \notin S /\ 2 \notin S /\ 3 \in S
    BY <2>1, <2>4
  <2> QED BY <1>2, <2>2, <2>3, <2>4
<1>4. Unused \in S
  BY <1>3 DEF Unused, Min
<1> QED BY <1>4

(* It holds at the start.                                                  *)
LEMMA FileInit == ConstantsOK /\ OneDaemon /\ Init => FileInv
<1> SUFFICES ASSUME ConstantsOK, OneDaemon, Init PROVE FileInv
  OBVIOUS
<1>1. TypeOK
  BY TablesAre, FourInodes DEF Init, TypeOK, Names, ConstantsOK
<1>2. Apart
  BY FourInodes DEF Init, Apart, Names
<1>3. \A d \in Daemons : Writer(d)
  BY DEF Init, Writer
<1>4. Whole
  BY TablesAre, FourInodes DEF Init, Whole, Kept, Names
<1> QED BY <1>1, <1>2, <1>3, <1>4 DEF FileInv

(* The invariant of the file is inductive for one daemon.                  *)
LEMMA FileStep == ConstantsOK /\ OneDaemon /\ FileInv /\ [Next]_vars => FileInv'
<1> SUFFICES ASSUME ConstantsOK, OneDaemon, FileInv, [Next]_vars PROVE FileInv'
  OBVIOUS
<1> USE FourInodes, TablesAre
<1> USE DEF FileInv, TypeOK, Goes, countVars
<1>0. MaxSaves \in Nat /\ MaxEnds \in Nat /\ MaxFails \in Nat /\ MaxEdits \in Nat
  BY DEF ConstantsOK
<1>1. ASSUME NEW d \in Daemons, Starts(d) PROVE FileInv'
  <2>1. TypeOK' /\ Apart'
    BY <1>1 DEF Starts, Apart
  <2>2. \A e \in Daemons : Writer(e)'
    BY <1>1 DEF Starts, Writer, OneDaemon
  <2>3. Whole'
    BY <1>1 DEF Starts, Whole, Kept, OneDaemon
  <2> QED BY <2>1, <2>2, <2>3
<1>2. ASSUME NEW d \in Daemons, Loads(d) PROVE FileInv'
  <2>1. TypeOK'
    BY <1>2 DEF Loads, Names
  <2>2. Apart'
    BY <1>2 DEF Loads, Apart, Names
  <2>3. \A e \in Daemons : Writer(e)'
    BY <1>2 DEF Loads, Writer, OneDaemon, Names
  <2>4. Whole'
    BY <1>2 DEF Loads, Whole, Kept, OneDaemon, Names
  <2> QED BY <2>1, <2>2, <2>3, <2>4
<1>3. ASSUME NEW d \in Daemons, SaveSetting(d) PROVE FileInv'
  <2>0. mem' \in [Daemons -> Tables]
    <3>1. CASE \E v \in {"on", "off"} : mem' = [mem EXCEPT ![d].own = v]
      <4>1. PICK v \in {"on", "off"} : mem' = [mem EXCEPT ![d].own = v]
        BY <3>1
      <4>2. [mem[d] EXCEPT !.own = v] \in Tables
        BY TablesAre
      <4> QED BY <4>1, <4>2
    <3>2. CASE \E v \in AirPodsKeys : mem' = [mem EXCEPT ![d].keys = v]
      BY <3>2
    <3> QED BY <1>3, <3>1, <3>2, Zenon DEF SaveSetting
  <2>1. TypeOK' /\ Apart'
    BY <1>0, <1>3, <2>0 DEF SaveSetting, Apart
  <2>2. \A e \in Daemons : Writer(e)'
    BY <1>3 DEF SaveSetting, Writer, OneDaemon
  <2>3. Whole'
    BY <1>3 DEF SaveSetting, Whole, Kept, OneDaemon
  <2> QED BY <2>1, <2>2, <2>3
<1>4. ASSUME NEW d \in Daemons, Opens(d) PROVE FileInv'
  <2>0. inode["tmp"] = 0 => Unused \in Inodes /\ \A n \in Names : inode[n] # Unused
    BY <1>4, UnusedIsFree DEF Opens
  <2>1. PICK i : /\ i = (IF inode["tmp"] = 0 THEN Unused ELSE inode["tmp"])
                 /\ inode' = [inode EXCEPT !["tmp"] = i]
                 /\ fd' = [fd EXCEPT ![d] = i]
                 /\ content' = [content EXCEPT ![i] = NoTable]
    BY <1>4 DEF Opens
  <2>2. i \in Inodes /\ inode["config"] # i /\ inode["broken"] # i
    BY <2>0, <2>1, FourInodes DEF Names, Apart
  <2>3. TypeOK'
    BY <1>4, <2>1, <2>2 DEF Opens, Names
  <2>4. Apart'
    BY <2>1, <2>2 DEF Apart, Names
  <2>5. \A e \in Daemons : Writer(e)'
    BY <1>4, <2>1, <2>2 DEF Opens, Writer, OneDaemon, Names
  <2>6. Whole'
    BY <1>4, <2>1, <2>2 DEF Opens, Whole, Kept, OneDaemon, Names
  <2> QED BY <2>3, <2>4, <2>5, <2>6
<1>5. ASSUME NEW d \in Daemons, Writes(d) \/ Flushes(d) PROVE FileInv'
  <2>1. TypeOK'
    BY <1>5 DEF Writes, Flushes, Writer
  <2>2. Apart'
    BY <1>5 DEF Writes, Flushes, Apart
  <2>3. \A e \in Daemons : Writer(e)'
    BY <1>5 DEF Writes, Flushes, Writer, OneDaemon, Names
  <2>4. Whole'
    BY <1>5 DEF Writes, Flushes, Writer, Whole, Apart, Kept, OneDaemon, Names
  <2> QED BY <2>1, <2>2, <2>3, <2>4
<1>6. ASSUME NEW d \in Daemons, Renames(d) PROVE FileInv'
  <2>0. /\ inode["tmp"] # 0
        /\ inode' = [inode EXCEPT !["config"] = inode["tmp"], !["tmp"] = 0]
        /\ pc' = [pc EXCEPT ![d] = "up"]
        /\ UNCHANGED <<mem, fd, content, countVars>>
    BY <1>6 DEF Renames, Returns, Writer, OneDaemon
  <2>1. TypeOK'
    BY <1>6, <2>0 DEF Renames, Returns, Names
  <2>2. Apart'
    BY <2>0 DEF Apart, Names
  <2>3. \A e \in Daemons : Writer(e)'
    BY <1>6, <2>0 DEF Renames, Writer, OneDaemon, Names
  <2>4. Whole'
    BY <1>6, <2>0 DEF Renames, Writer, Whole, Apart, Kept, OneDaemon, Names
  <2> QED BY <2>1, <2>2, <2>3, <2>4
<1>7. ASSUME NEW d \in Daemons, Abandons(d) PROVE FileInv'
  <2>0. pc' = [pc EXCEPT ![d] = "up"]
    BY <1>7 DEF Abandons, Returns, OneDaemon
  <2>1. TypeOK'
    BY <1>7, <2>0 DEF Abandons, Returns, Names
  <2>2. Apart'
    BY <1>7 DEF Abandons, Apart, Names
  <2>3. \A e \in Daemons : Writer(e)'
    BY <1>7, <2>0 DEF Abandons, Writer, OneDaemon, Names
  <2>4. Whole'
    BY <1>7, <2>0 DEF Abandons, Writer, Whole, Kept, OneDaemon, Names
  <2> QED BY <2>1, <2>2, <2>3, <2>4
<1>8. ASSUME NEW d \in Daemons, Fails(d) \/ Ends(d) PROVE FileInv'
  <2>1. TypeOK'
    BY <1>0, <1>8 DEF Fails, Ends
  <2>2. Apart'
    BY <1>8 DEF Fails, Ends, Apart
  <2>3. \A e \in Daemons : Writer(e)'
    BY <1>8 DEF Fails, Ends, Writer, OneDaemon
  <2>4. Whole'
    BY <1>8 DEF Fails, Ends, Whole, Kept, OneDaemon
  <2> QED BY <2>1, <2>2, <2>3, <2>4
<1>9. CASE IsEdited
  <2>1. TypeOK'
    BY <1>0, <1>9 DEF IsEdited, Names
  <2>2. Apart' /\ \A e \in Daemons : Writer(e)'
    BY <1>9 DEF IsEdited, Apart, Writer
  <2>3. Whole'
    BY <1>9 DEF IsEdited, Whole, Kept, Names
  <2> QED BY <2>1, <2>2, <2>3
<1>10. CASE UNCHANGED vars
  BY <1>10 DEF vars, Apart, Writer, Whole, Kept
<1> QED
  BY <1>1, <1>2, <1>3, <1>4, <1>5, <1>6, <1>7, <1>8, <1>9, <1>10 DEF Next, WriteToFile

(* So it holds in every reachable state.                                   *)
LEMMA FileInvariant ==
  ASSUME ConstantsOK, OneDaemon
  PROVE  Spec => []FileInv
<1>1. Init => FileInv
  BY FileInit
<1>2. FileInv /\ [Next]_vars => FileInv'
  BY FileStep
<1> QED BY <1>1, <1>2, PTL DEF Spec

(* The types.                                                              *)
THEOREM TypeCorrect ==
  ASSUME ConstantsOK, OneDaemon
  PROVE  Spec => []TypeOK
<1>1. FileInv => TypeOK
  BY DEF FileInv
<1> QED BY <1>1, FileInvariant, PTL

(* As soon as a save returns, and no write has failed, the file holds what  *)
(* memory does; and keys of a damaged file can be recovered by hand,        *)
(* whatever crashed and failed since.                                      *)
THEOREM FileAlwaysFollows ==
  ASSUME ConstantsOK, OneDaemon
  PROVE  Spec => []FileFollows
<1>1. FileInv => FileFollows
  BY DEF FileInv, Whole, FileFollows, Names
<1> QED BY <1>1, FileInvariant, PTL

-----------------------------------------------------------------------------
(* No daemon forgets keys the file holds.                                  *)
Remembers ==
  \A d \in Daemons : pc[d] \notin {"down", "load"} /\ Kept.keys # Unset => mem[d].keys # Unset

(* What Fresh makes of a table keeps its keys.                             *)
LEMMA FreshKeepsKeys ==
  ASSUME NEW t \in Tables
  PROVE  Abstract!Fresh(t).keys = t.keys
BY DEF Tables, Abstract!Tables, Abstract!Fresh, Abstract!Merged, Abstract!Moved

(* One daemon that loaded the keys remembers them.                         *)
LEMMA KeysStep ==
  ASSUME ConstantsOK, OneDaemon, FileInv, Remembers, [Next]_vars
  PROVE  Remembers' /\ (KeepsKeys \/ UNCHANGED vars)
<1> USE FourInodes, TablesAre
<1> USE DEF FileInv, TypeOK, Goes, OneDaemon, KeepsKeys, Remembers
<1>0. NoTable.keys = Unset /\ Unset \notin AirPodsKeys
  BY DEF NoTable, Abstract!NoTable, ConstantsOK, Abstract!ConstantsOK
<1>1. ASSUME Kept' = Kept PROVE KeepsKeys
  BY <1>1
<1>2. ASSUME NEW d \in Daemons, Starts(d) PROVE Remembers' /\ KeepsKeys
  BY <1>1, <1>2 DEF Starts, Kept
<1>3. ASSUME NEW d \in Daemons, Loads(d) PROVE Remembers' /\ KeepsKeys
  <2>1. CASE Kept \in Tables
    BY <1>1, <1>3, <2>1, FreshKeepsKeys DEF Loads, Kept
  <2>2. CASE Kept \notin Tables
    <3>1. Kept' = NoTable
      BY <1>3, <2>2 DEF Loads, Kept, Names
    <3> QED BY <1>0, <2>2, <3>1
  <2> QED BY <2>1, <2>2
<1>4. ASSUME NEW d \in Daemons, SaveSetting(d) PROVE Remembers' /\ KeepsKeys
  <2>1. Kept' = Kept
    BY <1>4 DEF SaveSetting, Kept
  <2>2. \/ mem'[d].keys = mem[d].keys
        \/ mem'[d].keys \in AirPodsKeys
    BY <1>4 DEF SaveSetting, Tables, Abstract!Tables
  <2> QED BY <1>0, <1>1, <1>4, <2>1, <2>2 DEF SaveSetting
<1>5. ASSUME NEW d \in Daemons, Opens(d) PROVE Remembers' /\ KeepsKeys
  <2>1. inode["tmp"] = 0 => inode["config"] # Unused
    BY <1>5, UnusedIsFree DEF Opens, Names
  <2>2. PICK i : /\ i = (IF inode["tmp"] = 0 THEN Unused ELSE inode["tmp"])
                 /\ inode' = [inode EXCEPT !["tmp"] = i]
                 /\ content' = [content EXCEPT ![i] = NoTable]
    BY <1>5 DEF Opens
  <2>3. inode["config"] # i \/ inode["config"] = 0
    BY <2>1, <2>2 DEF Apart, Names
  <2>4. Kept' = Kept
    BY <2>2, <2>3 DEF Kept, Names
  <2> QED BY <1>1, <1>5, <2>4 DEF Opens
<1>6. ASSUME NEW d \in Daemons, Writes(d) \/ Flushes(d) PROVE Remembers' /\ KeepsKeys
  <2>1. Kept' = Kept
    BY <1>6 DEF Writes, Flushes, Kept, Writer, Apart, Names
  <2> QED BY <1>1, <1>6, <2>1 DEF Writes, Flushes
<1>7. ASSUME NEW d \in Daemons, Renames(d) PROVE Remembers' /\ KeepsKeys
  <2>1. Kept' = mem[d] /\ mem' = mem
    BY <1>7 DEF Renames, Returns, Kept, Writer, Names
  <2>2. pc[d] = "rename"
    BY <1>7 DEF Renames
  <2> QED BY <2>1, <2>2
<1>8. ASSUME NEW d \in Daemons, Abandons(d) PROVE Remembers' /\ KeepsKeys
  <2>1. Kept' = Kept /\ mem' = mem /\ pc[d] = "abandon"
    BY <1>8 DEF Abandons, Kept, Names
  <2> QED BY <1>1, <2>1
<1>9. ASSUME NEW d \in Daemons, Fails(d) \/ Ends(d) PROVE Remembers' /\ KeepsKeys
  BY <1>1, <1>9 DEF Fails, Ends, Kept
<1>10. CASE IsEdited
  <2>1. Kept' = Damaged /\ pc' = pc /\ \A d \in Daemons : pc[d] = "down"
    BY <1>10 DEF IsEdited, Kept, Names
  <2> QED BY <2>1
<1>11. CASE UNCHANGED vars
  BY <1>11 DEF vars, Kept
<1> QED
  BY <1>2, <1>3, <1>4, <1>5, <1>6, <1>7, <1>8, <1>9, <1>10, <1>11 DEF Next, WriteToFile

(* "A crash or full disk mid-write must not truncate the settings, they     *)
(* hold the AirPods keys": with one daemon, no step of it or of the disk    *)
(* takes the keys out of the file but for others that were saved.          *)
THEOREM KeysAlwaysKept ==
  ASSUME ConstantsOK, OneDaemon
  PROVE  Spec => KeysAreKept
<1>1. Init => Remembers
  BY DEF Init, Remembers
<1>2. FileInv /\ Remembers /\ [Next]_vars => Remembers' /\ [KeepsKeys]_vars
  BY KeysStep
<1> QED BY <1>1, <1>2, FileInvariant, PTL DEF Spec, KeysAreKept

-----------------------------------------------------------------------------
(* The refinement: what is live is what the daemon has loaded.              *)
LEMMA LiveIs ==
  ASSUME ConstantsOK, NEW d, Daemons = {d}
  PROVE  Live = IF pc[d] \in {"down", "load"} THEN Abstract!Down ELSE mem[d]
<1>1. CASE pc[d] \in {"down", "load"}
  BY <1>1, TablesAre DEF Live, Loaded
<1>2. CASE pc[d] \notin {"down", "load"}
  <2>1. Loaded = {d}
    BY <1>2 DEF Loaded
  <2>2. (CHOOSE e \in Loaded : TRUE) = d
    BY <2>1
  <2> QED BY <1>2, <2>1, <2>2 DEF Live
<1> QED BY <1>1, <1>2

(* The same of the next state.                                             *)
LEMMA LiveNext ==
  ASSUME ConstantsOK, NEW d, Daemons = {d}
  PROVE  Live' = IF pc'[d] \in {"down", "load"} THEN Abstract!Down ELSE mem'[d]
<1>1. CASE pc'[d] \in {"down", "load"}
  BY <1>1, TablesAre DEF Live, Loaded
<1>2. CASE pc'[d] \notin {"down", "load"}
  <2>1. Loaded' = {d}
    BY <1>2 DEF Loaded
  <2>2. (CHOOSE e \in Loaded' : TRUE) = d
    BY <2>1
  <2> QED BY <1>2, <2>1, <2>2 DEF Live
<1> QED BY <1>1, <1>2

(* Every step of the file is a step of the durable settings or a stutter.  *)
LEMMA DurableStep ==
  ConstantsOK /\ OneDaemon /\ FileInv /\ [Next]_vars => [Abstract!Next]_(Abstract!vars)
<1> SUFFICES ASSUME ConstantsOK, NEW d, Daemons = {d}, FileInv, [Next]_vars
             PROVE  Abstract!Next \/ (Live' = Live /\ Kept' = Kept)
  BY DEF OneDaemon, Abstract!vars
<1> USE FourInodes, TablesAre, LiveIs, LiveNext
<1> USE DEF FileInv, TypeOK, Goes, OneDaemon
<1>1. CASE Starts(d)
  BY <1>1 DEF Starts, Kept
<1>2. CASE Loads(d)
  BY <1>2 DEF Loads, Kept, Whole, Names, Abstract!Next, Abstract!Loads, NoTable, Tables, Damaged
<1>3. CASE SaveSetting(d)
  BY <1>3 DEF SaveSetting, Kept, Abstract!Next, Abstract!Changes
<1>4. CASE Opens(d)
  <2>1. inode["tmp"] = 0 => inode["config"] # Unused
    BY <1>4, UnusedIsFree DEF Opens, Names
  <2>2. PICK i : /\ i = (IF inode["tmp"] = 0 THEN Unused ELSE inode["tmp"])
                 /\ inode' = [inode EXCEPT !["tmp"] = i]
                 /\ content' = [content EXCEPT ![i] = NoTable]
    BY <1>4 DEF Opens
  <2>3. inode["config"] # i \/ inode["config"] = 0
    BY <2>1, <2>2 DEF Apart, Names
  <2>4. Kept' = Kept
    BY <2>2, <2>3 DEF Kept, Names
  <2> QED BY <1>4, <2>4 DEF Opens
<1>5. CASE Writes(d) \/ Flushes(d)
  BY <1>5 DEF Writes, Flushes, Kept, Writer, Apart, Names
<1>6. CASE Renames(d)
  BY <1>6 DEF Renames, Returns, Kept, Writer, Names, Abstract!Next, Abstract!Persists
<1>7. CASE Abandons(d)
  BY <1>7 DEF Abandons, Returns, Kept, Names
<1>8. CASE Fails(d) \/ Ends(d)
  BY <1>8 DEF Fails, Ends, Kept, Abstract!Next, Abstract!Ends
<1>9. CASE IsEdited
  BY <1>9 DEF IsEdited, Kept, Names, Damaged, Abstract!Next, Abstract!IsEdited
<1>10. CASE UNCHANGED vars
  BY <1>10 DEF vars, Kept
<1> QED
  BY <1>1, <1>2, <1>3, <1>4, <1>5, <1>6, <1>7, <1>8, <1>9, <1>10 DEF Next, WriteToFile

(* The file is always one whole table, the live one but for the write under *)
(* way or a failed one: one daemon implements DurableSettings.             *)
THEOREM DurableImplemented ==
  ASSUME ConstantsOK, OneDaemon
  PROVE  Spec => ImplementsDurable
<1>1. Init => Abstract!Init
  <2> SUFFICES ASSUME NEW d, Daemons = {d}, Init PROVE Abstract!Init
    BY DEF OneDaemon
  <2> QED BY LiveIs, FourInodes, TablesAre DEF Init, Abstract!Init, Kept, Names, Tables
<1>2. FileInv /\ [Next]_vars => [Abstract!Next]_(Abstract!vars)
  BY DurableStep
<1> QED BY <1>1, <1>2, FileInvariant, PTL DEF Spec, ImplementsDurable, Abstract!Spec

=============================================================================
