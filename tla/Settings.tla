------------------------------- MODULE Settings -------------------------------
(***************************************************************************)
(* SettingsService: how config.toml is written and read, with crashes and   *)
(* failing writes between any two steps, and with a second daemon that is    *)
(* started next to a running one and finds the port taken only after it has *)
(* read and written the file.                                              *)
(***************************************************************************)
EXTENDS Naturals, FiniteSets, FiniteSetsExt

CONSTANTS
  Daemons,      \* processes
  AirPodsKeys, Unset,   \* see DurableSettings
  MaxSaves, MaxEnds, MaxFails, MaxEdits   \* bounds

VARIABLES
  pc,           \* per daemon, where it is
  mem,          \* per daemon, _settings
  fd,           \* per daemon, the inode it writes
  inode,        \* what the names stand for, 0 for nothing
  content,      \* per inode, a table, or what is there of one
  port,         \* the daemon that listens on the port
  saves, ends, fails, edits

countVars == <<saves, ends, fails, edits>>
vars == <<pc, mem, fd, inode, content, port, countVars>>

Names == {"config", "tmp", "broken"}
Inodes == 1..(3 + Cardinality(Daemons))
Nobody == "nobody"

Kept == IF inode["config"] = 0
        THEN [own |-> Unset, old |-> Unset, keys |-> Unset] ELSE content[inode["config"]]
Loaded == {d \in Daemons : pc[d] \notin {"down", "load"}}

Live == IF Loaded = {}
        THEN [own |-> "down", old |-> Unset, keys |-> Unset] ELSE mem[CHOOSE d \in Loaded : TRUE]

Abstract == INSTANCE DurableSettings WITH live <- Live, kept <- Kept

(* Of the constants; MCDevices assumes it.                                 *)
ConstantsOK == Daemons # {} /\ Abstract!ConstantsOK /\ {MaxSaves, MaxEnds, MaxFails, MaxEdits} \subseteq Nat

Tables == Abstract!Tables
NoTable == Abstract!NoTable
Damaged == Abstract!Damaged
Partly == Abstract!NotATable("partly")

TypeOK ==
  /\ pc \in [Daemons -> {"down", "load", "open", "write", "flush", "rename", "abandon", "up"}]
  /\ mem \in [Daemons -> Tables] /\ fd \in [Daemons -> Inodes \cup {0}]
  /\ inode \in [Names -> Inodes \cup {0}]
  /\ content \in [Inodes -> Tables \cup {Partly, Damaged}]
  /\ port \in Daemons \cup {Nobody}
  /\ saves \in 0..MaxSaves /\ ends \in 0..MaxEnds /\ fails \in 0..MaxFails /\ edits \in 0..MaxEdits

(* No file, or one of an earlier version.                                  *)
Init ==
  /\ pc = [d \in Daemons |-> "down"] /\ mem = [d \in Daemons |-> NoTable]
  /\ fd = [d \in Daemons |-> 0]
  /\ \/ inode = [n \in Names |-> 0] /\ content = [i \in Inodes |-> NoTable]
     \/ /\ inode = [n \in Names |-> IF n = "config" THEN 1 ELSE 0]
        /\ \E t \in Tables : content = [i \in Inodes |-> IF i = 1 THEN t ELSE NoTable]
  /\ port = Nobody
  /\ saves = 0 /\ ends = 0 /\ fails = 0 /\ edits = 0

-----------------------------------------------------------------------------
(* The file system.                                                        *)

Unused == Min({i \in Inodes : (\A n \in Names : inode[n] # i) /\ (\A d \in Daemons : fd[d] # i)})

Goes(d, from, to) == pc[d] = from /\ pc' = [pc EXCEPT ![d] = to]

(* A full disk, a directory without the right to write.                     *)
Fails(d) ==
  /\ pc[d] \in {"open", "write", "flush", "rename"}
  /\ fails < MaxFails /\ fails' = fails + 1
  /\ pc' = [pc EXCEPT ![d] = "abandon"]
  /\ fd' = [fd EXCEPT ![d] = 0]
  /\ UNCHANGED <<mem, inode, content, port, saves, ends, edits>>

-----------------------------------------------------------------------------
(* WriteToFile: a file next to it, renamed over it when it is whole.        *)

(* Slip: the file itself is written.                                       *)
OpensConfig(d) ==
  /\ Goes(d, "open", "write")
  /\ LET i == IF inode["config"] = 0 THEN Unused ELSE inode["config"]
     IN  /\ inode' = [inode EXCEPT !["config"] = i]
         /\ fd' = [fd EXCEPT ![d] = i]
         /\ content' = [content EXCEPT ![i] = NoTable]
  /\ UNCHANGED <<mem, port, countVars>>

Opens(d) ==
  /\ Goes(d, "open", "write")
  /\ LET i == IF inode["tmp"] = 0 THEN Unused ELSE inode["tmp"]
     IN  /\ inode' = [inode EXCEPT !["tmp"] = i]
         /\ fd' = [fd EXCEPT ![d] = i]
         /\ content' = [content EXCEPT ![i] = NoTable]
  /\ UNCHANGED <<mem, port, countVars>>

Writes(d) ==
  /\ Goes(d, "write", "flush")
  /\ content' = [content EXCEPT ![fd[d]] = Partly]
  /\ UNCHANGED <<mem, fd, inode, port, countVars>>

Flushes(d) ==
  /\ Goes(d, "flush", "rename")
  /\ content' = [content EXCEPT ![fd[d]] = mem[d]]
  /\ fd' = [fd EXCEPT ![d] = 0]
  /\ UNCHANGED <<mem, inode, port, countVars>>

(* The constructor's write is followed by the port, which another daemon    *)
(* may have: then it exits.                                                *)
Returns(d) ==
  /\ pc' = [pc EXCEPT ![d] = IF port \in {Nobody, d} THEN "up" ELSE "down"]
  /\ port' = IF port = Nobody THEN d ELSE port

Renames(d) ==
  /\ pc[d] = "rename"
  /\ IF inode["tmp"] # 0
     THEN /\ inode' = [inode EXCEPT !["config"] = inode["tmp"], !["tmp"] = 0]
          /\ Returns(d)
     ELSE /\ pc' = [pc EXCEPT ![d] = "abandon"]   \* another daemon renamed it
          /\ UNCHANGED <<inode, port>>
  /\ UNCHANGED <<mem, fd, content, countVars>>

(* The values stay in memory; the next write takes them along.              *)
Abandons(d) ==
  /\ pc[d] = "abandon"
  /\ inode' = [inode EXCEPT !["tmp"] = 0]
  /\ Returns(d)
  /\ UNCHANGED <<mem, fd, content, countVars>>

-----------------------------------------------------------------------------
(* The service.                                                            *)

Starts(d) ==
  /\ Goes(d, "down", "load")
  /\ UNCHANGED <<mem, fd, inode, content, port, countVars>>

(* Slip: a file that cannot be read is written over.                       *)
LoadsOver(d) ==
  /\ Goes(d, "load", "open")
  /\ mem' = [mem EXCEPT ![d] = Abstract!Fresh(IF Kept \in Tables THEN Kept ELSE NoTable)]
  /\ UNCHANGED <<fd, inode, content, port, countVars>>

(* The constructor: a file that cannot be read is put aside.                *)
Loads(d) ==
  /\ Goes(d, "load", "open")
  /\ mem' = [mem EXCEPT ![d] = Abstract!Fresh(IF Kept \in Tables THEN Kept ELSE NoTable)]
  /\ inode' = IF Kept \in Tables THEN inode
              ELSE [inode EXCEPT !["broken"] = inode["config"], !["config"] = 0]
  /\ UNCHANGED <<fd, content, port, countVars>>

(* SaveSetting, under the lock: the user's, or the keys the AirPods tell.   *)
SaveSetting(d) ==
  /\ pc[d] = "up" /\ saves < MaxSaves /\ saves' = saves + 1
  /\ \/ \E v \in {"on", "off"} : mem' = [mem EXCEPT ![d].own = v]
     \/ \E v \in AirPodsKeys : mem' = [mem EXCEPT ![d].keys = v]
  /\ pc' = [pc EXCEPT ![d] = "open"]
  /\ UNCHANGED <<fd, inode, content, port, ends, fails, edits>>

(* A crash, a signal, the end of the session.                              *)
Ends(d) ==
  /\ pc[d] # "down" /\ ends < MaxEnds /\ ends' = ends + 1
  /\ pc' = [pc EXCEPT ![d] = "down"]
  /\ fd' = [fd EXCEPT ![d] = 0]
  /\ port' = IF port = d THEN Nobody ELSE port
  /\ UNCHANGED <<mem, inode, content, saves, fails, edits>>

(* config.toml edited by hand, and not TOML any more.                      *)
IsEdited ==
  /\ \A d \in Daemons : pc[d] = "down"
  /\ edits < MaxEdits /\ edits' = edits + 1
  /\ inode["config"] # 0
  /\ content' = [content EXCEPT ![inode["config"]] = Damaged]
  /\ UNCHANGED <<pc, mem, fd, inode, port, saves, ends, fails>>

-----------------------------------------------------------------------------

WriteToFile(d) == Opens(d) \/ Writes(d) \/ Flushes(d) \/ Renames(d) \/ Abandons(d)

Next ==
  \/ \E d \in Daemons : Starts(d) \/ Loads(d) \/ SaveSetting(d) \/ WriteToFile(d) \/ Fails(d) \/ Ends(d)
  \/ IsEdited

Spec == Init /\ [][Next]_vars

-----------------------------------------------------------------------------
(* Properties.                                                             *)

(* "A crash or full disk mid-write must not truncate the settings, they     *)
(* hold the AirPods keys": whatever happens, the keys the file holds go     *)
(* only for others that were saved, or with a file damaged by hand. A       *)
(* second daemon opens the same temporary file, and the code fails.         *)
KeepsKeys ==
  Kept \in Tables /\ Kept.keys # Unset =>
    \/ Kept' = Damaged
    \/ /\ Kept' \in Tables
       /\ Kept'.keys \in ({mem[d].keys : d \in Daemons} \cup {Kept.keys}) \ {Unset}

KeysAreKept == [][KeepsKeys]_vars

(* Unless a write failed, what is in memory is in the file as soon as a     *)
(* save returns; and what was in a damaged file is still there, "for        *)
(* recovering the keys by hand".                                           *)
FileFollows ==
  /\ \A d \in Daemons : pc[d] = "up" /\ fails = 0 => Kept = mem[d]
  /\ edits > 0 => \E n \in Names : inode[n] # 0 /\ content[inode[n]] = Damaged

(* One daemon alone implements what the rest relies on.                     *)
ImplementsDurable == Abstract!Spec

=============================================================================
