---------------------------- MODULE DurableSettings ----------------------------
(***************************************************************************)
(* What the rest of the daemon relies on SettingsService for: a table it    *)
(* may change at any time, and a file that always holds one whole table it  *)
(* once was, the last one but for the write under way or a failed one.      *)
(***************************************************************************)
CONSTANTS
  AirPodsKeys,  \* keys AirPods may have been paired with
  Unset         \* a value that is not there

(* Of the constants; MCDevices assumes it.                                 *)
ConstantsOK == Unset \notin AirPodsKeys \cup {"on", "off", "down", "damaged", "partly"}

VARIABLES
  live,         \* the table in memory, or Down
  kept          \* the table in the file, or Damaged

vars == <<live, kept>>

(* The popup's setting, the same under the name MagicPods had, and the keys. *)
Tables == [own : {"on", "off", Unset}, old : {"on", "off", Unset}, keys : AirPodsKeys \cup {Unset}]
NoTable == [own |-> Unset, old |-> Unset, keys |-> Unset]
NotATable(what) == [NoTable EXCEPT !.own = what]
Down == NotATable("down")
Damaged == NotATable("damaged")

(* Settings of the old name move to the new one, once; then the defaults    *)
(* fill what is not there.                                                 *)
Moved(t) == IF t.old # Unset /\ t.own = Unset THEN [t EXCEPT !.own = t.old, !.old = Unset] ELSE t
Merged(t) == IF t.own = Unset THEN [t EXCEPT !.own = "on"] ELSE t
Fresh(t) == Merged(Moved(t))

Init == live = Down /\ kept \in Tables

Loads ==
  /\ live = Down
  /\ live' = Fresh(IF kept = Damaged THEN NoTable ELSE kept)
  /\ kept' = IF kept = Damaged THEN NoTable ELSE kept

Changes ==
  /\ live # Down
  /\ \/ \E v \in {"on", "off"} : live' = [live EXCEPT !.own = v]
     \/ \E v \in AirPodsKeys : live' = [live EXCEPT !.keys = v]
  /\ UNCHANGED kept

Persists == live # Down /\ kept' = live /\ UNCHANGED live

Ends == live # Down /\ live' = Down /\ UNCHANGED kept

(* Somebody else writes the file.                                          *)
IsEdited == live = Down /\ kept' = Damaged /\ UNCHANGED live

Next == Loads \/ Changes \/ Persists \/ Ends \/ IsEdited

Spec == Init /\ [][Next]_vars

=============================================================================
