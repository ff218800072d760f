---------------------------- MODULE MCAudioSwitch ----------------------------
(* Instances of AudioSwitch for TLC. Takeover workers are interchangeable. *)
EXTENDS AudioSwitch, TLC

WorkerSymmetry == Permutations(Workers)

(* Worn, set to switch automatically, one playback or "Move here".         *)
Plain == [modes |-> {0}, wears |-> {"ear"}, tells |-> {}, profiles |-> {"a2dp"},
          plays |-> 1, drops |-> 0, closes |-> 0, moves |-> 0, takes |-> 0]

(* The link drops, the channel closes, the setting changes; the other       *)
(* device streams; the pods go into the case in the middle of it.           *)
TakeoverEnvironments ==
  {[Plain EXCEPT !.modes = {0, 1}, !.profiles = {"off"}, !.drops = 1, !.closes = 1],
   [Plain EXCEPT !.tells = {"media"}, !.profiles = {"off"}],
   [Plain EXCEPT !.wears = {"ear", "case"}, !.moves = 2]}

(* The other device takes them, streams, or asks for them; audio waits in   *)
(* the open case, under either setting.                                    *)
OwnershipEnvironments ==
  {[Plain EXCEPT !.takes = 1],
   [Plain EXCEPT !.takes = 2, !.profiles = {}],
   [Plain EXCEPT !.tells = {"media"}, !.profiles = {}],
   [Plain EXCEPT !.modes = {0, 1}, !.wears = {"ear", "case"}, !.moves = 1]}

=============================================================================
