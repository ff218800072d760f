------------------------------ MODULE HoldOutput ------------------------------
(***************************************************************************)
(* The silent output: while the AirPods are worn and another device has    *)
(* them, nothing plays from the speakers; the default output is a silent   *)
(* sink (AudioEffects::HoldSink) until they play this computer, are taken  *)
(* out, or the user picks an output.                                       *)
(*                                                                         *)
(* This is the second half of AapAudioSwitchCapability::UpdateHold and the *)
(* worker that calls it every second. Who owns the AirPods is decided in   *)
(* AudioSwitch.tla; here it is an environment that may change between any  *)
(* two steps, in the order a takeover changes it.                          *)
(***************************************************************************)
EXTENDS Naturals

CONSTANTS
  Speakers,   \* outputs of a sound card that are no headphones
  Headsets,   \* outputs on a jack or USB: what plays there is not held
  LateTakeovers \* whether something starts playing while the destructor waits

ASSUME OutputsAssumption ==
  /\ Speakers # {}
  /\ {"pods", "hold", ""} \cap (Speakers \cup Headsets) = {}
  /\ Speakers \cap Headsets = {}
  /\ LateTakeovers \in BOOLEAN

VARIABLES
  \* environment
  mode,        \* 0 automatically, 1 when last connected here
  worn,        \* InEar()
  own, connected, busy,
  default,     \* GetDefaultSink(): an output, or "" while the sound server is away
  exiting,     \* the capability's destructor waits for the worker
  \* AudioEffects
  holdProc,    \* AudioEffects::_hold > 0
  holdNode,    \* the silent sink is there
  \* the capability
  holding, heldOutput, holdBlocked,
  hold         \* the hold worker, and what it found when it looked

vars == <<mode, worn, own, connected, busy, default, exiting, holdProc, holdNode,
          holding, heldOutput, holdBlocked, hold>>

ownVars == <<mode, worn, own, connected, busy>>
sinkVars == <<holdProc, holdNode>>
heldVars == <<holding, heldOutput>>

Outputs == Speakers \cup Headsets \cup {"pods", "hold"}

Rest == [pc |-> "rest", worn |-> FALSE, plays |-> FALSE, other |-> FALSE,
         current |-> "", last |-> FALSE]

TypeOK ==
  /\ mode \in {0, 1}
  /\ worn \in BOOLEAN /\ own \in BOOLEAN /\ connected \in BOOLEAN /\ busy \in BOOLEAN
  /\ default \in Outputs \cup {""}
  /\ exiting \in BOOLEAN
  /\ holdProc \in BOOLEAN /\ holdNode \in BOOLEAN
  /\ holding \in BOOLEAN /\ holdBlocked \in BOOLEAN
  /\ heldOutput \in Speakers \cup {""}
  /\ hold \in [pc: {"rest", "decide", "make", "give", "gone"}, worn: BOOLEAN,
               plays: BOOLEAN, other: BOOLEAN, current: Outputs \cup {""}, last: BOOLEAN]

Init ==
  /\ mode \in {0, 1}
  /\ worn \in BOOLEAN
  /\ own = TRUE /\ connected = FALSE /\ busy = FALSE
  /\ default \in Speakers \cup Headsets
  /\ exiting = FALSE
  /\ holdProc = FALSE /\ holdNode = FALSE
  /\ holding = FALSE /\ heldOutput = "" /\ holdBlocked = FALSE
  /\ hold = Rest

Up == default # ""

(* The output the system falls back to when the default one goes.          *)
FallBackFrom(gone) ==
  IF default = gone THEN default' \in Speakers ELSE UNCHANGED default

-----------------------------------------------------------------------------
(* The hold worker.                                                        *)

(* Slip: the last pass is like any other, the device gone or not.          *)
HoldLooksLastAsEver ==
  /\ hold.pc = "rest" /\ ~hold.last
  /\ hold' = [pc |-> "decide", worn |-> worn, plays |-> own /\ default = "pods",
              other |-> ~own \/ ~connected, current |-> default, last |-> exiting]
  /\ holdBlocked' = (worn /\ holdBlocked)
  /\ UNCHANGED <<ownVars, default, exiting, sinkVars, heldVars>>

(* The top of UpdateHold: what it reads once, before it decides.           *)
HoldLooks ==
  /\ hold.pc = "rest" /\ ~hold.last
  /\ hold' = [pc |-> "decide", worn |-> worn, plays |-> own /\ default = "pods",
              other |-> ~own \/ ~connected, current |-> default, last |-> exiting]
  /\ holdBlocked' = (worn /\ (holdBlocked \/ exiting))
  /\ UNCHANGED <<ownVars, default, exiting, sinkVars, heldVars>>

(* After the last pass the thread ends.                                    *)
HoldEnds ==
  /\ hold.pc = "rest" /\ hold.last
  /\ hold' = [hold EXCEPT !.pc = "gone"]
  /\ UNCHANGED <<ownVars, default, exiting, sinkVars, heldVars, holdBlocked>>

HoldRests == hold' = [Rest EXCEPT !.last = hold.last]

UserPicked == hold.current # "hold" /\ ~hold.plays

(* Slip: taken out, the speakers stay held.                                *)
HoldDecidesWornOrNot ==
  /\ hold.pc = "decide" /\ holding
  /\ IF busy
     THEN HoldRests /\ UNCHANGED holdBlocked
     ELSE /\ holdBlocked' = (holdBlocked \/ UserPicked)
          /\ IF mode = 0 /\ hold.other /\ ~holdBlocked' /\ ~hold.plays
             THEN HoldRests
             ELSE hold' = [hold EXCEPT !.pc = "give"]
  /\ UNCHANGED <<ownVars, default, exiting, sinkVars, heldVars>>

(* While holding: not in a takeover; an output other than the silent one   *)
(* is the user's choice; kept as long as the other device has them.        *)
HoldDecides ==
  /\ hold.pc = "decide" /\ holding
  /\ IF busy
     THEN HoldRests /\ UNCHANGED holdBlocked
     ELSE /\ holdBlocked' = (holdBlocked \/ UserPicked)
          /\ IF mode = 0 /\ hold.worn /\ hold.other /\ ~holdBlocked' /\ ~hold.plays
             THEN HoldRests
             ELSE hold' = [hold EXCEPT !.pc = "give"]
  /\ UNCHANGED <<ownVars, default, exiting, sinkVars, heldVars>>

(* The output goes back, the silent sink goes.                             *)
HoldGives ==
  /\ hold.pc = "give"
  /\ IF hold.current = "hold" /\ Up
     THEN default' = heldOutput
     ELSE FallBackFrom("hold")
  /\ holdProc' = FALSE /\ holdNode' = FALSE
  /\ holding' = FALSE
  /\ HoldRests
  /\ UNCHANGED <<ownVars, exiting, heldOutput, holdBlocked>>

(* Speakers, worn, the other device's, nothing against it: make the silent *)
(* sink; its process may fail to start.                                    *)
ShouldHold ==
  /\ mode = 0 /\ hold.worn /\ hold.other /\ ~holdBlocked /\ ~hold.plays /\ ~busy
  /\ hold.current \in Speakers

HoldCreates ==
  /\ hold.pc = "decide" /\ ~holding
  /\ IF ShouldHold
     THEN /\ holdProc' \in BOOLEAN
          /\ hold' = [hold EXCEPT !.pc = "make"]
     ELSE HoldRests /\ UNCHANGED holdProc
  /\ UNCHANGED <<ownVars, default, exiting, holdNode, heldVars, holdBlocked>>

(* Slip: a sink the server refused stays behind.                           *)
HoldMakesLeavesSink ==
  /\ hold.pc = "make"
  /\ \/ /\ holdNode /\ Up
        /\ default' = "hold"
        /\ heldOutput' = hold.current
        /\ holding' = TRUE
        /\ UNCHANGED <<holdBlocked, sinkVars>>
     \/ /\ ~holdNode \/ ~Up
        /\ holdBlocked' = TRUE
              /\ UNCHANGED <<default, sinkVars, heldVars>>
  /\ HoldRests
  /\ UNCHANGED <<ownVars, exiting>>

(* Slip: the output is switched, and nobody notes which one to give back.  *)
HoldMakesForgetsOutput ==
  /\ hold.pc = "make"
  /\ \/ /\ holdNode /\ Up
        /\ default' = "hold"
        /\ holding' = TRUE
        /\ UNCHANGED <<holdBlocked, heldOutput, sinkVars>>
     \/ /\ ~holdNode \/ ~Up
        /\ holdProc' = FALSE /\ holdNode' = FALSE
        /\ FallBackFrom("hold")
        /\ holdBlocked' = TRUE
              /\ UNCHANGED heldVars
  /\ HoldRests
  /\ UNCHANGED <<ownVars, exiting>>

(* Once it is there it becomes the default output; after 2 s without it,   *)
(* or if the server refuses, not again until they are taken out.           *)
HoldMakes ==
  /\ hold.pc = "make"
  /\ \/ /\ holdNode /\ Up
        /\ default' = "hold"
        /\ heldOutput' = hold.current
        /\ holding' = TRUE
        /\ UNCHANGED <<holdBlocked, sinkVars>>
     \/ /\ ~holdNode \/ ~Up
        /\ holdProc' = FALSE /\ holdNode' = FALSE
        /\ FallBackFrom("hold")
        /\ holdBlocked' = TRUE
              /\ UNCHANGED heldVars
  /\ HoldRests
  /\ UNCHANGED <<ownVars, exiting>>

HoldWorker ==
  \/ HoldLooks \/ HoldEnds \/ HoldDecides \/ HoldGives
  \/ HoldCreates \/ HoldMakes

-----------------------------------------------------------------------------
(* The rest of the daemon, the user and the sound server.                  *)

HoldUnchanged == UNCHANGED <<holding, heldOutput, hold>>

(* The destructor joins the worker before it unsubscribes from playbacks.  *)
TakeoverStarts ==
  /\ ~busy /\ (exiting => LateTakeovers)
  /\ busy' = TRUE
  /\ HoldUnchanged
  /\ UNCHANGED <<mode, worn, own, connected, default, exiting, sinkVars, holdBlocked>>

TakeoverClaims ==
  /\ busy /\ ~own
  /\ own' = TRUE
  /\ HoldUnchanged
  /\ UNCHANGED <<mode, worn, connected, busy, default, exiting, sinkVars, holdBlocked>>

TakeoverRoutes ==
  /\ busy /\ own /\ connected /\ Up
  /\ default' = "pods"
  /\ HoldUnchanged
  /\ UNCHANGED <<ownVars, exiting, sinkVars, holdBlocked>>

TakeoverDone ==
  /\ busy
  /\ busy' = FALSE
  /\ HoldUnchanged
  /\ UNCHANGED <<mode, worn, own, connected, default, exiting, sinkVars, holdBlocked>>

(* Its connect failed: the speakers play.                                  *)
TakeoverFails ==
  /\ busy /\ ~connected
  /\ busy' = FALSE
  /\ holdBlocked' = TRUE
  /\ HoldUnchanged
  /\ UNCHANGED <<mode, worn, own, connected, default, exiting, sinkVars>>

(* Release: their card goes off.                                           *)
OtherTakes ==
  /\ own /\ connected
  /\ own' = FALSE
  /\ FallBackFrom("pods")
  /\ HoldUnchanged
  /\ UNCHANGED <<mode, worn, connected, busy, exiting, sinkVars, holdBlocked>>

Connects ==
  /\ ~connected
  /\ connected' = TRUE
  /\ HoldUnchanged
  /\ UNCHANGED <<mode, worn, own, busy, default, exiting, sinkVars, holdBlocked>>

Disconnects ==
  /\ connected
  /\ connected' = FALSE
  /\ own' = TRUE
  /\ FallBackFrom("pods")
  /\ HoldUnchanged
  /\ UNCHANGED <<mode, worn, busy, exiting, sinkVars, holdBlocked>>

PodsMove ==
  /\ worn' = ~worn
  /\ HoldUnchanged
  /\ UNCHANGED <<mode, own, connected, busy, default, exiting, sinkVars, holdBlocked>>

UserSetsMode ==
  /\ mode' = 1 - mode
  /\ HoldUnchanged
  /\ UNCHANGED <<worn, own, connected, busy, default, exiting, sinkVars, holdBlocked>>

UserPicks ==
  /\ Up
  /\ default' \in (Speakers \cup Headsets \cup (IF connected THEN {"pods"} ELSE {}))
  /\ HoldUnchanged
  /\ UNCHANGED <<ownVars, exiting, sinkVars, holdBlocked>>

(* The silent sink appears a moment after its process started.             *)
NodeAppears ==
  /\ holdProc /\ Up /\ ~holdNode
  /\ holdNode' = TRUE
  /\ HoldUnchanged
  /\ UNCHANGED <<ownVars, default, exiting, holdProc, holdBlocked>>

(* The sound server restarts (an update, ApplySoundServerOptions): its     *)
(* nodes are gone, and until it is back there is no default output.        *)
ServerGoes ==
  /\ Up
  /\ default' = ""
  /\ holdNode' = FALSE
  /\ HoldUnchanged
  /\ UNCHANGED <<ownVars, exiting, holdProc, holdBlocked>>

ServerComes ==
  /\ ~Up
  /\ default' \in Speakers
  /\ HoldUnchanged
  /\ UNCHANGED <<ownVars, exiting, sinkVars, holdBlocked>>

(* The device goes: only once no takeover keeps it (KeepAlive).            *)
DeviceGoes ==
  /\ ~exiting /\ ~busy
  /\ exiting' = TRUE
  /\ HoldUnchanged
  /\ UNCHANGED <<ownVars, default, sinkVars, holdBlocked>>

Environment ==
  \/ TakeoverStarts \/ TakeoverClaims \/ TakeoverRoutes \/ TakeoverDone \/ TakeoverFails
  \/ OtherTakes \/ Connects \/ Disconnects \/ PodsMove
  \/ UserSetsMode \/ UserPicks \/ NodeAppears \/ ServerGoes \/ ServerComes \/ DeviceGoes

Next == HoldWorker \/ Environment

Spec == Init /\ [][Next]_vars

FairSpec == Spec /\ WF_vars(HoldWorker) /\ WF_vars(TakeoverDone) /\ WF_vars(ServerComes)

-----------------------------------------------------------------------------
(* Properties.                                                             *)

(* Between two looks, the silent sink's process runs exactly while the     *)
(* worker holds an output: neither a refused sink nor one given back stays *)
(* behind (a user could pick it and hear nothing).                         *)
NoStraySink == hold.pc = "rest" => (holdProc <=> holding)

(* The device gone, its silent sink is too, and nothing plays into it: the  *)
(* last pass gives the output back even while they are worn.               *)
GivenBackAtTheEnd == hold.pc = "gone" => ~holdProc /\ default # "hold"

(* The silent output is the default one only while an output waits to be   *)
(* given back.                                                             *)
SilenceIsHeld == default = "hold" => holding /\ heldOutput \in Speakers

(* Taken out, the speakers come back (once no takeover is under way); worn  *)
(* while another device has them, nothing keeps playing from the speakers:  *)
(* they are held, or it was for a reason that they are not.                *)
SpeakersFollow ==
  /\ (default = "hold" /\ ~worn) ~> (default # "hold" \/ worn \/ busy)
  /\ (default \in Speakers /\ mode = 0 /\ worn /\ ~own /\ ~holdBlocked /\ ~exiting)
       ~> \/ default \notin Speakers \/ holdBlocked \/ busy
          \/ mode # 0 \/ ~worn \/ own \/ exiting

(* "... or the user picks an output": a pick made after the worker looked   *)
(* is not taken back by it.                                                *)
PickStands ==
  [][(hold' # hold /\ default' # default) => default = hold.current \/ default = "hold"]_vars

=============================================================================
