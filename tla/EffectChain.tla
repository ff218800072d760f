------------------------------ MODULE EffectChain ------------------------------
(***************************************************************************)
(* The effect chain (AudioEffects): one process in front of one of the      *)
(* headphones, put there by Device::RouteAudio on threads that settings,    *)
(* cards and the sound server's return start, taken away by the D-Bus       *)
(* thread of headphones that go and by the signal that ends the daemon.     *)
(* The headphones are BhfDevices: AirPods have a handover (AudioSwitch).    *)
(***************************************************************************)
EXTENDS FiniteSets, Naturals

CONSTANTS
  Headphones,
  NoChain,
  MaxRoutes     \* bound: connections, outputs lost, settings, restarts of the sound server

(* Of the constants; MCCapabilities assumes it.                            *)
ConstantsOK == NoChain \notin Headphones /\ MaxRoutes \in Nat

VARIABLES
  phase,        \* the daemon: "up", "stops" once the signal's Stop() is through, "gone"
  link, connected,   \* BlueZ's Connected; Device::_connected
  leaving,      \* headphones whose StopEffects is still to run
  sinks,        \* headphones with an output
  server,       \* the sound server is reached
  saved,        \* the effects in the settings
  waiting,      \* threads that wait for their turn, see Thread
  routing,      \* the one that has the lock of RouteAudio
  chain,        \* _sink, _config, and whether its process is of any use
  displaced,    \* history: headphones whose chain went for other headphones
  strayed,      \* history: see StopEffects, SinkComes and Applies
  routes

linkVars == <<link, connected, leaving>>
serverVars == <<sinks, server>>
threadVars == <<waiting, routing>>
historyVars == <<displaced, strayed>>
vars == <<phase, linkVars, serverVars, saved, threadVars, chain, historyVars, routes>>

(* Flat, an equalizer of the same filters, and spatial audio: another graph. *)
Configs == {"flat", "bass", "spatial"}
Graph(c) == c = "spatial"

(* A thread a card's change started looks whether it has anything to do.    *)
Thread == [on : Headphones, what : {"card", "route"}]
Card(S) == {[on |-> d, what |-> "card"] : d \in S}
Route(S) == {[on |-> d, what |-> "route"] : d \in S}

Steps == {"look", "load", "apply"}
Nobody == [on |-> NoChain, step |-> "look", config |-> "flat"]
None == [on |-> NoChain, config |-> "flat", runs |-> FALSE]

TypeOK ==
  /\ phase \in {"up", "stops", "gone"}
  /\ link \subseteq Headphones /\ connected \subseteq Headphones /\ leaving \subseteq Headphones
  /\ sinks \subseteq link /\ server \in BOOLEAN
  /\ saved \in [Headphones -> Configs]
  /\ waiting \subseteq Thread
  /\ routing \in [on : Headphones, step : Steps, config : Configs] \cup {Nobody}
  /\ chain \in [on : Headphones, config : Configs, runs : BOOLEAN] \cup {None}
  /\ displaced \subseteq Headphones /\ strayed \in BOOLEAN
  /\ routes \in 0..MaxRoutes

(* Create looks at headphones that are there as if their card had changed.  *)
Init ==
  /\ phase = "up"
  /\ link \in SUBSET Headphones /\ connected = link /\ leaving = {}
  /\ sinks \in SUBSET link /\ server = TRUE
  /\ saved \in [Headphones -> Configs]
  /\ waiting = Card(link) /\ routing = Nobody
  /\ chain = None
  /\ displaced = {} /\ strayed = FALSE
  /\ routes = 0

Moves == routes < MaxRoutes /\ routes' = routes + 1

-----------------------------------------------------------------------------
(* AudioEffects, each under _lock.                                         *)

StoppedFor(d) == IF chain.on = d THEN None ELSE chain

(* Apply: a running chain of the same graph gets the new gains, flat ones   *)
(* too; any other one goes, and a new one starts if there is something to   *)
(* do. One the sound server left half alive is taken for running.           *)
Applied(d, c) ==
  IF chain.on = d /\ Graph(c) = Graph(chain.config)
  THEN [chain EXCEPT !.config = c]
  ELSE IF c = "flat" THEN None ELSE [on |-> d, config |-> c, runs |-> server]

-----------------------------------------------------------------------------
(* The headphones' D-Bus thread.                                           *)

LinkChanges(d) ==
  /\ (d \in link) = (d \in connected) /\ d \notin leaving /\ Moves
  /\ link' = IF d \in link THEN link \ {d} ELSE link \cup {d}
  /\ sinks' = sinks \ {d}
  /\ UNCHANGED <<phase, connected, leaving, server, saved, threadVars, chain, historyVars>>

(* _connected is set, then the listeners run.                              *)
Hears(d) ==
  /\ (d \in link) # (d \in connected)
  /\ connected' = IF d \in link THEN connected \cup {d} ELSE connected \ {d}
  /\ leaving' = IF d \in link THEN leaving ELSE leaving \cup {d}
  /\ UNCHANGED <<phase, link, serverVars, saved, threadVars, chain, historyVars, routes>>

(* A RouteAudio that has looked puts the chain back after it.              *)
StopEffects(d) ==
  /\ d \in leaving
  /\ leaving' = leaving \ {d}
  /\ chain' = StoppedFor(d)
  /\ displaced' = displaced \ {d}
  /\ strayed' = (strayed \/ (routing.on = d /\ routing.step # "look"))
  /\ UNCHANGED <<phase, link, connected, serverVars, saved, threadVars, routes>>

-----------------------------------------------------------------------------
(* The sound server. A card in A2DP has its output, its change is told.     *)

(* Before the connection is heard, nobody looks at the card again after it. *)
SinkComes(d) ==
  /\ d \in link \ sinks
  /\ sinks' = sinks \cup {d}
  /\ waiting' = IF server THEN waiting \cup Card({d}) ELSE waiting
  /\ strayed' = (strayed \/ d \notin connected)
  /\ UNCHANGED <<phase, linkVars, server, saved, routing, chain, displaced, routes>>

(* A call, or a profile the user picks.                                    *)
SinkGoes(d) ==
  /\ d \in sinks /\ Moves
  /\ sinks' = sinks \ {d}
  /\ UNCHANGED <<phase, linkVars, server, saved, threadVars, chain, historyVars>>

ServerGoes ==
  /\ server /\ Moves
  /\ server' = FALSE /\ sinks' = {}
  /\ chain' = IF chain = None THEN None ELSE [chain EXCEPT !.runs = FALSE]
  /\ UNCHANGED <<phase, linkVars, saved, threadVars, historyVars>>

(* Back: "the effect chain went with it, half alive"; the active headphones *)
(* are routed again, and every card is told anew.                          *)
Reconnected ==
  /\ ~server /\ server' = TRUE
  /\ chain' = None
  /\ \E active \in SUBSET connected :
       Cardinality(active) <= 1 /\ waiting' = waiting \cup Card(sinks) \cup Route(active)
  /\ UNCHANGED <<phase, linkVars, sinks, saved, routing, historyVars, routes>>

-----------------------------------------------------------------------------
(* RouteAudio.                                                             *)

(* Slip: whoever routes them already will see it.                          *)
UserSetsWhileRouted(d) ==
  /\ Moves
  /\ \E c \in Configs \ {saved[d]} : saved' = [saved EXCEPT ![d] = c]
  /\ waiting' = IF d \in connected /\ routing.on # d THEN waiting \cup Route({d}) ELSE waiting
  /\ UNCHANGED <<phase, linkVars, serverVars, routing, chain, historyVars>>

(* A setting is saved, then RouteAudioAsync.                               *)
UserSets(d) ==
  /\ Moves
  /\ \E c \in Configs \ {saved[d]} : saved' = [saved EXCEPT ![d] = c]
  /\ waiting' = IF d \in connected THEN waiting \cup Route({d}) ELSE waiting
  /\ UNCHANGED <<phase, linkVars, serverVars, routing, chain, historyVars>>

CardLooks(d) ==
  /\ Card({d}) \subseteq waiting
  /\ waiting' = (waiting \ Card({d})) \cup IF saved[d] = "flat" THEN {} ELSE Route({d})
  /\ UNCHANGED <<phase, linkVars, serverVars, saved, routing, chain, historyVars, routes>>

TakesLock(d) ==
  /\ Route({d}) \subseteq waiting /\ routing = Nobody
  /\ waiting' = waiting \ Route({d})
  /\ routing' = [on |-> d, step |-> "look", config |-> "flat"]
  /\ UNCHANGED <<phase, linkVars, serverVars, saved, chain, historyVars, routes>>

HasOutput(d) == d \in connected /\ server /\ d \in sinks

Looks ==
  /\ routing # Nobody /\ routing.step = "look" /\ HasOutput(routing.on)
  /\ routing' = [routing EXCEPT !.step = "load"]
  /\ UNCHANGED <<phase, linkVars, serverVars, saved, waiting, chain, historyVars, routes>>

(* Gone, or no output though its card was switched on and 8 s have passed.  *)
LooksInVain ==
  /\ routing # Nobody /\ routing.step = "look" /\ ~HasOutput(routing.on)
  /\ routing' = Nobody
  /\ chain' = StoppedFor(routing.on)
  /\ UNCHANGED <<phase, linkVars, serverVars, saved, waiting, historyVars, routes>>

LoadEffectsConfig ==
  /\ routing # Nobody /\ routing.step = "load"
  /\ routing' = [routing EXCEPT !.step = "apply", !.config = saved[routing.on]]
  /\ UNCHANGED <<phase, linkVars, serverVars, saved, waiting, chain, historyVars, routes>>

(* After the signal's Stop() nobody takes it away any more.                *)
Applies ==
  /\ routing # Nobody /\ routing.step = "apply"
  /\ LET d == routing.on
     IN  /\ chain' = Applied(d, routing.config)
         /\ displaced' = (displaced \cup ({chain.on} \cap Headphones)) \ {d}
         /\ strayed' = (strayed \/ phase = "stops")
  /\ routing' = Nobody
  /\ UNCHANGED <<phase, linkVars, serverVars, saved, waiting, routes>>

-----------------------------------------------------------------------------
(* SIGTERM: the chain first, the rest of the daemon a moment later.         *)

SignalStops ==
  /\ phase = "up" /\ phase' = "stops"
  /\ chain' = None
  /\ UNCHANGED <<linkVars, serverVars, saved, threadVars, historyVars, routes>>

Exits ==
  /\ phase = "stops" /\ phase' = "gone"
  /\ waiting' = {} /\ routing' = Nobody /\ leaving' = {}
  /\ UNCHANGED <<link, connected, serverVars, saved, chain, historyVars, routes>>

-----------------------------------------------------------------------------

Environment ==
  \/ ServerGoes
  \/ \E d \in Headphones : LinkChanges(d) \/ SinkComes(d) \/ SinkGoes(d) \/ UserSets(d)

Routes ==
  \/ Looks \/ LooksInVain \/ LoadEffectsConfig \/ Applies
  \/ \E d \in Headphones : CardLooks(d) \/ TakesLock(d)

Listeners == Reconnected \/ \E d \in Headphones : Hears(d) \/ StopEffects(d)

Next == phase # "gone" /\ (Environment \/ Routes \/ Listeners \/ SignalStops \/ Exits)

Spec == Init /\ [][Next]_vars

-----------------------------------------------------------------------------
(* Properties.                                                             *)

AtRest ==
  /\ phase = "up" /\ server /\ waiting = {} /\ routing = Nobody
  /\ link = connected /\ leaving = {}

(* "No chain" for headphones that went, and the saved effects in front of   *)
(* those that are there: with nothing under way the chain is in front of    *)
(* connected headphones with the effects that were saved last, and every    *)
(* pair with an output and effects has it unless another took it from them; *)
(* and it does not outlive the daemon. A RouteAudio that looked before they *)
(* went and applies after it breaks it ...                                 *)
ChainFollows ==
  /\ AtRest /\ chain # None => chain.on \in connected /\ chain.config = saved[chain.on]
  /\ AtRest => \A d \in sinks \ displaced : saved[d] # "flat" => chain.on = d /\ chain.runs
  /\ phase = "gone" => chain = None

(* ... and everything else keeps it.                                       *)
ChainFollowsUnlessStrayed == ~strayed => ChainFollows

=============================================================================
