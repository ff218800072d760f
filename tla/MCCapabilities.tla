---------------------------- MODULE MCCapabilities ----------------------------
(***************************************************************************)
(* Capabilities that share nothing: the ATT requests, conversation          *)
(* awareness, ear detection and the effects. `part` is the one that moves;  *)
(* their states are checked side by side, not in every combination.        *)
(***************************************************************************)
EXTENDS AttQueue, TLC

CONSTANTS Full, Share, STEPS, MaxReports, MaxAbsences, Resets, Players, MaxMoves, Shared,
          Headphones, NoChain, MaxRoutes

VARIABLES
  part,
  owns, sink, volume, duckGeneration, volumeBeforeDuck, threads, duckLock, reset, speaking,
  heeded, cut, short, strayed, absences,
  podsInEar, earOwns, paused, inEarBeforePause, earThreads, playing, wanted, due, dueAt,
  earStrayed, moves,
  phase, link, connected, leaving, sinks, server, saved, waiting, routing, chain, displaced,
  effectsStrayed, routes

duckVars == <<owns, sink, volume, duckGeneration, volumeBeforeDuck, threads, duckLock, reset,
              speaking, heeded, cut, short, strayed, absences>>
earVars == <<podsInEar, earOwns, paused, inEarBeforePause, earThreads, playing, wanted, due,
             dueAt, earStrayed, moves>>
effectsVars == <<phase, link, connected, leaving, sinks, server, saved, waiting, routing, chain,
                 displaced, effectsStrayed, routes>>
allVars == <<part, vars, duckVars, earVars, effectsVars>>

Ducks == INSTANCE Ducking
Ears == INSTANCE EarPause WITH owns <- earOwns, threads <- earThreads, strayed <- earStrayed
Effects == INSTANCE EffectChain WITH strayed <- effectsStrayed

ASSUME CapabilitiesAssumption == Ducks!ConstantsOK /\ Ears!ConstantsOK /\ Effects!ConstantsOK

AnyHeadphones == Permutations(Headphones)

CapabilitiesInit ==
  /\ part \in {"att", "ducking", "ears", "effects"}
  /\ Init /\ Ducks!Init
  /\ Ears!Init /\ (part # "ears" => playing = {})
  /\ Effects!Init /\ (part # "effects" => link = {} /\ \A d \in Headphones : saved[d] = "flat")

CapabilitiesNext ==
  \/ part = "att" /\ Next /\ UNCHANGED <<part, duckVars, earVars, effectsVars>>
  \/ part = "ducking" /\ Ducks!Next /\ UNCHANGED <<part, vars, earVars, effectsVars>>
  \/ part = "ears" /\ Ears!Next /\ UNCHANGED <<part, vars, duckVars, effectsVars>>
  \/ part = "effects" /\ Effects!Next /\ UNCHANGED <<part, vars, duckVars, earVars>>

CapabilitiesSpec == CapabilitiesInit /\ [][CapabilitiesNext]_allVars

(* The properties of the other modules, see there.                         *)
LoweredUnlessCut == Ducks!LoweredUnlessCut
BroughtBackUnlessCut == Ducks!BroughtBackUnlessCut
FollowsUnlessStrayed == Ears!FollowsUnlessStrayed
ChainFollowsUnlessStrayed == part = "effects" => Effects!ChainFollowsUnlessStrayed

=============================================================================
