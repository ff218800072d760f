------------------------------ MODULE MCNearby ------------------------------
(***************************************************************************)
(* What is done with the advertisements of AirPods nearby: the scan, and    *)
(* the popup they open. `part` is the one that moves; the two meet in no    *)
(* more than what LidPopup has of the scan, so they are checked side by     *)
(* side, not in every combination.                                         *)
(***************************************************************************)
EXTENDS BleScan

CONSTANTS Addrs, Data, MaxMoves

VARIABLES
  part,
  lid, addr, connected, scanning, link, air, mac, cached, quiet, silent, firing,
  pane, dismissed, young, late, dismissedNow, popupStrayed, missed, moves

popupVars == <<lid, addr, connected, scanning, link, air, mac, cached, quiet, silent, firing,
               pane, dismissed, young, late, dismissedNow, popupStrayed, missed, moves>>
allVars == <<part, vars, popupVars>>

Popup == INSTANCE LidPopup WITH strayed <- popupStrayed

ASSUME NearbyAssumption == Popup!ConstantsOK

NearbyInit ==
  /\ part \in {"scan", "popup"}
  /\ Init /\ (part # "scan" => powered /\ need = [paired |-> FALSE, connected |-> FALSE, asked |-> FALSE])
  /\ Popup!Init /\ (part # "popup" => addr = CHOOSE a \in Addrs : TRUE)

NearbyNext ==
  \/ part = "scan" /\ Next /\ UNCHANGED <<part, popupVars>>
  \/ part = "popup" /\ Popup!Next /\ UNCHANGED <<part, vars>>

(* Fairness of the part that moves: BleScan's and LidPopup's.              *)
Scan(A) == part = "scan" /\ A
Pops(A) == part = "popup" /\ A

ScanFairness ==
  /\ WF_vars(Scan(UpdateLooks)) /\ SF_vars(Scan(Stops)) /\ WF_vars(Scan(StopsListening))
  /\ WF_vars(Scan(GapLooks)) /\ WF_vars(Scan(GapStops)) /\ SF_vars(Scan(GapResumes))
  /\ WF_vars(Scan(OnAdapterPowerChanged))
  /\ \A t \in Threads :
       WF_vars(Scan(Drops(t) \/ Subscribes(t) \/ Desires(t))) /\ SF_vars(Scan(Locks(t)))

PopupFairness ==
  /\ WF_popupVars(Pops(Popup!Listeners))
  /\ WF_popupVars(Pops(Popup!QuietEnds)) /\ WF_popupVars(Pops(Popup!MinimumPasses))
  /\ WF_popupVars(Pops(Popup!LateHides)) /\ WF_popupVars(Pops(Popup!FinishClose))
  /\ WF_popupVars(Pops(Popup!SilencePasses)) /\ WF_popupVars(Pops(Popup!Advertises))
  /\ \A a \in Addrs : WF_popupVars(Pops(Popup!AdHandled(a)))
  /\ \A t \in Popup!Threads : WF_popupVars(Pops(Popup!FireAnimation(t)))

NearbySpec == NearbyInit /\ [][NearbyNext]_allVars /\ ScanFairness /\ PopupFairness

(* The popup's properties, see there.                                      *)
DownUnlessStrayed == Popup!DownUnlessStrayed
ShowsEveryOpening == Popup!ShowsEveryOpening

=============================================================================
