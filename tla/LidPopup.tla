------------------------------- MODULE LidPopup -------------------------------
(***************************************************************************)
(* The popup when the lid opens: AppAnimationCapability, which reads the    *)
(* AirPods' advertisements on one D-Bus thread per address, hears of        *)
(* connections on another and watches for silence on a third, and the UI's  *)
(* PopupAnimation, which shows what they fire. They decide under a lock and *)
(* fire after it.                                                          *)
(***************************************************************************)
EXTENDS Integers

CONSTANTS
  Addrs,      \* the random addresses the AirPods advertise from
  Data,       \* batteries an advertisement may carry
  MaxMoves    \* bound: the lid opens or shuts, they connect or disconnect

(* Of the constants; MCNearby assumes it.                                  *)
ConstantsOK ==
  /\ Addrs # {} /\ Data # {} /\ MaxMoves \in Nat
  /\ Addrs \cap {"link", "watch", "none"} = {} /\ "none" \notin Data

VARIABLES
  lid, addr,              \* AirPods: lid open, present address
  connected,              \* Device::_connected
  scanning,               \* the advertisements are listened to
  link,                   \* where the thread of the connection listeners is
  air,                    \* per address, the advertisement its thread is given
  mac, cached,            \* the capability, under `locker`
  quiet, silent,          \* quietUntil not reached; nothing for 5 s since lastAdAt
  firing,                 \* per thread, toFire
  pane, dismissed,        \* UI: the popup; closed by hand or timed out
  young, late,            \* UI: minimumShown not over; lateHide runs
  dismissedNow,           \* history: dismissed since the lid opened, they connected or disconnected
  strayed,                \* history: see Crosses and LateShow
  missed,                 \* history: a show met a closing popup, or one was dismissed whose
                          \* hide was over (see Dismiss)
  moves

podsVars == <<lid, addr>>
linkVars == <<connected, scanning, link>>
animVars == <<mac, cached, quiet, silent>>
uiVars == <<pane, dismissed, young, late>>
historyVars == <<dismissedNow, strayed, missed>>
vars == <<podsVars, linkVars, air, animVars, firing, uiVars, historyVars, moves>>

None == "none"
Threads == Addrs \cup {"link", "watch"}
Ads == [show: BOOLEAN, data: Data]
NoAd == [show |-> FALSE, data |-> None]

TypeOK ==
  /\ lid \in {"shut", "open"} /\ addr \in Addrs
  /\ connected \in BOOLEAN /\ scanning \in BOOLEAN /\ link \in {"idle", "told", "scan"}
  /\ air \in [Addrs -> Ads \cup {NoAd}]
  /\ mac \in Addrs \cup {None} /\ cached \in Ads \cup {NoAd}
  /\ quiet \in BOOLEAN /\ silent \in BOOLEAN
  /\ firing \in [Threads -> {"show", "hide", None}]
  /\ pane \in {"hidden", "shown", "closing"} /\ dismissed \in BOOLEAN
  /\ young \in BOOLEAN /\ late \in BOOLEAN
  /\ dismissedNow \in BOOLEAN /\ strayed \in BOOLEAN /\ missed \in BOOLEAN
  /\ moves \in 0..MaxMoves

Init ==
  /\ lid = "shut" /\ addr \in Addrs
  /\ connected = FALSE /\ scanning = TRUE /\ link = "idle"
  /\ air = [a \in Addrs |-> NoAd]
  /\ mac = None /\ cached = NoAd /\ quiet = FALSE /\ silent = TRUE
  /\ firing = [t \in Threads |-> None]
  /\ pane = "hidden" /\ dismissed = FALSE /\ young = FALSE /\ late = FALSE
  /\ dismissedNow = FALSE /\ strayed = FALSE /\ missed = FALSE
  /\ moves = 0

-----------------------------------------------------------------------------
(* The AirPods.                                                            *)

Moves == moves < MaxMoves /\ moves' = moves + 1

NothingFiring == \A t \in Threads : firing[t] = None

(* Shut at least until the watch has seen it and said so, if it looks.      *)
LidOpens ==
  /\ lid = "shut" /\ silent /\ (mac = None \/ connected) /\ NothingFiring /\ Moves
  /\ lid' = "open"
  /\ dismissedNow' = FALSE
  /\ UNCHANGED <<addr, linkVars, air, animVars, firing, uiVars, strayed, missed>>

LidShuts ==
  /\ lid = "open" /\ Moves
  /\ lid' = "shut"
  /\ UNCHANGED <<addr, linkVars, air, animVars, firing, uiVars, historyVars>>

(* Every quarter of an hour or so: what they sent before was handled long   *)
(* since.                                                                  *)
AddressRotates ==
  /\ air[addr] = NoAd
  /\ \E a \in Addrs \ {addr} : addr' = a
  /\ UNCHANGED <<lid, linkVars, air, animVars, firing, uiVars, historyVars, moves>>

(* An open lid with both in the case asks for the popup. Shut, or the pods  *)
(* out of it, an advertisement may still come.                             *)
Advertises ==
  /\ scanning /\ air[addr] = NoAd
  /\ \E d \in Data : air' = [air EXCEPT ![addr] = [show |-> lid = "open", data |-> d]]
  /\ UNCHANGED <<podsVars, linkVars, animVars, firing, uiVars, historyVars, moves>>

-----------------------------------------------------------------------------
(* AppAnimationCapability.                                                 *)

(* A show decided on while connected is fired over AirPods in use.         *)
LateShow(show) == show /\ connected

(* An advertisement of theirs: the first to ask for the popup gives its     *)
(* address to go on with; not while they were just put away.               *)
AdHandled(a) ==
  /\ air[a] # NoAd /\ firing[a] = None
  /\ air' = [air EXCEPT ![a] = NoAd]
  /\ silent' = FALSE
  /\ LET shows == air[a].show /\ (mac = a \/ (mac = None /\ ~quiet))
         hides == ~air[a].show /\ mac # None
     IN  IF air[a] # cached /\ (shows \/ hides)
         THEN /\ mac' = IF shows THEN a ELSE None
              /\ cached' = air[a]
              /\ firing' = [firing EXCEPT ![a] = IF shows THEN "show" ELSE "hide"]
              /\ strayed' = (strayed \/ LateShow(shows))
         ELSE UNCHANGED <<mac, cached, firing, strayed>>
  /\ UNCHANGED <<podsVars, linkVars, quiet, uiVars, dismissedNow, missed, moves>>

(* The lid counts as shut: by `t`, unless no popup is asked for.            *)
Shuts(t) ==
  /\ cached' = [cached EXCEPT !.show = FALSE]
  /\ mac' = None
  /\ firing' = [firing EXCEPT ![t] = "hide"]

(* Device's listener has set _connected, then the capability's runs, ...    *)
(* What was dismissed before does not count after: see the listener below. *)
LinkChanges ==
  /\ link = "idle" /\ Moves
  /\ connected' = ~connected
  /\ link' = "told"
  /\ dismissedNow' = FALSE
  /\ UNCHANGED <<podsVars, scanning, air, animVars, firing, uiVars, strayed, missed>>

(* Slip: the popup is left to the next advertisement.                      *)
ConnectedLeavesPopup ==
  /\ link = "told" /\ connected
  /\ link' = "scan"
  /\ UNCHANGED <<podsVars, connected, scanning, air, animVars, firing, uiVars, historyVars, moves>>

Connected ==
  /\ link = "told" /\ connected
  /\ link' = "scan"
  /\ IF cached.show /\ mac # None
     THEN Shuts("link") ELSE UNCHANGED <<mac, cached, firing>>
  /\ UNCHANGED <<podsVars, connected, scanning, air, quiet, silent, uiVars, historyVars, moves>>

Disconnected ==
  /\ link = "told" /\ ~connected
  /\ link' = "scan"
  /\ mac' = None /\ quiet' = TRUE
  /\ UNCHANGED <<podsVars, connected, scanning, air, cached, silent, firing, uiVars, historyVars, moves>>

(* ... and after it fired, UpdateBleState (see BleScan). Stopping the scan  *)
(* waits for the advertisements being handled and drops the others.        *)
ScanFollows ==
  /\ link = "scan" /\ firing["link"] = None
  /\ connected => \A a \in Addrs : firing[a] = None
  /\ link' = "idle"
  /\ scanning' = ~connected
  /\ air' = IF connected THEN [a \in Addrs |-> NoAd] ELSE air
  /\ UNCHANGED <<podsVars, connected, animVars, firing, uiVars, historyVars, moves>>

(* lidWatch: 5 s of silence is the lid closing.                            *)
Watches ==
  /\ mac # None /\ cached.show /\ ~connected /\ silent
  /\ firing["watch"] = None
  /\ Shuts("watch")
  /\ UNCHANGED <<podsVars, linkVars, air, quiet, silent, uiVars, historyVars, moves>>

(* "An open lid advertises several times a second."                         *)
SilencePasses ==
  /\ ~silent /\ (lid = "shut" \/ ~scanning)
  /\ \A a \in Addrs : air[a] = NoAd
  /\ silent' = TRUE
  /\ UNCHANGED <<podsVars, linkVars, air, mac, cached, quiet, firing, uiVars, historyVars, moves>>

QuietEnds ==
  /\ quiet /\ quiet' = FALSE
  /\ UNCHANGED <<podsVars, linkVars, air, mac, cached, silent, firing, uiVars, historyVars, moves>>

-----------------------------------------------------------------------------
(* PopupAnimation: the broadcasts arrive in the order they are fired.       *)

(* Slip: the closing of the lid does not let go of what was dismissed.      *)
HandleAnimationHolds(show) ==
  /\ late' = IF show THEN FALSE ELSE late \/ (pane # "hidden" /\ young)
  /\ IF show /\ pane = "hidden" /\ ~dismissed
     THEN pane' = "shown" /\ young' = TRUE
     ELSE /\ pane' = IF ~show /\ pane = "shown" /\ ~young THEN "closing" ELSE pane
          /\ UNCHANGED young
  /\ missed' = (missed \/ (show /\ pane = "closing"))
  /\ UNCHANGED dismissed

(* handleAnimation. A hide waits until the popup was seen long enough; a    *)
(* show does nothing while the popup is there or fades.                    *)
HandleAnimation(show) ==
  /\ dismissed' = (dismissed /\ show)
  /\ late' = IF show THEN FALSE ELSE late \/ (pane # "hidden" /\ young)
  /\ IF show /\ pane = "hidden" /\ ~dismissed
     THEN pane' = "shown" /\ young' = TRUE
     ELSE /\ pane' = IF ~show /\ pane = "shown" /\ ~young THEN "closing" ELSE pane
          /\ UNCHANGED young
  /\ missed' = (missed \/ (show /\ pane = "closing"))

(* Two threads decided one after the other and fire in either order.        *)
Crosses(t) == \E u \in Threads \ {t} : firing[u] # None /\ firing[u] # firing[t]

FireAnimation(t) ==
  /\ firing[t] # None
  /\ firing' = [firing EXCEPT ![t] = None]
  /\ strayed' = (strayed \/ Crosses(t) \/ LateShow(firing[t] = "show"))
  /\ HandleAnimation(firing[t] = "show")
  /\ UNCHANGED <<podsVars, linkVars, air, animVars, dismissedNow, moves>>

(* Closed before, and not by hand: its lid is shut, or they connected.      *)
ClosesAnyway == pane = "closing" /\ ~dismissed

(* The close button, or the 30 s of osdHide. In the three seconds a popup   *)
(* outlasts its lid, and while it fades after that, the button holds back   *)
(* the next one.                                                           *)
Dismiss ==
  /\ pane \in {"shown", "closing"}
  /\ pane' = "closing" /\ dismissed' = TRUE
  /\ dismissedNow' = TRUE
  /\ missed' = (missed \/ late \/ ClosesAnyway)
  /\ UNCHANGED <<podsVars, linkVars, air, animVars, firing, young, late, strayed, moves>>

MinimumPasses ==
  /\ young /\ young' = FALSE
  /\ UNCHANGED <<podsVars, linkVars, air, animVars, firing, pane, dismissed, late, historyVars, moves>>

LateHides ==
  /\ late /\ ~young
  /\ late' = FALSE
  /\ pane' = IF pane = "shown" THEN "closing" ELSE pane
  /\ UNCHANGED <<podsVars, linkVars, air, animVars, firing, dismissed, young, historyVars, moves>>

FinishClose ==
  /\ pane = "closing" /\ pane' = "hidden"
  /\ UNCHANGED <<podsVars, linkVars, air, animVars, firing, dismissed, young, late, historyVars, moves>>

-----------------------------------------------------------------------------

Pods == LidOpens \/ LidShuts \/ AddressRotates \/ LinkChanges
Listeners == Connected \/ Disconnected \/ ScanFollows \/ Watches
Clocks == SilencePasses \/ QuietEnds \/ MinimumPasses \/ LateHides \/ FinishClose

Next ==
  \/ Pods \/ Advertises \/ Listeners \/ Clocks \/ Dismiss
  \/ \E a \in Addrs : AdHandled(a)
  \/ \E t \in Threads : FireAnimation(t)

(* Threads that can run do, the clocks run, and AirPods in reach advertise. *)
Fairness ==
  /\ WF_vars(Listeners)
  /\ WF_vars(QuietEnds) /\ WF_vars(MinimumPasses) /\ WF_vars(LateHides) /\ WF_vars(FinishClose)
  /\ WF_vars(SilencePasses) /\ WF_vars(Advertises)
  /\ \A a \in Addrs : WF_vars(AdHandled(a))
  /\ \A t \in Threads : WF_vars(FireAnimation(t))

Spec == Init /\ [][Next]_vars /\ Fairness

-----------------------------------------------------------------------------
(* Properties.                                                             *)

Told == link = "idle" /\ NothingFiring

(* "Once they connect, it closes": connected, all said and the popup not on *)
(* its way out, there is none. An advertisement handled between the         *)
(* listener and the end of the scan opens it again, and so does a show that *)
(* is fired after the hide, so the code does not keep this ...             *)
ClosedOnceConnected == connected /\ Told /\ ~late => pane # "shown"

(* ... but it does if no show was decided on or fired while connected and   *)
(* no two threads fired across each other; and then it is "like a Mac, not  *)
(* again for that pair until the lid was closed (battery and charging       *)
(* updates keep coming meanwhile)".                                        *)
DownUnlessStrayed ==
  ~strayed => ClosedOnceConnected /\ (dismissedNow => pane # "shown")

(* "Closed by hand or timed out while the lid stays open": the UI holds the *)
(* popup back only while the capability takes the lid for open. Dismiss     *)
(* while it is only left up for its three seconds, or fades, breaks it.     *)
HeldOnlyWhileOpen == Told /\ dismissed /\ ~strayed => mac # None

(* Every opening of the lid the AirPods are in reach for shows the popup,   *)
(* once the 10 s after putting them away are over: what was cached of an    *)
(* earlier one is not in its way, nor what was dismissed while its lid was   *)
(* open (dismissed in the three seconds the popup outlasts its lid, or in   *)
(* its fade, it is: `missed`). Not one that stayed asked for through a      *)
(* connection, and not while the popup of the last one fades.              *)
ShowsEveryOpening ==
  (lid = "open" /\ ~connected)
    ~> (pane = "shown" \/ dismissedNow \/ lid = "shut" \/ connected \/ strayed \/ missed)

=============================================================================
