------------------------------- MODULE AapLink -------------------------------
(***************************************************************************)
(* What the rest of the daemon sees of the Bluetooth link to the           *)
(* headphones and of the AAP control channel on top of it: the interface   *)
(* between Device/Client (ControlChannel.tla implements it) and the        *)
(* capabilities (AudioSwitch.tla is built on it).                          *)
(*                                                                         *)
(* `open` and `shaken` are the truth at the headphones' end; `ready` is    *)
(* the flag the capabilities read, AapDevice::aapReady.                    *)
(***************************************************************************)

VARIABLES
  connected,  \* Device::_connected: the link, as BlueZ reports it
  open,       \* a session of the control channel is alive
  shaken,     \* its init packets have all gone out: the headphones listen
  shaking,    \* the client worker is sending them, inside Device::StartClient
  ready,      \* AapDevice::aapReady
  stopAsked   \* Device::_stopRequested

linkVars == <<connected, open, shaken, shaking, ready, stopAsked>>

LinkTypeOK ==
  /\ connected \in BOOLEAN
  /\ open \in BOOLEAN
  /\ shaken \in BOOLEAN
  /\ shaking \in BOOLEAN
  /\ ready \in BOOLEAN
  /\ stopAsked \in BOOLEAN

LinkInit ==
  /\ connected = FALSE
  /\ open = FALSE
  /\ shaken = FALSE
  /\ shaking = FALSE
  /\ ready = FALSE
  /\ stopAsked = FALSE

(* Headphones that listen on a channel with its handshake through. *)
Listening == open /\ shaken

-----------------------------------------------------------------------------

LinkUp ==
  /\ ~connected
  /\ connected' = TRUE
  /\ UNCHANGED <<open, shaken, shaking, ready, stopAsked>>

(* The link takes the channel with it; the worker is asked to clean up. *)
LinkDown ==
  /\ connected
  /\ connected' = FALSE
  /\ open' = FALSE
  /\ shaken' = FALSE
  /\ stopAsked' = TRUE
  /\ UNCHANGED <<shaking, ready>>

(* Device::Disconnect asks for the channel to be closed before the link. *)
AskStop ==
  /\ ~stopAsked
  /\ stopAsked' = TRUE
  /\ UNCHANGED <<connected, open, shaken, shaking, ready>>

(* connect() succeeded; the init packets go out one by one.                *)
ChannelOpens ==
  /\ ~shaking /\ connected /\ ~open
  /\ shaking' = TRUE
  /\ open' = TRUE
  /\ shaken' = FALSE
  /\ UNCHANGED <<connected, ready, stopAsked>>

(* Client::Start returns TRUE after the last init packet, and               *)
(* OnClientStarted sets the flag, whether or not the session is still alive *)
ChannelStarted ==
  /\ shaking
  /\ shaking' = FALSE
  /\ ready' = TRUE
  /\ shaken' = open
  /\ UNCHANGED <<connected, open, stopAsked>>

(* The headphones close the channel; nobody tells the capabilities. *)
PeerCloses ==
  /\ open
  /\ open' = FALSE
  /\ shaken' = FALSE
  /\ UNCHANGED <<connected, shaking, ready, stopAsked>>

(* The worker's Client::Stop and OnClientStopped; a stop asked for in       *)
(* between is still to come.                                               *)
ChannelStops ==
  /\ ~shaking
  /\ open' = FALSE
  /\ shaken' = FALSE
  /\ ready' = FALSE
  /\ stopAsked' \in BOOLEAN
  /\ UNCHANGED <<connected, shaking>>

LinkNext ==
  \/ LinkUp \/ LinkDown \/ AskStop
  \/ ChannelOpens \/ ChannelStarted \/ PeerCloses \/ ChannelStops

LinkSpec == LinkInit /\ [][LinkNext]_linkVars

=============================================================================
