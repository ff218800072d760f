---------------------------- MODULE ControlChannel ----------------------------
(***************************************************************************)
(* The life of the control channel: the client worker of Device, which     *)
(* alone starts and stops the Client; the Client's session with its reader *)
(* and its writer thread and the queue between them and the capabilities;  *)
(* AapDevice's flag for the capabilities; and Device::Shutdown.            *)
(*                                                                         *)
(* The D-Bus thread sets _connected and then asks the worker; both are one *)
(* step here: the worker looks at _connected only after a request, and     *)
(* finds the same to do in between. The three attempts of a connect and    *)
(* the init packets are one step each; a delay may end early. The channel  *)
(* opens only over a link: a connect() that brings one up is LinkUp first. *)
(***************************************************************************)
EXTENDS Naturals, Sequences

CONSTANTS
  MaxRestarts, \* MAX_RESTARTS_PER_CONNECTION, 5 in the code
  MaxCloses,   \* bound: channels the headphones close
  MaxDrops,    \* bound: links lost
  MaxPuts,     \* bound: packets the capabilities send
  MaxAsks      \* bound: disconnects the user asks for

ASSUME RestartsAssumption == MaxRestarts \in Nat
ASSUME BoundsAssumption ==
  /\ MaxCloses \in Nat /\ MaxDrops \in Nat /\ MaxPuts \in Nat /\ MaxAsks \in Nat

VARIABLES
  \* the link and the headphones' end of the channel
  connected, alive,
  \* Device, under _workerLock
  startRequested, startDelayed, stopRequested, restarts, workerExit,
  worker,       \* the client worker
  owner,        \* the thread in Shutdown
  \* Client
  isStarted, sessionEnded, queue, queueClosed, reader,
  writer, packet, \* the writer thread, and the packet it has taken
  session,      \* sessions opened so far
  aapReady,
  \* history, for the properties
  opened,       \* sessions since the last connection
  leaving,      \* the user asked to disconnect, and no connection came since
  failed,       \* connect() failed in this connection
  \* bounds
  closes, drops, puts, asks

peerVars == <<connected, alive>>
requestVars == <<startRequested, startDelayed, stopRequested, restarts>>
clientVars == <<isStarted, sessionEnded>>
queueVars == <<queue, queueClosed>>
threadVars == <<reader, writer, packet>>
historyVars == <<opened, leaving, failed>>
boundVars == <<closes, drops, puts, asks>>
vars == <<peerVars, requestVars, workerExit, worker, owner, clientVars, queueVars,
          threadVars, session, aapReady, historyVars, boundVars>>

NoPacket == 0

FlagsOK ==
  {connected, alive, startRequested, startDelayed, stopRequested, workerExit,
   isStarted, sessionEnded, queueClosed, aapReady, leaving, failed} \subseteq BOOLEAN

(* A packet is told by the session during which it was queued.             *)
TypeOK ==
  /\ FlagsOK
  /\ restarts \in 0 .. MaxRestarts + 1
  /\ worker \in {"wait", "delay", "check", "start", "rejoin", "connect", "reopen",
                 "shake", "stop", "join", "stopped", "gone"}
  /\ owner \in {"live", "exit", "join", "stopped", "gone"}
  /\ reader \in {"none", "read", "ended", "closing", "done"}
  /\ writer \in {"none", "take", "send", "done"}
  /\ queue \in Seq(Nat) /\ packet \in Nat
  /\ session \in Nat /\ opened \in Nat
  /\ closes \in Nat /\ drops \in Nat /\ puts \in Nat /\ asks \in Nat

(* Headphones connected from the start are headphones that connect at once. *)
Init ==
  /\ connected = FALSE /\ alive = FALSE
  /\ startRequested = FALSE /\ startDelayed = FALSE /\ stopRequested = FALSE
  /\ restarts = 0
  /\ workerExit = FALSE /\ worker = "wait" /\ owner = "live"
  /\ isStarted = FALSE /\ sessionEnded = FALSE
  /\ queue = <<>> /\ queueClosed = FALSE
  /\ reader = "none" /\ writer = "none" /\ packet = NoPacket
  /\ session = 0
  /\ aapReady = FALSE
  /\ opened = 0 /\ leaving = FALSE /\ failed = FALSE
  /\ closes = 0 /\ drops = 0 /\ puts = 0 /\ asks = 0

-----------------------------------------------------------------------------
(* The client worker.                                                      *)

(* Slip: a start goes before a stop.                                       *)
WorkerTakesStartFirst ==
  /\ worker = "wait"
  /\ \/ /\ workerExit
        /\ worker' = "gone"
        /\ UNCHANGED requestVars
     \/ /\ ~workerExit /\ ~startRequested /\ stopRequested
        /\ stopRequested' = FALSE
        /\ worker' = "stop"
        /\ UNCHANGED <<startRequested, startDelayed, restarts>>
     \/ /\ ~workerExit /\ startRequested
        /\ startRequested' = FALSE /\ startDelayed' = FALSE
        /\ worker' = IF startDelayed THEN "delay" ELSE "check"
        /\ UNCHANGED <<stopRequested, restarts>>
  /\ UNCHANGED <<peerVars, workerExit, owner, clientVars, queueVars, threadVars,
                 session, aapReady, historyVars, boundVars>>

(* The exit first, then a stop, then a start.                              *)
WorkerTakes ==
  /\ worker = "wait"
  /\ \/ /\ workerExit
        /\ worker' = "gone"
        /\ UNCHANGED requestVars
     \/ /\ ~workerExit /\ stopRequested
        /\ stopRequested' = FALSE
        /\ worker' = "stop"
        /\ UNCHANGED <<startRequested, startDelayed, restarts>>
     \/ /\ ~workerExit /\ ~stopRequested /\ startRequested
        /\ startRequested' = FALSE /\ startDelayed' = FALSE
        /\ worker' = IF startDelayed THEN "delay" ELSE "check"
        /\ UNCHANGED <<stopRequested, restarts>>
  /\ UNCHANGED <<peerVars, workerExit, owner, clientVars, queueVars, threadVars,
                 session, aapReady, historyVars, boundVars>>

(* A moment for headphones that closed the channel; only the exit ends it.  *)
WorkerDelays ==
  /\ worker = "delay"
  /\ worker' = IF workerExit THEN "gone" ELSE "check"
  /\ UNCHANGED <<peerVars, requestVars, workerExit, owner, clientVars, queueVars,
                 threadVars, session, aapReady, historyVars, boundVars>>

WorkerChecks ==
  /\ worker = "check"
  /\ worker' = IF connected THEN "start" ELSE "wait"
  /\ UNCHANGED <<peerVars, requestVars, workerExit, owner, clientVars, queueVars,
                 threadVars, session, aapReady, historyVars, boundVars>>

(* StopLocked() up to its join: the threads see the end of the session.     *)
EndSession ==
  /\ isStarted' = FALSE
  /\ alive' = FALSE
  /\ queueClosed' = TRUE

(* Client::Start: already started, an ended session to clean up first, or   *)
(* a new one.                                                              *)
WorkerStarts ==
  /\ worker = "start"
  /\ \/ /\ isStarted /\ ~sessionEnded
        /\ worker' = "wait"
        /\ aapReady' = TRUE
        /\ UNCHANGED <<alive, isStarted, queueClosed>>
     \/ /\ isStarted /\ sessionEnded
        /\ EndSession
        /\ worker' = "rejoin"
        /\ UNCHANGED aapReady
     \/ /\ ~isStarted
        /\ isStarted' = TRUE
        /\ worker' = "connect"
        /\ UNCHANGED <<alive, queueClosed, aapReady>>
  /\ UNCHANGED <<connected, requestVars, workerExit, owner, sessionEnded, queue,
                 threadVars, session, historyVars, boundVars>>

(* Slip: nobody waits for the writer.                                      *)
JoinReader ==
  /\ reader \in {"none", "done"}
  /\ reader' = "none" /\ UNCHANGED <<writer, packet>>

ThreadsDone == reader \in {"none", "done"} /\ writer \in {"none", "done"}

JoinThreads ==
  /\ ThreadsDone
  /\ reader' = "none" /\ writer' = "none" /\ packet' = NoPacket

WorkerJoinsOld ==
  /\ worker = "rejoin"
  /\ JoinThreads
  /\ sessionEnded' = FALSE
  /\ isStarted' = TRUE
  /\ worker' = "connect"
  /\ UNCHANGED <<peerVars, requestVars, workerExit, owner, queueVars, session,
                 aapReady, historyVars, boundVars>>

WorkerConnects ==
  /\ worker = "connect"
  /\ \/ /\ connected
        /\ alive' = TRUE
        /\ worker' = "reopen"
        /\ UNCHANGED <<isStarted, failed>>
     \/ /\ isStarted' = FALSE
        /\ failed' = TRUE
        /\ worker' = "wait"
        /\ UNCHANGED alive
  /\ UNCHANGED <<connected, requestVars, workerExit, owner, sessionEnded, queueVars,
                 threadVars, session, aapReady, opened, leaving, boundVars>>

(* Slip: opened again with what was queued meanwhile.                      *)
ReopenAsIs == queueClosed' = FALSE /\ UNCHANGED queue

Reopen == queue' = <<>> /\ queueClosed' = FALSE

WorkerReopens ==
  /\ worker = "reopen"
  /\ Reopen
  /\ session' = session + 1
  /\ opened' = opened + 1
  /\ reader' = "read"
  /\ writer' = "take" /\ packet' = NoPacket
  /\ worker' = "shake"
  /\ UNCHANGED <<peerVars, requestVars, workerExit, owner, clientVars, aapReady,
                 leaving, failed, boundVars>>

(* The init packets are out; OnClientStarted.                              *)
WorkerShakes ==
  /\ worker = "shake"
  /\ aapReady' = TRUE
  /\ worker' = "wait"
  /\ UNCHANGED <<peerVars, requestVars, workerExit, owner, clientVars, queueVars,
                 threadVars, session, historyVars, boundVars>>

(* Client::Stop and OnClientStopped.                                       *)
WorkerStops ==
  /\ worker = "stop"
  /\ IF isStarted
     THEN EndSession /\ worker' = "join"
     ELSE worker' = "stopped" /\ UNCHANGED <<alive, isStarted, queueClosed>>
  /\ UNCHANGED <<connected, requestVars, workerExit, owner, sessionEnded, queue,
                 threadVars, session, aapReady, historyVars, boundVars>>

WorkerJoins ==
  /\ worker = "join"
  /\ JoinThreads
  /\ sessionEnded' = FALSE
  /\ worker' = "stopped"
  /\ UNCHANGED <<peerVars, requestVars, workerExit, owner, isStarted, queueVars,
                 session, aapReady, historyVars, boundVars>>

(* Slip: a stop leaves the flag as it is.                                  *)
WorkerStoppedStaysReady ==
  /\ worker = "stopped"
  /\ worker' = "wait"
  /\ UNCHANGED <<peerVars, requestVars, workerExit, owner, clientVars, queueVars,
                 threadVars, session, aapReady, historyVars, boundVars>>

WorkerStopped ==
  /\ worker = "stopped"
  /\ aapReady' = FALSE
  /\ worker' = "wait"
  /\ UNCHANGED <<peerVars, requestVars, workerExit, owner, clientVars, queueVars,
                 threadVars, session, historyVars, boundVars>>

Worker ==
  \/ WorkerTakes \/ WorkerDelays \/ WorkerChecks \/ WorkerStarts \/ WorkerJoinsOld
  \/ WorkerConnects \/ WorkerReopens \/ WorkerShakes
  \/ WorkerStops \/ WorkerJoins \/ WorkerStopped

-----------------------------------------------------------------------------
(* The session's threads.                                                  *)

ReaderUnchanged ==
  UNCHANGED <<peerVars, stopRequested, workerExit, worker, owner, isStarted,
              queueVars, writer, packet, session, aapReady, historyVars, boundVars>>

ReaderEnds ==
  /\ reader = "read" /\ ~alive
  /\ reader' = "ended"
  /\ ReaderUnchanged
  /\ UNCHANGED <<startRequested, startDelayed, restarts, sessionEnded>>

(* Stop() clears isStarted first: still set, it was the other side.        *)
ReaderTests ==
  /\ reader = "ended"
  /\ sessionEnded' = (sessionEnded \/ isStarted)
  /\ reader' = IF isStarted THEN "closing" ELSE "done"
  /\ ReaderUnchanged
  /\ UNCHANGED <<startRequested, startDelayed, restarts>>

(* Slip: a restart is asked for at any count.                              *)
OnClosedUnlimited ==
  /\ restarts' = IF restarts > MaxRestarts THEN restarts ELSE restarts + 1
  /\ startRequested' = TRUE /\ startDelayed' = TRUE

(* Device's listener: up to MaxRestarts delayed restarts in a connection.   *)
OnClosed ==
  IF restarts > MaxRestarts
  THEN UNCHANGED <<startRequested, startDelayed, restarts>>
  ELSE /\ restarts' = restarts + 1
       /\ IF restarts' > MaxRestarts
          THEN UNCHANGED <<startRequested, startDelayed>>
          ELSE startRequested' = TRUE /\ startDelayed' = TRUE

ReaderFires ==
  /\ reader = "closing"
  /\ OnClosed
  /\ reader' = "done"
  /\ ReaderUnchanged
  /\ UNCHANGED sessionEnded

Reader == ReaderEnds \/ ReaderTests \/ ReaderFires

WriterUnchanged ==
  UNCHANGED <<peerVars, requestVars, workerExit, worker, owner, clientVars,
              queueClosed, reader, session, aapReady, historyVars, boundVars>>

WriterTakes ==
  /\ writer = "take"
  /\ \/ /\ ~isStarted \/ queueClosed
        /\ writer' = "done"
        /\ UNCHANGED <<packet, queue>>
     \/ /\ isStarted /\ ~queueClosed /\ queue # <<>>
        /\ writer' = "send" /\ packet' = Head(queue)
        /\ queue' = Tail(queue)
  /\ WriterUnchanged

WriterSends ==
  /\ writer = "send"
  /\ writer' = "take" /\ packet' = NoPacket
  /\ WriterUnchanged
  /\ UNCHANGED queue

Writer == WriterTakes \/ WriterSends

-----------------------------------------------------------------------------
(* The rest: the link, the headphones, the capabilities, the user.         *)

RestUnchanged ==
  UNCHANGED <<workerExit, worker, owner, clientVars, queueClosed, threadVars,
              session, aapReady>>

(* RequestClientStart(false) *)
LinkUp ==
  /\ owner = "live" /\ ~connected
  /\ connected' = TRUE
  /\ restarts' = 0
  /\ startRequested' = TRUE /\ startDelayed' = FALSE
  /\ opened' = 0 /\ leaving' = FALSE /\ failed' = FALSE
  /\ RestUnchanged
  /\ UNCHANGED <<alive, stopRequested, queue, boundVars>>

LinkDown ==
  /\ owner = "live" /\ connected
  /\ drops < MaxDrops
  /\ drops' = drops + 1
  /\ connected' = FALSE /\ alive' = FALSE
  /\ stopRequested' = TRUE
  /\ RestUnchanged
  /\ UNCHANGED <<startRequested, startDelayed, restarts, queue, historyVars,
                 closes, puts, asks>>

PeerCloses ==
  /\ alive
  /\ closes < MaxCloses
  /\ closes' = closes + 1
  /\ alive' = FALSE
  /\ RestUnchanged
  /\ UNCHANGED <<connected, requestVars, queue, historyVars, drops, puts, asks>>

(* SendData: whatever the state of the channel.                            *)
Put ==
  /\ puts < MaxPuts
  /\ puts' = puts + 1
  /\ queue' = Append(queue, session)
  /\ RestUnchanged
  /\ UNCHANGED <<peerVars, requestVars, historyVars, closes, drops, asks>>

(* Slip: the restarts of a channel closed on request are not ruled out.    *)
AskDisconnectOnlyStops ==
  /\ owner = "live" /\ connected
  /\ asks < MaxAsks
  /\ asks' = asks + 1
  /\ leaving' = TRUE
  /\ stopRequested' = TRUE
  /\ RestUnchanged
  /\ UNCHANGED <<peerVars, startRequested, startDelayed, restarts, queue, opened,
                 failed, closes, drops, puts>>

(* RequestClientStopForDisconnect; BlueZ is asked to end the link next.     *)
AskDisconnect ==
  /\ owner = "live" /\ connected
  /\ asks < MaxAsks
  /\ asks' = asks + 1
  /\ restarts' = MaxRestarts + 1
  /\ startRequested' = FALSE
  /\ stopRequested' = TRUE
  /\ leaving' = TRUE
  /\ RestUnchanged
  /\ UNCHANGED <<peerVars, startDelayed, queue, opened, failed, closes, drops, puts>>

Environment == LinkUp \/ LinkDown \/ PeerCloses \/ Put \/ AskDisconnect

-----------------------------------------------------------------------------
(* Device::Shutdown.                                                       *)

(* Slip: the flag a waiting worker looks for is never set.                 *)
ShutdownBeginsUnasked ==
  /\ owner = "live"
  /\ owner' = "exit"
  /\ UNCHANGED <<peerVars, requestVars, workerExit, worker, clientVars, queueVars,
                 threadVars, session, aapReady, historyVars, boundVars>>

ShutdownBegins ==
  /\ owner = "live"
  /\ workerExit' = TRUE
  /\ owner' = "exit"
  /\ UNCHANGED <<peerVars, requestVars, worker, clientVars, queueVars, threadVars,
                 session, aapReady, historyVars, boundVars>>

(* The worker joined; Client::Stop.                                        *)
ShutdownStops ==
  /\ owner = "exit" /\ worker = "gone"
  /\ owner' = "join"
  /\ IF isStarted THEN EndSession ELSE UNCHANGED <<alive, isStarted, queueClosed>>
  /\ UNCHANGED <<connected, requestVars, workerExit, worker, sessionEnded, queue,
                 threadVars, session, aapReady, historyVars, boundVars>>

ShutdownJoins ==
  /\ owner = "join"
  /\ JoinThreads
  /\ sessionEnded' = FALSE
  /\ owner' = "stopped"
  /\ UNCHANGED <<peerVars, requestVars, workerExit, worker, isStarted, queueVars,
                 session, aapReady, historyVars, boundVars>>

(* Slip: the channel is stopped, its flag is not cleared.                  *)
ShutdownEndsReady ==
  /\ owner = "stopped"
  /\ owner' = "gone"
  /\ UNCHANGED <<peerVars, requestVars, workerExit, worker, clientVars, queueVars,
                 threadVars, session, aapReady, historyVars, boundVars>>

(* OnClientStopped.                                                        *)
ShutdownEnds ==
  /\ owner = "stopped"
  /\ aapReady' = FALSE
  /\ owner' = "gone"
  /\ UNCHANGED <<peerVars, requestVars, workerExit, worker, clientVars, queueVars,
                 threadVars, session, historyVars, boundVars>>

Shutdown == ShutdownStops \/ ShutdownJoins \/ ShutdownEnds

-----------------------------------------------------------------------------

Next == Worker \/ Reader \/ Writer \/ Environment \/ ShutdownBegins \/ Shutdown

Spec == Init /\ [][Next]_vars

(* Threads run; nobody else owes anything.                                 *)
FairSpec ==
  Spec /\ WF_vars(Worker) /\ WF_vars(Reader) /\ WF_vars(Writer) /\ WF_vars(Shutdown)

-----------------------------------------------------------------------------
(* Properties.                                                             *)

(* What the capabilities see of all this is the abstract link they are      *)
(* built on.                                                               *)
Link == INSTANCE AapLink WITH
  open <- alive,
  shaken <- alive /\ worker \notin {"reopen", "shake"},
  shaking <- worker \in {"reopen", "shake"},
  ready <- aapReady,
  stopAsked <- stopRequested \/ worker \in {"stop", "join", "stopped"}

ImplementsLink == Link!LinkSpec

(* A channel the headphones keep closing isn't retried forever: what        *)
(* readers, connections and leftovers of the connection before request adds *)
(* up to the first session and MaxRestarts more in one connection; and one  *)
(* where the stop of the connection before comes late and ends the first.   *)
RestartsBounded == opened <= MaxRestarts + 2

(* Stale requests never reach a new session: what the writer is about to    *)
(* send was queued for the session it sends into.                          *)
NoStalePacket == writer = "send" => packet = session

(* No thread of an old session is left when a new one begins: it would      *)
(* read the new one's socket (and std::thread would end the program).      *)
NoThreadLeftOver ==
  worker \in {"connect", "reopen"} => reader = "none" /\ writer = "none"

(* After Shutdown nothing of the client is left that could call into the    *)
(* device.                                                                 *)
NothingLeft ==
  owner = "gone" => /\ worker = "gone" /\ reader = "none" /\ writer = "none"
                    /\ ~alive /\ ~isStarted /\ ~aapReady

(* No two of the threads wait for each other: Shutdown ends whatever the    *)
(* others are in the middle of.                                            *)
ShutdownCompletes == owner = "exit" ~> owner = "gone"

(* A connection that lasts ends with the channel up, whatever was going on  *)
(* when it came (the stop and the threads of the one before, a restart): or *)
(* connect() failed, the headphones closed it too often, or it was closed   *)
(* on request.                                                             *)
ComesUp ==
  <>[](connected /\ owner = "live")
    => <>[](alive \/ failed \/ leaving \/ restarts > MaxRestarts)

(* A lost link is cleaned up after, unless another one comes first, and a  *)
(* disconnect the user asked for leaves the channel closed in the end, also *)
(* where a restart was under way when it came.                             *)
ClosesWhenTold ==
  /\ (~connected /\ isStarted) ~> (~isStarted \/ connected)
  /\ <>[]leaving => <>[]~alive

(* `aapReady`: the control channel is up, handshake sent; what goes out now *)
(* arrives.                                                                *)
ReadyMeansUp == aapReady => alive

(* On a disconnect the user asked for: close it and keep it closed until    *)
(* the next connection; so nothing begins to open one.                     *)
KeptClosed == [][worker = "check" /\ worker' = "start" => ~leaving]_vars

=============================================================================
