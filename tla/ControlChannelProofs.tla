-------------------------- MODULE ControlChannelProofs --------------------------
(***************************************************************************)
(* What ControlChannel promises, for any number of restarts, closes,       *)
(* drops, packets and disconnects.                                         *)
(*                                                                         *)
(* The flags are a part of their own: the first of the two provers is lost *)
(* with Boolean values, the second with numbers.                           *)
(***************************************************************************)
EXTENDS ControlChannel, TLAPS

USE RestartsAssumption, BoundsAssumption
USE DEF NoPacket, peerVars, requestVars, clientVars, queueVars, threadVars,
        historyVars, boundVars

(* The Boolean variables stay Booleans.                                    *)
LEMMA FlagsStep == FlagsOK /\ [Next]_vars => FlagsOK'
<1> SUFFICES ASSUME FlagsOK, [Next]_vars PROVE FlagsOK'
  OBVIOUS
<1> USE DEF FlagsOK
<1>1. ASSUME Worker PROVE FlagsOK'
  BY <1>1, Zenon DEF Worker, WorkerTakes, WorkerDelays, WorkerChecks, WorkerStarts,
     WorkerJoinsOld, WorkerConnects, WorkerReopens, WorkerShakes, WorkerStops,
     WorkerJoins, WorkerStopped, EndSession, JoinThreads, Reopen
<1>2. ASSUME Reader \/ Writer PROVE FlagsOK'
  BY <1>2, Zenon DEF Reader, ReaderEnds, ReaderTests, ReaderFires, OnClosed,
     Writer, WriterTakes, WriterSends, ReaderUnchanged, WriterUnchanged
<1>3. ASSUME Environment PROVE FlagsOK'
  BY <1>3, Zenon DEF Environment, LinkUp, LinkDown, PeerCloses, Put, AskDisconnect,
     RestUnchanged
<1>4. ASSUME ShutdownBegins \/ Shutdown PROVE FlagsOK'
  BY <1>4, Zenon DEF ShutdownBegins, Shutdown, ShutdownStops, ShutdownJoins,
     ShutdownEnds, EndSession, JoinThreads
<1>5. CASE UNCHANGED vars
  BY <1>5, Zenon DEF vars
<1> QED BY <1>1, <1>2, <1>3, <1>4, <1>5 DEF Next

(* Every other variable stays in its set.                                  *)
LEMMA TypeStep == TypeOK /\ [Next]_vars => TypeOK'
<1> SUFFICES ASSUME TypeOK, [Next]_vars PROVE TypeOK'
  OBVIOUS
<1> USE DEF TypeOK
<1>0. FlagsOK'
  BY FlagsStep
<1>1. CASE WorkerTakes
  BY <1>1, <1>0 DEF WorkerTakes
<1>2. CASE WorkerDelays
  BY <1>2, <1>0 DEF WorkerDelays
<1>3. CASE WorkerChecks
  BY <1>3, <1>0 DEF WorkerChecks
<1>4. CASE WorkerStarts
  BY <1>4, <1>0 DEF WorkerStarts, EndSession
<1>5. CASE WorkerJoinsOld
  BY <1>5, <1>0 DEF WorkerJoinsOld, JoinThreads
<1>6. CASE WorkerConnects
  BY <1>6, <1>0 DEF WorkerConnects
<1>7. CASE WorkerReopens
  BY <1>7, <1>0 DEF WorkerReopens, Reopen
<1>8. CASE WorkerShakes
  BY <1>8, <1>0 DEF WorkerShakes
<1>9. CASE WorkerStops
  BY <1>9, <1>0 DEF WorkerStops, EndSession
<1>10. CASE WorkerJoins
  BY <1>10, <1>0 DEF WorkerJoins, JoinThreads
<1>11. CASE WorkerStopped
  BY <1>11, <1>0 DEF WorkerStopped
<1>12. CASE ReaderEnds
  BY <1>12, <1>0 DEF ReaderEnds, ReaderUnchanged
<1>13. CASE ReaderTests
  BY <1>13, <1>0 DEF ReaderTests, ReaderUnchanged
<1>14. CASE ReaderFires
  BY <1>14, <1>0 DEF ReaderFires, ReaderUnchanged, OnClosed
<1>15. CASE WriterTakes
  <2>1. queue # <<>> => Head(queue) \in Nat /\ Tail(queue) \in Seq(Nat)
    OBVIOUS
  <2> QED BY <1>15, <1>0, <2>1 DEF WriterTakes, WriterUnchanged
<1>16. CASE WriterSends
  BY <1>16, <1>0 DEF WriterSends, WriterUnchanged
<1>17. CASE LinkUp
  BY <1>17, <1>0 DEF LinkUp, RestUnchanged
<1>18. CASE LinkDown
  BY <1>18, <1>0 DEF LinkDown, RestUnchanged
<1>19. CASE PeerCloses
  BY <1>19, <1>0 DEF PeerCloses, RestUnchanged
<1>20. CASE Put
  BY <1>20, <1>0 DEF Put, RestUnchanged
<1>21. CASE AskDisconnect
  BY <1>21, <1>0 DEF AskDisconnect, RestUnchanged
<1>22. CASE ShutdownBegins
  BY <1>22, <1>0 DEF ShutdownBegins
<1>23. CASE ShutdownStops
  BY <1>23, <1>0 DEF ShutdownStops, EndSession
<1>24. CASE ShutdownJoins
  BY <1>24, <1>0 DEF ShutdownJoins, JoinThreads
<1>25. CASE ShutdownEnds
  BY <1>25, <1>0 DEF ShutdownEnds
<1>26. CASE UNCHANGED vars
  BY <1>26, <1>0 DEF vars
<1> QED BY <1>1, <1>2, <1>3, <1>4, <1>5, <1>6, <1>7, <1>8, <1>9, <1>10,
           <1>11, <1>12, <1>13, <1>14, <1>15, <1>16, <1>17, <1>18, <1>19,
           <1>20, <1>21, <1>22, <1>23, <1>24, <1>25, <1>26
       DEF Next, Worker, Reader, Writer, Environment, Shutdown

(* Nothing ever leaves the types the variables are declared with.          *)
THEOREM TypeCorrect == Spec => []TypeOK
<1>1. Init => TypeOK
  <2>1. Init => FlagsOK
    BY Zenon DEF Init, FlagsOK
  <2> QED BY <2>1 DEF Init, TypeOK
<1> QED BY <1>1, TypeStep, PTL DEF Spec

-----------------------------------------------------------------------------
(* A channel is alive only in a session: one that is started ...            *)
StartedWhileAlive == alive => isStarted

StartsStarted == worker \in {"connect", "reopen", "shake"} => isStarted

ConnectsAfresh == worker = "connect" => ~alive

(* ... and that is not being stopped, by the worker or by Shutdown.         *)
StopsStopped == worker \in {"rejoin", "join", "stopped"} => ~isStarted

GoneWorkerFirst ==
  owner \in {"join", "stopped", "gone"} => worker = "gone" /\ ~isStarted

(* The flag follows a started session, and leaves with the device.          *)
ReadyOnceStarted ==
  isStarted /\ worker \notin {"connect", "reopen", "shake"} => aapReady

GoneNotReady == owner = "gone" => ~aapReady

(* Both threads come and go together; somebody will wait for them.          *)
ThreadsTogether == reader = "none" <=> writer = "none"

ThreadsHaveAJoiner ==
  reader # "none" => isStarted \/ worker \in {"rejoin", "join"} \/ owner = "join"

NoThreadsYet == worker \in {"connect", "reopen"} => reader = "none"

SessionInv ==
  /\ StartedWhileAlive /\ StartsStarted /\ ConnectsAfresh /\ StopsStopped
  /\ GoneWorkerFirst /\ ReadyOnceStarted /\ GoneNotReady
  /\ ThreadsTogether /\ ThreadsHaveAJoiner /\ NoThreadsYet

(* The invariant of the sessions is inductive.                             *)
LEMMA SessionStep == TypeOK /\ SessionInv /\ [Next]_vars => SessionInv'
<1> SUFFICES ASSUME TypeOK, SessionInv, [Next]_vars PROVE SessionInv'
  OBVIOUS
<1> USE DEF TypeOK, SessionInv, StartedWhileAlive, StartsStarted, ConnectsAfresh,
            StopsStopped, GoneWorkerFirst, ReadyOnceStarted, GoneNotReady,
            ThreadsTogether, ThreadsHaveAJoiner, NoThreadsYet
<1>1. CASE WorkerTakes
  BY <1>1 DEF WorkerTakes
<1>2. CASE WorkerDelays
  BY <1>2 DEF WorkerDelays
<1>3. CASE WorkerChecks
  BY <1>3 DEF WorkerChecks
<1>4. CASE WorkerStarts
  BY <1>4 DEF WorkerStarts, EndSession
<1>5. CASE WorkerJoinsOld
  BY <1>5 DEF WorkerJoinsOld, ThreadsDone, JoinThreads
<1>6. CASE WorkerConnects
  <2>1. ~alive /\ isStarted /\ reader = "none" /\ owner \notin {"join", "stopped", "gone"}
    BY <1>6 DEF WorkerConnects
  <2>2. UNCHANGED <<owner, reader, writer, aapReady>>
    BY <1>6 DEF WorkerConnects
  <2>3. CASE alive' /\ worker' = "reopen" /\ isStarted' = isStarted
    BY <2>1, <2>2, <2>3
  <2>4. CASE ~isStarted' /\ worker' = "wait" /\ alive' = alive
    BY <2>1, <2>2, <2>4
  <2> QED BY <1>6, <2>3, <2>4 DEF WorkerConnects
<1>7. CASE WorkerReopens
  BY <1>7 DEF WorkerReopens, Reopen
<1>8. CASE WorkerShakes
  BY <1>8 DEF WorkerShakes
<1>9. CASE WorkerStops
  BY <1>9 DEF WorkerStops, EndSession
<1>10. CASE WorkerJoins
  BY <1>10 DEF WorkerJoins, ThreadsDone, JoinThreads
<1>11. CASE WorkerStopped
  BY <1>11 DEF WorkerStopped
<1>12. CASE ReaderEnds
  BY <1>12 DEF ReaderEnds, ReaderUnchanged
<1>13. CASE ReaderTests
  BY <1>13 DEF ReaderTests, ReaderUnchanged
<1>14. CASE ReaderFires
  BY <1>14 DEF ReaderFires, ReaderUnchanged, OnClosed
<1>15. CASE WriterTakes
  BY <1>15 DEF WriterTakes, WriterUnchanged
<1>16. CASE WriterSends
  BY <1>16 DEF WriterSends, WriterUnchanged
<1>17. CASE LinkUp
  BY <1>17 DEF LinkUp, RestUnchanged
<1>18. CASE LinkDown
  BY <1>18 DEF LinkDown, RestUnchanged
<1>19. CASE PeerCloses
  BY <1>19 DEF PeerCloses, RestUnchanged
<1>20. CASE Put
  BY <1>20 DEF Put, RestUnchanged
<1>21. CASE AskDisconnect
  BY <1>21 DEF AskDisconnect, RestUnchanged
<1>22. CASE ShutdownBegins
  BY <1>22 DEF ShutdownBegins
<1>23. CASE ShutdownStops
  BY <1>23 DEF ShutdownStops, EndSession
<1>24. CASE ShutdownJoins
  BY <1>24 DEF ShutdownJoins, ThreadsDone, JoinThreads
<1>25. CASE ShutdownEnds
  BY <1>25 DEF ShutdownEnds
<1>26. CASE UNCHANGED vars
  BY <1>26 DEF vars
<1> QED BY <1>1, <1>2, <1>3, <1>4, <1>5, <1>6, <1>7, <1>8, <1>9, <1>10,
           <1>11, <1>12, <1>13, <1>14, <1>15, <1>16, <1>17, <1>18, <1>19,
           <1>20, <1>21, <1>22, <1>23, <1>24, <1>25, <1>26
       DEF Next, Worker, Reader, Writer, Environment, Shutdown

(* So it holds in every reachable state.                                   *)
THEOREM SessionInvariant == Spec => []SessionInv
<1>1. Init => SessionInv
  BY DEF Init, SessionInv, StartedWhileAlive, StartsStarted, ConnectsAfresh,
         StopsStopped, GoneWorkerFirst, ReadyOnceStarted, GoneNotReady,
         ThreadsTogether, ThreadsHaveAJoiner, NoThreadsYet
<1> QED BY <1>1, TypeCorrect, SessionStep, PTL DEF Spec

(* A new session finds no thread of an old one, however often the channel   *)
(* was restarted and whoever stopped it.                                   *)
THEOREM NoThreadIsLeftOver == Spec => []NoThreadLeftOver
<1>1. SessionInv => NoThreadLeftOver
  BY DEF SessionInv, NoThreadsYet, ThreadsTogether, NoThreadLeftOver
<1> QED BY <1>1, SessionInvariant, PTL

(* Once Shutdown has returned, nothing of the client is left.               *)
THEOREM NothingIsLeft == Spec => []NothingLeft
<1>1. TypeOK /\ SessionInv => NothingLeft
  BY DEF TypeOK, SessionInv, StartedWhileAlive, GoneWorkerFirst, GoneNotReady,
         ThreadsTogether, ThreadsHaveAJoiner, NothingLeft
<1> QED BY <1>1, TypeCorrect, SessionInvariant, PTL

-----------------------------------------------------------------------------
(* What waits was queued since the last session was opened, and what is     *)
(* about to be sent too.                                                   *)
PacketInv ==
  /\ \A i \in 1 .. Len(queue) : queue[i] = session
  /\ writer = "send" => packet = session

(* The invariant of the packets is inductive.                              *)
LEMMA PacketStep == TypeOK /\ PacketInv /\ [Next]_vars => PacketInv'
<1> SUFFICES ASSUME TypeOK, PacketInv, [Next]_vars PROVE PacketInv'
  OBVIOUS
<1> USE DEF TypeOK, PacketInv
<1>1. CASE WorkerReopens
  BY <1>1 DEF WorkerReopens, Reopen
<1>2. CASE WriterTakes
  <2>1. CASE queue = <<>>
    BY <1>2, <2>1 DEF WriterTakes, WriterUnchanged
  <2>2. CASE queue # <<>>
    <3>1. /\ Head(queue) = queue[1] /\ Len(queue) >= 1
          /\ Len(Tail(queue)) = Len(queue) - 1
          /\ \A i \in 1 .. Len(Tail(queue)) : Tail(queue)[i] = queue[i + 1]
      BY <2>2
    <3>2. CASE ~isStarted \/ queueClosed
      BY <1>2, <3>2 DEF WriterTakes, WriterUnchanged
    <3>3. CASE isStarted /\ ~queueClosed
      <4>1. /\ packet' = queue[1] /\ queue' = Tail(queue) /\ session' = session
        BY <1>2, <3>1, <3>3 DEF WriterTakes, WriterUnchanged
      <4>2. packet' = session'
        BY <3>1, <4>1
      <4>3. \A i \in 1 .. Len(queue') : queue'[i] = session'
        <5> SUFFICES ASSUME NEW i \in 1 .. Len(Tail(queue)) PROVE Tail(queue)[i] = session
          BY <4>1
        <5>1. i + 1 \in 1 .. Len(queue) /\ Tail(queue)[i] = queue[i + 1]
          BY <3>1
        <5> QED BY <5>1
      <4> QED BY <4>2, <4>3
    <3> QED BY <3>2, <3>3
  <2> QED BY <2>1, <2>2
<1>3. CASE WriterSends
  BY <1>3 DEF WriterSends, WriterUnchanged
<1>4. CASE Put
  <2>1. /\ Len(Append(queue, session)) = Len(queue) + 1
        /\ \A i \in 1 .. Len(queue) : Append(queue, session)[i] = queue[i]
        /\ Append(queue, session)[Len(queue) + 1] = session
    OBVIOUS
  <2> QED BY <1>4, <2>1 DEF Put, RestUnchanged
<1>5. CASE WorkerJoinsOld \/ WorkerJoins \/ ShutdownJoins
  BY <1>5 DEF WorkerJoinsOld, WorkerJoins, ShutdownJoins, JoinThreads
<1>6. CASE UNCHANGED <<queue, session, writer, packet>>
  BY <1>6
<1>7. WorkerTakes \/ WorkerDelays \/ WorkerChecks \/ WorkerStarts \/ WorkerConnects
        \/ WorkerShakes \/ WorkerStops \/ WorkerStopped
      => UNCHANGED <<queue, session, writer, packet>>
  BY DEF WorkerTakes, WorkerDelays, WorkerChecks, WorkerStarts, WorkerConnects,
         WorkerShakes, WorkerStops, WorkerStopped
<1>8. Reader \/ LinkUp \/ LinkDown \/ PeerCloses \/ AskDisconnect
      => UNCHANGED <<queue, session, writer, packet>>
  BY DEF Reader, ReaderEnds, ReaderTests, ReaderFires, ReaderUnchanged,
         LinkUp, LinkDown, PeerCloses, AskDisconnect, RestUnchanged
<1>9. ShutdownBegins \/ ShutdownStops \/ ShutdownEnds \/ UNCHANGED vars
      => UNCHANGED <<queue, session, writer, packet>>
  BY DEF ShutdownBegins, ShutdownStops, ShutdownEnds, vars
<1> QED BY <1>1, <1>2, <1>3, <1>4, <1>5, <1>6, <1>7, <1>8, <1>9
       DEF Next, Worker, Writer, Environment, Shutdown

(* No packet queued in one session is sent into another.                    *)
THEOREM NoPacketIsStale == Spec => []NoStalePacket
<1>1. Init => PacketInv
  BY DEF Init, PacketInv
<1>2. PacketInv => NoStalePacket
  BY DEF PacketInv, NoStalePacket
<1> QED BY <1>1, <1>2, TypeCorrect, PacketStep, PTL DEF Spec

-----------------------------------------------------------------------------
(* A session still to come counts with those that came: the one the worker  *)
(* is on its way to, and the one it was asked for.                         *)
OnItsWay ==
  IF worker \in {"delay", "check", "start", "rejoin", "connect", "reopen"} THEN 1 ELSE 0

AskedFor == IF startRequested THEN 1 ELSE 0

Counted == IF restarts > MaxRestarts THEN MaxRestarts ELSE restarts

RestartsInv == opened + OnItsWay + AskedFor <= Counted + 2

(* The invariant of the restarts is inductive.                             *)
LEMMA RestartsStep == TypeOK /\ RestartsInv /\ [Next]_vars => RestartsInv'
<1> SUFFICES ASSUME TypeOK, RestartsInv, [Next]_vars PROVE RestartsInv'
  OBVIOUS
<1> USE DEF TypeOK, RestartsInv, OnItsWay, AskedFor, Counted
<1>1. CASE WorkerTakes
  BY <1>1 DEF WorkerTakes
<1>2. CASE WorkerDelays
  BY <1>2 DEF WorkerDelays
<1>3. CASE WorkerChecks
  BY <1>3 DEF WorkerChecks
<1>4. CASE WorkerStarts
  BY <1>4 DEF WorkerStarts, EndSession
<1>5. CASE WorkerJoinsOld
  BY <1>5 DEF WorkerJoinsOld, JoinThreads
<1>6. CASE WorkerConnects
  BY <1>6 DEF WorkerConnects
<1>7. CASE WorkerReopens
  BY <1>7 DEF WorkerReopens, Reopen
<1>8. CASE WorkerShakes
  BY <1>8 DEF WorkerShakes
<1>9. CASE WorkerStops
  BY <1>9 DEF WorkerStops, EndSession
<1>10. CASE WorkerJoins
  BY <1>10 DEF WorkerJoins, JoinThreads
<1>11. CASE WorkerStopped
  BY <1>11 DEF WorkerStopped
<1>12. CASE ReaderEnds
  BY <1>12 DEF ReaderEnds, ReaderUnchanged
<1>13. CASE ReaderTests
  BY <1>13 DEF ReaderTests, ReaderUnchanged
<1>14. CASE ReaderFires
  BY <1>14 DEF ReaderFires, ReaderUnchanged, OnClosed
<1>15. CASE WriterTakes
  BY <1>15 DEF WriterTakes, WriterUnchanged
<1>16. CASE WriterSends
  BY <1>16 DEF WriterSends, WriterUnchanged
<1>17. CASE LinkUp
  BY <1>17 DEF LinkUp, RestUnchanged
<1>18. CASE LinkDown
  BY <1>18 DEF LinkDown, RestUnchanged
<1>19. CASE PeerCloses
  BY <1>19 DEF PeerCloses, RestUnchanged
<1>20. CASE Put
  BY <1>20 DEF Put, RestUnchanged
<1>21. CASE AskDisconnect
  BY <1>21 DEF AskDisconnect, RestUnchanged
<1>22. CASE ShutdownBegins
  BY <1>22 DEF ShutdownBegins
<1>23. CASE ShutdownStops
  BY <1>23 DEF ShutdownStops, EndSession
<1>24. CASE ShutdownJoins
  BY <1>24 DEF ShutdownJoins, JoinThreads
<1>25. CASE ShutdownEnds
  BY <1>25 DEF ShutdownEnds
<1>26. CASE UNCHANGED vars
  BY <1>26 DEF vars
<1> QED BY <1>1, <1>2, <1>3, <1>4, <1>5, <1>6, <1>7, <1>8, <1>9, <1>10,
           <1>11, <1>12, <1>13, <1>14, <1>15, <1>16, <1>17, <1>18, <1>19,
           <1>20, <1>21, <1>22, <1>23, <1>24, <1>25, <1>26
       DEF Next, Worker, Reader, Writer, Environment, Shutdown

(* However often the headphones close the channel, it is opened MaxRestarts *)
(* times more in one connection, and once for what the last one left.       *)
THEOREM RestartsAreBounded == Spec => []RestartsBounded
<1>1. Init => RestartsInv
  BY DEF Init, RestartsInv, OnItsWay, AskedFor, Counted
<1>2. TypeOK /\ RestartsInv => RestartsBounded
  BY DEF TypeOK, RestartsInv, OnItsWay, AskedFor, Counted, RestartsBounded
<1> QED BY <1>1, <1>2, TypeCorrect, RestartsStep, PTL DEF Spec

-----------------------------------------------------------------------------
(* The steps of the link that the client's steps are.                      *)
LEMMA LinkStep == TypeOK /\ SessionInv /\ [Next]_vars => [Link!LinkNext]_(Link!linkVars)
<1> SUFFICES ASSUME TypeOK, SessionInv, [Next]_vars
             PROVE [Link!LinkNext]_(Link!linkVars)
  OBVIOUS
<1> USE DEF Link!linkVars
<1>1. CASE WorkerConnects
  <2>1. CASE alive' /\ worker' = "reopen"
    <3>1. Link!ChannelOpens
      BY <1>1, <2>1 DEF WorkerConnects, Link!ChannelOpens, SessionInv, ConnectsAfresh
    <3> QED BY <3>1 DEF Link!LinkNext
  <2>2. CASE worker' = "wait" /\ UNCHANGED alive
    BY <1>1, <2>2 DEF WorkerConnects, SessionInv, ConnectsAfresh
  <2> QED BY <1>1, <2>1, <2>2 DEF WorkerConnects
<1>2. CASE WorkerShakes
  <2>1. worker \in {"reopen", "shake"} /\ worker' \notin {"reopen", "shake"}
    BY <1>2 DEF WorkerShakes
  <2>2. (alive /\ worker \notin {"reopen", "shake"})' = alive
    BY <1>2, <2>1, Zenon DEF WorkerShakes, TypeOK, FlagsOK
  <2>3. Link!ChannelStarted
    BY <1>2, <2>1, <2>2 DEF WorkerShakes, Link!ChannelStarted
  <2> QED BY <2>3 DEF Link!LinkNext
<1>3. CASE WorkerStopped
  <2>1. Link!ChannelStops
    BY <1>3 DEF WorkerStopped, Link!ChannelStops, SessionInv, StopsStopped, StartedWhileAlive
  <2> QED BY <2>1 DEF Link!LinkNext
<1>4. CASE ShutdownEnds
  <2>1. Link!ChannelStops
    BY <1>4 DEF ShutdownEnds, Link!ChannelStops, SessionInv, GoneWorkerFirst, StartedWhileAlive
  <2> QED BY <2>1 DEF Link!LinkNext
<1>5. CASE LinkUp
  <2>1. Link!LinkUp
    BY <1>5 DEF LinkUp, RestUnchanged, Link!LinkUp
  <2> QED BY <2>1 DEF Link!LinkNext
<1>6. CASE LinkDown
  <2>1. Link!LinkDown
    BY <1>6 DEF LinkDown, RestUnchanged, Link!LinkDown
  <2> QED BY <2>1 DEF Link!LinkNext
<1>7. CASE PeerCloses
  <2>1. Link!PeerCloses
    BY <1>7 DEF PeerCloses, RestUnchanged, Link!PeerCloses
  <2> QED BY <2>1 DEF Link!LinkNext
<1>8. CASE AskDisconnect
  <2>1. CASE stopRequested \/ worker \in {"stop", "join", "stopped"}
    BY <1>8, <2>1 DEF AskDisconnect, RestUnchanged
  <2>2. CASE ~(stopRequested \/ worker \in {"stop", "join", "stopped"})
    <3>1. Link!AskStop
      BY <1>8, <2>2 DEF AskDisconnect, RestUnchanged, Link!AskStop
    <3> QED BY <3>1 DEF Link!LinkNext
  <2> QED BY <2>1, <2>2
<1>9. CASE WorkerStarts \/ WorkerStops \/ ShutdownStops
  <2>1. /\ worker \notin {"connect", "reopen", "shake", "stopped"}
        /\ worker' \notin {"reopen", "shake"}
        /\ UNCHANGED <<connected, stopRequested>>
        /\ worker \in {"stop", "join", "stopped"} <=> worker' \in {"stop", "join", "stopped"}
    BY <1>9 DEF WorkerStarts, WorkerStops, ShutdownStops
  <2>2. UNCHANGED aapReady
    BY <1>9, Zenon DEF WorkerStarts, WorkerStops, ShutdownStops, TypeOK, FlagsOK,
                       SessionInv, ReadyOnceStarted
  <2>3. CASE alive /\ ~alive'
    <3>1. Link!PeerCloses
      BY <2>1, <2>2, <2>3 DEF Link!PeerCloses
    <3> QED BY <3>1 DEF Link!LinkNext
  <2>4. CASE alive' = alive
    BY <2>1, <2>2, <2>4
  <2>5. alive' = FALSE \/ alive' = alive
    BY <1>9, Zenon DEF WorkerStarts, WorkerStops, ShutdownStops, EndSession
  <2>6. alive \in BOOLEAN
    BY DEF TypeOK, FlagsOK
  <2> QED BY <2>3, <2>4, <2>5, <2>6, Zenon
<1>10. CASE WorkerTakes \/ WorkerDelays \/ WorkerChecks \/ WorkerJoinsOld \/ WorkerReopens
              \/ WorkerJoins
  BY <1>10 DEF WorkerTakes, WorkerDelays, WorkerChecks, WorkerJoinsOld, WorkerReopens,
               WorkerJoins
<1>11. CASE Reader \/ Writer \/ Put
  BY <1>11 DEF Reader, ReaderEnds, ReaderTests, ReaderFires, ReaderUnchanged,
               Writer, WriterTakes, WriterSends, WriterUnchanged, Put, RestUnchanged
<1>12. CASE ShutdownBegins \/ ShutdownJoins \/ UNCHANGED vars
  BY <1>12 DEF ShutdownBegins, ShutdownJoins, vars
<1> QED BY <1>1, <1>2, <1>3, <1>4, <1>5, <1>6, <1>7, <1>8, <1>9, <1>10, <1>11, <1>12
       DEF Next, Worker, Environment, Shutdown

(* What the capabilities see of the client is the abstract link.           *)
THEOREM LinkImplemented == Spec => ImplementsLink
<1>1. Init => Link!LinkInit
  BY DEF Init, Link!LinkInit
<1> QED BY <1>1, TypeCorrect, SessionInvariant, LinkStep, PTL
       DEF Spec, ImplementsLink, Link!LinkSpec

=============================================================================
