------------------------------- MODULE AttQueue -------------------------------
(***************************************************************************)
(* The ATT settings channel: Att::RequestQueue, which keeps one request    *)
(* outstanding, between AapDevice, its client worker (OnClientStarted,     *)
(* OnClientStopped), the threads that change a setting (AttQueue), the     *)
(* reader (OnAttData) and the AirPods.                                     *)
(*                                                                         *)
(* Packets are what they ask for; the writer thread sends at once. A       *)
(* notification carries its handle and goes past the queue: left out.      *)
(***************************************************************************)
EXTENDS Naturals, Sequences

CONSTANTS
  Handles,     \* the characteristics: Loud Sound Reduction, transparency
  NoHandle,    \* 0: a write's readHandle
  Setters,     \* threads that write a setting
  MaxWrites,   \* bound: settings written
  MaxStops,    \* bound: times the channel is stopped
  Ignoring,    \* whether the AirPods may never answer a request
  Late         \* whether they may answer one after two seconds

ASSUME HandlesAssumption == NoHandle \notin Handles
ASSUME BoundsAssumption == MaxWrites \in Nat /\ MaxStops \in Nat
ASSUME AirPodsAssumption == Ignoring \in BOOLEAN /\ Late \in BOOLEAN

VARIABLES
  chan,      \* _attClient: "off", "connecting" (IsStarted() from here on), "up"
  queue, busy, reading, \* Att::RequestQueue
  overdue,   \* busy, and more than two seconds since sentAt
  reads,     \* what OnClientStarted has yet to push
  stopped,   \* OnClientStopped between Stop() and Clear()
  setter,    \* [Setters -> the handle it writes, IsStarted() seen to be true]
  air,       \* requests sent that the AirPods have not answered
  value,     \* the last value handed to the capabilities: its handle, and what was read
  writes, stops

queueVars == <<queue, busy, reading, overdue, air>>
vars == <<chan, queueVars, reads, stopped, setter, value, writes, stops>>

Requests == [read: BOOLEAN, handle: Handles]
ReadOf(h) == [read |-> TRUE, handle |-> h]

WriteOf(h) == [read |-> FALSE, handle |-> h]

TypeOK ==
  /\ chan \in {"off", "connecting", "up"}
  /\ queue \in Seq(Requests) /\ air \in Seq(Requests) /\ reads \in Seq(Requests)
  /\ busy \in BOOLEAN /\ overdue \in BOOLEAN /\ stopped \in BOOLEAN
  /\ reading \in Handles \cup {NoHandle}
  /\ setter \in [Setters -> Handles \cup {NoHandle}]
  /\ value \in [as: Handles \cup {NoHandle}, from: Handles \cup {NoHandle}]
  /\ writes \in 0..MaxWrites /\ stops \in 0..MaxStops

Init ==
  /\ chan = "off"
  /\ queue = <<>> /\ busy = FALSE /\ reading = NoHandle /\ overdue = FALSE
  /\ reads = <<>> /\ stopped = FALSE
  /\ setter = [s \in Setters |-> NoHandle]
  /\ air = <<>>
  /\ value = [as |-> NoHandle, from |-> NoHandle]
  /\ writes = 0 /\ stops = 0

-----------------------------------------------------------------------------
(* Att::RequestQueue, and SendData of what it returns. A packet sent while  *)
(* the channel is not up is dropped: the client's queue is closed, or      *)
(* emptied by its Reopen. What is in flight is `sent`.                     *)

Out(sent, r) == IF chan = "up" THEN Append(sent, r) ELSE sent

(* Slip: the next request goes out whether one is outstanding or not.       *)
NextAnyway(q, isBusy, sent) ==
  \/ /\ q = <<>>
     /\ queue' = q /\ busy' = isBusy /\ air' = sent
     /\ overdue' = (isBusy /\ overdue)
     /\ UNCHANGED reading
  \/ /\ q # <<>>
     /\ queue' = Tail(q) /\ busy' = TRUE /\ overdue' = FALSE
     /\ reading' = IF Head(q).read THEN Head(q).handle ELSE NoHandle
     /\ air' = Out(sent, Head(q))

(* Next: what was queued goes out unless a request is outstanding.         *)
SendNext(q, isBusy, sent) ==
  \/ /\ isBusy \/ q = <<>>
     /\ queue' = q /\ busy' = isBusy /\ air' = sent
     /\ overdue' = (isBusy /\ overdue)
     /\ UNCHANGED reading
  \/ /\ ~isBusy /\ q # <<>>
     /\ queue' = Tail(q) /\ busy' = TRUE /\ overdue' = FALSE
     /\ reading' = IF Head(q).read THEN Head(q).handle ELSE NoHandle
     /\ air' = Out(sent, Head(q))

(* A request that has been out for more than two seconds is given up, but   *)
(* only here.                                                              *)
Push(r) == SendNext(Append(queue, r), busy /\ ~overdue, air)

(* Slip: an answer does not send what waits.                                *)
AnsweredOnly ==
  /\ busy' = FALSE /\ air' = Tail(air)
  /\ UNCHANGED <<queue, reading, overdue>>

Answered == SendNext(queue, FALSE, Tail(air))

Clear ==
  /\ queue' = <<>> /\ busy' = FALSE
  /\ UNCHANGED <<reading, overdue, air>>

-----------------------------------------------------------------------------
(* The client worker.                                                      *)

Connects ==
  /\ chan = "off" /\ ~stopped
  /\ chan' = "connecting"
  /\ UNCHANGED <<queueVars, reads, stopped, setter, value, writes, stops>>

ConnectFails ==
  /\ chan = "connecting"
  /\ chan' = "off"
  /\ UNCHANGED <<queueVars, reads, stopped, setter, value, writes, stops>>

(* Every characteristic is read; then one write asks for notifications.     *)
Connected ==
  /\ chan = "connecting"
  /\ chan' = "up"
  /\ \E a, b \in Handles :
       /\ Handles = {a, b} /\ a # b
       /\ reads' = <<ReadOf(a), ReadOf(b), WriteOf(b)>>
  /\ UNCHANGED <<queueVars, stopped, setter, value, writes, stops>>

Reads ==
  /\ reads # <<>>
  /\ Push(Head(reads))
  /\ reads' = Tail(reads)
  /\ UNCHANGED <<chan, stopped, setter, value, writes, stops>>

(* OnClientStopped: Stop() waits for the reader, then the queue is cleared. *)
Stops ==
  /\ chan = "up" /\ reads = <<>> /\ stops < MaxStops
  /\ chan' = "off"
  /\ air' = <<>>
  /\ stopped' = TRUE
  /\ stops' = stops + 1
  /\ UNCHANGED <<queue, busy, reading, overdue, reads, setter, value, writes>>

Clears ==
  /\ stopped
  /\ Clear
  /\ stopped' = FALSE
  /\ UNCHANGED <<chan, reads, setter, value, writes, stops>>

(* AttQueue on a setter's thread: IsStarted(), then Push under _attLock.    *)
SetterLooks(s) ==
  /\ setter[s] = NoHandle /\ writes < MaxWrites /\ chan # "off"
  /\ \E h \in Handles : setter' = [setter EXCEPT ![s] = h]
  /\ writes' = writes + 1
  /\ UNCHANGED <<chan, queueVars, reads, stopped, value, stops>>

SetterPushes(s) ==
  /\ setter[s] # NoHandle
  /\ Push(WriteOf(setter[s]))
  /\ setter' = [setter EXCEPT ![s] = NoHandle]
  /\ UNCHANGED <<chan, reads, stopped, value, writes, stops>>

(* OnAttData: an answer. A refused read hands no value on, nor does an      *)
(* answer the queue takes for a write's.                                   *)
ReaderAnswered ==
  /\ air # <<>>
  /\ LET handle == IF busy THEN reading ELSE NoHandle IN
     \E refused \in BOOLEAN :
       value' = IF ~refused /\ Head(air).read /\ handle # NoHandle
                THEN [as |-> handle, from |-> Head(air).handle] ELSE value
  /\ Answered
  /\ UNCHANGED <<chan, reads, stopped, setter, writes, stops>>

(* The AirPods ignore a request; two seconds pass.                         *)
PodsIgnore ==
  /\ Ignoring /\ air # <<>>
  /\ air' = Tail(air)
  /\ UNCHANGED <<chan, queue, busy, reading, overdue, reads, stopped, setter, value, writes, stops>>

TwoSecondsPass ==
  /\ busy /\ ~overdue /\ (air = <<>> \/ Late)
  /\ overdue' = TRUE
  /\ UNCHANGED <<chan, queue, busy, reading, air, reads, stopped, setter, value, writes, stops>>

Worker == Connects \/ ConnectFails \/ Connected \/ Reads \/ Clears

Next ==
  \/ Worker \/ Stops
  \/ \E s \in Setters : SetterLooks(s) \/ SetterPushes(s)
  \/ ReaderAnswered \/ PodsIgnore \/ TwoSecondsPass

Spec == Init /\ [][Next]_vars

-----------------------------------------------------------------------------
(* Properties.                                                             *)

(* What is handed on as a characteristic's value was read from that one     *)
(* ("the handle the answered request read").                               *)
RightHandle == value.as = value.from

(* No request is stranded: while one waits, another is outstanding (busy),  *)
(* whose answer or whose two seconds let it out.                           *)
WaitsForAnother == queue # <<>> => busy

=============================================================================
