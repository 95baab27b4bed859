------------------------------ MODULE PeerConn ------------------------------
(***************************************************************************)
(* The goroutines of one connected peer (pkg/peer/peer.go): queueHandler   *)
(* and outHandler, which write what callers queue; inHandler, which reads; *)
(* and stallHandler, which disconnects a peer that does not answer.  They  *)
(* share bounded channels and the quit channel that Disconnect closes.     *)
(*                                                                         *)
(* A receive from several channels takes any that is ready, quit included. *)
(* The remote peer answers requests or does not.                           *)
(***************************************************************************)
EXTENDS Naturals, Sequences, FiniteSets, SequencesExt

CONSTANTS Requests,     \* messages the node sends that expect an answer
          Pings,        \* messages it sends that do not
          Rejects,      \* messages that inHandler sends and waits for
          OutCap        \* outputBufferSize

ASSUME PeerConnConstants == OutCap \in Nat \ {0}

VARIABLES quit,          \* Disconnect was called: the connection is closed
          outputQueue, sendQueue, sendDoneQueue, stallControl,   \* channels
          pendingMsgs, waiting,       \* of queueHandler
          queuePc, outPc, inPc, stallPc,
          outMsg,        \* the message in the hands of outHandler
          callers,       \* messages whose callers have found the peer connected
          queued,        \* messages in the order they were queued in
          written,       \* and in the order they were written in
          signalled,     \* how often each done channel was sent to
          pendingResponse,   \* of stallHandler: an answer has a deadline
          excused,           \* unanswered requests that an answer took the deadline from
          asked, answers     \* requests at the remote peer, answers on the way

peerVars == <<quit, outputQueue, sendQueue, sendDoneQueue, stallControl, pendingMsgs, waiting,
              queuePc, outPc, inPc, stallPc, outMsg, callers, queued, written, signalled,
              pendingResponse, excused, asked, answers>>

ioVars == <<pendingMsgs, waiting, queuePc, outPc, inPc, stallPc, outMsg>>
remoteVars == <<pendingResponse, excused, asked, answers>>

Msgs == Requests \cup Pings \cup Rejects
NoMsg == 0

(* start: the protocol has been negotiated.                                *)
PeerInit ==
    /\ quit = FALSE
    /\ outputQueue = <<>> /\ sendQueue = <<>> /\ sendDoneQueue = 0 /\ stallControl = <<>>
    /\ pendingMsgs = <<>> /\ waiting = FALSE
    /\ queuePc = "run" /\ outPc = "run" /\ inPc = "read" /\ stallPc = "run"
    /\ outMsg = NoMsg /\ callers = {} /\ queued = <<>> /\ written = <<>>
    /\ signalled = [m \in Msgs |-> 0]
    /\ pendingResponse = FALSE /\ excused = {} /\ asked = {} /\ answers = 0

Signal(S) == signalled' = [m \in Msgs |-> IF m \in S \cap Rejects THEN signalled[m] + 1
                                          ELSE signalled[m]]

-----------------------------------------------------------------------------
(* QueueMessage: the check, and later the send.                            *)
Sent(m) == m \in callers \/ m \in ToSet(queued) \/ signalled[m] > 0

FindsConnected(m) ==
    /\ ~Sent(m) /\ ~quit
    /\ callers' = callers \cup {m}

QueueMessage(m) ==
    /\ m \in callers /\ Len(outputQueue) < OutCap
    /\ callers' = callers \ {m}
    /\ outputQueue' = Append(outputQueue, m) /\ queued' = Append(queued, m)
    /\ UNCHANGED <<quit, sendQueue, sendDoneQueue, stallControl, ioVars, written, signalled, remoteVars>>

CallerFindsConnected(m) ==
    /\ m \in Requests \cup Pings /\ FindsConnected(m)
    /\ UNCHANGED <<quit, outputQueue, sendQueue, sendDoneQueue, stallControl, ioVars, queued, written,
                   signalled, remoteVars>>

(* Disconnect, from any goroutine.                                         *)
Disconnect ==
    /\ ~quit /\ quit' = TRUE
    /\ UNCHANGED <<outputQueue, sendQueue, sendDoneQueue, stallControl, ioVars, callers, queued,
                   written, signalled, remoteVars>>

-----------------------------------------------------------------------------
(* queueHandler.                                                           *)
qRest == <<quit, stallControl, outPc, inPc, stallPc, outMsg, callers, queued, written, remoteVars>>

ForgetsWaiting == FALSE

(* queuePacket: straight to outHandler unless it has a message already.    *)
IsWaiting == waiting

queuePacket ==
    /\ queuePc = "run" /\ outputQueue # <<>>
    /\ outputQueue' = Tail(outputQueue)
    /\ IF IsWaiting THEN pendingMsgs' = Append(pendingMsgs, Head(outputQueue)) /\ UNCHANGED sendQueue
       ELSE Len(sendQueue) < 1 /\ sendQueue' = Append(sendQueue, Head(outputQueue)) /\ UNCHANGED pendingMsgs
    /\ waiting' = TRUE
    /\ UNCHANGED <<sendDoneQueue, queuePc, signalled, qRest>>

SendNext ==
    /\ queuePc = "run" /\ sendDoneQueue > 0
    /\ sendDoneQueue' = sendDoneQueue - 1
    /\ IF pendingMsgs = <<>> THEN waiting' = FALSE /\ UNCHANGED <<sendQueue, pendingMsgs>>
       ELSE /\ Len(sendQueue) < 1
            /\ sendQueue' = Append(sendQueue, Head(pendingMsgs)) /\ pendingMsgs' = Tail(pendingMsgs)
            /\ UNCHANGED waiting
    /\ UNCHANGED <<outputQueue, queuePc, signalled, qRest>>

(* The end: signal every message that is pending or in the channel.        *)
QueueQuits ==
    /\ queuePc = "run" /\ quit
    /\ queuePc' = "drain"
    /\ pendingMsgs' = <<>> /\ Signal(ToSet(pendingMsgs))
    /\ UNCHANGED <<outputQueue, sendQueue, sendDoneQueue, waiting, qRest>>

QueueDrains ==
    /\ queuePc = "drain"
    /\ IF outputQueue = <<>> THEN queuePc' = "done" /\ UNCHANGED <<outputQueue, signalled>>
       ELSE outputQueue' = Tail(outputQueue) /\ Signal({Head(outputQueue)}) /\ UNCHANGED queuePc
    /\ UNCHANGED <<sendQueue, sendDoneQueue, pendingMsgs, waiting, qRest>>

-----------------------------------------------------------------------------
(* outHandler.                                                             *)
oRest == <<outputQueue, pendingMsgs, waiting, queuePc, inPc, stallPc, callers, queued>>

TakeMsg ==
    /\ outPc = "run" /\ sendQueue # <<>>
    /\ outMsg' = Head(sendQueue) /\ sendQueue' = Tail(sendQueue)
    /\ outPc' = "control"
    /\ UNCHANGED <<quit, sendDoneQueue, stallControl, written, signalled, remoteVars, oRest>>

SendControl(next) ==
    /\ Len(stallControl) < 1
    /\ stallControl' = Append(stallControl, IF outMsg \in Requests THEN "sent" ELSE "other")
    /\ outPc' = next
    /\ UNCHANGED <<quit, sendQueue, sendDoneQueue, outMsg, written, signalled, remoteVars, oRest>>

(* writeMessage: nothing happens when the peer is disconnecting; a write   *)
(* can fail, and then no more are asked for.                               *)
WriteMessage(next) ==
    /\ \/ /\ quit /\ outPc' = next /\ UNCHANGED <<quit, written, asked>>
       \/ /\ ~quit /\ outPc' = next
          /\ written' = Append(written, outMsg)
          /\ asked' = IF outMsg \in Requests THEN asked \cup {outMsg} ELSE asked
          /\ UNCHANGED quit
       \/ outPc' = "failed" /\ quit' = TRUE /\ UNCHANGED <<written, asked>>
    /\ UNCHANGED <<sendQueue, sendDoneQueue, stallControl, outMsg, signalled, pendingResponse, excused, answers, oRest>>

(* The deadline is announced before the request is written, so that no     *)
(* answer can come before it.                                              *)
ControlThenWrite ==
    \/ outPc = "control" /\ SendControl("write")
    \/ outPc = "write" /\ WriteMessage("signal")

(* Whom the end of a write wakes, failed or not.                           *)
Wakes == {outMsg}

(* The end of a write that went well.                                      *)
WriteDone ==
    /\ outPc = "signal" /\ sendDoneQueue < 1
    /\ Signal({outMsg})
    /\ sendDoneQueue' = sendDoneQueue + 1
    /\ outPc' = "run" /\ outMsg' = NoMsg
    /\ UNCHANGED <<quit, sendQueue, stallControl, written, remoteVars, oRest>>

WriteFailed ==
    /\ outPc = "failed"
    /\ Signal(Wakes)
    /\ outPc' = "run" /\ outMsg' = NoMsg
    /\ UNCHANGED <<quit, sendQueue, sendDoneQueue, stallControl, written, remoteVars, oRest>>

OutQuits ==
    /\ outPc = "run" /\ quit
    /\ outPc' = "drain"
    /\ UNCHANGED <<quit, sendQueue, sendDoneQueue, stallControl, outMsg, written, signalled, remoteVars, oRest>>

OutDrains ==
    /\ outPc = "drain" /\ queuePc = "done"
    /\ Signal(ToSet(sendQueue)) /\ sendQueue' = <<>>
    /\ outPc' = "done"
    /\ UNCHANGED <<quit, sendDoneQueue, stallControl, outMsg, written, remoteVars, oRest>>

-----------------------------------------------------------------------------
(* inHandler: read, tell stallHandler, handle, tell it again.              *)
iRest == <<outputQueue, sendQueue, sendDoneQueue, pendingMsgs, waiting, queuePc, outPc, stallPc,
           outMsg, queued, written, pendingResponse, excused, asked>>

ReadAnswer ==
    /\ inPc = "read" /\ answers > 0 /\ ~quit
    /\ answers' = answers - 1 /\ inPc' = "received"
    /\ UNCHANGED <<quit, stallControl, callers, signalled, iRest>>

Tell(pc, what, next) ==
    /\ inPc = pc /\ Len(stallControl) < 1
    /\ stallControl' = Append(stallControl, what) /\ inPc' = next
    /\ UNCHANGED <<quit, callers, signalled, answers, iRest>>

(* A malformed message: PushRejectMsg, and wait for it to be sent.         *)
PushRejectMsg(m) ==
    /\ inPc = "read" /\ m \in Rejects /\ ~Sent(m)
    /\ IF quit THEN Signal({m}) /\ UNCHANGED callers
       ELSE callers' = callers \cup {m} /\ UNCHANGED signalled
    /\ inPc' = "wait"
    /\ UNCHANGED <<quit, stallControl, answers, iRest>>

Waiter == CHOOSE m \in Rejects : TRUE

Woken ==
    /\ inPc = "wait" /\ signalled[Waiter] > 0
    /\ inPc' = "end"
    /\ UNCHANGED <<quit, stallControl, callers, signalled, answers, iRest>>

ReadFails ==
    /\ inPc = "read"
    /\ inPc' = "end"
    /\ UNCHANGED <<quit, stallControl, callers, signalled, answers, iRest>>

InEnds ==
    /\ inPc = "end"
    /\ inPc' = "done" /\ quit' = TRUE
    /\ UNCHANGED <<stallControl, callers, signalled, answers, iRest>>

-----------------------------------------------------------------------------
(* stallHandler.                                                           *)
sRest == <<outputQueue, sendQueue, sendDoneQueue, pendingMsgs, waiting, queuePc, outPc, inPc, outMsg,
           callers, queued, written, signalled, asked, answers>>

(* maybeAddDeadline, or an answer.  The requests of a class share one      *)
(* deadline, and the first answer of the class removes it for them all.    *)
Deadline(msg) == (pendingResponse /\ msg # "received") \/ msg = "sent"

Announced == asked \cup (IF outPc = "write" THEN {outMsg} \cap Requests ELSE {})

ControlMsg ==
    /\ stallPc \in {"run", "half"} /\ stallControl # <<>>
    /\ pendingResponse' = Deadline(Head(stallControl))
    /\ excused' = IF pendingResponse /\ Head(stallControl) = "received"
                  THEN excused \cup Announced ELSE excused
    /\ stallControl' = Tail(stallControl)
    /\ UNCHANGED <<quit, stallPc, sRest>>

(* A tick after the deadline.                                              *)
StallTick ==
    /\ stallPc \in {"run", "half"} /\ pendingResponse /\ ~quit
    /\ quit' = TRUE
    /\ UNCHANGED <<stallControl, stallPc, pendingResponse, excused, sRest>>

(* inQuit or outQuit is closed; either may be received from twice.         *)
StallQuits ==
    /\ stallPc \in {"run", "half"} /\ (inPc = "done" \/ outPc = "done")
    /\ stallPc' = IF stallPc = "run" THEN "half" ELSE "done"
    /\ stallControl' = IF stallPc = "half" THEN <<>> ELSE stallControl
    /\ UNCHANGED <<quit, pendingResponse, excused, sRest>>

(* The remote peer.                                                        *)
Answers(m) ==
    /\ m \in asked
    /\ asked' = asked \ {m} /\ excused' = excused \ {m} /\ answers' = answers + 1
    /\ UNCHANGED <<quit, outputQueue, sendQueue, sendDoneQueue, stallControl, ioVars, callers, queued,
                   written, signalled, pendingResponse>>

-----------------------------------------------------------------------------
HandlerSteps ==
    \/ \E m \in Msgs : QueueMessage(m)
    \/ queuePacket
    \/ SendNext
    \/ QueueQuits
    \/ QueueDrains
    \/ TakeMsg
    \/ ControlThenWrite
    \/ WriteDone
    \/ WriteFailed
    \/ OutQuits
    \/ OutDrains
    \/ Tell("received", "received", "start")
    \/ Tell("start", "other", "handled")
    \/ Tell("handled", "other", "read")
    \/ Woken
    \/ InEnds
    \/ ControlMsg

PeerNext ==
    \/ HandlerSteps
    \/ \E m \in Msgs : CallerFindsConnected(m)
    \/ Disconnect
    \/ ReadAnswer
    \/ \E m \in Rejects : PushRejectMsg(m)
    \/ ReadFails
    \/ StallTick
    \/ StallQuits
    \/ \E m \in Msgs : Answers(m)

(* Goroutines that can run do; a timer that was set fires; a read of a     *)
(* closed connection returns; select, which picks at random, does not pass *)
(* over a closed channel for ever.  Nothing is assumed of the remote peer  *)
(* or of callers.                                                          *)
PeerFairness ==
    /\ WF_peerVars(HandlerSteps)
    /\ WF_peerVars(quit /\ ReadFails)
    /\ WF_peerVars(StallTick)
    /\ SF_peerVars(QueueQuits) /\ SF_peerVars(OutQuits) /\ SF_peerVars(StallQuits)

-----------------------------------------------------------------------------
(* Of all messages, one at most is between queueHandler and outHandler     *)
(* (in sendQueue, being written, or done and not yet reported), so that    *)
(* neither ever blocks on the other's channel, and messages leave in the   *)
(* order in which callers queued them.                                     *)
OneInFlight ==
    /\ Len(sendQueue) + (IF outPc \in {"control", "write", "signal"} THEN 1 ELSE 0) + sendDoneQueue <= 1
    /\ IsPrefix(written, queued)

(* A done channel, which has room for one signal, is never sent to twice   *)
(* by the several places that signal it: a signal too many would block     *)
(* outHandler or queueHandler for good.  And one that waits has its        *)
(* message on the way: with its caller, in a channel, in the list, or in   *)
(* the hands of outHandler.                                                *)
SignalledOnce ==
    \A m \in Rejects :
        /\ signalled[m] <= 1
        /\ Sent(m) /\ signalled[m] = 0 =>
             m \in callers \cup ToSet(outputQueue) \cup ToSet(pendingMsgs) \cup ToSet(sendQueue) \cup {outMsg}

(* A deadline stands only for a request whose answer stallHandler has not  *)
(* been told of: a peer that answers is never taken for a stalled one      *)
(* because its answer overtook the request's own bookkeeping.              *)
DeadlinesAreOwed ==
    pendingResponse =>
        \/ asked # {} \/ answers > 0 \/ inPc = "received" \/ "received" \in ToSet(stallControl)
        \/ outPc \in {"write", "signal", "failed"} \/ quit

(* A message that was queued behind queueHandler's last look at the        *)
(* channel, or a send to stallHandler after its last look.                 *)
LostWaiter == queuePc = "done" /\ \E m \in Rejects : m \in callers \cup ToSet(outputQueue)
LostControl == stallPc = "done" /\ (outPc \in {"control", "write"} \/ inPc \in {"received", "start", "handled"})

(* After Disconnect every goroutine of the peer ends, but for the two      *)
(* races above.                                                            *)
PeerWindsDown ==
    quit ~> (LostWaiter \/ LostControl
             \/ (queuePc = "done" /\ outPc = "done" /\ inPc = "done" /\ stallPc = "done"))

(* A request that is written and never answered costs the peer its         *)
(* connection, unless an answer to another request of its class came after *)
(* it was announced to stallHandler: the class has one deadline, and that  *)
(* answer removes it.                                                      *)
StalledPeersLeave ==
    \A m \in Requests : m \in asked ~> (quit \/ m \notin asked \/ m \in excused)

=============================================================================
