------------------------------ MODULE WsClient ------------------------------
(***************************************************************************)
(* One websocket client of the RPC server (WSClient in                     *)
(* cmd/node/rpc/rpcwebsocket.go): the goroutines that read its requests,   *)
(* queue its notifications and write both, the goroutines that serve       *)
(* requests, and the notification manager, which queues notifications as   *)
(* a rescan that serves a request does.  A channel is the sequence it      *)
(* holds.  A notification is <<who queued it, its number>>.                *)
(***************************************************************************)
EXTENDS Integers, Sequences, SequencesExt, FiniteSets

CONSTANTS
    Servers,        \* the goroutines that may serve requests at once
    WebsocketSendBufferSize,
    MaxNtfns,       \* bound: how many notifications of the manager and of each server
    MaxRequests     \* bound: requests read

ASSUME WsClientAssumption ==
    /\ IsFiniteSet(Servers) /\ "manager" \notin Servers
    /\ WebsocketSendBufferSize \in Nat /\ MaxRequests \in Nat /\ MaxNtfns \in [{"manager"} \cup Servers -> Nat]
    \* Everyone who has seen the client connected finds room for a reply.
    /\ Cardinality(Servers) + 2 <= WebsocketSendBufferSize

VARIABLES
    Disconnected,   \* and Quit is closed with it
    lost,           \* the network has dropped the connection
    NtfnChan, SendChan, ntfnSentChan,
    notifier,       \* of the manager and each server, where its QueueNotification is
    serving,        \* what each server does
    ntfnQueue,      \* NotificationQueueHandler
    outHandler, inHandler,
    removed,        \* RemoveClient has been called
    queued, received, \* histories: what was queued, and what was written
    requests        \* how many requests were read

wsVars == <<Disconnected, lost, NtfnChan, SendChan, ntfnSentChan, notifier, serving, ntfnQueue, outHandler,
            inHandler, removed, queued, received, requests>>

Notifiers == {"manager"} \cup Servers
chanVars == <<NtfnChan, SendChan, ntfnSentChan>>
handlers == <<serving, ntfnQueue, outHandler, inHandler, removed>>
history == <<queued, received, requests>>

Response(msg, done) == [Msg |-> msg, DoneChan |-> done]
Reply == Response(<< >>, FALSE)

\* NewWebsocketClient, AddClient and Start.
NewWebsocketClient ==
    /\ Disconnected = FALSE /\ lost = FALSE /\ removed = FALSE
    /\ NtfnChan = << >> /\ SendChan = << >> /\ ntfnSentChan = << >>
    /\ notifier = [p \in Notifiers |-> [st |-> "idle", n |-> 0]]
    /\ serving = [s \in Servers |-> "none"]
    /\ ntfnQueue = [st |-> "select", msg |-> << >>, pendingNtfns |-> << >>, waiting |-> FALSE]
    /\ outHandler = [st |-> "select", r |-> Reply] /\ inHandler = "read"
    /\ queued = << >> /\ received = << >> /\ requests = 0

\* A mutant: the connection closed, and not the channel.
CloseOnly == lost' = TRUE /\ UNCHANGED Disconnected

WSDisconnect == Disconnected' = TRUE /\ UNCHANGED lost

WSLose ==
    /\ ~lost /\ lost' = TRUE
    /\ UNCHANGED <<Disconnected, chanVars, notifier, handlers, history>>

-----------------------------------------------------------------------------
\* QueueNotification looks whether the client is there, and then waits for
\* room in the channel.
QueueNotification(p) ==
    /\ notifier[p].st = "idle" /\ notifier[p].n < MaxNtfns[p]
    /\ p \in Servers => serving[p] = "serve"
    /\ notifier' = [notifier EXCEPT ![p] = [st |-> IF Disconnected THEN "idle" ELSE "push", n |-> @.n + 1]]
    /\ UNCHANGED <<Disconnected, lost, chanVars, handlers, history>>

PushNtfn(p) ==
    /\ notifier[p].st = "push" /\ NtfnChan = << >>
    /\ NtfnChan' = <<<<p, notifier[p].n>>>> /\ queued' = Append(queued, <<p, notifier[p].n>>)
    /\ notifier' = [notifier EXCEPT ![p].st = "idle"]
    /\ UNCHANGED <<Disconnected, lost, SendChan, ntfnSentChan, handlers, received, requests>>

-----------------------------------------------------------------------------
\* NotificationQueueHandler.
TakeNtfn ==
    /\ ntfnQueue.st = "select" /\ NtfnChan # << >>
    /\ ntfnQueue' = IF ntfnQueue.waiting
                    THEN [ntfnQueue EXCEPT !.pendingNtfns = @ \o NtfnChan]
                    ELSE [ntfnQueue EXCEPT !.st = "check", !.msg = Head(NtfnChan), !.waiting = TRUE]
    /\ NtfnChan' = << >>
    /\ UNCHANGED <<Disconnected, lost, SendChan, ntfnSentChan, notifier, serving, outHandler, inHandler, removed, history>>

NextPending ==
    LET q == ntfnQueue.pendingNtfns
    IN  [ntfnQueue EXCEPT !.st = "check", !.msg = Head(q), !.pendingNtfns = Tail(q)]

TakeSent ==
    /\ ntfnQueue.st = "select" /\ ntfnSentChan # << >>
    /\ ntfnQueue' = IF ntfnQueue.pendingNtfns = << >> THEN [ntfnQueue EXCEPT !.waiting = FALSE] ELSE NextPending
    /\ ntfnSentChan' = Tail(ntfnSentChan)
    /\ UNCHANGED <<Disconnected, lost, NtfnChan, SendChan, notifier, serving, outHandler, inHandler, removed, history>>

\* SendMessage: the look, and the send.  ntfnSentChan has room for one.
SendNtfn ==
    /\ \/ /\ ntfnQueue.st = "check" /\ ~Disconnected
          /\ ntfnQueue' = [ntfnQueue EXCEPT !.st = "send"] /\ UNCHANGED <<SendChan, ntfnSentChan>>
       \/ /\ ntfnQueue.st = "check" /\ Disconnected /\ ntfnSentChan = << >>
          /\ ntfnSentChan' = <<FALSE>>
          /\ ntfnQueue' = [ntfnQueue EXCEPT !.st = "select"] /\ UNCHANGED SendChan
       \/ /\ ntfnQueue.st = "send" /\ Len(SendChan) < WebsocketSendBufferSize
          /\ SendChan' = Append(SendChan, Response(ntfnQueue.msg, TRUE))
          /\ ntfnQueue' = [ntfnQueue EXCEPT !.st = "select"] /\ UNCHANGED ntfnSentChan
    /\ UNCHANGED <<Disconnected, lost, NtfnChan, notifier, serving, outHandler, inHandler, removed, history>>

\* Once Quit is closed the channels are emptied, until both are.
QuitNtfns ==
    /\ Disconnected
    /\ \/ /\ ntfnQueue.st = "select" /\ ntfnQueue' = [ntfnQueue EXCEPT !.st = "cleanup"]
          /\ UNCHANGED <<NtfnChan, ntfnSentChan>>
       \/ /\ ntfnQueue.st = "cleanup" /\ NtfnChan \o ntfnSentChan # << >>
          /\ NtfnChan' = << >> /\ ntfnSentChan' = << >> /\ UNCHANGED ntfnQueue
       \/ /\ ntfnQueue.st = "cleanup" /\ NtfnChan \o ntfnSentChan = << >>
          /\ ntfnQueue' = [ntfnQueue EXCEPT !.st = "done"] /\ UNCHANGED <<NtfnChan, ntfnSentChan>>
    /\ UNCHANGED <<Disconnected, lost, SendChan, notifier, serving, outHandler, inHandler, removed, history>>

-----------------------------------------------------------------------------
\* OutHandler.
TakeMessage ==
    /\ outHandler.st = "select" /\ SendChan # << >>
    /\ outHandler' = [st |-> "write", r |-> Head(SendChan)]
    /\ SendChan' = Tail(SendChan)
    /\ UNCHANGED <<Disconnected, lost, NtfnChan, ntfnSentChan, notifier, serving, ntfnQueue, inHandler, removed, history>>

WSWrite ==
    /\ outHandler.st = "write"
    /\ \/ /\ ~Disconnected /\ ~lost
          /\ IF outHandler.r.DoneChan
             THEN /\ ntfnSentChan = << >> /\ ntfnSentChan' = <<TRUE>>
                  /\ received' = Append(received, outHandler.r.Msg)
             ELSE UNCHANGED <<ntfnSentChan, received>>
          /\ outHandler' = [st |-> "select", r |-> Reply]
          /\ UNCHANGED <<Disconnected, lost>>
       \/ /\ Disconnected \/ lost
          /\ WSDisconnect
          /\ outHandler' = [st |-> "cleanup", r |-> Reply] /\ UNCHANGED <<ntfnSentChan, received>>
    /\ UNCHANGED <<NtfnChan, SendChan, notifier, serving, ntfnQueue, inHandler, removed, queued, requests>>

QuitOut ==
    /\ \/ /\ outHandler.st = "select" /\ Disconnected
          /\ outHandler' = [outHandler EXCEPT !.st = "cleanup"] /\ UNCHANGED <<SendChan, ntfnSentChan>>
       \/ /\ outHandler.st = "cleanup" /\ SendChan # << >>
          /\ IF Head(SendChan).DoneChan THEN ntfnSentChan = << >> /\ ntfnSentChan' = <<FALSE>> ELSE UNCHANGED ntfnSentChan
          /\ SendChan' = Tail(SendChan) /\ UNCHANGED outHandler
       \/ /\ outHandler.st = "cleanup" /\ SendChan = << >>
          /\ outHandler' = [outHandler EXCEPT !.st = "done"] /\ UNCHANGED <<SendChan, ntfnSentChan>>
    /\ UNCHANGED <<Disconnected, lost, NtfnChan, notifier, serving, ntfnQueue, inHandler, removed, history>>

-----------------------------------------------------------------------------
\* InHandler: a request is refused and answered at once, ignored, ends the
\* connection (its authentication failed), or waits for a server.
WSRead ==
    /\ inHandler = "read" /\ ~Disconnected /\ ~lost /\ requests < MaxRequests
    /\ requests' = requests + 1
    /\ inHandler' \in {"reply", "read", "quit", "acquire"}
    /\ UNCHANGED <<Disconnected, lost, chanVars, notifier, serving, ntfnQueue, outHandler, removed, queued, received>>

ReplyAtOnce ==
    /\ \/ /\ inHandler = "reply" /\ inHandler' = (IF Disconnected THEN "read" ELSE "send") /\ UNCHANGED SendChan
       \/ /\ inHandler = "send" /\ Len(SendChan) < WebsocketSendBufferSize
          /\ SendChan' = Append(SendChan, Reply) /\ inHandler' = "read"
    /\ UNCHANGED <<Disconnected, lost, NtfnChan, ntfnSentChan, notifier, serving, ntfnQueue, outHandler, removed, history>>

Acquire(s) ==
    /\ inHandler = "acquire" /\ serving[s] = "none"
    /\ serving' = [serving EXCEPT ![s] = "serve"] /\ inHandler' = "read"
    /\ UNCHANGED <<Disconnected, lost, chanVars, notifier, ntfnQueue, outHandler, removed, history>>

QuitIn ==
    /\ inHandler = "quit" \/ (inHandler = "read" /\ (Disconnected \/ lost))
    /\ inHandler' = "done" /\ WSDisconnect
    /\ UNCHANGED <<chanVars, notifier, serving, ntfnQueue, outHandler, removed, history>>

\* ServiceRequest, and the release of the semaphore.
ServiceRequest(s) ==
    /\ notifier[s].st = "idle"
    /\ \/ /\ serving[s] = "serve" /\ serving' = [serving EXCEPT ![s] = IF Disconnected THEN "none" ELSE "send"]
          /\ UNCHANGED SendChan
       \/ /\ serving[s] = "send" /\ Len(SendChan) < WebsocketSendBufferSize
          /\ SendChan' = Append(SendChan, Reply) /\ serving' = [serving EXCEPT ![s] = "none"]
    /\ UNCHANGED <<Disconnected, lost, NtfnChan, ntfnSentChan, notifier, ntfnQueue, outHandler, inHandler, removed, history>>

\* WebsocketHandler, once WaitForShutdown returns.
WebsocketHandler ==
    /\ ~removed /\ inHandler = "done" /\ outHandler.st = "done" /\ ntfnQueue.st = "done"
    /\ removed' = TRUE
    /\ UNCHANGED <<Disconnected, lost, chanVars, notifier, serving, ntfnQueue, outHandler, inHandler, history>>

=============================================================================
