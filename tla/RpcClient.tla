----------------------------- MODULE RpcClient ------------------------------
(***************************************************************************)
(* The RPC client's requests, goroutines and connections                   *)
(* (pkg/rpc/client/infrastructure.go).  A request is added to the list of  *)
(* the pending ones and queued; one goroutine writes the queue to the      *)
(* websocket, one reads replies and answers futures, one reconnects, and   *)
(* after a reconnect one registers for notifications again and sends what  *)
(* is pending again.  Connections are numbered; the disconnect channel of  *)
(* a connection has its number, so that the client is disconnected when    *)
(* the current one is closed.  In HTTP POST mode one goroutine sends the   *)
(* queue and answers.                                                      *)
(***************************************************************************)
EXTENDS Integers, Sequences, FiniteSets

CONSTANTS
    Reqs,           \* the requests of callers
    methodOf,       \* of each: "get", "notifyblocks" or "rescan"
    MaxConns,       \* bound: connections
    Modes           \* "reconnect", "once" (DisableAutoReconnect), "post"

ASSUME ClientAssumption ==
    /\ methodOf \in [Reqs -> {"get", "notifyblocks", "rescan"}]
    /\ Reqs \cap (1 .. MaxConns) = {}
    /\ MaxConns \in Nat \ {0} /\ Modes \subseteq {"reconnect", "once", "post"}

VARIABLES
    mode,
    calls,          \* per request, how far its sendRequest is, the connection it was
                    \* made on, and how many were then to send again what is pending
    answers,        \* per request, the responses sent on its channel
    requestList, sendChan,
    notifyBlocks,   \* the notification state
    conn,           \* the current connection
    link,           \* what it is: "open", "closed", or lost with "eof" or "reset"
    closed,         \* the disconnect channels that are closed
    failing,        \* Disconnect has still to answer what is pending
    shutdown,
    ins, outs,      \* the handlers started for each connection
    reconnect,      \* where wsReconnectHandler is
    resend,         \* where the resendRequests of each connection is
    wire, replies,  \* what is under way on the connection
    executed        \* how often the server has executed each request

clientVars == <<mode, calls, answers, requestList, sendChan, notifyBlocks, conn, link, closed, failing,
                shutdown, ins, outs, reconnect, resend, wire, replies, executed>>

Conns == 1 .. MaxConns

\* A connection's resendRequests registers with a request of its own, named
\* by the connection.
Registers == Conns \ {1}
Ids == Reqs \cup Registers
method(id) == IF id \in Registers THEN "notifyblocks" ELSE methodOf[id]

Idle == [st |-> "idle", at |-> 0, again |-> 0]
NoHandler == [st |-> "none", ch |-> 0, msg |-> << >>]
OutHandler(n) == [st |-> "select", ch |-> n, msg |-> << >>]
NoResend == [st |-> "none", left |-> << >>]

\* Groups of variables.
linkVars == <<link, closed, failing, wire, replies>>
callVars == <<calls, answers, requestList>>
handlerVars == <<ins, outs, reconnect, resend>>

disconnected == conn \in closed
Post == mode = "post"

\* New, and start.
NewClient ==
    /\ mode \in Modes
    /\ calls = [id \in Ids |-> Idle] /\ answers = [id \in Ids |-> << >>]
    /\ requestList = << >> /\ sendChan = << >>
    /\ notifyBlocks \in BOOLEAN /\ (Post => ~notifyBlocks)
    /\ conn = 1 /\ closed = {} /\ failing = FALSE /\ shutdown = FALSE
    /\ link = IF Post THEN "closed" ELSE "open"
    /\ ins = [n \in Conns |-> IF n = 1 /\ ~Post THEN "run" ELSE "none"]
    /\ outs = [n \in Conns |-> IF n = 1 THEN OutHandler(1) ELSE NoHandler]
    /\ reconnect = IF mode = "reconnect" THEN "wait" ELSE "off"
    /\ resend = [n \in Conns |-> NoResend]
    /\ wire = << >> /\ replies = << >>
    /\ executed = [id \in Ids |-> 0]

-----------------------------------------------------------------------------
\* Responses and the connection.
Answer(ids, err) == answers' = [id \in Ids |-> IF id \in ids THEN Append(answers[id], err) ELSE answers[id]]
Pending == {requestList[i] : i \in DOMAIN requestList}
removeAllRequests == requestList' = << >>

\* What is under way when the connection is closed is lost.
doDisconnect ==
    /\ closed' = closed \cup {conn} /\ link' = "closed"
    /\ wire' = << >> /\ replies' = << >>

\* The first half of Disconnect; the other is Fail.
Disconnect ==
    /\ doDisconnect
    /\ failing' = (failing \/ (mode = "once" /\ ~disconnected))

Fail ==
    /\ failing
    /\ failing' = FALSE /\ shutdown' = TRUE
    /\ Answer(Pending, "disconnect") /\ removeAllRequests
    /\ UNCHANGED <<mode, calls, sendChan, notifyBlocks, conn, link, closed, wire, replies, handlerVars, executed>>

\* The last connection of the bound stays where the client is to reconnect.
Spare == conn < MaxConns \/ mode = "once"

UserDisconnect ==
    /\ ~Post /\ ~disconnected /\ Spare
    /\ Disconnect
    /\ UNCHANGED <<mode, callVars, sendChan, notifyBlocks, conn, shutdown, handlerVars, executed>>

Shutdown ==
    /\ ~shutdown
    /\ shutdown' = TRUE
    /\ Answer(Pending, "shutdown") /\ removeAllRequests
    /\ IF Post THEN UNCHANGED linkVars ELSE doDisconnect /\ UNCHANGED failing
    /\ UNCHANGED <<mode, calls, sendChan, notifyBlocks, conn, handlerVars, executed>>

\* The resendRequests of other connections that have not copied the list yet.
ToCopy(id) == {n \in Conns \ {id} : resend[n].st \in {"register", "copy"}}
Called(id, st) == calls' = [calls EXCEPT ![id] = [st |-> st, at |-> conn, again |-> Cardinality(ToCopy(id))]]

\* The requests of a list that are not in gone, in their order.
Without(seq, gone) ==
    LET kept[i \in 0 .. Len(seq)] ==
            IF i = 0 THEN << >>
            ELSE IF seq[i] \in gone THEN kept[i - 1] ELSE Append(kept[i - 1], seq[i])
    IN  kept[Len(seq)]

-----------------------------------------------------------------------------
\* sendRequest of a caller, and of the registration after a reconnect.
addRequest(id) ==
    IF shutdown
    THEN Answer({id}, "shutdown") /\ Called(id, "done") /\ UNCHANGED requestList
    ELSE requestList' = Append(requestList, id) /\ Called(id, "send") /\ UNCHANGED answers

sendRequest(id) ==
    /\ ~Post /\ calls[id].st = "idle"
    /\ id \in Registers => resend[id].st = "register"
    /\ addRequest(id)
    /\ UNCHANGED <<mode, sendChan, notifyBlocks, conn, linkVars, shutdown, handlerVars, executed>>

\* The disconnect channel is one that was the current one since the request
\* was added; when it is closed and the queue has room either is chosen.
sendMessage(id) ==
    /\ calls[id].st = "send" /\ ~Post
    /\ \/ sendChan' = Append(sendChan, id)
       \/ (\E n \in calls[id].at .. conn : n \in closed) /\ UNCHANGED sendChan
    /\ calls' = [calls EXCEPT ![id].st = "done"]
    /\ UNCHANGED <<mode, answers, requestList, notifyBlocks, conn, linkVars, shutdown, handlerVars, executed>>

-----------------------------------------------------------------------------

\* wsOutHandler: the one of connection n, which writes to whatever is the
\* connection when it writes.
Receive(n) ==
    /\ outs[n].st = "select" /\ sendChan # << >> /\ ~Post
    /\ outs' = [outs EXCEPT ![n] = [st |-> "write", ch |-> outs[n].ch, msg |-> <<Head(sendChan)>>]]
    /\ sendChan' = Tail(sendChan)
    /\ UNCHANGED <<mode, callVars, notifyBlocks, conn, linkVars, shutdown, ins, reconnect, resend, executed>>

\* Writing to a connection the server has dropped may still succeed.
WriteMessage(n) ==
    /\ outs[n].st = "write"
    /\ \/ /\ link # "closed"
          /\ wire' = IF link = "open" THEN wire \o outs[n].msg ELSE wire
          /\ outs' = [outs EXCEPT ![n] = OutHandler(conn)]
          /\ UNCHANGED <<link, closed, failing, replies>>
       \/ /\ link # "open"
          /\ outs' = [outs EXCEPT ![n] = [st |-> "drain", ch |-> outs[n].ch, msg |-> << >>]]
          /\ Disconnect
    /\ UNCHANGED <<mode, callVars, sendChan, notifyBlocks, conn, shutdown, ins, reconnect, resend, executed>>

OutQuits(n) ==
    /\ outs[n].st = "select" /\ outs[n].ch \in closed /\ ~Post
    /\ outs' = [outs EXCEPT ![n].st = "drain"]
    /\ UNCHANGED <<mode, callVars, sendChan, notifyBlocks, conn, linkVars, shutdown, ins, reconnect, resend, executed>>

Drain(n) ==
    /\ outs[n].st = "drain" /\ ~Post
    /\ sendChan' = << >>
    /\ outs' = [outs EXCEPT ![n].st = "done"]
    /\ UNCHANGED <<mode, callVars, notifyBlocks, conn, linkVars, shutdown, ins, reconnect, resend, executed>>

-----------------------------------------------------------------------------
\* The server, and the network.
Execute ==
    /\ link = "open" /\ wire # << >>
    /\ LET id == Head(wire)
       IN  \E err \in {"none"} \cup (IF method(id) = "notifyblocks" THEN {"rpc"} ELSE {}) :
             /\ executed' = [executed EXCEPT ![id] = @ + 1]
             /\ replies' = Append(replies, [id |-> id, err |-> err])
    /\ wire' = Tail(wire)
    /\ UNCHANGED <<mode, callVars, sendChan, notifyBlocks, conn, link, closed, failing, shutdown, handlerVars>>

Lose ==
    /\ link = "open" /\ Spare
    /\ link' \in {"eof", "reset"} /\ wire' = << >>
    /\ UNCHANGED <<mode, callVars, sendChan, notifyBlocks, conn, closed, failing, replies, shutdown, handlerVars, executed>>

\* A mutant of removeRequest: the request stays.
KeepRequest(id) == requestList

removeRequest(id) == Without(requestList, {id})

\* A registration that failed is kept in the notification state too.
handleMessage(id, err) ==
    /\ requestList' = removeRequest(id)
    /\ IF id \notin Pending THEN UNCHANGED <<answers, notifyBlocks>>
       ELSE /\ Answer({id}, err)
            /\ notifyBlocks' = (notifyBlocks \/ method(id) = "notifyblocks")

\* wsInHandler: the one started for connection n reads whatever is the
\* connection.
ReadMessage(n) ==
    /\ ins[n] = "run" /\ replies # << >>
    /\ handleMessage(Head(replies).id, Head(replies).err)
    /\ replies' = Tail(replies)
    /\ UNCHANGED <<mode, calls, sendChan, conn, link, closed, failing, wire, shutdown, handlerVars, executed>>

\* An end of file is no reason to leave the loop.
InQuits(n) ==
    /\ ins[n] = "run" /\ (shutdown \/ link \in {"closed", "reset"})
    /\ ins' = [ins EXCEPT ![n] = "done"]
    /\ Disconnect
    /\ UNCHANGED <<mode, callVars, sendChan, notifyBlocks, conn, shutdown, outs, reconnect, resend, executed>>

-----------------------------------------------------------------------------
\* wsReconnectHandler.  The shutdown is looked at before dialing.
Notice ==
    /\ \/ reconnect \in {"wait", "loop"} /\ shutdown /\ reconnect' = "off"
       \/ reconnect = "wait" /\ disconnected /\ reconnect' = "loop"
       \/ reconnect = "loop" /\ ~shutdown /\ reconnect' = "dial"
    /\ UNCHANGED <<mode, callVars, sendChan, notifyBlocks, conn, linkVars, shutdown, ins, outs, resend, executed>>

\* Dialing fails until the shutdown is seen, or it succeeds.
Dial ==
    /\ reconnect = "dial"
    /\ \/ /\ shutdown /\ reconnect' = "off"
          /\ UNCHANGED <<conn, link, ins, outs, resend>>
       \/ /\ conn < MaxConns
          /\ conn' = conn + 1 /\ reconnect' = "wait" /\ link' = "open"
          /\ ins' = [ins EXCEPT ![conn + 1] = "run"]
          /\ outs' = [outs EXCEPT ![conn + 1] = OutHandler(conn + 1)]
          /\ resend' = [resend EXCEPT ![conn + 1].st = IF notifyBlocks THEN "register" ELSE "copy"]
    /\ UNCHANGED <<mode, callVars, sendChan, notifyBlocks, closed, failing, wire, replies, shutdown, executed>>

\* reregisterNtfns has its answer.
Registered(n) ==
    /\ resend[n].st = "register" /\ answers[n] # << >>
    /\ IF answers[n][1] = "none"
       THEN resend' = [resend EXCEPT ![n].st = "copy"] /\ UNCHANGED linkVars
       ELSE resend' = [resend EXCEPT ![n].st = "done"] /\ Disconnect
    /\ UNCHANGED <<mode, callVars, sendChan, notifyBlocks, conn, shutdown, ins, outs, reconnect, executed>>

\* A mutant of resendRequests: nothing is sent again.
ResendNothing(n) ==
    /\ resend[n].st = "copy" /\ resend' = [resend EXCEPT ![n].st = "done"]
    /\ UNCHANGED <<mode, callVars, sendChan, notifyBlocks, conn, linkVars, shutdown, ins, outs, reconnect, executed>>

\* A rescan is dropped, and nobody tells its caller.
resendRequests(n) ==
    /\ resend[n].st = "copy"
    /\ requestList' = Without(requestList, {id \in Ids : method(id) = "rescan"})
    /\ resend' = [resend EXCEPT ![n] = [st |-> "send", left |-> requestList']]
    /\ UNCHANGED <<mode, calls, answers, sendChan, notifyBlocks, conn, linkVars, shutdown, ins, outs, reconnect, executed>>

Resend(n) ==
    /\ resend[n].st = "send"
    /\ IF disconnected \/ resend[n].left = << >>
       THEN resend' = [resend EXCEPT ![n] = [st |-> "done", left |-> << >>]] /\ UNCHANGED sendChan
       ELSE /\ sendChan' = Append(sendChan, Head(resend[n].left))
            /\ resend' = [resend EXCEPT ![n].left = Tail(@)]
    /\ UNCHANGED <<mode, callVars, notifyBlocks, conn, linkVars, shutdown, ins, outs, reconnect, executed>>

-----------------------------------------------------------------------------
\* HTTP POST mode.  After the answer that the client shuts down the request
\* is queued all the same.
sendPostRequest(id) ==
    /\ Post /\ id \in Reqs /\ calls[id].st = "idle"
    /\ IF shutdown THEN Answer({id}, "shutdown") ELSE UNCHANGED answers
    /\ Called(id, "send")
    /\ UNCHANGED <<mode, requestList, sendChan, notifyBlocks, conn, linkVars, shutdown, handlerVars, executed>>

QueuePost(id) ==
    /\ Post /\ calls[id].st = "send"
    /\ sendChan' = Append(sendChan, id)
    /\ calls' = [calls EXCEPT ![id].st = "done"]
    /\ UNCHANGED <<mode, answers, requestList, notifyBlocks, conn, linkVars, shutdown, handlerVars, executed>>

handleSendPostMessage ==
    /\ Post /\ outs[1].st = "select" /\ sendChan # << >>
    /\ \E err \in {"none", "rpc"} : Answer({Head(sendChan)}, err)
    /\ executed' = [executed EXCEPT ![Head(sendChan)] = @ + 1]
    /\ sendChan' = Tail(sendChan)
    /\ UNCHANGED <<mode, calls, requestList, notifyBlocks, conn, linkVars, shutdown, handlerVars>>

\* Once the channel is drained the handler is done.
sendPostHandler ==
    /\ Post /\ shutdown
    /\ \/ outs[1].st = "select" /\ outs' = [outs EXCEPT ![1].st = "drain"] /\ UNCHANGED <<answers, sendChan>>
       \/ /\ outs[1].st = "drain" /\ sendChan # << >>
          /\ Answer({Head(sendChan)}, "shutdown") /\ sendChan' = Tail(sendChan) /\ UNCHANGED outs
       \/ /\ outs[1].st = "drain" /\ sendChan = << >>
          /\ outs' = [outs EXCEPT ![1].st = "done"] /\ UNCHANGED <<answers, sendChan>>
    /\ UNCHANGED <<mode, calls, requestList, notifyBlocks, conn, linkVars, shutdown, ins, reconnect, resend, executed>>

-----------------------------------------------------------------------------
ClientNext ==
    \/ \E id \in Ids : sendRequest(id) \/ sendPostRequest(id) \/ sendMessage(id) \/ QueuePost(id)
    \/ UserDisconnect \/ Lose \/ Shutdown \/ Fail \/ Execute
    \/ Notice \/ Dial \/ handleSendPostMessage \/ sendPostHandler
    \/ \E n \in Conns : Receive(n) \/ WriteMessage(n) \/ OutQuits(n) \/ Drain(n) \/ ReadMessage(n) \/ InQuits(n)
    \/ \E n \in Conns : Registered(n) \/ resendRequests(n) \/ Resend(n)

ClientSpec == NewClient /\ [][ClientNext]_clientVars

\* On a websocket a future gets one answer (Receive waits for one), whatever
\* is sent again and however the client is disconnected or shut down.
AnsweredOnce == ~Post => \A id \in Ids : Len(answers[id]) <= 1

\* The server executes a request at most once, and once more for each
\* resendRequests that copies the list of the pending ones after the request
\* was made: of the connections made since, and of those before it that had
\* not come to it.  Nothing else repeats a command such as sendtoaddress.
RepeatedOnlyByReconnects ==
    \A id \in Ids :
        executed[id] <= IF calls[id].st = "idle" THEN 0 ELSE 1 + calls[id].again + (conn - calls[id].at)

\* No future is answered twice, and no command runs twice but for a reconnect.
NothingTwice == AnsweredOnce /\ RepeatedOnlyByReconnects

=============================================================================
