----------------------------- MODULE MCRpcClient -----------------------------
(***************************************************************************)
(* The RPC client with two connections, two requests of callers, and the   *)
(* registration a client had made before.                                  *)
(***************************************************************************)
EXTENDS RpcClient, TLC

CONSTANTS get, scan

\* A caller's request that is answered at once, and one that reports for long.
ReqSet == {get, scan}
Methods == get :> "get" @@ scan :> "rescan"

MCInit == NewClient

\* One request of a caller at a time.
CallerSends == \E id \in Reqs : (\A r \in Reqs : calls[r].st = "idle") /\ sendRequest(id)

MCNext ==
    \/ CallerSends
    \/ \E id \in Registers : sendRequest(id)
    \/ \E id \in Ids : sendPostRequest(id) \/ sendMessage(id) \/ QueuePost(id)
    \/ UserDisconnect \/ Lose \/ Shutdown \/ Fail \/ Execute
    \/ Notice \/ Dial \/ handleSendPostMessage \/ sendPostHandler
    \/ \E n \in Conns : Receive(n) \/ WriteMessage(n) \/ OutQuits(n) \/ Drain(n) \/ ReadMessage(n) \/ InQuits(n)
    \/ \E n \in Conns : Registered(n) \/ resendRequests(n) \/ Resend(n)

\* Every goroutine goes on when it can, and the server answers; callers, users
\* and the network need not.
ClientFair ==
    /\ \A id \in Ids : WF_clientVars(sendMessage(id) \/ QueuePost(id))
    /\ \A id \in Registers : WF_clientVars(sendRequest(id))
    /\ \A n \in Conns :
         /\ WF_clientVars(Receive(n)) /\ WF_clientVars(WriteMessage(n))
         /\ WF_clientVars(OutQuits(n)) /\ WF_clientVars(Drain(n))
         /\ WF_clientVars(ReadMessage(n)) /\ WF_clientVars(InQuits(n))
         /\ WF_clientVars(Registered(n) \/ resendRequests(n) \/ Resend(n))
    /\ WF_clientVars(Fail) /\ WF_clientVars(Execute) /\ WF_clientVars(Notice \/ Dial)
    /\ WF_clientVars(handleSendPostMessage \/ sendPostHandler)

Spec == MCInit /\ [][MCNext]_clientVars /\ ClientFair

-----------------------------------------------------------------------------
\* What leaves a request unanswered: an end of file, which wsInHandler takes
\* no notice of; an old wsOutHandler that empties the queue after the client
\* has reconnected; a registration that is refused after a reconnect.
LeftWaiting ==
    \/ link = "eof" \/ \E n \in Conns : outs[n].st = "drain" /\ n < conn
    \/ \E n \in Registers : answers[n] # << >> /\ answers[n][1] = "rpc"

\* Unless one of these happens, the future of every request but a rescan is
\* answered: by its reply, the reply to it sent again, or the shutdown.
RequestIsAnswered ==
    [](~LeftWaiting) =>
        \A r \in Reqs : (~Post /\ calls[r].st # "idle" /\ method(r) # "rescan") ~> (answers[r] # << >>)

\* After Shutdown every goroutine of the client ends (WaitForShutdown
\* returns), wherever the reconnect is.
ShutdownEnds ==
    shutdown ~> /\ reconnect = "off"
                /\ \A n \in Conns : /\ ins[n] # "run" /\ outs[n].st \in {"none", "done"}
                                    /\ resend[n].st \in {"none", "done"}

\* Callers get their answers, and Shutdown ends every goroutine.
ClientGoesOn == RequestIsAnswered /\ ShutdownEnds

=============================================================================
