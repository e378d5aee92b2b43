------------------------ MODULE ClientSession_proofs ------------------------
(***************************************************************************)
(* Theorems about ClientSession, for any sets of requests, calls and       *)
(* connector tokens.                                                       *)
(***************************************************************************)
EXTENDS ClientSession, SequenceTheorems, TLAPS

(***************************************************************************)
(* The events, and what the loop has set up before it runs.                *)
(***************************************************************************)
AttemptHasWebsocket == loop \in {"login", "starting", "running", "closing"} => websocket

EventsInv == EventsFollowLoop /\ AttemptHasWebsocket

loopVars == <<loop, websocket, connected, disconnected, request>>

(* What leaves the loop, its flags and the requests alone.                 *)
LEMMA EventsFrame == EventsInv /\ UNCHANGED loopVars => EventsInv'
  BY DEF EventsInv, EventsFollowLoop, AttemptHasWebsocket, loopVars

(* Nothing is connected before the first attempt (client.py:78-131).       *)
LEMMA EventsInit == ClientInit => EventsInv
  BY DEF ClientInit, EventsInv, EventsFollowLoop, AttemptHasWebsocket

(* The finally block resets everything (client.py:480-483).                *)
LEMMA LeaveResets ==
  ASSUME LeaveAttempt
  PROVE  /\ ~websocket' /\ ~connected' /\ disconnected'
         /\ \A r \in Requests : request'[r] # "current"
  BY DEF LeaveAttempt

(* A step into "connecting" or "ended" through the finally block.          *)
LEMMA EventsLeave ==
  ASSUME LeaveAttempt, loop' \in {"connecting", "ended"}
  PROVE  EventsInv'
  BY LeaveResets DEF EventsInv, EventsFollowLoop, AttemptHasWebsocket

(* The except clauses: sleep with everything as it is, or leave            *)
(* (client.py:462-478).                                                    *)
LEMMA EventsRetry ==
  ASSUME EventsInv, loop \in {"connecting", "login"}, RetryOrExit
  PROVE  EventsInv'
<1>1. CASE loop' = "sleeping" /\ UNCHANGED <<websocket, connected, disconnected, request>>
  BY <1>1 DEF EventsInv, EventsFollowLoop, AttemptHasWebsocket
<1>2. CASE EndLoop
  BY <1>2, EventsLeave DEF EndLoop
<1> QED
  BY <1>1, <1>2 DEF RetryOrExit

(* Requests take the connection while there is one (client.py:221-228).    *)
LEMMA EventsRequest ==
  ASSUME EventsInv, NEW r \in Requests, NEW v, SetRequest(r, v),
         v = "current" => websocket
  PROVE  EventsInv'
<1>1. UNCHANGED <<loop, websocket, connected, disconnected>>
  BY DEF SetRequest, sessionVars
<1>2. request' = [request EXCEPT ![r] = v]
  BY DEF SetRequest
<1> QED
  BY <1>1, <1>2 DEF EventsInv, EventsFollowLoop, AttemptHasWebsocket

(* Every step keeps the events in line with the loop (client.py:358-491).  *)
LEMMA EventsNext ==
  ASSUME EventsInv, [ClientNext]_clientVars
  PROVE  EventsInv'
<1>1. CASE ConnectRaises
  BY <1>1, EventsRetry DEF ConnectRaises
<1>2. CASE ConnectOk
  BY <1>2 DEF ConnectOk, EventsInv, EventsFollowLoop, AttemptHasWebsocket
<1>3. CASE LoginOk
  BY <1>3 DEF LoginOk, StartTasks, EventsInv, EventsFollowLoop, AttemptHasWebsocket
<1>4. CASE LoginDenied
  BY <1>4, EventsLeave DEF LoginDenied, EndLoop
<1>5. CASE LoginFails
  BY <1>5, EventsRetry DEF LoginFails
<1>6. CASE SocksServerAwaited
  BY <1>6 DEF SocksServerAwaited, StartTasks, EventsInv, EventsFollowLoop, AttemptHasWebsocket
<1>7. CASE RunEnds \/ HeartbeatTimeout
  BY <1>7 DEF RunEnds, HeartbeatTimeout, StopTasks, EventsInv, EventsFollowLoop,
              AttemptHasWebsocket
<1>8. CASE CloseReturns \/ SleepOver
  BY <1>8, EventsLeave DEF CloseReturns, SleepOver
<1>9. CASE LinkLost \/ TokenRemoved
  BY <1>9, EventsFrame DEF LinkLost, TokenRemoved, loopVars
<1>10. CASE \E t \in {"early", "login"} : RunSocksServer(t)
  BY <1>10, EventsFrame DEF RunSocksServer, loopVars, sessionVars
<1>11. ASSUME NEW r \in Requests, Accept(r) \/ TakeWebsocket(r) \/ Refuse(r) \/ RequestEnds(r)
       PROVE  EventsInv'
  BY <1>11, EventsRequest DEF Accept, TakeWebsocket, Refuse, RequestEnds
<1>12. CASE \E q \in Calls : \/ \E op \in Operations, ct \in ConnTokens : CallSends(q, op, ct)
                             \/ CallReturns(q) \/ CallTimesOut(q)
  BY <1>12, EventsFrame DEF CallSends, CallReturns, CallTimesOut, Return, loopVars, sessionVars
<1>13. CASE ServerHandles \/ Dispatch
  BY <1>13, EventsFrame DEF ServerHandles, Dispatch, loopVars, sessionVars
<1>14. CASE UNCHANGED clientVars
  BY <1>14, EventsFrame DEF clientVars, loopVars, sessionVars
<1> QED
  BY <1>1, <1>2, <1>3, <1>4, <1>5, <1>6, <1>7, <1>8, <1>9, <1>10, <1>11, <1>12, <1>13, <1>14
  DEF ClientNext

(* EventsFollowLoop: whoever finds `connected` set finds the connection    *)
(* of the session that runs, and nothing of an attempt outlives it         *)
(* (client.py:432, 480).                                                   *)
THEOREM EventsTheorem == ClientSpec => []EventsFollowLoop
<1>1. EventsInv => EventsFollowLoop
  BY DEF EventsInv
<1> QED
  BY <1>1, EventsInit, EventsNext, PTL DEF ClientSpec
-----------------------------------------------------------------------------
(***************************************************************************)
(* The SOCKS server of a forward client: every login starts a server task, *)
(* and what it leaves behind is a listener or an error.                    *)
(***************************************************************************)
ServerKnown == "login" \in servers \/ listening \/ bindFailed

AwaitedServer ==
    ~config.reverse =>
        /\ loop \in {"login", "starting"} => ServerKnown
        /\ loop = "running" => listening \/ bindFailed

listenVars == <<config, loop, socksVars>>

(* There is no login yet.                                                  *)
LEMMA AwaitedInit == ClientInit => AwaitedServer
  BY DEF ClientInit, AwaitedServer

(* Only the loop moves, and not forward.                                   *)
LEMMA AwaitedFrame ==
  ASSUME AwaitedServer, UNCHANGED <<config, socksVars>>,
         loop' = loop \/ loop' \in {"connecting", "closing", "sleeping", "ended"}
  PROVE  AwaitedServer'
  BY DEF AwaitedServer, ServerKnown, socksVars

(* A server task ends with a listener, its own or an earlier one, or with  *)
(* the error of this login (client.py:145-219).                            *)
LEMMA AwaitedServerTask ==
  ASSUME AwaitedServer, NEW t \in {"early", "login"}, RunSocksServer(t)
  PROVE  AwaitedServer'
<1>1. config' = config /\ loop' = loop /\ servers' = servers \ {t}
  BY DEF RunSocksServer, sessionVars
<1>2. CASE t = "login"
  <2>1. listening' \/ bindFailed'
    BY <1>2 DEF RunSocksServer
  <2> QED
    BY <1>1, <2>1 DEF AwaitedServer, ServerKnown
<1>3. CASE t # "login"
  BY <1>1, <1>3 DEF AwaitedServer, ServerKnown, RunSocksServer
<1> QED
  BY <1>2, <1>3

(* The wait for the server task comes between the login and the running    *)
(* session (client.py:412-432).                                            *)
LEMMA AwaitedNext ==
  ASSUME AwaitedServer, [ClientNext]_clientVars
  PROVE  AwaitedServer'
<1>1. CASE ConnectRaises \/ LoginFails
  BY <1>1, AwaitedFrame DEF ConnectRaises, LoginFails, RetryOrExit, EndLoop
<1>2. CASE ConnectOk
  BY <1>2 DEF ConnectOk, AwaitedServer, ServerKnown
<1>3. CASE LoginOk
  BY <1>3 DEF LoginOk, StartTasks, AwaitedServer, ServerKnown, socksVars
<1>4. CASE LoginDenied
  BY <1>4, AwaitedFrame DEF LoginDenied, EndLoop
<1>5. CASE SocksServerAwaited
  BY <1>5 DEF SocksServerAwaited, StartTasks, AwaitedServer, ServerKnown, socksVars
<1>6. CASE RunEnds \/ HeartbeatTimeout
  BY <1>6, AwaitedFrame DEF RunEnds, HeartbeatTimeout, StopTasks
<1>7. CASE CloseReturns \/ SleepOver
  BY <1>7, AwaitedFrame DEF CloseReturns, SleepOver
<1>8. CASE LinkLost \/ TokenRemoved
  BY <1>8, AwaitedFrame DEF LinkLost, TokenRemoved
<1>9. CASE \E t \in {"early", "login"} : RunSocksServer(t)
  BY <1>9, AwaitedServerTask
<1>10. CASE \E r \in Requests : Accept(r) \/ TakeWebsocket(r) \/ Refuse(r) \/ RequestEnds(r)
  BY <1>10, AwaitedFrame
  DEF Accept, TakeWebsocket, Refuse, RequestEnds, SetRequest, sessionVars
<1>11. CASE \E q \in Calls : \/ \E op \in Operations, ct \in ConnTokens : CallSends(q, op, ct)
                             \/ CallReturns(q) \/ CallTimesOut(q)
  BY <1>11, AwaitedFrame DEF CallSends, CallReturns, CallTimesOut, Return, sessionVars
<1>12. CASE ServerHandles \/ Dispatch
  BY <1>12, AwaitedFrame DEF ServerHandles, Dispatch, sessionVars
<1>13. CASE UNCHANGED clientVars
  BY <1>13, AwaitedFrame DEF clientVars, sessionVars
<1> QED
  BY <1>1, <1>2, <1>3, <1>4, <1>5, <1>6, <1>7, <1>8, <1>9, <1>10, <1>11, <1>12, <1>13
  DEF ClientNext

(* RunningListens: a forward client that says it is connected has a        *)
(* listening SOCKS server or has failed to bind it (client.py:414).        *)
THEOREM ListensTheorem == ClientSpec => []RunningListens
<1>1. AwaitedServer => RunningListens
  BY DEF AwaitedServer, RunningListens
<1> QED
  BY <1>1, AwaitedInit, AwaitedNext, PTL DEF ClientSpec
-----------------------------------------------------------------------------
(* The loop of a client that reconnects is left by a refused login only.   *)
LEMMA EndStep ==
  ASSUME [ClientNext]_clientVars, config.reconnect, loop' = "ended", loop # "ended"
  PROVE  ~valid
<1>1. ~RetryOrExit
  BY DEF RetryOrExit
<1>2. UNCHANGED loop \/ loop' # "ended" \/ LoginDenied
  BY <1>1 DEF ClientNext, clientVars, sessionVars, ConnectRaises, ConnectOk, LoginOk, StartTasks,
    LoginFails, SocksServerAwaited, RunEnds, HeartbeatTimeout, StopTasks, CloseReturns, SleepOver,
    LinkLost, TokenRemoved, RunSocksServer, Accept, TakeWebsocket, Refuse, RequestEnds, SetRequest,
    CallSends, CallReturns, CallTimesOut, Return, ServerHandles, Dispatch
<1> QED
  BY <1>2 DEF LoginDenied

(* EndsForCause: a client that reconnects gives up only when its token is  *)
(* gone (client.py:451-478).                                               *)
THEOREM CauseTheorem == ClientSpec => EndsForCause
<1>1. [ClientNext]_clientVars
        => [config.reconnect /\ loop' = "ended" => loop = "ended" \/ ~valid]_clientVars
  BY EndStep
<1> QED
  BY <1>1, PTL DEF ClientSpec, EndsForCause
-----------------------------------------------------------------------------
(***************************************************************************)
(* Connector requests.  A request is in one place: on its way to the       *)
(* server, which has not handled it, or its result is recorded and any     *)
(* answer under way or in the queue is that result.                        *)
(***************************************************************************)
CallTypes ==
    /\ queues \in [Calls -> Seq(Results) \cup {None}]
    /\ call \in [Calls -> {"new", "waiting", "raised"} \cup Results]
    /\ did \in [Calls -> Results \cup {None}]
    /\ toServer \in Seq(Calls \X Operations \X ConnTokens)
    /\ toClient \in Seq(Calls \X Results)

RequestsArePending ==
    /\ \A q \in Calls : call[q] = "new" => did[q] = None
    /\ \A i \in DOMAIN toServer : LET q == toServer[i][1] IN call[q] # "new" /\ did[q] = None
    /\ \A i, j \in DOMAIN toServer : toServer[i][1] = toServer[j][1] => i = j

AnswersAreResults ==
    /\ \A i \in DOMAIN toClient : toClient[i][2] = did[toClient[i][1]]
    /\ \A q \in Calls : queues[q] # None =>
          \A i \in DOMAIN queues[q] : queues[q][i] = did[q]

CallInv == CallTypes /\ RequestsArePending /\ AnswersAreResults /\ AnswersMatch

rpcVars == <<callVars, did, wires>>

LEMMA CallInit == ClientInit => CallInv
<1>1. None \notin Results /\ <<>> \in Seq(Calls \X Results)
         /\ <<>> \in Seq(Calls \X Operations \X ConnTokens)
  BY ClientAssumption
<1>2. "new" \notin Results /\ "new" # "waiting"
  BY DEF Results
<1> QED
  BY <1>1, <1>2 DEF ClientInit, CallInv, CallTypes, RequestsArePending, AnswersAreResults, AnswersMatch

LEMMA CallFrame == CallInv /\ UNCHANGED rpcVars => CallInv'
  BY DEF CallInv, CallTypes, RequestsArePending, AnswersAreResults, AnswersMatch, rpcVars,
         callVars, wires

(* A lost connection drops requests and answers alike.                     *)
LEMMA CallLost ==
  ASSUME CallInv, UNCHANGED <<callVars, did>>, toServer' = <<>>, toClient' = <<>>
  PROVE  CallInv'
  BY DEF CallInv, CallTypes, RequestsArePending, AnswersAreResults, AnswersMatch, callVars

(* A request goes out with a queue of its own (client.py:650-661).         *)
LEMMA CallSendsInv ==
  ASSUME CallInv, NEW q \in Calls, NEW op \in Operations, NEW ct \in ConnTokens,
         CallSends(q, op, ct)
  PROVE  CallInv'
<1>1. /\ call[q] = "new" /\ did[q] = None /\ did' = did /\ toClient' = toClient
      /\ queues[q] = None
  BY DEF CallSends, serverVars, CallInv, RequestsArePending, AnswersMatch
<1>2. CASE link = "open"
  <2>1. /\ call' = [call EXCEPT ![q] = "waiting"]
        /\ queues' = [queues EXCEPT ![q] = <<>>]
        /\ toServer' = Append(toServer, <<q, op, ct>>)
    BY <1>2 DEF CallSends
  <2>2. CallTypes'
    BY <1>1, <2>1 DEF CallInv, CallTypes
  <2>3. \A i \in DOMAIN toServer : toServer[i][1] # q
    BY <1>1 DEF CallInv, RequestsArePending
  <2>4. RequestsArePending'
    BY <1>1, <2>1, <2>3, AppendProperties DEF CallInv, CallTypes, RequestsArePending
  <2>5. AnswersAreResults'
    BY <1>1, <2>1 DEF CallInv, CallTypes, AnswersAreResults
  <2>6. <<>> # None /\ "waiting" \notin Results
    BY EmptySeq, ClientAssumption DEF Results
  <2>7. AnswersMatch'
    BY <1>1, <2>1, <2>6 DEF CallInv, CallTypes, AnswersMatch
  <2> QED
    BY <2>2, <2>4, <2>5, <2>7 DEF CallInv
<1>3. CASE link # "open"
  <2>1. call' = [call EXCEPT ![q] = "raised"] /\ UNCHANGED <<queues, toServer>>
    BY <1>3 DEF CallSends
  <2>2. "raised" \notin Results
    BY DEF Results
  <2>3. CallTypes' /\ AnswersAreResults'
    BY <1>1, <2>1 DEF CallInv, CallTypes, AnswersAreResults
  <2>4. RequestsArePending'
    BY <1>1, <2>1 DEF CallInv, CallTypes, RequestsArePending
  <2>5. AnswersMatch'
    BY <1>1, <2>1, <2>2 DEF CallInv, CallTypes, AnswersMatch
  <2> QED
    BY <2>3, <2>4, <2>5 DEF CallInv
<1> QED
  BY <1>2, <1>3

(* The server handles a request once and answers it (server.py:1095-1181). *)
LEMMA ServerHandlesInv ==
  ASSUME CallInv, ServerHandles
  PROVE  CallInv'
<1> DEFINE q == Head(toServer)[1]
<1>1. PICK r \in Results : did' = [did EXCEPT ![q] = r] /\ toClient' = Append(toClient, <<q, r>>)
  <2>1. CASE did' = [did EXCEPT ![q] = "ok"] /\ toClient' = Append(toClient, <<q, "ok">>)
    BY <2>1 DEF Results
  <2>2. CASE did' = [did EXCEPT ![q] = "refused"] /\ toClient' = Append(toClient, <<q, "refused">>)
    BY <2>2 DEF Results
  <2> QED
    BY <2>1, <2>2 DEF ServerHandles
<1>2. toServer # <<>> /\ toServer' = Tail(toServer) /\ UNCHANGED callVars
  BY DEF ServerHandles
<1>3. /\ 1 \in DOMAIN toServer /\ q = toServer[1][1]
      /\ q \in Calls /\ did[q] = None /\ call[q] # "new"
  BY <1>2 DEF CallInv, CallTypes, RequestsArePending
<1>4. /\ toServer' \in Seq(Calls \X Operations \X ConnTokens)
      /\ Len(toServer') = Len(toServer) - 1
      /\ \A i \in DOMAIN toServer' : toServer'[i] = toServer[i + 1] /\ i + 1 \in DOMAIN toServer
  BY <1>2, HeadTailProperties DEF CallInv, CallTypes
<1>5. /\ toClient' \in Seq(Calls \X Results)
      /\ \A i \in DOMAIN toClient' :
           IF i \in DOMAIN toClient THEN toClient'[i] = toClient[i] ELSE toClient'[i] = <<q, r>>
  BY <1>1, <1>3, AppendProperties DEF CallInv, CallTypes
<1>6. CallTypes'
  BY <1>1, <1>2, <1>3, <1>4, <1>5 DEF CallInv, CallTypes, callVars
<1>7. RequestsArePending'
  <2>0. \A i, j \in DOMAIN toServer : toServer[i][1] = toServer[j][1] => i = j
    BY DEF CallInv, RequestsArePending
  <2>1. \A i \in DOMAIN toServer' : toServer'[i][1] # q
    <3>1. TAKE i \in DOMAIN toServer'
    <3>2. i \in Nat /\ i # 0
      BY <1>4
    <3>3. i + 1 \in DOMAIN toServer /\ toServer'[i] = toServer[i + 1]
      BY <1>4
    <3>4. toServer[i + 1][1] # toServer[1][1]
      BY <1>3, <2>0, <3>2, <3>3
    <3> QED
      BY <1>3, <3>3, <3>4
  <2>2. \A p \in Calls : p # q => did'[p] = did[p]
    BY <1>1, <1>3 DEF CallInv, CallTypes
  <2>3. \A i \in DOMAIN toServer' :
          LET p == toServer'[i][1] IN p \in Calls /\ call'[p] # "new" /\ did'[p] = None
    BY <1>2, <1>4, <2>1, <2>2 DEF CallInv, CallTypes, RequestsArePending, callVars
  <2>4. \A p \in Calls : call'[p] = "new" => did'[p] = None
    BY <1>2, <1>3, <2>2 DEF CallInv, RequestsArePending, callVars
  <2>5. \A i, j \in DOMAIN toServer' : toServer'[i][1] = toServer'[j][1] => i = j
    <3>1. TAKE i, j \in DOMAIN toServer'
    <3>2. i \in Nat /\ j \in Nat /\ i + 1 \in DOMAIN toServer /\ j + 1 \in DOMAIN toServer
      BY <1>4
    <3>3. toServer[i + 1][1] = toServer[j + 1][1] => i + 1 = j + 1
      BY <2>0, <3>2
    <3> QED
      BY <1>4, <3>2, <3>3
  <2> QED
    BY <2>3, <2>4, <2>5 DEF RequestsArePending
<1>8. \A i \in DOMAIN toClient : toClient[i][1] # q
  BY <1>3, ClientAssumption DEF CallInv, CallTypes, AnswersAreResults
<1>9. AnswersAreResults'
  BY <1>1, <1>2, <1>3, <1>5, <1>8, ClientAssumption
  DEF CallInv, CallTypes, AnswersAreResults, callVars
<1>10. AnswersMatch'
  BY <1>1, <1>2, <1>3, ClientAssumption DEF CallInv, CallTypes, AnswersMatch, callVars
<1> QED
  BY <1>6, <1>7, <1>9, <1>10 DEF CallInv

(* The dispatcher hands an answer to the queue of its request, if that     *)
(* still waits (client.py:275-300).                                        *)
LEMMA DispatchInv ==
  ASSUME CallInv, Dispatch
  PROVE  CallInv'
<1> DEFINE q == Head(toClient)[1]
           r == Head(toClient)[2]
<1>1. /\ toClient # <<>> /\ toClient' = Tail(toClient)
      /\ UNCHANGED <<call, did, toServer>>
      /\ queues' = IF queues[q] = None THEN queues ELSE [queues EXCEPT ![q] = Append(@, r)]
  BY DEF Dispatch, serverVars
<1>2. /\ toClient' \in Seq(Calls \X Results)
      /\ \A i \in DOMAIN toClient' : i + 1 \in DOMAIN toClient /\ toClient'[i] = toClient[i + 1]
  BY <1>1, HeadTailProperties DEF CallInv, CallTypes
<1>3. /\ q \in Calls /\ r \in Results /\ did[q] = r
  <2>1. Head(toClient) = toClient[1] /\ 1 \in DOMAIN toClient /\ toClient[1] \in Calls \X Results
    BY <1>1 DEF CallInv, CallTypes
  <2> QED
    BY <2>1 DEF CallInv, AnswersAreResults
<1>4. CASE queues[q] = None
  BY <1>1, <1>2, <1>4 DEF CallInv, CallTypes, RequestsArePending, AnswersAreResults, AnswersMatch
<1>5. CASE queues[q] # None
  <2> DEFINE new == Append(queues[q], r)
  <2>1. queues[q] \in Seq(Results)
    BY <1>3, <1>5 DEF CallInv, CallTypes
  <2>2. /\ new \in Seq(Results) /\ new # None
        /\ \A i \in DOMAIN new : new[i] = r
    BY SMTT(30), <1>3, <1>5, <2>1, AppendProperties, ClientAssumption DEF CallInv, AnswersAreResults
  <2>3. queues' = [queues EXCEPT ![q] = new]
    BY <1>1, <1>5
  <2>4. CallTypes' /\ RequestsArePending'
    BY <1>1, <1>2, <1>3, <2>2, <2>3 DEF CallInv, CallTypes, RequestsArePending
  <2>5. AnswersAreResults'
    BY <1>1, <1>2, <1>3, <2>2, <2>3 DEF CallInv, CallTypes, AnswersAreResults
  <2>6. AnswersMatch'
    BY <1>1, <1>3, <1>5, <2>2, <2>3 DEF CallInv, CallTypes, AnswersMatch
  <2> QED
    BY <2>4, <2>5, <2>6 DEF CallInv
<1> QED
  BY <1>4, <1>5

(* A request returns the answer in its queue, or an exception, and takes   *)
(* the queue away (client.py:663-677).                                     *)
LEMMA ReturnInv ==
  ASSUME CallInv, NEW q \in Calls, call[q] = "waiting",
         NEW result \in {"raised"} \cup Results, result \in Results => result = did[q],
         Return(q, result)
  PROVE  CallInv'
<1>1. /\ call' = [call EXCEPT ![q] = result] /\ queues' = [queues EXCEPT ![q] = None]
      /\ UNCHANGED <<did, toServer, toClient>>
  BY DEF Return, serverVars, wires
<1>2. result \notin {"new", "waiting"}
  BY DEF Results
<1>3. CallTypes' /\ RequestsArePending'
  BY <1>1, <1>2 DEF CallInv, CallTypes, RequestsArePending
<1>4. AnswersAreResults'
  BY <1>1 DEF CallInv, CallTypes, AnswersAreResults
<1>5. AnswersMatch'
  BY <1>1, <1>2 DEF CallInv, CallTypes, AnswersMatch
<1> QED
  BY <1>3, <1>4, <1>5 DEF CallInv

LEMMA CallReturnsInv ==
  ASSUME CallInv, NEW q \in Calls, CallReturns(q)
  PROVE  CallInv'
<1>1. call[q] = "waiting" /\ queues[q] # None /\ queues[q] \in Seq(Results) /\ queues[q] # <<>>
  BY DEF CallReturns, CallInv, CallTypes, AnswersMatch
<1>2. Head(queues[q]) = queues[q][1] /\ 1 \in DOMAIN queues[q] /\ queues[q][1] \in Results
  BY <1>1
<1>3. Head(queues[q]) = did[q]
  BY <1>1, <1>2 DEF CallInv, AnswersAreResults
<1> QED
  BY <1>1, <1>2, <1>3, ReturnInv DEF CallReturns

(* Every step keeps requests, answers and queues in line.                  *)
LEMMA CallNext ==
  ASSUME CallInv, [ClientNext]_clientVars
  PROVE  CallInv'
<1>1. CASE ConnectRaises \/ ConnectOk \/ LoginOk \/ SocksServerAwaited \/ SleepOver
             \/ RunEnds \/ HeartbeatTimeout
  BY <1>1, CallFrame DEF ConnectRaises, ConnectOk, LoginOk, SocksServerAwaited, SleepOver,
     RunEnds, HeartbeatTimeout, StopTasks, rpcVars, serverVars
<1>2. CASE LoginDenied \/ LoginFails \/ CloseReturns
  BY <1>2, CallLost DEF LoginDenied, LoginFails, CloseReturns, CloseLink, serverVars
<1>3. CASE LinkLost \/ TokenRemoved
  BY <1>3, CallLost DEF LinkLost, TokenRemoved, serverVars
<1>4. CASE \E t \in {"early", "login"} : RunSocksServer(t)
  BY <1>4, CallFrame DEF RunSocksServer, rpcVars, serverVars
<1>5. CASE \E r \in Requests : Accept(r) \/ TakeWebsocket(r) \/ Refuse(r) \/ RequestEnds(r)
  BY <1>5, CallFrame
  DEF Accept, TakeWebsocket, Refuse, RequestEnds, SetRequest, rpcVars, serverVars
<1>6. ASSUME NEW q \in Calls, NEW op \in Operations, NEW ct \in ConnTokens, CallSends(q, op, ct)
      PROVE  CallInv'
  BY <1>6, CallSendsInv
<1>7. ASSUME NEW q \in Calls, CallReturns(q)
      PROVE  CallInv'
  BY <1>7, CallReturnsInv
<1>8. ASSUME NEW q \in Calls, CallTimesOut(q)
      PROVE  CallInv'
  <2>1. "raised" \notin Results
    BY DEF Results
  <2> QED
    BY <1>8, <2>1, ReturnInv DEF CallTimesOut
<1>9. CASE ServerHandles \/ Dispatch
  BY <1>9, ServerHandlesInv, DispatchInv
<1>10. CASE UNCHANGED clientVars
  BY <1>10, CallFrame DEF clientVars, rpcVars, serverVars
<1> QED
  BY <1>1, <1>2, <1>3, <1>4, <1>5, <1>6, <1>7, <1>8, <1>9, <1>10 DEF ClientNext

(* AnswersMatch: a connector request returns what the server did for that  *)
(* very request, however late the answers of others come                   *)
(* (client.py:650-677).                                                    *)
THEOREM AnswersTheorem == ClientSpec => []AnswersMatch
<1>1. CallInv => AnswersMatch
  BY DEF CallInv
<1> QED
  BY <1>1, CallInit, CallNext, PTL DEF ClientSpec
=============================================================================
