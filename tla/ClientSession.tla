---------------------------- MODULE ClientSession ----------------------------
(***************************************************************************)
(* WSSocksClient (client.py): the loop that connects, logs in, runs and    *)
(* reconnects, in forward and in reverse mode; its local SOCKS server and  *)
(* the requests that wait for a connection; and the connector requests,    *)
(* whose answers the message dispatcher hands over in _message_queues.     *)
(*                                                                         *)
(* A step is what a coroutine does between two suspensions.  What the      *)
(* server does with a login or a connector request is one step of its own. *)
(***************************************************************************)
EXTENDS Integers, Sequences, FiniteSets

CONSTANTS Requests,     \* SOCKS requests of the forward client
          Calls,        \* add_connector and remove_connector calls
          ConnTokens,   \* connector tokens they name
          None

VARIABLES
    config,        \* [reverse, reconnect, waitServer], fixed by the constructor
    loop,          \* where _start_forward or _start_reverse is
    link,          \* the connection of this attempt: "none", "open" or "lost"
    websocket,     \* _websocket is set
    connected, disconnected,   \* the two events
    valid,         \* the server knows the token
    servers,       \* _run_socks_server tasks that have not run yet
    listening,     \* _socks_server is set
    bindFailed,    \* the server task of this login could not bind
    request,       \* each SOCKS request, and whose connection it uses
    queues,        \* _message_queues of the calls: the answers, or None
    call,          \* each call: "new", "waiting", or what it returned
    connTokens,    \* the connector tokens of the server
    did,           \* what the server did for each call
    toServer, toClient   \* connector messages under way

sessionVars == <<loop, link, websocket, connected, disconnected>>
socksVars == <<servers, listening, bindFailed>>
callVars == <<queues, call>>
serverVars == <<connTokens, did>>
wires == <<toServer, toClient>>
clientVars == <<config, sessionVars, valid, socksVars, request, callVars, serverVars, wires>>

Operations == {"add", "remove"}
Results == {"ok", "refused"}

ASSUME ClientAssumption == None \notin Results \cup Seq(Results)

ClientTypeOK ==
    /\ config \in [reverse : BOOLEAN, reconnect : BOOLEAN, waitServer : BOOLEAN]
    /\ loop \in {"connecting", "login", "starting", "running", "closing",
               "sleeping", "ended"}
    /\ link \in {"none", "open", "lost"}
    /\ websocket \in BOOLEAN /\ connected \in BOOLEAN /\ disconnected \in BOOLEAN
    /\ valid \in BOOLEAN
    /\ servers \subseteq {"early", "login"}
    /\ listening \in BOOLEAN /\ bindFailed \in BOOLEAN
    /\ request \in [Requests -> {"none", "waiting", "current", "old"}]
    /\ queues \in [Calls -> Seq(Results) \cup {None}]
    /\ call \in [Calls -> {"new", "waiting", "raised"} \cup Results]
    /\ connTokens \subseteq ConnTokens
    /\ did \in [Calls -> Results \cup {None}]
    /\ toServer \in Seq(Calls \X Operations \X ConnTokens)
    /\ toClient \in Seq(Calls \X Results)

ClientInit ==
    /\ config \in [reverse : BOOLEAN, reconnect : BOOLEAN, waitServer : BOOLEAN]
    /\ loop = "connecting" /\ link = "none"
    /\ websocket = FALSE /\ connected = FALSE /\ disconnected = FALSE
    /\ valid \in BOOLEAN
    /\ servers = IF config.reverse \/ config.waitServer THEN {} ELSE {"early"}
    /\ listening = FALSE /\ bindFailed = FALSE
    /\ request = [r \in Requests |-> "none"]
    /\ queues = [q \in Calls |-> None]
    /\ call = [q \in Calls |-> "new"]
    /\ connTokens = {}
    /\ did = [q \in Calls |-> None]
    /\ toServer = <<>> /\ toClient = <<>>
-----------------------------------------------------------------------------
(***************************************************************************)
(* The connection loop.                                                    *)
(***************************************************************************)

MutKeepWebsocket ==
    /\ connected' = FALSE
    /\ disconnected' = TRUE
    /\ UNCHANGED <<websocket, request>>

(* The finally block of an attempt; requests keep the connection they have.*)
LeaveAttempt ==
    /\ websocket' = FALSE
    /\ connected' = FALSE
    /\ disconnected' = TRUE
    /\ request' = [r \in Requests |-> IF request[r] = "current" THEN "old" ELSE request[r]]

CloseLink == link' = "none" /\ toServer' = <<>> /\ toClient' = <<>>

EndLoop == loop' = "ended" /\ LeaveAttempt

(* The except clauses: the finally block runs after the sleep.             *)
RetryOrExit ==
    IF config.reconnect
      THEN /\ loop' = "sleeping"
           /\ UNCHANGED <<websocket, connected, disconnected, request>>
      ELSE EndLoop

ConnectRaises ==
    /\ loop = "connecting"
    /\ RetryOrExit
    /\ UNCHANGED <<config, link, valid, socksVars, callVars, serverVars, wires>>

(* Connected: _websocket is set before the login.                          *)
ConnectOk ==
    /\ loop = "connecting"
    /\ loop' = "login" /\ link' = "open" /\ websocket' = TRUE
    /\ servers' = IF config.reverse THEN servers ELSE servers \cup {"login"}
    /\ bindFailed' = FALSE
    /\ UNCHANGED <<config, connected, disconnected, valid, listening, request, callVars,
                   serverVars, wires>>

StartTasks == loop' = "running" /\ connected' = TRUE /\ disconnected' = FALSE

LoginOk ==
    /\ loop = "login" /\ link = "open" /\ valid
    /\ IF config.reverse THEN StartTasks
       ELSE loop' = "starting" /\ UNCHANGED <<connected, disconnected>>
    /\ UNCHANGED <<config, link, websocket, valid, socksVars, request, callVars, serverVars, wires>>

MutRetryDenied ==
    /\ loop = "login" /\ ~valid
    /\ RetryOrExit /\ CloseLink
    /\ UNCHANGED <<config, valid, socksVars, callVars, serverVars>>

(* A negative answer, or a close with code 1000 or 1008.                   *)
LoginDenied ==
    /\ loop = "login" /\ ~valid
    /\ EndLoop /\ CloseLink
    /\ UNCHANGED <<config, valid, socksVars, callVars, serverVars>>

MutExitOnFailure ==
    /\ loop = "login"
    /\ link = "lost" \/ (config.reverse /\ valid)
    /\ EndLoop /\ CloseLink
    /\ UNCHANGED <<config, valid, socksVars, callVars, serverVars>>

(* The connection is lost, or a Partners message comes in place of the     *)
(* answer.                                                                 *)
LoginFails ==
    /\ loop = "login"
    /\ link = "lost" \/ (config.reverse /\ valid)
    /\ RetryOrExit /\ CloseLink
    /\ UNCHANGED <<config, valid, socksVars, callVars, serverVars>>

MutNotAwaited ==
    /\ loop = "starting"
    /\ StartTasks
    /\ UNCHANGED <<config, link, websocket, valid, socksVars, request, callVars, serverVars, wires>>

(* The forward client waits until its server task is ready or has ended.   *)
SocksServerAwaited ==
    /\ loop = "starting" /\ "login" \notin servers
    /\ StartTasks
    /\ UNCHANGED <<config, link, websocket, valid, socksVars, request, callVars, serverVars, wires>>

(* Dispatcher and heartbeat swallow the loss of the connection, so the     *)
(* loop goes on without an exception; the connection is closed first.      *)
StopTasks ==
    /\ loop = "running"
    /\ loop' = "closing"
    /\ UNCHANGED <<config, link, websocket, connected, disconnected, valid, socksVars, request,
                   callVars, serverVars, wires>>

RunEnds == link = "lost" /\ StopTasks

(* No pong within ten seconds.                                             *)
HeartbeatTimeout == link = "open" /\ StopTasks

CloseReturns ==
    /\ loop = "closing"
    /\ loop' = "connecting"
    /\ LeaveAttempt /\ CloseLink
    /\ UNCHANGED <<config, valid, socksVars, callVars, serverVars>>

SleepOver ==
    /\ loop = "sleeping"
    /\ loop' = "connecting"
    /\ LeaveAttempt
    /\ UNCHANGED <<config, link, valid, socksVars, callVars, serverVars, wires>>

(* The network, the server, or the removal of the token.                   *)
LinkLost ==
    /\ link = "open"
    /\ link' = "lost" /\ toServer' = <<>> /\ toClient' = <<>>
    /\ UNCHANGED <<config, loop, websocket, connected, disconnected, valid, socksVars, request,
                   callVars, serverVars>>

TokenRemoved ==
    /\ valid
    /\ valid' = FALSE
    /\ link' = IF link = "open" THEN "lost" ELSE link
    /\ toServer' = <<>> /\ toClient' = <<>>
    /\ UNCHANGED <<config, loop, websocket, connected, disconnected, socksVars, request,
                   callVars, serverVars>>
-----------------------------------------------------------------------------
(***************************************************************************)
(* The local SOCKS server and its requests.                                *)
(***************************************************************************)

(* A server task returns when there is a listener already; otherwise it    *)
(* binds, or logs the error.                                               *)
RunSocksServer(t) ==
    /\ t \in servers
    /\ servers' = servers \ {t}
    /\ IF listening
         THEN UNCHANGED <<listening, bindFailed>>
         ELSE /\ listening' \in BOOLEAN
              /\ bindFailed' = IF t = "login" THEN ~listening' ELSE bindFailed
    /\ UNCHANGED <<config, sessionVars, valid, request, callVars, serverVars, wires>>

SetRequest(r, v) ==
    /\ request' = [request EXCEPT ![r] = v]
    /\ UNCHANGED <<config, sessionVars, valid, socksVars, callVars, serverVars, wires>>

Accept(r) == listening /\ request[r] = "none" /\ SetRequest(r, "waiting")
TakeWebsocket(r) == request[r] = "waiting" /\ websocket /\ SetRequest(r, "current")
Refuse(r) == request[r] = "waiting" /\ ~websocket /\ SetRequest(r, "none")
RequestEnds(r) == request[r] \in {"current", "old"} /\ SetRequest(r, "none")
-----------------------------------------------------------------------------
(***************************************************************************)
(* Connector requests.                                                     *)
(***************************************************************************)
CallSends(q, op, ct) ==
    /\ config.reverse /\ websocket /\ call[q] = "new"
    /\ IF link = "open"
         THEN /\ call' = [call EXCEPT ![q] = "waiting"]
              /\ queues' = [queues EXCEPT ![q] = <<>>]
              /\ toServer' = Append(toServer, <<q, op, ct>>)
         ELSE /\ call' = [call EXCEPT ![q] = "raised"]
              /\ UNCHANGED <<queues, toServer>>
    /\ UNCHANGED <<config, sessionVars, valid, socksVars, request, serverVars, toClient>>

(* The server answers once the session is authenticated.                   *)
ServerHandles ==
    LET q == Head(toServer)[1]
        op == Head(toServer)[2]
        ct == Head(toServer)[3]
        ok == IF op = "add" THEN ct \notin connTokens ELSE ct \in connTokens
    IN  /\ link = "open" /\ valid /\ toServer # <<>>
        /\ toServer' = Tail(toServer)
        /\ connTokens' = IF op = "add" THEN connTokens \cup {ct} ELSE connTokens \ {ct}
        /\ did' = [did EXCEPT ![q] = IF ok THEN "ok" ELSE "refused"]
        /\ toClient' = Append(toClient, <<q, IF ok THEN "ok" ELSE "refused">>)
        /\ UNCHANGED <<config, sessionVars, valid, socksVars, request, callVars>>

(* The dispatcher drops the answer to a call that has given up.            *)
Dispatch ==
    LET q == Head(toClient)[1]
    IN  /\ loop = "running" /\ toClient # <<>>
        /\ toClient' = Tail(toClient)
        /\ queues' = IF queues[q] = None THEN queues
                     ELSE [queues EXCEPT ![q] = Append(@, Head(toClient)[2])]
        /\ UNCHANGED <<config, sessionVars, valid, socksVars, request, call, serverVars, toServer>>

Return(q, result) ==
    /\ call' = [call EXCEPT ![q] = result]
    /\ queues' = [queues EXCEPT ![q] = None]
    /\ UNCHANGED <<config, sessionVars, valid, socksVars, request, serverVars, wires>>

CallReturns(q) ==
    /\ call[q] = "waiting" /\ queues[q] # <<>>
    /\ Return(q, Head(queues[q]))

MutKeepQueue(q) ==
    /\ call[q] = "waiting" /\ queues[q] = <<>>
    /\ call' = [call EXCEPT ![q] = "raised"]
    /\ UNCHANGED <<config, sessionVars, valid, socksVars, request, queues, serverVars, wires>>

CallTimesOut(q) == call[q] = "waiting" /\ queues[q] = <<>> /\ Return(q, "raised")
-----------------------------------------------------------------------------
ClientNext ==
    \/ ConnectRaises \/ ConnectOk \/ LoginOk \/ LoginDenied \/ LoginFails
    \/ SocksServerAwaited \/ RunEnds \/ HeartbeatTimeout \/ CloseReturns
    \/ SleepOver
    \/ LinkLost \/ TokenRemoved
    \/ \E t \in {"early", "login"} : RunSocksServer(t)
    \/ \E r \in Requests : Accept(r) \/ TakeWebsocket(r) \/ Refuse(r) \/ RequestEnds(r)
    \/ \E q \in Calls : \/ \E op \in Operations, ct \in ConnTokens : CallSends(q, op, ct)
                        \/ CallReturns(q) \/ CallTimesOut(q)
    \/ ServerHandles \/ Dispatch

ClientSpec == ClientInit /\ [][ClientNext]_clientVars

(***************************************************************************)
(* The event loop runs what is ready, sleeps end, and a server that is     *)
(* reachable again and again answers a login again and again.              *)
(***************************************************************************)
ClientFairSpec ==
    /\ ClientSpec
    /\ WF_clientVars(SleepOver) /\ WF_clientVars(RunEnds)
    /\ WF_clientVars(CloseReturns)
    /\ WF_clientVars(SocksServerAwaited)
    /\ \A t \in {"early", "login"} : WF_clientVars(RunSocksServer(t))
    /\ SF_clientVars(ConnectOk) /\ SF_clientVars(LoginDenied)
-----------------------------------------------------------------------------
(* The events and _websocket follow the loop (client.py:432, 480): whoever *)
(* waits for `connected` finds the connection of the session that runs,    *)
(* and nothing of an attempt outlives it.  _websocket stays set while the  *)
(* loop sleeps after a failed login.                                       *)
EventsFollowLoop ==
    /\ connected <=> loop \in {"running", "closing"}
    /\ connected => websocket /\ ~disconnected
    /\ loop \in {"connecting", "ended"} =>
          ~websocket /\ \A r \in Requests : request[r] # "current"

(* "Wait for either socks server to be ready or to fail" (client.py:414):  *)
(* a forward client that says it is connected has a listening SOCKS        *)
(* server, from this login or an earlier one, or has failed to bind it.    *)
RunningListens ==
    loop = "running" /\ ~config.reverse => listening \/ bindFailed

(* A connector request returns what the server did for that very request,  *)
(* whatever answers come late or after a reconnect, and a queue exists     *)
(* only while its request waits (client.py:650-677).                       *)
AnswersMatch ==
    \A q \in Calls :
        /\ call[q] \in Results => did[q] = call[q]
        /\ queues[q] # None <=> call[q] = "waiting"

(* A client that reconnects gives up only when its token is gone           *)
(* (client.py:451-478).                                                    *)
EndsForCause ==
    [][config.reconnect /\ loop' = "ended" => loop = "ended" \/ ~valid]_clientVars

(* Liveness: a client whose token was removed exits, although a session    *)
(* that ends goes back to connecting (client.py:406, 455-459).             *)
TokenRemovedExits == ~valid ~> loop = "ended"

(* "Disable automatic reconnection when the server disconnects"            *)
(* (docs/tutorial/cli.md:49).                                              *)
NoReconnect ==
    [][~config.reconnect /\ loop \in {"running", "closing"}
           => loop' \in {"running", "closing", "ended"}]_clientVars
=============================================================================
