--------------------------- MODULE TokenRegistry ---------------------------
(***************************************************************************)
(* The tokens of WSSocksServer (server.py), the sessions that authenticate *)
(* with them and the SOCKS server tasks started for them.                  *)
(*                                                                         *)
(* Everything runs on one asyncio event loop, so a step is what a          *)
(* coroutine does up to an await that can suspend it.  The methods that    *)
(* add and remove tokens are plain functions: one step each.  The token    *)
(* asyncio locks never stay held across such an await, so they appear      *)
(* only as keys of _token_locks.                                           *)
(***************************************************************************)
EXTENDS Integers, FiniteSets

CONSTANTS RevTokens,     \* names given to reverse tokens
          ConnTokens,    \* names given to connector tokens
          FwdTokens,     \* names given to forward tokens
          Instances,     \* instance ids of reverse clients, used as internal tokens
          Conns,         \* WebSocket connections, each with its _handle_websocket
          Tasks,         \* identities of _run_socks_server tasks
          Ports,         \* the ports that can be asked for
          Pool,          \* the ports of the pool
          Kinds,         \* the kinds of reverse token the caller adds
          WaitClient,    \* socks_wait_client
          SocketErrors,  \* which of "bind" and "accept" may raise OSError
          None

RevNames == RevTokens \cup Instances
Names == RevNames \cup ConnTokens \cup FwdTokens
NoPort == -1                              \* the port of a managing or internal token
PortKeys == Ports \cup {NoPort}

ASSUME RegistryAssumption ==
    /\ Ports \subseteq Nat \ {0} /\ Pool \subseteq Ports
    /\ Kinds \subseteq {"plain", "manage"}
    /\ WaitClient \in BOOLEAN /\ SocketErrors \subseteq {"bind", "accept"}
    /\ None \notin Names \cup Conns \cup Tasks \cup PortKeys
    /\ RevTokens \cap (ConnTokens \cup FwdTokens \cup Instances) = {}
    /\ Instances \cap (ConnTokens \cup FwdTokens) = {}
    /\ ConnTokens \cap FwdTokens = {}
    /\ IsFiniteSet(ConnTokens)

VARIABLES
    used,          \* PortPool._used_ports
    tokens,        \* _tokens: name -> port
    options,       \* _token_options: the kind of each name
    locks,         \* keys of _token_locks
    internal,      \* _internal_tokens
    connTokens,    \* _connector_tokens: connector token -> reverse token
    fwdTokens,     \* _forward_tokens
    tokenClients,  \* _token_clients
    clients,       \* keys of _clients
    fwdClients,    \* keys of _forward_clients
    session,       \* the state of each _handle_websocket
    socksTasks,    \* _socks_tasks: port -> task
    task,          \* the state of each _run_socks_server task
    pending        \* _handle_pending_token tasks that have not run yet

tokenVars == <<used, tokens, options, locks, internal, connTokens, fwdTokens>>
clientVars == <<tokenClients, clients, fwdClients, session>>
taskVars == <<socksTasks, task, pending>>
regVars == <<tokenVars, clientVars, taskVars>>

(***************************************************************************)
(* st: "new" until authenticated; "starting" while the handler waits for   *)
(* the SOCKS server; "notifying" during the broadcast to the connectors;   *)
(* "running" while dispatcher and heartbeat run; "gone".                   *)
(* link: "closeReq" means that a ws.close() task was created.              *)
(* first: the first message the server sent on the connection.             *)
(* seen: the size of _connector_tokens when the broadcast began.           *)
(***************************************************************************)
Sessions ==
    [st    : {"new", "starting", "notifying", "running", "gone"},
     name  : Names \cup {None},
     link  : {"open", "closeReq", "closed"},
     first : {None, "auth", "partners"},
     wait  : Tasks \cup {None},
     seen  : 0..Cardinality(ConnTokens)]

NewSession == [st |-> "new", name |-> None, link |-> "open", first |-> None,
               wait |-> None, seen |-> 0]

(***************************************************************************)
(* "done" is a finished task that _socks_tasks still refers to.            *)
(***************************************************************************)
TaskStates ==
    [st : {"none", "created", "accepting", "draining", "done"},
     port : PortKeys \cup {None}, token : RevNames \cup {None}, cancelled : BOOLEAN]

NoTask == [st |-> "none", port |-> None, token |-> None, cancelled |-> FALSE]

RegTypeOK ==
    /\ used \subseteq Ports
    /\ tokens \in [RevNames -> PortKeys \cup {None}]
    /\ options \in [RevNames -> {"plain", "manage", None}]
    /\ locks \subseteq RevNames
    /\ internal \in [RevTokens -> SUBSET Instances]
    /\ connTokens \in [ConnTokens -> RevNames \cup {None}]
    /\ fwdTokens \subseteq FwdTokens
    /\ tokenClients \in [RevNames \cup ConnTokens -> SUBSET Conns]
    /\ clients \subseteq Conns
    /\ fwdClients \subseteq Conns
    /\ session \in [Conns -> Sessions]
    /\ socksTasks \in [PortKeys -> Tasks \cup {None}]
    /\ task \in [Tasks -> TaskStates]
    /\ pending \subseteq RevTokens

RegInit ==
    /\ used = {}
    /\ tokens = [t \in RevNames |-> None]
    /\ options = [t \in RevNames |-> None]
    /\ locks = {}
    /\ internal = [t \in RevTokens |-> {}]
    /\ connTokens = [t \in ConnTokens |-> None]
    /\ fwdTokens = {}
    /\ tokenClients = [t \in RevNames \cup ConnTokens |-> {}]
    /\ clients = {}
    /\ fwdClients = {}
    /\ session = [c \in Conns |-> NewSession]
    /\ socksTasks = [p \in PortKeys |-> None]
    /\ task = [k \in Tasks |-> NoTask]
    /\ pending = {}

Registered(n) ==
    \/ n \in RevNames /\ tokens[n] # None
    \/ n \in ConnTokens /\ connTokens[n] # None
    \/ n \in fwdTokens
-----------------------------------------------------------------------------
(***************************************************************************)
(* The API: tokens are added.                                              *)
(***************************************************************************)

(* PortPool.get and put: a requested port is taken from outside the pool   *)
(* too.                                                                    *)
GetPort(want) == IF want # None THEN {want} \ used ELSE Pool \ used

MutPortKept(p) == UNCHANGED used
PutPort(p) == used' = used \ {p}

AddReverseToken(t, kind, want) ==
    /\ tokens[t] = None
    /\ IF kind = "manage"
         THEN /\ tokens' = [tokens EXCEPT ![t] = NoPort]
              /\ UNCHANGED used
         ELSE \E p \in GetPort(want) :
                /\ tokens' = [tokens EXCEPT ![t] = p]
                /\ used' = used \cup {p}
    /\ locks' = locks \cup {t}
    /\ options' = [options EXCEPT ![t] = kind]
    /\ pending' = IF WaitClient THEN pending ELSE pending \cup {t}
    /\ UNCHANGED <<internal, connTokens, fwdTokens, clientVars, socksTasks, task>>

AddConnectorToken(ct, rt) ==
    /\ tokens[rt] # None
    /\ connTokens[ct] = None
    /\ connTokens' = [connTokens EXCEPT ![ct] = rt]
    /\ UNCHANGED <<used, tokens, options, locks, internal, fwdTokens, clientVars, taskVars>>

AddForwardToken(ft) ==
    /\ ft \notin fwdTokens
    /\ fwdTokens' = fwdTokens \cup {ft}
    /\ UNCHANGED <<used, tokens, options, locks, internal, connTokens, clientVars, taskVars>>

(***************************************************************************)
(* The API: tokens are removed.  Disconnect(cs) creates a ws.close() task  *)
(* for each connection in cs.                                              *)
(***************************************************************************)
MutDisconnectKnown(cs) ==
    session' = [c \in Conns |->
                  IF c \in cs \cap clients /\ session[c].link = "open"
                    THEN [session[c] EXCEPT !.link = "closeReq"]
                    ELSE session[c]]

Disconnect(cs) ==
    session' = [c \in Conns |->
                  IF c \in cs /\ session[c].link = "open"
                    THEN [session[c] EXCEPT !.link = "closeReq"]
                    ELSE session[c]]

MutForgetEveryone(names) ==
    /\ Disconnect(clients)
    /\ clients' = {}
    /\ tokenClients' = [n \in DOMAIN tokenClients |->
                          IF n \in names THEN {} ELSE tokenClients[n]]

ForgetClients(names) ==
    LET gone == UNION {tokenClients[n] : n \in names}
    IN  /\ Disconnect(gone)
        /\ clients' = clients \ gone
        /\ tokenClients' = [n \in DOMAIN tokenClients |->
                              IF n \in names THEN {} ELSE tokenClients[n]]

(* remove_connector_token, and remove_token of a connector token.          *)
RemoveConnectorToken(ct) ==
    /\ connTokens[ct] # None
    /\ ForgetClients({ct})
    /\ connTokens' = [connTokens EXCEPT ![ct] = None]
    /\ UNCHANGED <<used, tokens, options, locks, internal, fwdTokens, fwdClients, taskVars>>

(* The SOCKS server of a removed token is cancelled and forgotten.         *)
MutCancelOnly(p) ==
    LET k == socksTasks[p]
    IN  /\ UNCHANGED socksTasks
        /\ task' = IF k = None THEN task ELSE [task EXCEPT ![k].cancelled = TRUE]

CancelServer(p) ==
    LET k == socksTasks[p]
    IN  IF k = None
          THEN UNCHANGED <<socksTasks, task>>
          ELSE /\ socksTasks' = [socksTasks EXCEPT ![p] = None]
               /\ task' = [task EXCEPT ![k] = IF @.st = "done" THEN NoTask
                                              ELSE [@ EXCEPT !.cancelled = TRUE]]

MutNoConnectors(t) == {}
ConnectorsOf(t) == {ct \in ConnTokens : connTokens[ct] = t}

(* A managing token takes the internal tokens of its clients with it.      *)
MutDropAlone(t) == {t}
DroppedWith(t) == {t} \cup internal[t]

RemoveReverseToken(t) ==
    LET dropped == DroppedWith(t)
    IN  /\ tokens[t] # None
        /\ ForgetClients(dropped \cup ConnectorsOf(t))
        /\ tokens' = [n \in RevNames |-> IF n \in dropped THEN None ELSE tokens[n]]
        /\ options' = [n \in RevNames |-> IF n \in dropped THEN None ELSE options[n]]
        /\ locks' = locks \ {t}
        /\ internal' = [internal EXCEPT ![t] = {}]
        /\ connTokens' = [ct \in ConnTokens |->
                            IF ct \in ConnectorsOf(t) THEN None ELSE connTokens[ct]]
        /\ CancelServer(tokens[t])
        /\ PutPort(tokens[t])
        /\ UNCHANGED <<fwdTokens, fwdClients, pending>>

RemoveForwardToken(ft) ==
    /\ ft \in fwdTokens
    /\ fwdTokens' = fwdTokens \ {ft}
    /\ Disconnect(fwdClients)
    /\ fwdClients' = {}
    /\ UNCHANGED <<used, tokens, options, locks, internal, connTokens,
                   tokenClients, clients, taskVars>>
-----------------------------------------------------------------------------
(***************************************************************************)
(* The SOCKS server tasks.                                                 *)
(***************************************************************************)
FreeTasks == {k \in Tasks : task[k].st = "none" /\ \A c \in Conns : session[c].wait # k}

StartServer(k, t, p) ==
    /\ k \in FreeTasks
    /\ task' = [task EXCEPT ![k] = [st |-> "created", port |-> p, token |-> t,
                                    cancelled |-> FALSE]]
    /\ socksTasks' = [socksTasks EXCEPT ![p] = k]

(* _handle_pending_token: start the server of a new token at once.         *)
HandlePendingToken(t) ==
    /\ t \in pending
    /\ pending' = pending \ {t}
    /\ IF tokens[t] # None /\ socksTasks[tokens[t]] = None
         THEN \E k \in Tasks : StartServer(k, t, tokens[t])
         ELSE UNCHANGED <<socksTasks, task>>
    /\ UNCHANGED <<tokenVars, clientVars>>

Finished(k) == IF socksTasks[task[k].port] = k
                 THEN [task[k] EXCEPT !.st = "done", !.cancelled = FALSE]
                 ELSE NoTask

SetTask(k, v) ==
    /\ task' = [task EXCEPT ![k] = v]
    /\ UNCHANGED <<tokenVars, clientVars, socksTasks, pending>>

(* The first step of _run_socks_server: get_socket, then accept.           *)
ServerListens(k) ==
    /\ task[k].st = "created" /\ ~task[k].cancelled
    /\ task[k].port # NoPort
    /\ SetTask(k, [task[k] EXCEPT !.st = "accepting"])

(* get_socket raised: bind failed, or the port is NoPort.                  *)
ServerCannotBind(k) ==
    /\ task[k].st = "created" /\ ~task[k].cancelled
    /\ task[k].port = NoPort \/ "bind" \in SocketErrors
    /\ SetTask(k, Finished(k))

(* A task cancelled before its first step runs no line of its body.        *)
ServerNeverRan(k) ==
    /\ task[k].st = "created" /\ task[k].cancelled
    /\ SetTask(k, Finished(k))

(* CancelledError or OSError out of sock_accept: the finally block cancels *)
(* the request handlers and waits for them.                                *)
AcceptFails(k) == task[k].st = "accepting" /\ ~task[k].cancelled /\ "accept" \in SocketErrors

MutCancelSwallowed(k) ==
    /\ AcceptFails(k)
    /\ SetTask(k, [task[k] EXCEPT !.st = "draining", !.cancelled = FALSE])

ServerStops(k) ==
    /\ task[k].st = "accepting"
    /\ task[k].cancelled \/ AcceptFails(k)
    /\ SetTask(k, [task[k] EXCEPT !.st = "draining", !.cancelled = FALSE])

(* The handlers are done: release_socket.                                  *)
ServerReleases(k) ==
    /\ task[k].st = "draining" /\ ~task[k].cancelled
    /\ SetTask(k, Finished(k))

(* Cancelled while it waits for the handlers in its finally block: the     *)
(* call of release_socket is skipped.                                      *)
ServerDropsSocket(k) ==
    /\ task[k].st = "draining" /\ task[k].cancelled
    /\ SetTask(k, Finished(k))
-----------------------------------------------------------------------------
(***************************************************************************)
(* _handle_websocket, one connection each.                                 *)
(***************************************************************************)
SetSession(c, v) == session' = [session EXCEPT ![c] = v]

ConnectorConnected ==
    \E ct \in ConnTokens : \E c \in tokenClients[ct] : session[c].link # "closed"

ConnectorCount == Cardinality({ct \in ConnTokens : connTokens[ct] # None})

(* AuthResponse goes out, then the broadcast to the connectors begins; it  *)
(* can be suspended when there is a connector to send to.                  *)
Confirmed(s) ==
    [s EXCEPT !.st = IF ConnectorConnected THEN "notifying" ELSE "running",
              !.first = IF @ = None THEN "auth" ELSE @,
              !.wait = None,
              !.seen = IF ConnectorConnected THEN ConnectorCount ELSE 0]

ListClient(c, n) == tokenClients' = [tokenClients EXCEPT ![n] = @ \cup {c}]

Fresh(c) == session[c].st = "new"

(* A managing token: the client gets an internal token of its own.         *)
AuthManagingClient(c, t, i) ==
    /\ Fresh(c) /\ tokens[t] # None /\ options[t] = "manage"
    /\ internal' = [internal EXCEPT ![t] = @ \cup {i}]
    /\ options' = [options EXCEPT ![i] = options[t]]
    /\ tokens' = [tokens EXCEPT ![i] = NoPort]
    /\ locks' = locks \cup {i}
    /\ ListClient(c, i)
    /\ clients' = clients \cup {c}
    /\ SetSession(c, Confirmed([session[c] EXCEPT !.name = i]))
    /\ UNCHANGED <<used, connTokens, fwdTokens, fwdClients, taskVars>>

(* A plain token whose SOCKS server has been started already.              *)
AuthReverseClient(c, t) ==
    /\ Fresh(c) /\ tokens[t] # None /\ options[t] = "plain"
    /\ socksTasks[tokens[t]] # None
    /\ ListClient(c, t)
    /\ clients' = clients \cup {c}
    /\ SetSession(c, Confirmed([session[c] EXCEPT !.name = t]))
    /\ UNCHANGED <<tokenVars, fwdClients, taskVars>>

(* A plain token without a SOCKS server: start it and wait until ready.    *)
AuthFirstReverseClient(c, t) ==
    /\ Fresh(c) /\ tokens[t] # None /\ options[t] = "plain"
    /\ socksTasks[tokens[t]] = None
    /\ ListClient(c, t)
    /\ \E k \in Tasks :
         /\ StartServer(k, t, tokens[t])
         /\ SetSession(c, [session[c] EXCEPT !.st = "starting", !.name = t, !.wait = k])
    /\ UNCHANGED <<tokenVars, clients, fwdClients, pending>>

(* _cleanup_connection; a connector that leaves is announced to the        *)
(* reverse clients of its token.                                           *)
PartnersTo(ss, rt) ==
    [d \in Conns |-> IF rt # None /\ d \in tokenClients[rt] /\ ss[d].link # "closed"
                          /\ ss[d].first = None
                       THEN [ss[d] EXCEPT !.first = "partners"] ELSE ss[d]]

GoneSession(s) == [NewSession EXCEPT !.st = "gone", !.name = s.name, !.link = "closed",
                                     !.first = s.first]

MutCleanupRegistered(c) ==
    LET n == session[c].name
    IN  /\ IF Registered(n) /\ n \notin FwdTokens
             THEN /\ tokenClients' = [tokenClients EXCEPT ![n] = @ \ {c}]
                  /\ clients' = clients \ {c}
             ELSE UNCHANGED <<tokenClients, clients>>
        /\ session' = [session EXCEPT ![c] = GoneSession(@)]
        /\ UNCHANGED <<tokenVars, fwdClients, taskVars>>

CleanupConnection(c) ==
    LET n == session[c].name
        rt == IF n \in ConnTokens THEN connTokens[n] ELSE None
    IN  /\ IF n \in FwdTokens THEN UNCHANGED tokenClients
             ELSE tokenClients' = [tokenClients EXCEPT ![n] = @ \ {c}]
        /\ clients' = clients \ {c}
        /\ session' = PartnersTo([session EXCEPT ![c] = GoneSession(@)], rt)
        /\ UNCHANGED <<tokenVars, fwdClients, taskVars>>

(* The ready event is set, or the task ended without setting it and the    *)
(* three seconds are over; either way the client is confirmed.             *)
ConfirmOrLeave(c) ==
    IF session[c].link = "closed"
      THEN CleanupConnection(c)
      ELSE /\ clients' = clients \cup {c}
           /\ SetSession(c, Confirmed(session[c]))
           /\ UNCHANGED <<tokenVars, tokenClients, fwdClients, taskVars>>

MutNoWait(c) == session[c].st = "starting" /\ ConfirmOrLeave(c)

MutNoTimeout(c) ==
    /\ session[c].st = "starting"
    /\ task[session[c].wait].st = "accepting"
    /\ ConfirmOrLeave(c)

ServerAwaited(c) ==
    /\ session[c].st = "starting"
    /\ task[session[c].wait].st # "created"
    /\ ConfirmOrLeave(c)

(* The broadcast iterates over the dict _connector_tokens and awaits a     *)
(* send in the loop: a change of its size meanwhile raises RuntimeError    *)
(* out of the handler.                                                     *)
BroadcastEnds(c) ==
    /\ session[c].st = "notifying"
    /\ IF session[c].seen = ConnectorCount
         THEN /\ SetSession(c, [session[c] EXCEPT !.st = "running", !.seen = 0])
              /\ UNCHANGED <<tokenVars, tokenClients, clients, fwdClients, taskVars>>
         ELSE CleanupConnection(c)

AuthForwardClient(c, ft) ==
    /\ Fresh(c) /\ ft \in fwdTokens
    /\ fwdClients' = fwdClients \cup {c}
    /\ SetSession(c, [session[c] EXCEPT !.st = "running", !.name = ft, !.first = "auth"])
    /\ UNCHANGED <<tokenVars, tokenClients, clients, taskVars>>

AuthConnector(c, ct) ==
    /\ Fresh(c) /\ connTokens[ct] # None
    /\ ListClient(c, ct)
    /\ clients' = clients \cup {c}
    /\ session' = PartnersTo([session EXCEPT ![c] =
                     [@ EXCEPT !.st = "running", !.name = ct, !.first = "auth"]], connTokens[ct])
    /\ UNCHANGED <<tokenVars, fwdClients, taskVars>>

(* A connection that leaves, or whose token nobody knows, before it is     *)
(* authenticated.                                                          *)
AuthFails(c) ==
    /\ Fresh(c)
    /\ SetSession(c, GoneSession(session[c]))
    /\ UNCHANGED <<tokenVars, tokenClients, clients, fwdClients, taskVars>>

(* The peer or the network closes the connection, ...                      *)
LinkLost(c) ==
    /\ session[c].st \in {"starting", "notifying", "running"}
    /\ session[c].link = "open"
    /\ SetSession(c, [session[c] EXCEPT !.link = "closed"])
    /\ UNCHANGED <<tokenVars, tokenClients, clients, fwdClients, taskVars>>

(* ... or the task that runs ws.close() does.                              *)
CloseTask(c) ==
    /\ session[c].link = "closeReq"
    /\ SetSession(c, [session[c] EXCEPT !.link = "closed"])
    /\ UNCHANGED <<tokenVars, tokenClients, clients, fwdClients, taskVars>>

SessionEnds(c) ==
    /\ session[c].st = "running" /\ session[c].link = "closed"
    /\ CleanupConnection(c)

(* ConnectorMessage "add" from a client with the permission: the connector *)
(* token is attached to the name the client is listed under.               *)
ConnectorAdd(c, ct) ==
    /\ session[c].st = "running" /\ session[c].link # "closed"
    /\ \E n \in RevNames : /\ c \in tokenClients[n] /\ options[n] = "manage"
                           /\ AddConnectorToken(ct, n)

ConnectorRemove(c, ct) ==
    /\ session[c].st = "running" /\ session[c].link # "closed"
    /\ \E n \in RevNames : c \in tokenClients[n] /\ options[n] = "manage"
    /\ RemoveConnectorToken(ct)
-----------------------------------------------------------------------------
TokenStep ==
    \/ \E t \in RevTokens :
         \/ \E kind \in Kinds, want \in Ports \cup {None} : AddReverseToken(t, kind, want)
         \/ RemoveReverseToken(t)
         \/ \E ct \in ConnTokens : AddConnectorToken(ct, t)
    \/ \E ct \in ConnTokens : RemoveConnectorToken(ct)
    \/ \E ft \in FwdTokens : AddForwardToken(ft) \/ RemoveForwardToken(ft)

AuthStep(c) ==
    \/ \E t \in RevTokens :
         \/ AuthReverseClient(c, t) \/ AuthFirstReverseClient(c, t)
         \/ \E i \in Instances : AuthManagingClient(c, t, i)
    \/ \E ft \in FwdTokens : AuthForwardClient(c, ft)
    \/ \E ct \in ConnTokens : AuthConnector(c, ct)
    \/ AuthFails(c)

ManageStep(c) == \E ct \in ConnTokens : ConnectorAdd(c, ct) \/ ConnectorRemove(c, ct)

(* The steps a handler takes by itself once it has been scheduled.         *)
HandlerStep(c) == ServerAwaited(c) \/ BroadcastEnds(c) \/ CloseTask(c) \/ SessionEnds(c)

ServerStep(k) ==
    \/ ServerListens(k) \/ ServerCannotBind(k) \/ ServerNeverRan(k)
    \/ ServerStops(k) \/ ServerReleases(k) \/ ServerDropsSocket(k)

RegNext ==
    \/ TokenStep
    \/ \E t \in RevTokens : HandlePendingToken(t)
    \/ \E c \in Conns : AuthStep(c) \/ LinkLost(c) \/ HandlerStep(c) \/ ManageStep(c)
    \/ \E k \in Tasks : ServerStep(k)

RegSpec == RegInit /\ [][RegNext]_regVars

(***************************************************************************)
(* The event loop runs every coroutine that is ready.  Nothing is assumed  *)
(* of callers and peers.                                                   *)
(***************************************************************************)
RegFairSpec ==
    /\ RegSpec
    /\ \A c \in Conns : WF_regVars(HandlerStep(c))
    /\ \A k \in Tasks : WF_regVars(ServerStep(k) /\ ~AcceptFails(k))
-----------------------------------------------------------------------------
(* The ports marked used in the pool are exactly the ports of the reverse  *)
(* tokens, and no two tokens share one: adding and removing tokens neither *)
(* leaks a port nor gives it out twice (server.py:431, 576).               *)
PortsAreOwned ==
    /\ used = {tokens[t] : t \in RevNames} \cap Ports
    /\ \A s, t \in RevTokens : tokens[s] \in Ports /\ tokens[s] = tokens[t] => s = t

(* The task table and the tasks agree: an entry is a task for that port    *)
(* and for the token that owns it, and every server that still accepts     *)
(* without having been cancelled has an entry, so remove_token reaches it  *)
(* and no port has two servers (server.py:567-573, 716-717, 835-841).      *)
ServersAreOwned ==
    /\ \A p \in PortKeys : socksTasks[p] # None =>
          LET k == task[socksTasks[p]]
          IN  /\ k.st # "none" /\ ~k.cancelled /\ k.port = p
              /\ tokens[k.token] = p
    /\ \A k \in Tasks : task[k].st \in {"created", "accepting"} /\ ~task[k].cancelled
          => socksTasks[task[k].port] = k

(* A session that ended leaves nothing in _clients and _token_clients,     *)
(* whichever tokens were removed or added again while it was waiting in    *)
(* its handler (server.py:849, 947-976).                                   *)
GoneIsForgotten ==
    \A c \in Conns : session[c].st \in {"new", "gone"} =>
        /\ c \notin clients
        /\ \A n \in DOMAIN tokenClients : c \notin tokenClients[n]

(* An authenticated reverse client or connector is listed under its own    *)
(* token and no other, or its connection is being closed: no client of a   *)
(* removed token stays connected, even one whose handler was waiting for   *)
(* the SOCKS server when the token went (server.py:506-550, 832-849).      *)
UnlistedIsClosing ==
    \A c \in Conns :
        LET s == session[c]
            lists == {n \in DOMAIN tokenClients : c \in tokenClients[n]}
        IN  s.st \in {"starting", "notifying", "running"} /\ s.name \notin FwdTokens =>
              \/ lists = {s.name} /\ Registered(s.name)
              \/ lists = {} /\ s.link # "open"

(* The reverse token that a connector token forwards to exists:            *)
(* "Remove all connector tokens using this reverse token" (server.py:531). *)
(* Connector tokens of internal tokens are not removed with them, so this  *)
(* speaks of those added for a token of the API.                           *)
ConnectorTargetExists ==
    \A ct \in ConnTokens : connTokens[ct] \in RevTokens => Registered(connTokens[ct])

(* An internal token lives only as long as a managing token that lists it, *)
(* has the permission and no port, and has a lock for                      *)
(* _get_next_websocket to take (server.py:508-529, 800-822, 651).          *)
InternalIsOwned ==
    \A i \in Instances : tokens[i] # None =>
        /\ \E t \in RevTokens : tokens[t] # None /\ i \in internal[t]
        /\ tokens[i] = NoPort /\ options[i] = "manage" /\ i \in locks

(* Removing a reverse or connector token closes connections of clients of  *)
(* that token and of what depends on it only (server.py:488, 513, 533,     *)
(* 541).  The forward tokens share one table of clients, all closed by the *)
(* removal of any of them (server.py:585-592).                             *)
RemovalClosesOwnClients ==
    [][\A c \in Conns :
         /\ session[c].link = "open" /\ session'[c].link = "closeReq"
         /\ session[c].name \notin FwdTokens
         => ~Registered(session[c].name)']_regVars

(* The entry of token n in the task table is a server of that token which  *)
(* nobody has cancelled, in one of the given states.                       *)
HasServer(n, states) ==
    LET k == socksTasks[tokens[n]]
    IN  /\ k # None
        /\ task[k].token = n /\ task[k].st \in states /\ ~task[k].cancelled

(* A reverse client of a token with a port is told that it is in.          *)
Confirms(c) ==
    /\ session[c].st \in {"new", "starting"}
    /\ session'[c].st \in {"notifying", "running"} /\ session'[c].link = "open"
    /\ session'[c].name \in RevTokens /\ Registered(session'[c].name)

(* "Ensure SOCKS server is running and has allocated its socket before     *)
(* confirming auth" (server.py:832), as far as it goes.  The client that   *)
(* started the server and waited for it is confirmed while that server     *)
(* accepts.  One that finds an entry in the table does not wait            *)
(* (server.py:835): it may rely on a server of its own token that accepts  *)
(* or is about to, never on one that is being cancelled or has ended, nor  *)
(* on one of a token that had the port before.                             *)
ServerRunsBeforeConfirm ==
    [][\A c \in Conns : Confirms(c) =>
         HasServer(session'[c].name,
                   IF session[c].st = "starting"
                     THEN {"accepting"} ELSE {"created", "accepting"})]_regVars

(* The same comment at its word, which does not hold: the second client    *)
(* may be confirmed before the server has taken its first step.            *)
SocketBeforeConfirm ==
    [][\A c \in Conns :
         Confirms(c) => HasServer(session'[c].name, {"accepting"})]_regVars

(* The first message a reverse client gets is the answer to its            *)
(* authentication: the client takes the first message for that answer      *)
(* ("Directly receive auth response", client.py:515).                      *)
AuthResponseFirst ==
    \A c \in Conns : session[c].first \in {None, "auth"}

(* "Send the current number of reverse clients to all connectors"          *)
(* (server.py:1314): the broadcast after a login runs to its end, and the  *)
(* session of the client that logged in goes on while it is connected.     *)
BroadcastCompletes ==
    [][\A c \in Conns :
         session[c].st = "notifying" /\ session[c].link = "open"
            => session'[c].st # "gone"]_regVars

(* Liveness: the handler of a closed connection ends, wherever it was      *)
(* waiting (server.py:898-945).                                            *)
ClosedIsForgotten ==
    \A c \in Conns : session[c].link = "closed" ~> session[c].st = "gone"

(* Liveness: a client that waits for the SOCKS server is answered or gone, *)
(* although the task it waits for may be cancelled before its first step   *)
(* and then never sets the event (server.py:842-849).                      *)
WaitingIsAnswered ==
    \A c \in Conns : session[c].st = "starting" ~> session[c].st # "starting"

(* Liveness: the server of a removed token ends (server.py:567-573).       *)
RemovedServerEnds ==
    \A k \in Tasks :
        task[k].st \in {"created", "accepting"} /\ task[k].cancelled
            ~> task[k].st = "none"
=============================================================================
