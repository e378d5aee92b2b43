--------------------------- MODULE ReverseServer ---------------------------
(***************************************************************************)
(* TokenRegistry and SocketManager together: the SOCKS server task of a    *)
(* token gets its listening socket from the manager when it starts and     *)
(* releases it in its finally block, while tokens come and go and the      *)
(* cleanup tasks of earlier releases still sleep.                          *)
(***************************************************************************)
EXTENDS TokenRegistry

CONSTANTS Socks, Timers, Grace      \* as in SocketManager

ASSUME ServerAssumption ==
    IsFiniteSet(Tasks) /\ Grace \in Nat \ {0} /\ None \notin Socks

VARIABLES sockets, open, held, timers, phase

Manager == INSTANCE SocketManager WITH Users <- Tasks

managerVars == <<sockets, open, held, timers, phase>>
serverVars == <<regVars, managerVars>>

ServerTypeOK == RegTypeOK /\ Manager!SMTypeOK

ServerInit == RegInit /\ Manager!SMInit

(* get_socket succeeded: the ready event is set and the task accepts.      *)
Listen(k) ==
    /\ ServerListens(k)
    /\ Manager!GetSocket(k, task[k].port)

(* bind is only called for a port that has no socket yet.                  *)
CannotBind(k) ==
    /\ ServerCannotBind(k)
    /\ task[k].port = NoPort \/ ~Manager!Bound(task[k].port)
    /\ UNCHANGED managerVars

MutForgetRelease(k) ==
    /\ ServerReleases(k)
    /\ UNCHANGED managerVars

Release(k) ==
    /\ ServerReleases(k)
    /\ Manager!ReleaseSocket(k, task[k].port)

(* The task ends without a call of the manager.                            *)
EndUnreleased(k) ==
    /\ ServerNeverRan(k) \/ ServerDropsSocket(k)
    /\ UNCHANGED managerVars

StopAccepting(k) == ServerStops(k) /\ UNCHANGED managerVars

TaskStep(k) ==
    Listen(k) \/ CannotBind(k) \/ StopAccepting(k) \/ Release(k) \/ EndUnreleased(k)

SessionStep(c) ==
    /\ AuthStep(c) \/ LinkLost(c) \/ HandlerStep(c) \/ ManageStep(c)
    /\ UNCHANGED managerVars

CleanupStep(t) ==
    /\ \E p \in Ports : Manager!CleanupSocket(t, p)
    /\ UNCHANGED regVars

ClockStep == Manager!Tick /\ UNCHANGED regVars

ServerNext ==
    \/ TokenStep /\ UNCHANGED managerVars
    \/ \E t \in RevTokens : HandlePendingToken(t) /\ UNCHANGED managerVars
    \/ \E c \in Conns : SessionStep(c)
    \/ \E k \in Tasks : TaskStep(k)
    \/ \E t \in Timers : CleanupStep(t)
    \/ ClockStep

ServerSpec == ServerInit /\ [][ServerNext]_serverVars

(***************************************************************************)
(* As in the two modules: coroutines that are ready run, and sleeps end.   *)
(***************************************************************************)
ServerFairSpec ==
    /\ ServerSpec
    /\ \A c \in Conns : WF_serverVars(HandlerStep(c) /\ UNCHANGED managerVars)
    /\ \A k \in Tasks : WF_serverVars(TaskStep(k) /\ ~AcceptFails(k))
    /\ \A t \in Timers : WF_serverVars(CleanupStep(t))
    /\ WF_serverVars(ClockStep)
-----------------------------------------------------------------------------
(* A server that accepts does so on an open socket for the port of its     *)
(* token, and that socket is counted: neither the cleanup tasks of tokens  *)
(* removed earlier nor the release by the cancelled server that had the    *)
(* port before can take it away (server.py:196-212, 566-576, 1274).        *)
AcceptorsListen ==
    \A k \in Tasks : task[k].st = "accepting" =>
        /\ held[k].port = task[k].port
        /\ held[k].sock \in open
        /\ sockets[task[k].port].sock = held[k].sock
        /\ sockets[task[k].port].refs > 0

(* "Release the socket (starts grace period)" (server.py:1273): a server   *)
(* that ended holds no reference, and the count of a port is the number of *)
(* servers that run on it.                                                 *)
EndedServersHoldNothing ==
    \A p \in Ports :
        sockets[p].refs =
            Cardinality({k \in Tasks : /\ task[k].st \in {"accepting", "draining"}
                                       /\ task[k].port = p})

(* Liveness: the port of a removed token is closed in the end, or belongs  *)
(* to a token again: cancelling the server, waiting for its handlers,      *)
(* releasing the socket and the cleanup after the grace period follow one  *)
(* another (server.py:566-576, 1267-1274, 196-212).                        *)
RemovedPortCloses ==
    \A p \in Ports :
        (p \notin used /\ Manager!Bound(p)) ~> (p \in used \/ ~Manager!Bound(p))
=============================================================================
