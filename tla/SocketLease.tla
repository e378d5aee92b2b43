---------------------------- MODULE SocketLease ----------------------------
(***************************************************************************)
(* What SocketManager (server.py) promises to the SOCKS servers that share *)
(* it: a port is listening from its first use on, every holder of a port   *)
(* listens on it, and a port is retired only while nobody holds it.  How   *)
(* the manager knows that nobody holds a port (a reference count, a        *)
(* timestamp and one cleanup task per release) is left to SocketManager.   *)
(***************************************************************************)
EXTENDS Integers

CONSTANTS Ports,    \* the ports SOCKS servers listen on
          Users     \* the SOCKS server tasks

VARIABLES listening,   \* the ports with a listening socket
          holders,     \* holders[p]: the users that listen on p
          down         \* close() was called: the server is shutting down

leaseVars == <<listening, holders, down>>

LeaseInit ==
    /\ listening = {}
    /\ holders = [p \in Ports |-> {}]
    /\ down = FALSE

Acquire(u, p) ==
    /\ ~down
    /\ \A q \in Ports : u \notin holders[q]
    /\ listening' = listening \cup {p}
    /\ holders' = [holders EXCEPT ![p] = @ \cup {u}]
    /\ UNCHANGED down

Leave(u, p) ==
    /\ ~down
    /\ u \in holders[p]
    /\ holders' = [holders EXCEPT ![p] = @ \ {u}]
    /\ UNCHANGED <<listening, down>>

Retire(p) ==
    /\ ~down
    /\ p \in listening
    /\ holders[p] = {}
    /\ listening' = listening \ {p}
    /\ UNCHANGED <<holders, down>>

GoDown ==
    /\ ~down
    /\ down' = TRUE
    /\ UNCHANGED <<listening, holders>>

LeaseNext ==
    \/ \E p \in Ports :
         \/ \E u \in Users : Acquire(u, p) \/ Leave(u, p)
         \/ Retire(p)
    \/ GoDown
    \/ down /\ down'            \* shutting down: no promise is left

LeaseSpec == LeaseInit /\ [][LeaseNext]_leaseVars
=============================================================================
