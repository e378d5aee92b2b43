--------------------------- MODULE SocketManager ---------------------------
(***************************************************************************)
(* The SocketManager of server.py: listening sockets shared by reference   *)
(* count and kept open for a grace period after their last user.           *)
(*                                                                         *)
(* Its methods run under one asyncio.Lock and await nothing while they     *)
(* hold it, so each is one step; close() is the exception: it awaits the   *)
(* cleanup tasks it cancelled with the lock held, which the phase          *)
(* "closing" stands for.                                                   *)
(***************************************************************************)
EXTENDS Integers, FiniteSets

CONSTANTS Ports,    \* the ports asked for
          Users,    \* the callers: one per running SOCKS server task
          Socks,    \* identities of socket objects
          Timers,   \* identities of _cleanup_socket tasks: bounds how many sleep at once
          Grace,    \* the grace period, in ticks of the clock
          None      \* no socket, no port

ASSUME SocketAssumption ==
    /\ IsFiniteSet(Users)
    /\ Grace \in Nat \ {0}
    /\ None \notin Ports \cup Socks

VARIABLES sockets,  \* _sockets: sockets[p].sock = None when p is not a key
          open,     \* the sockets the operating system holds open
          held,     \* what get_socket returned to each user
          timers,   \* the sleeping _cleanup_socket tasks
          phase     \* "open", "closing" (close() holds the lock), "closed"

smVars == <<sockets, open, held, timers, phase>>

Unstamped == -1                  \* the timestamp 0 of the code
Entry(s, r, a) == [sock |-> s, refs |-> r, age |-> a]
Absent == Entry(None, 0, Unstamped)
NotHeld == [port |-> None, sock |-> None]
NoTimer == [port |-> None, left |-> 0]

Bound(p) == sockets[p].sock # None
Holders(p) == {u \in Users : held[u].port = p}
InHand == {held[u].sock : u \in Users}

(***************************************************************************)
(* The timestamp of an entry is kept as its age, capped at Grace.          *)
(***************************************************************************)
SMTypeOK ==
    /\ sockets \in [Ports -> [sock : Socks \cup {None}, refs : Nat, age : Unstamped..Grace]]
    /\ open \subseteq Socks
    /\ held \in [Users -> [port : Ports \cup {None}, sock : Socks \cup {None}]]
    /\ timers \in [Timers -> [port : Ports \cup {None}, left : 0..Grace]]
    /\ phase \in {"open", "closing", "closed"}

SMInit ==
    /\ sockets = [p \in Ports |-> Absent]
    /\ open = {}
    /\ held = [u \in Users |-> NotHeld]
    /\ timers = [t \in Timers |-> NoTimer]
    /\ phase = "open"

(***************************************************************************)
(* get_socket: an existing socket gains a reference and keeps its          *)
(* timestamp; otherwise a new socket is bound.                             *)
(***************************************************************************)
MutUncountedReuse(u, p) ==
    /\ Bound(p)
    /\ held' = [held EXCEPT ![u] = [port |-> p, sock |-> sockets[p].sock]]
    /\ UNCHANGED <<sockets, open>>

ReuseSocket(u, p) ==
    /\ Bound(p)
    /\ sockets' = [sockets EXCEPT ![p] = Entry(@.sock, @.refs + 1, @.age)]
    /\ held' = [held EXCEPT ![u] = [port |-> p, sock |-> sockets[p].sock]]
    /\ UNCHANGED open

BindSocket(u, p) ==
    /\ ~Bound(p)
    /\ \E s \in Socks \ (open \cup InHand) :
         /\ sockets' = [sockets EXCEPT ![p] = Entry(s, 1, Unstamped)]
         /\ held' = [held EXCEPT ![u] = [port |-> p, sock |-> s]]
         /\ open' = open \cup {s}

GetSocket(u, p) ==
    /\ phase # "closing"
    /\ held[u] = NotHeld
    /\ ReuseSocket(u, p) \/ BindSocket(u, p)
    /\ UNCHANGED <<timers, phase>>

(***************************************************************************)
(* release_socket: the last reference stamps the entry and starts one more *)
(* cleanup task; an earlier one for the port goes on sleeping.             *)
(***************************************************************************)
MutOneCleanupTask(p) ==
    /\ Bound(p)
    /\ sockets[p].refs - 1 <= 0
    /\ sockets' = [sockets EXCEPT ![p] = Entry(@.sock, 0, 0)]
    /\ \E t \in Timers :
         /\ timers[t] = NoTimer
         /\ timers' = IF sockets[p].age # Unstamped THEN timers
                        ELSE [timers EXCEPT ![t] = [port |-> p, left |-> Grace]]

LastRelease(p) ==
    /\ Bound(p)
    /\ sockets[p].refs - 1 <= 0
    /\ sockets' = [sockets EXCEPT ![p] = Entry(@.sock, 0, 0)]
    /\ \E t \in Timers :
         /\ timers[t] = NoTimer
         /\ timers' = [timers EXCEPT ![t] = [port |-> p, left |-> Grace]]

SharedRelease(p) ==
    /\ Bound(p)
    /\ sockets[p].refs - 1 > 0
    /\ sockets' = [sockets EXCEPT ![p] = Entry(@.sock, @.refs - 1, Unstamped)]
    /\ UNCHANGED timers

ReleaseSocket(u, p) ==
    /\ phase # "closing"
    /\ held[u].port = p
    /\ held' = [held EXCEPT ![u] = NotHeld]
    /\ \/ LastRelease(p)
       \/ SharedRelease(p)
       \/ ~Bound(p) /\ UNCHANGED <<sockets, timers>>
    /\ UNCHANGED <<open, phase>>

(***************************************************************************)
(* _cleanup_socket, after its sleep: the entry goes if it has no           *)
(* reference and a timestamp, whichever release the timestamp is of.       *)
(***************************************************************************)
MutAnyStamped(p) == sockets[p].age # Unstamped
Expired(p) == sockets[p].refs = 0 /\ sockets[p].age # Unstamped

MutRetireUnclosed(p) ==
    /\ UNCHANGED open
    /\ sockets' = [sockets EXCEPT ![p] = Absent]

RetireSocket(p) ==
    /\ open' = open \ {sockets[p].sock}
    /\ sockets' = [sockets EXCEPT ![p] = Absent]

CleanupSocket(t, p) ==
    /\ phase # "closing"
    /\ timers[t] = [port |-> p, left |-> 0]
    /\ timers' = [timers EXCEPT ![t] = NoTimer]
    /\ IF Bound(p) /\ Expired(p)
         THEN RetireSocket(p)
         ELSE UNCHANGED <<sockets, open>>
    /\ UNCHANGED <<held, phase>>

(***************************************************************************)
(* One tick of the clock.  A task that is due may still run late.          *)
(***************************************************************************)
Elapse(n) == IF n > 0 THEN n - 1 ELSE n
Older(n) == IF n \in 0..(Grace - 1) THEN n + 1 ELSE n

Tick ==
    /\ \/ \E t \in Timers : timers[t].left > 0
       \/ \E p \in Ports : sockets[p].age \in 0..(Grace - 1)
    /\ timers' = [t \in Timers |->
                    [port |-> timers[t].port, left |-> Elapse(timers[t].left)]]
    /\ sockets' = [p \in Ports |->
                    Entry(sockets[p].sock, sockets[p].refs, Older(sockets[p].age))]
    /\ UNCHANGED <<open, held, phase>>

(***************************************************************************)
(* close(): cancel the cleanup tasks, wait for them with the lock held,    *)
(* then close every socket.                                                *)
(***************************************************************************)
BeginClose ==
    /\ phase = "open"
    /\ phase' = "closing"
    /\ timers' = [t \in Timers |-> NoTimer]
    /\ UNCHANGED <<sockets, open, held>>

EndClose ==
    /\ phase = "closing"
    /\ phase' = "closed"
    /\ open' = open \ {sockets[p].sock : p \in Ports}
    /\ sockets' = [p \in Ports |-> Absent]
    /\ UNCHANGED <<held, timers>>

SMNext ==
    \/ \E u \in Users, p \in Ports : GetSocket(u, p) \/ ReleaseSocket(u, p)
    \/ \E t \in Timers, p \in Ports : CleanupSocket(t, p)
    \/ Tick
    \/ BeginClose
    \/ EndClose

SMSpec == SMInit /\ [][SMNext]_smVars

(***************************************************************************)
(* The event loop wakes a sleeping task once its time has come, and a      *)
(* close() that started goes on.  Users get and release as they like.      *)
(***************************************************************************)
SMFairness ==
    /\ WF_smVars(Tick)
    /\ \A t \in Timers : WF_smVars(\E p \in Ports : CleanupSocket(t, p))
    /\ WF_smVars(EndClose)

SMFairSpec == SMSpec /\ SMFairness
-----------------------------------------------------------------------------
(* The reference count is the number of users that hold the port, however  *)
(* get_socket and release_socket calls of several users interleave with    *)
(* the cleanup tasks (server.py:131-177); close() ends the promise.        *)
RefsMatchHolders ==
    phase = "open" =>
        \A p \in Ports : sockets[p].refs = Cardinality(Holders(p))

(* A user never listens on a socket the manager closed or replaced: no     *)
(* cleanup task of an earlier release may close a socket in use            *)
(* (server.py:206-212).                                                    *)
NoUseAfterClose ==
    phase = "open" =>
        \A u \in Users : held[u] # NotHeld =>
            /\ held[u].sock \in open
            /\ held[u].port \in Ports
            /\ sockets[held[u].port].sock = held[u].sock

(* Every socket the system holds open is in the table, once: none is left  *)
(* open that no release, cleanup or close can reach (server.py:142-148).   *)
NoSocketLeak ==
    /\ open = {sockets[p].sock : p \in {q \in Ports : Bound(q)}}
    /\ \A p, q \in Ports : Bound(p) /\ sockets[p].sock = sockets[q].sock => p = q

(* A port without users is always due for cleanup: some task still sleeps  *)
(* for it, although a task that wakes while the port is in use goes away   *)
(* without effect (server.py:167-174, 213-218).                            *)
IdleHasTimer ==
    phase = "open" =>
        \A p \in Ports : Bound(p) /\ sockets[p].refs = 0 =>
            /\ sockets[p].age # Unstamped
            /\ \E t \in Timers : timers[t].port = p

(* A port that nobody uses is closed or used again: the socket of a        *)
(* removed token does not stay open for ever (server.py:196-212).          *)
IdleEventuallyClosed ==
    \A p \in Ports :
        (Bound(p) /\ sockets[p].refs = 0 /\ phase = "open")
            ~> (~Bound(p) \/ sockets[p].refs > 0 \/ phase # "open")

(* What the docstring says of a release: "starting 30s grace period for    *)
(* potential reuse" (server.py:153).  A cleanup task closes a socket only  *)
(* when the whole period has passed since its last release.                *)
FullGracePeriod ==
    [][\A p \in Ports :
         (Bound(p) /\ sockets[p].sock \notin open' /\ phase = "open")
            => sockets[p].age = Grace]_smVars

(***************************************************************************)
(* The manager implements SocketLease.                                     *)
(***************************************************************************)
Lease == INSTANCE SocketLease
           WITH listening <- {p \in Ports : Bound(p)},
                holders <- [p \in Ports |-> Holders(p)],
                down <- (phase # "open")

(* Acquire, leave and retire as a client sees them: a port is retired only *)
(* while no user holds it, although the code consults nothing but its own  *)
(* reference count and timestamp.                                          *)
ImplementsLease == Lease!LeaseSpec
=============================================================================
