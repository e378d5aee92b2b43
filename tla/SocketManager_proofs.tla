------------------------ MODULE SocketManager_proofs ------------------------
(***************************************************************************)
(* Theorems about SocketManager, for every set of ports, users, sockets    *)
(* and cleanup tasks and every grace period.                               *)
(*                                                                         *)
(* The properties of SocketManager are not inductive one by one: that a    *)
(* cleanup closes no socket in use follows from the reference count, that  *)
(* closing one port leaves the others listening follows from sockets being *)
(* distinct, and so on.  SMInv is their conjunction, with the shape of     *)
(* held and the two halves of NoSocketLeak spelled out.                    *)
(***************************************************************************)
EXTENDS SocketManager, FiniteSetTheorems, TLAPS

HeldShape ==
    \A u \in Users :
        held[u] = NotHeld \/ (held[u].port \in Ports /\ held[u].sock \in Socks)

BoundOpen == \A p \in Ports : Bound(p) => sockets[p].sock \in open

OpenBound == \A s \in open : \E p \in Ports : sockets[p].sock = s

SocksDistinct ==
    \A p, q \in Ports : Bound(p) /\ sockets[p].sock = sockets[q].sock => p = q

SMInv ==
    /\ SMTypeOK
    /\ HeldShape
    /\ BoundOpen
    /\ OpenBound
    /\ SocksDistinct
    /\ RefsMatchHolders
    /\ NoUseAfterClose
    /\ IdleHasTimer
-----------------------------------------------------------------------------
(* The holders of a port are a finite set, as Cardinality needs.           *)
LEMMA HoldersFinite ==
    ASSUME NEW p
    PROVE  IsFiniteSet(Holders(p)) /\ Cardinality(Holders(p)) \in Nat
<1>1. IsFiniteSet(Holders(p))
  BY SocketAssumption, FS_Subset DEF Holders
<1> QED
  BY <1>1, FS_CardinalityType

(* A reference count of zero is the code's whole evidence that a port is   *)
(* unused (server.py:207); here that evidence is shown to be right.        *)
LEMMA NoRefsNoHolders ==
    ASSUME SMInv, phase = "open", NEW p \in Ports, sockets[p].refs = 0
    PROVE  \A u \in Users : held[u].port # p
<1>1. Cardinality(Holders(p)) = 0
  BY DEF SMInv, RefsMatchHolders
<1>2. Holders(p) = {}
  BY <1>1, HoldersFinite, FS_EmptySet
<1> QED
  BY <1>2 DEF Holders

(* A port that is not in the table has no holder and no reference.         *)
LEMMA UnboundNoHolders ==
    ASSUME SMInv, phase = "open", NEW p \in Ports, ~Bound(p)
    PROVE  /\ Holders(p) = {}
           /\ sockets[p].refs = 0
<1>1. \A u \in Users : held[u].port # p
  <2> SUFFICES ASSUME NEW u \in Users, held[u].port = p
               PROVE  FALSE
    OBVIOUS
  <2>1. held[u] # NotHeld
    BY SocketAssumption DEF NotHeld
  <2>2. held[u].sock \in Socks /\ sockets[p].sock = held[u].sock
    BY <2>1 DEF SMInv, HeldShape, NoUseAfterClose
  <2> QED
    BY <2>2, SocketAssumption DEF Bound
<1>2. Holders(p) = {}
  BY <1>1 DEF Holders
<1> QED
  BY <1>2, FS_EmptySet DEF SMInv, RefsMatchHolders

(* Getting a port adds one holder to it and to no other port.              *)
LEMMA GetAddsHolder ==
    ASSUME SMInv, NEW u \in Users, NEW p \in Ports, NEW s \in Socks,
           held[u] = NotHeld,
           held' = [held EXCEPT ![u] = [port |-> p, sock |-> s]]
    PROVE  /\ Cardinality(Holders(p))' = Cardinality(Holders(p)) + 1
           /\ \A q \in Ports \ {p} : Holders(q)' = Holders(q)
<1>1. held[u].port = None /\ u \notin Holders(p)
  BY SocketAssumption DEF Holders, NotHeld
<1>2. Holders(p)' = Holders(p) \cup {u}
  BY DEF Holders, SMInv, SMTypeOK
<1>3. \A q \in Ports \ {p} : Holders(q)' = Holders(q)
  BY <1>1, SocketAssumption DEF Holders, SMInv, SMTypeOK
<1> QED
  BY <1>1, <1>2, <1>3, HoldersFinite, FS_AddElement

(* Releasing a port removes one holder from it and from no other port.     *)
LEMMA ReleaseRemovesHolder ==
    ASSUME SMInv, NEW u \in Users, NEW p \in Ports, held[u].port = p,
           held' = [held EXCEPT ![u] = NotHeld]
    PROVE  /\ Cardinality(Holders(p))' = Cardinality(Holders(p)) - 1
           /\ \A q \in Ports \ {p} : Holders(q)' = Holders(q)
<1>1. u \in Holders(p)
  BY DEF Holders
<1>2. Holders(p)' = Holders(p) \ {u}
  BY SocketAssumption DEF Holders, SMInv, SMTypeOK, NotHeld
<1>3. \A q \in Ports \ {p} : Holders(q)' = Holders(q)
  BY SocketAssumption DEF Holders, SMInv, SMTypeOK, NotHeld
<1> QED
  BY <1>1, <1>2, <1>3, HoldersFinite, FS_RemoveElement
-----------------------------------------------------------------------------
(* A new manager has an empty table (server.py:117-120).                   *)
LEMMA SMInitInv == SMInit => SMInv
<1> SUFFICES ASSUME SMInit PROVE SMInv
  OBVIOUS
<1> USE SocketAssumption DEF SMInit, Absent, Entry, NotHeld, NoTimer, Unstamped
<1>1. SMTypeOK
  BY DEF SMTypeOK
<1>2. HeldShape /\ BoundOpen /\ OpenBound /\ SocksDistinct
  BY DEF HeldShape, BoundOpen, OpenBound, SocksDistinct, Bound
<1>3. RefsMatchHolders
  <2>1. \A p \in Ports : Holders(p) = {}
    BY DEF Holders
  <2> QED
    BY <2>1, FS_EmptySet DEF RefsMatchHolders
<1>4. NoUseAfterClose /\ IdleHasTimer
  BY DEF NoUseAfterClose, IdleHasTimer, Bound
<1> QED
  BY <1>1, <1>2, <1>3, <1>4 DEF SMInv

(* get_socket on a port of the table adds a reference and a holder         *)
(* (server.py:133-140).                                                    *)
LEMMA ReuseKeepsInv ==
    ASSUME SMInv, NEW u \in Users, NEW p \in Ports,
           GetSocket(u, p), ReuseSocket(u, p)
    PROVE  SMInv'
<1> USE SocketAssumption DEF Entry
<1>0. sockets[p].sock \in Socks /\ held[u] = NotHeld
  BY DEF SMInv, SMTypeOK, ReuseSocket, Bound, GetSocket
<1>1. /\ Cardinality(Holders(p))' = Cardinality(Holders(p)) + 1
      /\ \A q \in Ports \ {p} : Holders(q)' = Holders(q)
  BY <1>0, GetAddsHolder DEF ReuseSocket
<1>2. SMTypeOK'
  BY <1>0 DEF SMInv, SMTypeOK, GetSocket, ReuseSocket
<1>3. HeldShape'
  BY <1>0 DEF SMInv, SMTypeOK, HeldShape, ReuseSocket
<1>4. \A q \in Ports : sockets'[q].sock = sockets[q].sock /\ sockets'[q].age = sockets[q].age
  BY DEF SMInv, SMTypeOK, ReuseSocket
<1>5. (BoundOpen /\ OpenBound /\ SocksDistinct)'
  BY <1>4 DEF SMInv, BoundOpen, OpenBound, SocksDistinct, Bound, ReuseSocket
<1>6. RefsMatchHolders'
  BY <1>1 DEF SMInv, SMTypeOK, RefsMatchHolders, ReuseSocket, GetSocket
<1>7. NoUseAfterClose'
  BY <1>0, <1>4 DEF SMInv, SMTypeOK, NoUseAfterClose, BoundOpen, ReuseSocket, GetSocket, Bound
<1>8. IdleHasTimer'
  BY DEF SMInv, SMTypeOK, IdleHasTimer, ReuseSocket, GetSocket, Bound
<1> QED
  BY <1>2, <1>3, <1>5, <1>6, <1>7, <1>8 DEF SMInv

(* get_socket on a new port enters a socket that was not open, with one    *)
(* reference (server.py:142-150).                                          *)
LEMMA BindKeepsInv ==
    ASSUME SMInv, NEW u \in Users, NEW p \in Ports,
           GetSocket(u, p), BindSocket(u, p)
    PROVE  SMInv'
<1> USE SocketAssumption DEF Entry
<1> PICK s \in Socks \ (open \cup InHand) :
      /\ sockets' = [sockets EXCEPT ![p] = Entry(s, 1, Unstamped)]
      /\ held' = [held EXCEPT ![u] = [port |-> p, sock |-> s]]
      /\ open' = open \cup {s}
  BY DEF BindSocket
<1>0. ~Bound(p) /\ held[u] = NotHeld /\ phase' = phase /\ timers' = timers
  BY DEF BindSocket, GetSocket
<1>1. /\ Cardinality(Holders(p))' = Cardinality(Holders(p)) + 1
      /\ \A q \in Ports \ {p} : Holders(q)' = Holders(q)
  BY <1>0, GetAddsHolder
<1>2. SMTypeOK'
  BY <1>0 DEF SMInv, SMTypeOK, Unstamped
<1>3. HeldShape'
  BY DEF SMInv, SMTypeOK, HeldShape
<1>4. BoundOpen' /\ OpenBound'
  BY <1>0 DEF SMInv, SMTypeOK, BoundOpen, OpenBound, Bound
<1>5. SocksDistinct'
  BY <1>0 DEF SMInv, SMTypeOK, BoundOpen, SocksDistinct, Bound
<1>6. RefsMatchHolders'
  <2> SUFFICES ASSUME phase = "open" PROVE RefsMatchHolders'
    BY <1>0 DEF RefsMatchHolders
  <2>1. Cardinality(Holders(p)) = 0
    BY <1>0, UnboundNoHolders, FS_EmptySet
  <2> QED
    BY <1>0, <1>1, <2>1 DEF SMInv, SMTypeOK, RefsMatchHolders
<1>7. NoUseAfterClose'
  <2> SUFFICES ASSUME phase = "open", NEW v \in Users, held'[v] # NotHeld
               PROVE  /\ held'[v].sock \in open'
                      /\ held'[v].port \in Ports
                      /\ sockets'[held'[v].port].sock = held'[v].sock
    BY <1>0 DEF NoUseAfterClose
  <2>1. CASE v = u
    BY <2>1 DEF SMInv, SMTypeOK
  <2>2. CASE v # u
    <3>1. held'[v] = held[v]
      BY <2>2 DEF SMInv, SMTypeOK
    <3>2. held[v].port # p
      BY <1>0, UnboundNoHolders DEF Holders
    <3> QED
      BY <3>1, <3>2 DEF SMInv, SMTypeOK, NoUseAfterClose
  <2> QED
    BY <2>1, <2>2
<1>8. IdleHasTimer'
  BY <1>0 DEF SMInv, SMTypeOK, IdleHasTimer, Bound
<1> QED
  BY <1>2, <1>3, <1>4, <1>5, <1>6, <1>7, <1>8 DEF SMInv

(* The release of the last reference stamps the entry and starts a cleanup *)
(* task (server.py:167-175).                                               *)
LEMMA LastReleaseKeepsInv ==
    ASSUME SMInv, NEW u \in Users, NEW p \in Ports,
           ReleaseSocket(u, p), LastRelease(p)
    PROVE  SMInv'
<1> USE SocketAssumption DEF Entry
<1> PICK t \in Timers :
      /\ timers[t] = NoTimer
      /\ timers' = [timers EXCEPT ![t] = [port |-> p, left |-> Grace]]
  BY DEF LastRelease
<1>0. /\ held[u].port = p /\ held' = [held EXCEPT ![u] = NotHeld]
      /\ Bound(p) /\ sockets[p].refs - 1 <= 0
      /\ sockets' = [sockets EXCEPT ![p] = Entry(@.sock, 0, 0)]
      /\ open' = open /\ phase' = phase
  BY DEF ReleaseSocket, LastRelease
<1>1. /\ Cardinality(Holders(p))' = Cardinality(Holders(p)) - 1
      /\ \A q \in Ports \ {p} : Holders(q)' = Holders(q)
  BY <1>0, ReleaseRemovesHolder
<1>2. \A q \in Ports : sockets'[q].sock = sockets[q].sock
  BY <1>0 DEF SMInv, SMTypeOK
<1>3. SMTypeOK'
  BY <1>0 DEF SMInv, SMTypeOK, NotHeld, Unstamped
<1>4. HeldShape'
  BY <1>0 DEF SMInv, SMTypeOK, HeldShape
<1>5. (BoundOpen /\ OpenBound /\ SocksDistinct)'
  BY <1>0, <1>2 DEF SMInv, BoundOpen, OpenBound, SocksDistinct, Bound
<1>6. RefsMatchHolders'
  <2> SUFFICES ASSUME phase = "open" PROVE RefsMatchHolders'
    BY <1>0 DEF RefsMatchHolders
  <2>1. Cardinality(Holders(p)) = sockets[p].refs
    BY DEF SMInv, RefsMatchHolders
  <2>2. Cardinality(Holders(p))' = 0
    <3>1. IsFiniteSet(Holders(p)')
      BY FS_Subset DEF Holders
    <3>2. Cardinality(Holders(p)') \in Nat
      BY <3>1, FS_CardinalityType
    <3> QED
      BY <1>0, <1>1, <2>1, <3>2, HoldersFinite
  <2> QED
    BY <1>0, <1>1, <2>2 DEF SMInv, SMTypeOK, RefsMatchHolders
<1>7. NoUseAfterClose'
  BY <1>0, <1>2 DEF SMInv, SMTypeOK, NoUseAfterClose
<1>8. IdleHasTimer'
  <2> SUFFICES ASSUME phase = "open", NEW q \in Ports, Bound(q), sockets'[q].refs = 0
               PROVE  /\ sockets'[q].age # Unstamped
                      /\ \E t2 \in Timers : timers'[t2].port = q
    BY <1>0, <1>2 DEF IdleHasTimer, Bound
  <2>1. CASE q = p
    BY <1>0, <2>1 DEF SMInv, SMTypeOK, Unstamped
  <2>2. CASE q # p
    BY <1>0, <2>2 DEF SMInv, SMTypeOK, IdleHasTimer, NoTimer
  <2> QED
    BY <2>1, <2>2
<1> QED
  BY <1>3, <1>4, <1>5, <1>6, <1>7, <1>8 DEF SMInv

(* A release while others hold the port only takes one reference away      *)
(* (server.py:165-166, 176-178).                                           *)
LEMMA SharedReleaseKeepsInv ==
    ASSUME SMInv, NEW u \in Users, NEW p \in Ports,
           ReleaseSocket(u, p), SharedRelease(p)
    PROVE  SMInv'
<1> USE SocketAssumption DEF Entry
<1>0. /\ held[u].port = p /\ held' = [held EXCEPT ![u] = NotHeld]
      /\ Bound(p) /\ sockets[p].refs - 1 > 0
      /\ sockets' = [sockets EXCEPT ![p] = Entry(@.sock, @.refs - 1, Unstamped)]
      /\ open' = open /\ phase' = phase /\ timers' = timers
  BY DEF ReleaseSocket, SharedRelease
<1>1. /\ Cardinality(Holders(p))' = Cardinality(Holders(p)) - 1
      /\ \A q \in Ports \ {p} : Holders(q)' = Holders(q)
  BY <1>0, ReleaseRemovesHolder
<1>2. \A q \in Ports : sockets'[q].sock = sockets[q].sock
  BY <1>0 DEF SMInv, SMTypeOK
<1>3. SMTypeOK'
  BY <1>0 DEF SMInv, SMTypeOK, NotHeld, Unstamped
<1>4. HeldShape'
  BY <1>0 DEF SMInv, SMTypeOK, HeldShape
<1>5. (BoundOpen /\ OpenBound /\ SocksDistinct)'
  BY <1>0, <1>2 DEF SMInv, BoundOpen, OpenBound, SocksDistinct, Bound
<1>6. RefsMatchHolders'
  BY <1>0, <1>1 DEF SMInv, SMTypeOK, RefsMatchHolders
<1>7. NoUseAfterClose'
  BY <1>0, <1>2 DEF SMInv, SMTypeOK, NoUseAfterClose
<1>8. IdleHasTimer'
  BY <1>0 DEF SMInv, SMTypeOK, IdleHasTimer, Bound
<1> QED
  BY <1>3, <1>4, <1>5, <1>6, <1>7, <1>8 DEF SMInv

(* A release after close() finds no entry and changes nothing of the table *)
(* (server.py:160-163).                                                    *)
LEMMA LateReleaseKeepsInv ==
    ASSUME SMInv, NEW u \in Users, NEW p \in Ports,
           ReleaseSocket(u, p), ~Bound(p), UNCHANGED <<sockets, timers>>
    PROVE  SMInv'
<1> USE SocketAssumption
<1>0. /\ held[u].port = p /\ held' = [held EXCEPT ![u] = NotHeld]
      /\ open' = open /\ phase' = phase
  BY DEF ReleaseSocket
<1>1. phase # "open"
  BY <1>0, UnboundNoHolders DEF Holders
<1>2. SMTypeOK' /\ HeldShape'
  BY <1>0 DEF SMInv, SMTypeOK, HeldShape, NotHeld
<1>3. (BoundOpen /\ OpenBound /\ SocksDistinct)'
  BY <1>0 DEF SMInv, BoundOpen, OpenBound, SocksDistinct, Bound
<1>4. (RefsMatchHolders /\ NoUseAfterClose /\ IdleHasTimer)'
  BY <1>0, <1>1 DEF RefsMatchHolders, NoUseAfterClose, IdleHasTimer
<1> QED
  BY <1>2, <1>3, <1>4 DEF SMInv

(* A cleanup task closes a socket that has no reference, hence no holder   *)
(* (server.py:207-212).                                                    *)
LEMMA RetireKeepsInv ==
    ASSUME SMInv, NEW t \in Timers, NEW p \in Ports,
           CleanupSocket(t, p), Bound(p), Expired(p)
    PROVE  SMInv'
<1> USE SocketAssumption DEF Entry
<1>0. /\ sockets' = [sockets EXCEPT ![p] = Absent]
      /\ open' = open \ {sockets[p].sock}
      /\ sockets[p].refs = 0
      /\ timers[t] = [port |-> p, left |-> 0] /\ timers' = [timers EXCEPT ![t] = NoTimer]
      /\ held' = held /\ phase' = phase
  BY DEF CleanupSocket, RetireSocket, Expired
<1>1. SMTypeOK' /\ HeldShape'
  BY <1>0 DEF SMInv, SMTypeOK, HeldShape, Absent, Unstamped, NoTimer
<1>2. ~Bound(p)' /\ \A q \in Ports \ {p} : sockets'[q] = sockets[q]
  BY <1>0 DEF SMInv, SMTypeOK, Absent, Bound
<1>3. BoundOpen' /\ SocksDistinct'
  BY <1>0, <1>2 DEF SMInv, BoundOpen, SocksDistinct, Bound
<1>4. OpenBound'
  BY <1>0, <1>2 DEF SMInv, OpenBound
<1>5. RefsMatchHolders' /\ NoUseAfterClose' /\ IdleHasTimer'
  <2> SUFFICES ASSUME phase = "open"
               PROVE  RefsMatchHolders' /\ NoUseAfterClose' /\ IdleHasTimer'
    BY <1>0 DEF RefsMatchHolders, NoUseAfterClose, IdleHasTimer
  <2>1. \A u \in Users : held[u].port # p
    BY <1>0, NoRefsNoHolders
  <2>2. \A q \in Ports : Holders(q)' = Holders(q)
    BY <1>0 DEF Holders
  <2>3. RefsMatchHolders'
    BY <1>0, <2>2 DEF SMInv, SMTypeOK, RefsMatchHolders, Absent
  <2>4. NoUseAfterClose'
    <3> SUFFICES ASSUME NEW u \in Users, held[u] # NotHeld
                 PROVE  /\ held[u].sock \in open'
                        /\ held[u].port \in Ports
                        /\ sockets'[held[u].port].sock = held[u].sock
      BY <1>0 DEF NoUseAfterClose
    <3>1. /\ held[u].port \in Ports \ {p} /\ held[u].sock \in open
          /\ sockets[held[u].port].sock = held[u].sock
      BY <2>1 DEF SMInv, NoUseAfterClose
    <3>2. held[u].sock # sockets[p].sock
      BY <3>1 DEF SMInv, SocksDistinct, Bound
    <3> QED
      BY <1>0, <1>2, <3>1, <3>2
  <2>5. IdleHasTimer'
    BY <1>0, <1>2 DEF SMInv, SMTypeOK, IdleHasTimer, Bound
  <2> QED
    BY <2>3, <2>4, <2>5
<1> QED
  BY <1>1, <1>3, <1>4, <1>5 DEF SMInv

(* A cleanup task that finds the port in use or gone leaves without effect *)
(* (server.py:202-203, 213-218).                                           *)
LEMMA IdleCleanupKeepsInv ==
    ASSUME SMInv, NEW t \in Timers, NEW p \in Ports,
           CleanupSocket(t, p), ~(Bound(p) /\ Expired(p))
    PROVE  SMInv'
<1> USE SocketAssumption
<1>0. /\ sockets' = sockets /\ open' = open /\ held' = held /\ phase' = phase
      /\ timers[t] = [port |-> p, left |-> 0] /\ timers' = [timers EXCEPT ![t] = NoTimer]
  BY DEF CleanupSocket
<1>1. SMTypeOK' /\ HeldShape'
  BY <1>0 DEF SMInv, SMTypeOK, HeldShape, NoTimer
<1>2. (BoundOpen /\ OpenBound /\ SocksDistinct)'
  BY <1>0 DEF SMInv, BoundOpen, OpenBound, SocksDistinct, Bound
<1>3. (RefsMatchHolders /\ NoUseAfterClose)'
  BY <1>0 DEF SMInv, RefsMatchHolders, NoUseAfterClose, Holders
<1>4. IdleHasTimer'
  BY <1>0 DEF SMInv, SMTypeOK, IdleHasTimer, Bound, Expired
<1> QED
  BY <1>1, <1>2, <1>3, <1>4 DEF SMInv

(* Time brings sleeping tasks nearer to their end and makes stamps older.  *)
LEMMA TickKeepsInv == SMInv /\ Tick => SMInv'
<1> SUFFICES ASSUME SMInv, Tick PROVE SMInv'
  OBVIOUS
<1> USE SocketAssumption DEF Entry
<1>0. open' = open /\ held' = held /\ phase' = phase
  BY DEF Tick
<1>1. \A q \in Ports : /\ sockets'[q].sock = sockets[q].sock
                       /\ sockets'[q].refs = sockets[q].refs
                       /\ sockets[q].age # Unstamped => sockets'[q].age # Unstamped
  BY DEF SMInv, SMTypeOK, Tick, Older, Unstamped
<1>2. \A t \in Timers : timers'[t].port = timers[t].port
  BY DEF SMInv, SMTypeOK, Tick
<1>3. SMTypeOK'
  <2>1. \A n \in 0..Grace : Elapse(n) \in 0..Grace
    BY DEF Elapse
  <2>2. \A n \in Unstamped..Grace : Older(n) \in Unstamped..Grace
    BY DEF Older, Unstamped
  <2> QED
    BY <1>0, <2>1, <2>2 DEF SMInv, SMTypeOK, Tick
<1>4. HeldShape'
  BY <1>0 DEF SMInv, HeldShape
<1>5. (BoundOpen /\ OpenBound /\ SocksDistinct)'
  BY <1>0, <1>1 DEF SMInv, BoundOpen, OpenBound, SocksDistinct, Bound
<1>6. (RefsMatchHolders /\ NoUseAfterClose)'
  BY <1>0, <1>1 DEF SMInv, RefsMatchHolders, NoUseAfterClose, Holders
<1>7. IdleHasTimer'
  BY <1>0, <1>1, <1>2 DEF SMInv, IdleHasTimer, Bound
<1> QED
  BY <1>3, <1>4, <1>5, <1>6, <1>7 DEF SMInv

(* close() ends the promises about sockets in use (server.py:220-235).     *)
LEMMA CloseKeepsInv == SMInv /\ (BeginClose \/ EndClose) => SMInv'
<1> SUFFICES ASSUME SMInv, BeginClose \/ EndClose PROVE SMInv'
  OBVIOUS
<1> USE SocketAssumption DEF Entry
<1>1. phase' # "open" /\ held' = held
  BY DEF BeginClose, EndClose
<1>2. (RefsMatchHolders /\ NoUseAfterClose /\ IdleHasTimer)'
  BY <1>1 DEF RefsMatchHolders, NoUseAfterClose, IdleHasTimer
<1>3. SMTypeOK' /\ HeldShape'
  BY DEF SMInv, SMTypeOK, HeldShape, BeginClose, EndClose, Absent, NoTimer, Unstamped
<1>4. (BoundOpen /\ OpenBound /\ SocksDistinct)'
  BY DEF SMInv, BoundOpen, OpenBound, SocksDistinct, Bound, BeginClose, EndClose, Absent
<1> QED
  BY <1>2, <1>3, <1>4 DEF SMInv

(* Every step keeps the inductive invariant.                               *)
LEMMA SMNextInv == SMInv /\ [SMNext]_smVars => SMInv'
<1> SUFFICES ASSUME SMInv, [SMNext]_smVars PROVE SMInv'
  OBVIOUS
<1>1. ASSUME NEW u \in Users, NEW p \in Ports, GetSocket(u, p) PROVE SMInv'
  BY <1>1, ReuseKeepsInv, BindKeepsInv DEF GetSocket
<1>2. ASSUME NEW u \in Users, NEW p \in Ports, ReleaseSocket(u, p) PROVE SMInv'
  BY <1>2, LastReleaseKeepsInv, SharedReleaseKeepsInv, LateReleaseKeepsInv DEF ReleaseSocket
<1>3. ASSUME NEW t \in Timers, NEW p \in Ports, CleanupSocket(t, p) PROVE SMInv'
  BY <1>3, RetireKeepsInv, IdleCleanupKeepsInv
<1>4. CASE Tick
  BY <1>4, TickKeepsInv
<1>5. CASE BeginClose \/ EndClose
  BY <1>5, CloseKeepsInv
<1>6. CASE UNCHANGED smVars
  BY <1>6 DEF smVars, SMInv, SMTypeOK, HeldShape, BoundOpen, OpenBound, SocksDistinct,
              RefsMatchHolders, NoUseAfterClose, IdleHasTimer, Bound, Holders
<1> QED
  BY <1>1, <1>2, <1>3, <1>4, <1>5, <1>6 DEF SMNext

(* The inductive invariant holds in every reachable state.                 *)
LEMMA SMInductive == SMSpec => []SMInv
BY SMInitInv, SMNextInv, PTL DEF SMSpec
-----------------------------------------------------------------------------
(* Every reachable state is well typed, and while the manager is open the  *)
(* reference count of a port is the number of its holders: get_socket and  *)
(* release_socket never lose or invent a reference (server.py:131-177).    *)
THEOREM RefsTheorem == SMSpec => [](SMTypeOK /\ RefsMatchHolders)
<1>1. SMInv => SMTypeOK /\ RefsMatchHolders
  BY DEF SMInv
<1> QED
  BY <1>1, SMInductive, PTL

(* No SOCKS server task ever listens on a socket the manager has closed,   *)
(* however many cleanup tasks of earlier releases still sleep              *)
(* (server.py:196-212).                                                    *)
THEOREM NoUseAfterCloseTheorem == SMSpec => []NoUseAfterClose
<1>1. SMInv => NoUseAfterClose
  BY DEF SMInv
<1> QED
  BY <1>1, SMInductive, PTL

(* No socket stays open outside the table, and a table entry that nobody   *)
(* uses has a cleanup task that will look at it (server.py:167-212).       *)
THEOREM NoLeakTheorem == SMSpec => [](NoSocketLeak /\ IdleHasTimer)
<1>1. SMInv => NoSocketLeak /\ IdleHasTimer
  <2> SUFFICES ASSUME SMInv PROVE NoSocketLeak /\ IdleHasTimer
    OBVIOUS
  <2>1. open \subseteq {sockets[p].sock : p \in {q \in Ports : Bound(q)}}
    <3> SUFFICES ASSUME NEW s \in open
                 PROVE  \E p \in {q \in Ports : Bound(q)} : sockets[p].sock = s
      OBVIOUS
    <3>1. PICK p \in Ports : sockets[p].sock = s
      BY DEF SMInv, OpenBound
    <3>2. s # None
      BY SocketAssumption DEF SMInv, SMTypeOK
    <3> QED
      BY <3>1, <3>2 DEF Bound
  <2>2. {sockets[p].sock : p \in {q \in Ports : Bound(q)}} \subseteq open
    BY DEF SMInv, BoundOpen
  <2> QED
    BY <2>1, <2>2 DEF SMInv, NoSocketLeak, SocksDistinct
<1> QED
  BY <1>1, SMInductive, PTL
-----------------------------------------------------------------------------
(* Each step of the manager is a step of SocketLease or leaves what a      *)
(* client of the manager sees as it is.                                    *)
LEMMA StepIsLeaseStep ==
    ASSUME SMInv, [SMNext]_smVars
    PROVE  [Lease!LeaseNext]_(Lease!leaseVars)
<1> DEFINE listening == {p \in Ports : Bound(p)}
           holders == [p \in Ports |-> Holders(p)]
           down == phase # "open"
<1> USE SocketAssumption DEF Entry
<1>1. CASE phase # "open"
  <2>1. phase' # "open"
    BY <1>1 DEF SMNext, smVars, GetSocket, ReleaseSocket, CleanupSocket, Tick, BeginClose, EndClose
  <2> QED
    BY <1>1, <2>1 DEF Lease!LeaseNext
<1>2. ASSUME phase = "open", NEW u \in Users, NEW p \in Ports, GetSocket(u, p)
      PROVE  Lease!Acquire(u, p)
  <2>1. \A q \in Ports : u \notin Holders(q)
    BY <1>2 DEF GetSocket, Holders, NotHeld
  <2>2. PICK s \in Socks :
          /\ held' = [held EXCEPT ![u] = [port |-> p, sock |-> s]]
          /\ Bound(p)'
          /\ \A q \in Ports \ {p} : sockets'[q] = sockets[q]
    BY <1>2 DEF GetSocket, ReuseSocket, BindSocket, Bound, SMInv, SMTypeOK
  <2>3. listening' = listening \cup {p}
    BY <2>2 DEF Bound
  <2>4. Holders(p)' = Holders(p) \cup {u} /\ \A q \in Ports \ {p} : Holders(q)' = Holders(q)
    BY <2>1, <2>2 DEF Holders, SMInv, SMTypeOK
  <2>5. holders' = [holders EXCEPT ![p] = @ \cup {u}]
    BY <2>4
  <2> QED
    BY <1>2, <2>1, <2>3, <2>5 DEF GetSocket, Lease!Acquire
<1>3. ASSUME phase = "open", NEW u \in Users, NEW p \in Ports, ReleaseSocket(u, p)
      PROVE  Lease!Leave(u, p)
  <2>1. u \in Holders(p) /\ held' = [held EXCEPT ![u] = NotHeld] /\ phase' = phase
    BY <1>3 DEF ReleaseSocket, Holders
  <2>2. \A q \in Ports : sockets'[q].sock = sockets[q].sock
    BY <1>3 DEF ReleaseSocket, LastRelease, SharedRelease, SMInv, SMTypeOK
  <2>3. listening' = listening
    BY <2>2 DEF Bound
  <2>4. Holders(p)' = Holders(p) \ {u} /\ \A q \in Ports \ {p} : Holders(q)' = Holders(q)
    BY <2>1 DEF Holders, SMInv, SMTypeOK, NotHeld
  <2>5. holders' = [holders EXCEPT ![p] = @ \ {u}]
    BY <2>4
  <2> QED
    BY <1>3, <2>1, <2>3, <2>5 DEF Lease!Leave
<1>4. ASSUME phase = "open", NEW t \in Timers, NEW p \in Ports, CleanupSocket(t, p)
      PROVE  Lease!Retire(p) \/ UNCHANGED Lease!leaseVars
  <2>1. holders' = holders /\ phase' = phase
    BY <1>4 DEF CleanupSocket, Holders
  <2>2. CASE Bound(p) /\ Expired(p)
    <3>1. Holders(p) = {}
      BY <1>4, <2>2, NoRefsNoHolders DEF Expired, Holders
    <3>2. sockets' = [sockets EXCEPT ![p] = Absent]
      BY <1>4, <2>2 DEF CleanupSocket, RetireSocket
    <3>3. listening' = listening \ {p}
      BY <3>2 DEF Bound, Absent, SMInv, SMTypeOK
    <3> QED
      BY <1>4, <2>1, <2>2, <3>1, <3>3 DEF Lease!Retire
  <2>3. CASE ~(Bound(p) /\ Expired(p))
    BY <1>4, <2>1, <2>3 DEF CleanupSocket, Bound, Lease!leaseVars
  <2> QED
    BY <2>2, <2>3
<1>5. ASSUME phase = "open", Tick PROVE UNCHANGED Lease!leaseVars
  BY <1>5 DEF Tick, Bound, Holders, Lease!leaseVars, SMInv, SMTypeOK
<1>6. ASSUME phase = "open", BeginClose PROVE Lease!GoDown
  BY <1>6 DEF BeginClose, Bound, Holders, Lease!GoDown
<1>7. ASSUME UNCHANGED smVars PROVE UNCHANGED Lease!leaseVars
  BY <1>7 DEF smVars, Bound, Holders, Lease!leaseVars
<1>8. phase = "open" => ~EndClose
  BY DEF EndClose
<1> QED
  BY <1>1, <1>2, <1>3, <1>4, <1>5, <1>6, <1>7, <1>8 DEF SMNext, Lease!LeaseNext

(* The manager implements the abstract lease: a listening port is given up *)
(* only when nobody holds it (server.py:196-212).                          *)
THEOREM LeaseTheorem == SMSpec => ImplementsLease
<1>1. SMInit => Lease!LeaseInit
  BY SocketAssumption DEF SMInit, Lease!LeaseInit, Bound, Holders, Absent, Entry, NotHeld
<1>2. SMInv /\ [SMNext]_smVars => [Lease!LeaseNext]_(Lease!leaseVars)
  BY StepIsLeaseStep
<1> QED
  BY <1>1, <1>2, SMInductive, PTL DEF SMSpec, ImplementsLease, Lease!LeaseSpec
=============================================================================
