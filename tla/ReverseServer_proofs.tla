------------------------ MODULE ReverseServer_proofs ------------------------
(***************************************************************************)
(* Theorems about ReverseServer.  Every step of the composed system is a   *)
(* step of the registry or a stutter of it, and likewise of the socket     *)
(* manager, so what is proved of the two modules holds here; Lent cites    *)
(* the theorems of SocketManager for the tasks as its users.  HoldInv and  *)
(* TidyInv tie the two together.                                           *)
(***************************************************************************)
EXTENDS ReverseServer, TokenRegistry_proofs

Lent == INSTANCE SocketManager_proofs WITH Users <- Tasks

Serving == {"accepting", "draining"}

(* A server holds the socket of its port from the step that listens until  *)
(* the one that releases it, and nobody closes the manager meanwhile.      *)
HoldInv ==
    /\ phase = "open"
    /\ \A k \in Tasks :
         /\ task[k].st \in Serving \cup {"created"} => task[k].port \in PortKeys
         /\ task[k].st \in Serving =>
              task[k].port \in Ports /\ held[k].port = task[k].port

(* No other task holds a socket.  A server that drains was cancelled, so   *)
(* its entry is gone and no removal reaches it a second time.              *)
TidyInv ==
    \A k \in Tasks :
        /\ task[k].st \notin Serving => held[k].port = None
        /\ task[k].st = "draining" =>
              ~task[k].cancelled /\ socksTasks[task[k].port] # k
-----------------------------------------------------------------------------
(* What SocketManager assumes of its constants.                            *)
LEMMA LentAssumption == Lent!SocketAssumption
<1>1. Lent!IsFiniteSet(Tasks)
  BY ServerAssumption DEF IsFiniteSet, Lent!IsFiniteSet
<1> QED
  BY <1>1, NotPorts, ServerAssumption DEF Lent!SocketAssumption

(* The manager that the tasks share is the one the theorems are about.     *)
LEMMA SameManager ==
  /\ Manager!SMInit => Lent!SMInit
  /\ \A k \in Tasks, p \in Ports :
        /\ Manager!GetSocket(k, p) => Lent!GetSocket(k, p)
        /\ Manager!ReleaseSocket(k, p) => Lent!ReleaseSocket(k, p)
  /\ \A t \in Timers, p \in Ports : Manager!CleanupSocket(t, p) => Lent!CleanupSocket(t, p)
  /\ Manager!Tick => Lent!Tick
<1>1. Manager!SMInit => Lent!SMInit
  BY DEF Manager!SMInit, Lent!SMInit, Manager!Absent, Lent!Absent, Manager!Entry, Lent!Entry,
     Manager!Unstamped, Lent!Unstamped, Manager!NotHeld, Lent!NotHeld,
     Manager!NoTimer, Lent!NoTimer
<1>2. ASSUME NEW k \in Tasks, NEW p \in Ports, Manager!GetSocket(k, p)
      PROVE  Lent!GetSocket(k, p)
  BY <1>2 DEF Manager!GetSocket, Lent!GetSocket, Manager!ReuseSocket, Lent!ReuseSocket,
     Manager!BindSocket, Lent!BindSocket, Manager!Bound, Lent!Bound, Manager!InHand,
     Lent!InHand, Manager!Entry, Lent!Entry, Manager!Unstamped, Lent!Unstamped,
     Manager!NotHeld, Lent!NotHeld
<1>3. ASSUME NEW k \in Tasks, NEW p \in Ports, Manager!ReleaseSocket(k, p)
      PROVE  Lent!ReleaseSocket(k, p)
  BY <1>3 DEF Manager!ReleaseSocket, Lent!ReleaseSocket, Manager!LastRelease,
     Lent!LastRelease, Manager!SharedRelease, Lent!SharedRelease, Manager!Bound, Lent!Bound,
     Manager!Entry, Lent!Entry, Manager!Unstamped, Lent!Unstamped, Manager!NotHeld,
     Lent!NotHeld, Manager!NoTimer, Lent!NoTimer
<1>4. ASSUME NEW t \in Timers, NEW p \in Ports, Manager!CleanupSocket(t, p)
      PROVE  Lent!CleanupSocket(t, p)
  BY <1>4 DEF Manager!CleanupSocket, Lent!CleanupSocket, Manager!RetireSocket,
     Lent!RetireSocket, Manager!Expired, Lent!Expired, Manager!Bound, Lent!Bound,
     Manager!Absent, Lent!Absent, Manager!Entry, Lent!Entry, Manager!Unstamped,
     Lent!Unstamped, Manager!NoTimer, Lent!NoTimer
<1>5. Manager!Tick => Lent!Tick
  BY DEF Manager!Tick, Lent!Tick, Manager!Entry, Lent!Entry, Manager!Elapse, Lent!Elapse,
     Manager!Older, Lent!Older
<1> QED
  BY <1>1, <1>2, <1>3, <1>4, <1>5

(* The composed system does nothing with the tokens, the sessions and the  *)
(* tasks that the registry alone would not do.                             *)
THEOREM RegistryTheorem == ServerSpec => RegSpec
<1>1. ServerInit => RegInit
  BY DEF ServerInit
<1>2. [ServerNext]_serverVars => [RegNext]_regVars
  <2> SUFFICES ASSUME [ServerNext]_serverVars PROVE [RegNext]_regVars
    OBVIOUS
  <2>1. ASSUME NEW k \in Tasks, TaskStep(k) PROVE ServerStep(k)
    BY <2>1 DEF TaskStep, Listen, CannotBind, StopAccepting, Release, EndUnreleased, ServerStep
  <2>2. ASSUME NEW t \in Timers, CleanupStep(t) PROVE UNCHANGED regVars
    BY <2>2 DEF CleanupStep
  <2>3. CASE UNCHANGED serverVars
    BY <2>3 DEF serverVars
  <2> QED
    BY <2>1, <2>2, <2>3 DEF ServerNext, SessionStep, ClockStep, RegNext
<1> QED
  BY <1>1, <1>2, PTL DEF ServerSpec, RegSpec
-----------------------------------------------------------------------------
(* Whatever the tokens and the sessions do, a server that serves goes on,  *)
(* and one that drains and has no entry is left alone.                     *)
LEMMA ServingGoesOn ==
  ASSUME ServInv, RegistryStep, NEW k \in Tasks,
         task[k].st \in Serving \cup {"created"} => task[k].port \in PortKeys
  PROVE  /\ task'[k].st \in Serving <=> task[k].st \in Serving
         /\ task'[k].st \in Serving =>
               task'[k].port = task[k].port /\ task'[k].st = task[k].st
         /\ task'[k].st = "created" => task'[k].port \in PortKeys
         /\ task[k].st = "draining" /\ socksTasks[task[k].port] # k =>
               task'[k] = task[k] /\ socksTasks'[task[k].port] # k
<1> DEFINE Goal ==
         /\ task'[k].st \in Serving <=> task[k].st \in Serving
         /\ task'[k].st \in Serving =>
               task'[k].port = task[k].port /\ task'[k].st = task[k].st
         /\ task'[k].st = "created" => task'[k].port \in PortKeys
         /\ task[k].st = "draining" /\ socksTasks[task[k].port] # k =>
               task'[k] = task[k] /\ socksTasks'[task[k].port] # k
<1>1. CASE UNCHANGED <<socksTasks, task>>
  BY <1>1
<1>2. ASSUME NEW t \in RevTokens, RemoveReverseToken(t) PROVE Goal
  <2> DEFINE g == socksTasks[tokens[t]]
  <2>1. tokens[t] # None /\ CancelServer(tokens[t])
    BY <1>2 DEF RemoveReverseToken
  <2>2. tokens[t] \in PortKeys
    BY <2>1 DEF ServInv, RegTypeOK, RevNames
  <2>3. CASE g = None
    BY <1>1, <2>1, <2>3 DEF CancelServer
  <2>4. CASE g # None
    <3>1. /\ g \in Tasks /\ task[g].port = tokens[t] /\ task[g] \in TaskStates
      BY <2>2, <2>4 DEF ServInv, RegTypeOK, EntryOK
    <3>2. /\ socksTasks' = [socksTasks EXCEPT ![tokens[t]] = None]
          /\ \A j \in Tasks : task'[j] = IF j # g THEN task[j]
                                         ELSE IF task[g].st = "done" THEN NoTask
                                         ELSE [task[g] EXCEPT !.cancelled = TRUE]
      BY <2>1, <2>4, <3>1 DEF CancelServer, ServInv, RegTypeOK
    <3>3. CASE k = g
      BY <3>1, <3>2, <3>3 DEF TaskStates, NoTask, Serving
    <3>4. CASE k # g
      <4>1. task'[k] = task[k]
        BY <3>2, <3>4
      <4>2. task[k].port \in PortKeys /\ socksTasks[task[k].port] # k =>
               socksTasks'[task[k].port] # k
        BY <3>2, RegistryAssumption DEF ServInv, RegTypeOK
      <4> QED
        BY <4>1, <4>2 DEF Serving
    <3> QED
      BY <3>3, <3>4
  <2> QED
    BY <2>3, <2>4
<1>3. ASSUME NEW j \in Tasks, NEW t \in RevTokens, tokens[t] # None,
             StartServer(j, t, tokens[t])
      PROVE  Goal
  <2>1. tokens[t] \in PortKeys
    BY <1>3 DEF ServInv, RegTypeOK, RevNames
  <2>2. /\ task[j].st = "none" /\ socksTasks' = [socksTasks EXCEPT ![tokens[t]] = j]
        /\ \A i \in Tasks :
             task'[i] = IF i = j THEN [st |-> "created", port |-> tokens[t], token |-> t,
                                       cancelled |-> FALSE]
                        ELSE task[i]
    BY <1>3 DEF StartServer, FreeTasks, ServInv, RegTypeOK
  <2>3. CASE k = j
    BY <2>1, <2>2, <2>3 DEF Serving
  <2>4. CASE k # j
    <3>1. task'[k] = task[k]
      BY <2>2, <2>4
    <3>2. task[k].port \in PortKeys /\ socksTasks[task[k].port] # k =>
               socksTasks'[task[k].port] # k
      BY <2>2, <2>4 DEF ServInv, RegTypeOK
    <3> QED
      BY <3>1, <3>2 DEF Serving
  <2> QED
    BY <2>3, <2>4
<1> QED
  BY <1>1, <1>2, <1>3, RegistryStepKinds
-----------------------------------------------------------------------------
(* Every step of the system is one of the manager, or leaves the manager   *)
(* alone: a server gives back the port that it holds.                      *)
LEMMA StepOfManager ==
  ASSUME ServInv, HoldInv, [ServerNext]_serverVars
  PROVE  [Lent!SMNext]_(Lent!smVars)
<1>1. UNCHANGED managerVars => UNCHANGED Lent!smVars
  BY DEF managerVars, Lent!smVars
<1>2. ASSUME NEW k \in Tasks, Listen(k) PROVE Lent!SMNext
  <2>1. task[k].port \in Ports
    BY <1>2 DEF Listen, ServerListens, ServInv, AcceptorListed, PortKeys
  <2> QED
    BY <1>2, <2>1, SameManager DEF Listen, Lent!SMNext
<1>3. ASSUME NEW k \in Tasks, Release(k) PROVE Lent!SMNext
  <2>1. task[k].port \in Ports
    BY <1>3 DEF Release, ServerReleases, HoldInv, Serving
  <2> QED
    BY <1>3, <2>1, SameManager DEF Release, Lent!SMNext
<1>4. ASSUME NEW t \in Timers, CleanupStep(t) PROVE Lent!SMNext
  BY <1>4, SameManager DEF CleanupStep, Lent!SMNext
<1>5. CASE ClockStep
  BY <1>5, SameManager DEF ClockStep, Lent!SMNext
<1>6. ASSUME NEW k \in Tasks, CannotBind(k) \/ StopAccepting(k) \/ EndUnreleased(k)
      PROVE  UNCHANGED managerVars
  BY <1>6 DEF CannotBind, StopAccepting, EndUnreleased
<1>7. CASE UNCHANGED serverVars
  BY <1>1, <1>7 DEF serverVars
<1> QED
  BY <1>1, <1>2, <1>3, <1>4, <1>5, <1>6, <1>7 DEF ServerNext, TaskStep, SessionStep

(* The steps that touch neither a task nor what it holds.                  *)
LEMMA HoldKept ==
  ASSUME UNCHANGED <<phase, held, task>>
  PROVE  /\ HoldInv => HoldInv'
         /\ TidyInv /\ UNCHANGED socksTasks => TidyInv'
  BY DEF HoldInv, TidyInv

(* get_socket, release_socket and the finally block, seen from one task.   *)
LEMMA TaskStepHolds ==
  ASSUME ServInv, HoldInv, Lent!SMInv, NEW k \in Tasks, TaskStep(k)
  PROVE  /\ HoldInv'
         /\ TidyInv /\ "accept" \notin SocketErrors => TidyInv'
<1>1. task \in [Tasks -> TaskStates] /\ Finished(k) \in TaskStates
  BY FinishedType DEF ServInv, RegTypeOK
<1>2. /\ phase = "open"
      /\ held \in [Tasks -> [port : Ports \cup {None}, sock : Socks \cup {None}]]
  BY DEF HoldInv, Lent!SMInv, Lent!SMTypeOK
<1>3. ASSUME NEW v, SetTask(k, v)
      PROVE  /\ \A j \in Tasks : task'[j] = IF j = k THEN v ELSE task[j]
             /\ socksTasks' = socksTasks
  BY <1>1, <1>3 DEF SetTask
<1>4. CASE Listen(k)
  <2>1. /\ task[k].st = "created" /\ task[k].port \in Ports
        /\ SetTask(k, [task[k] EXCEPT !.st = "accepting"])
    BY <1>4 DEF Listen, ServerListens, ServInv, AcceptorListed, PortKeys
  <2>2. \A j \in Tasks : task'[j] = IF j = k THEN [task[k] EXCEPT !.st = "accepting"]
                                     ELSE task[j]
    BY <2>1, <1>3
  <2>3. /\ Lent!GetSocket(k, task[k].port)
    BY <1>4, <2>1, SameManager DEF Listen
  <2>4. \E s : held' = [held EXCEPT ![k] = [port |-> task[k].port, sock |-> s]]
    BY <2>3 DEF Lent!GetSocket, Lent!ReuseSocket, Lent!BindSocket
  <2>5. /\ phase' = phase /\ held'[k].port = task[k].port
        /\ \A j \in Tasks : j # k => held'[j] = held[j]
    BY <1>2, <2>3, <2>4 DEF Lent!GetSocket
  <2>6. socksTasks' = socksTasks
    BY <2>1, <1>3
  <2>7. task'[k].st = "accepting" /\ task'[k].port = task[k].port
    BY <1>1, <2>2 DEF TaskStates
  <2>8. HoldInv'
    BY <2>1, <2>2, <2>5, <2>7 DEF HoldInv, Serving, PortKeys
  <2>9. TidyInv => TidyInv'
    BY <2>2, <2>5, <2>6, <2>7 DEF TidyInv, Serving
  <2> QED
    BY <2>8, <2>9
<1>5. CASE Release(k)
  <2>1. /\ task[k].st = "draining" /\ task[k].port \in Ports
        /\ SetTask(k, Finished(k))
    BY <1>5 DEF Release, ServerReleases, HoldInv, Serving
  <2>2. Lent!ReleaseSocket(k, task[k].port)
    BY <1>5, <2>1, SameManager DEF Release
  <2>3. phase' = phase /\ held' = [held EXCEPT ![k] = [port |-> None, sock |-> None]]
    BY <2>2 DEF Lent!ReleaseSocket, Lent!NotHeld
  <2>4. task'[k].st \notin Serving \cup {"created"}
    <3>1. task'[k] = Finished(k)
      BY <1>3, <2>1
    <3>2. Finished(k).st \in {"none", "done"}
      BY <1>1 DEF Finished, NoTask, TaskStates
    <3> QED
      BY <3>1, <3>2 DEF Serving
  <2>5. HoldInv'
    BY <1>2, <1>3, <2>1, <2>3, <2>4 DEF HoldInv
  <2>6. TidyInv => TidyInv'
    BY <1>2, <1>3, <2>1, <2>3, <2>4 DEF TidyInv, Serving
  <2> QED
    BY <2>5, <2>6
<1>6. CASE StopAccepting(k)
  <2>1. /\ task[k].st = "accepting" /\ held' = held /\ phase' = phase
        /\ task[k].cancelled \/ "accept" \in SocketErrors
        /\ SetTask(k, [task[k] EXCEPT !.st = "draining", !.cancelled = FALSE])
    BY <1>6 DEF StopAccepting, ServerStops, AcceptFails, managerVars
  <2>2. task'[k].st = "draining" /\ ~task'[k].cancelled /\ task'[k].port = task[k].port
    <3>1. task'[k] = [task[k] EXCEPT !.st = "draining", !.cancelled = FALSE]
      BY <1>3, <2>1
    <3> QED
      BY <1>1, <3>1 DEF TaskStates
  <2>3. HoldInv'
    BY <1>3, <2>1, <2>2 DEF HoldInv, Serving
  <2>4. "accept" \notin SocketErrors => socksTasks[task[k].port] # k
    <3>1. task[k].port \in PortKeys /\ k # None
      BY <2>1, RegistryAssumption DEF HoldInv, Serving
    <3> QED
      BY <2>1, <3>1 DEF ServInv, EntryOK
  <2>5. TidyInv /\ "accept" \notin SocketErrors => TidyInv'
    BY <1>3, <2>1, <2>2, <2>4 DEF TidyInv, Serving
  <2> QED
    BY <2>3, <2>5
<1>7. CASE CannotBind(k) \/ EndUnreleased(k)
  <2>1. /\ SetTask(k, Finished(k)) /\ held' = held /\ phase' = phase
        /\ task[k].st = "created" \/ (task[k].st = "draining" /\ task[k].cancelled)
    BY <1>7 DEF CannotBind, EndUnreleased, ServerCannotBind, ServerNeverRan,
       ServerDropsSocket, managerVars
  <2>2. task'[k].st \notin Serving \cup {"created"}
    <3>1. task'[k] = Finished(k)
      BY <1>3, <2>1
    <3>2. Finished(k).st \in {"none", "done"}
      BY <1>1 DEF Finished, NoTask, TaskStates
    <3> QED
      BY <3>1, <3>2 DEF Serving
  <2>3. HoldInv'
    BY <1>3, <2>1, <2>2 DEF HoldInv
  <2>4. TidyInv => TidyInv'
    BY <1>3, <2>1, <2>2 DEF TidyInv, Serving
  <2> QED
    BY <2>3, <2>4
<1> QED
  BY <1>4, <1>5, <1>6, <1>7 DEF TaskStep

(* Both invariants are kept by every step.                                 *)
LEMMA ServerNextHolds ==
  ASSUME ServInv, HoldInv, Lent!SMInv, [ServerNext]_serverVars
  PROVE  /\ HoldInv'
         /\ TidyInv /\ "accept" \notin SocketErrors => TidyInv'
<1> DEFINE Kept == /\ HoldInv'
                   /\ TidyInv /\ "accept" \notin SocketErrors => TidyInv'
<1>1. ASSUME NEW k \in Tasks, TaskStep(k) PROVE Kept
  BY <1>1, TaskStepHolds
<1>2. CASE RegistryStep /\ UNCHANGED managerVars
  <2>1. held' = held /\ phase' = phase
    BY <1>2 DEF managerVars
  <2>2. HoldInv'
    BY <1>2, <2>1, ServingGoesOn DEF HoldInv
  <2>3. TidyInv => TidyInv'
    <3> SUFFICES ASSUME TidyInv, NEW k \in Tasks
                 PROVE  /\ task'[k].st \notin Serving => held'[k].port = None
                        /\ task'[k].st = "draining" =>
                              ~task'[k].cancelled /\ socksTasks'[task'[k].port] # k
      BY DEF TidyInv
    <3>1. /\ task'[k].st \in Serving <=> task[k].st \in Serving
          /\ task'[k].st \in Serving =>
               task'[k].port = task[k].port /\ task'[k].st = task[k].st
          /\ task[k].st = "draining" /\ socksTasks[task[k].port] # k =>
               task'[k] = task[k] /\ socksTasks'[task[k].port] # k
      BY <1>2, ServingGoesOn DEF HoldInv
    <3> QED
      BY <2>1, <3>1 DEF TidyInv, Serving
  <2> QED
    BY <2>2, <2>3
<1>3. ASSUME NEW t \in Timers, CleanupStep(t) PROVE Kept
  BY <1>3, HoldKept DEF CleanupStep, Manager!CleanupSocket, regVars, taskVars
<1>4. CASE ClockStep
  BY <1>4, HoldKept DEF ClockStep, Manager!Tick, regVars, taskVars
<1>5. CASE UNCHANGED serverVars
  BY <1>5, HoldKept DEF serverVars, managerVars, regVars, taskVars
<1> QED
  BY <1>1, <1>2, <1>3, <1>4, <1>5 DEF ServerNext, SessionStep, RegistryStep

(* A server starts with an open manager and without tasks.                 *)
LEMMA ServerInitHolds == ServerInit => HoldInv /\ TidyInv /\ Lent!SMInv
<1>1. ServerInit => HoldInv /\ TidyInv
  BY DEF ServerInit, RegInit, NoTask, Manager!SMInit, Manager!NotHeld, HoldInv, TidyInv, Serving
<1>2. ServerInit => Lent!SMInv
  BY SameManager, LentAssumption, Lent!SMInitInv DEF ServerInit
<1> QED
  BY <1>1, <1>2

(* The servers and the manager keep in step in every reachable state.      *)
LEMMA HoldInvHolds == ServerSpec => [](HoldInv /\ Lent!SMInv)
<1>1. ServerSpec => []ServInv
  BY RegistryTheorem, ServInvHolds, PTL
<1>2. ServInv /\ HoldInv /\ Lent!SMInv /\ [ServerNext]_serverVars
         => (HoldInv /\ Lent!SMInv)'
  <2>1. Lent!SMInv /\ [Lent!SMNext]_(Lent!smVars) => Lent!SMInv'
    BY LentAssumption, Lent!SMNextInv
  <2> QED
    BY <2>1, StepOfManager, ServerNextHolds
<1> QED
  BY <1>1, <1>2, ServerInitHolds, PTL DEF ServerSpec

(* The manager is used as its own module has it: a server releases what it *)
(* holds and nothing else (server.py:1237-1274), so the socket manager     *)
(* implements the lease here as well.                                      *)
THEOREM ManagerTheorem == ServerSpec => Lent!SMSpec /\ Lent!ImplementsLease
<1>1. ServerInit => Lent!SMInit
  BY SameManager DEF ServerInit
<1>2. ServerSpec => []ServInv
  BY RegistryTheorem, ServInvHolds, PTL
<1>3. ServInv /\ HoldInv /\ [ServerNext]_serverVars => [Lent!SMNext]_(Lent!smVars)
  BY StepOfManager
<1>4. ServerSpec => Lent!SMSpec
  BY <1>1, <1>2, <1>3, HoldInvHolds, PTL DEF ServerSpec, Lent!SMSpec
<1>5. Lent!SMSpec => Lent!ImplementsLease
  BY LentAssumption, Lent!LeaseTheorem
<1> QED
  BY <1>4, <1>5, PTL

(* A server that accepts does so on an open socket of its own port, and    *)
(* that socket is counted, whatever the cleanup tasks of earlier releases  *)
(* and the removal of tokens do meanwhile (server.py:196-212, 566-576).    *)
THEOREM AcceptorsTheorem == ServerSpec => []AcceptorsListen
<1>1. HoldInv /\ Lent!SMInv => AcceptorsListen
  <2> SUFFICES ASSUME HoldInv, Lent!SMInv, NEW k \in Tasks, task[k].st = "accepting"
               PROVE  /\ held[k].port = task[k].port
                      /\ held[k].sock \in open
                      /\ sockets[task[k].port].sock = held[k].sock
                      /\ sockets[task[k].port].refs > 0
    BY DEF AcceptorsListen
  <2>1. task[k].port \in Ports /\ held[k].port = task[k].port
    BY DEF HoldInv, Serving
  <2>2. held[k].sock \in open /\ sockets[task[k].port].sock = held[k].sock
    BY <2>1, NotPorts DEF HoldInv, Lent!SMInv, Lent!NoUseAfterClose, Lent!NotHeld
  <2>3. sockets[task[k].port].refs # 0
    BY <2>1, LentAssumption, Lent!NoRefsNoHolders DEF HoldInv
  <2>4. sockets[task[k].port].refs \in Nat
    BY <2>1 DEF Lent!SMInv, Lent!SMTypeOK
  <2> QED
    BY <2>1, <2>2, <2>3, <2>4
<1> QED
  BY <1>1, HoldInvHolds, PTL

(* "Release the socket (starts grace period)" (server.py:1273): the count  *)
(* of a port is the number of servers that run on it, as long as accept    *)
(* does not fail.  An accept that fails leaves the server in the task      *)
(* table while it drains, and a removal then skips the release.            *)
THEOREM EndedServersTheorem ==
  ASSUME "accept" \notin SocketErrors
  PROVE  ServerSpec => []EndedServersHoldNothing
<1>1. HoldInv /\ TidyInv /\ Lent!SMInv => EndedServersHoldNothing
  <2> SUFFICES ASSUME HoldInv, TidyInv, Lent!SMInv, NEW p \in Ports
               PROVE  sockets[p].refs =
                        Cardinality({k \in Tasks : task[k].st \in Serving /\ task[k].port = p})
    BY DEF EndedServersHoldNothing, Serving
  <2>1. Lent!Holders(p) = {k \in Tasks : task[k].st \in Serving /\ task[k].port = p}
    BY NotPorts DEF HoldInv, TidyInv, Lent!Holders
  <2>2. sockets[p].refs = Lent!Cardinality(Lent!Holders(p))
    BY DEF HoldInv, Lent!SMInv, Lent!RefsMatchHolders
  <2>3. Lent!Cardinality(Lent!Holders(p)) = Cardinality(Lent!Holders(p))
    BY DEF Cardinality, Lent!Cardinality
  <2> QED
    BY <2>1, <2>2, <2>3
<1>2. ServerSpec => []ServInv
  BY RegistryTheorem, ServInvHolds, PTL
<1>3. ServInv /\ HoldInv /\ Lent!SMInv /\ TidyInv /\ [ServerNext]_serverVars => TidyInv'
  BY ServerNextHolds
<1>4. ServerSpec => []TidyInv
  BY <1>2, <1>3, HoldInvHolds, ServerInitHolds, PTL DEF ServerSpec
<1> QED
  BY <1>1, <1>4, HoldInvHolds, PTL
=============================================================================
