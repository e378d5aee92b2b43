------------------------ MODULE TokenRegistry_proofs ------------------------
(***************************************************************************)
(* Theorems about TokenRegistry, for any sets of tokens, connections,      *)
(* tasks and ports: its types and ports, what a token owns, and its        *)
(* sessions.                                                               *)
(***************************************************************************)
EXTENDS TokenRegistry, FiniteSetTheorems, TLAPS

(***************************************************************************)
(* PortsAreOwned depends on three tables only.  It is inductive once it is *)
(* known that an internal token never has a port of its own: removing a    *)
(* managing token drops its internal tokens without returning any port.    *)
(***************************************************************************)
PortTypes ==
    /\ used \subseteq Ports
    /\ tokens \in [RevNames -> PortKeys \cup {None}]
    /\ internal \in [RevTokens -> SUBSET Instances]

InternalHasNoPort == \A i \in Instances : tokens[i] \in {None, NoPort}

PortOf == {tokens[t] : t \in RevTokens} \cap Ports

PortsInv ==
    /\ PortTypes
    /\ InternalHasNoPort
    /\ used = PortOf
    /\ \A s, t \in RevTokens : tokens[s] \in Ports /\ tokens[s] = tokens[t] => s = t

portVars == <<used, tokens, internal>>
-----------------------------------------------------------------------------
(* -1 marks a name without a port and None a name that is not a token;     *)
(* neither is a port (server.py:427, 815).                                 *)
LEMMA NotPorts == NoPort \notin Ports /\ None \notin Ports /\ None # NoPort
  BY RegistryAssumption DEF NoPort, PortKeys

(* The names of internal tokens are not names of reverse tokens.           *)
LEMMA NamesDisjoint == RevTokens \cap Instances = {}
  BY RegistryAssumption

(* A server starts without tokens and with an unused pool                  *)
(* (server.py:285-337).                                                    *)
LEMMA RegInitPorts == RegInit => PortsInv
  BY NotPorts DEF RegInit, PortsInv, PortTypes, InternalHasNoPort, PortOf, RevNames

(* The pool hands out a port that no token has, or one is asked for that   *)
(* is free (common.py:23-46).                                              *)
LEMMA GetPortFree ==
  ASSUME NEW want \in Ports \cup {None}, NEW p \in GetPort(want)
  PROVE  p \in Ports /\ p \notin used
  BY RegistryAssumption DEF GetPort

(* add_reverse_token gives a token a port that nobody has, or none         *)
(* (server.py:426-434).                                                    *)
LEMMA AddReverseTokenPorts ==
  ASSUME PortsInv, NEW t \in RevTokens, NEW kind \in Kinds,
         NEW want \in Ports \cup {None}, AddReverseToken(t, kind, want)
  PROVE  PortsInv'
<1>1. internal' = internal /\ tokens[t] = None
  BY DEF AddReverseToken
<1>2. t \in RevNames /\ \A i \in Instances : i # t /\ i \in RevNames
  BY NamesDisjoint DEF RevNames
<1>3. CASE tokens' = [tokens EXCEPT ![t] = NoPort] /\ used' = used
  <2>1. PortTypes' /\ InternalHasNoPort'
    BY <1>1, <1>2, <1>3 DEF PortsInv, PortTypes, InternalHasNoPort, PortKeys
  <2>2. \A s \in RevTokens : tokens'[s] \in Ports => tokens'[s] = tokens[s]
    BY <1>2, <1>3, NotPorts DEF PortsInv, PortTypes, RevNames
  <2>3. \A s \in RevTokens : tokens[s] \in Ports => tokens'[s] = tokens[s]
    BY <1>1, <1>2, <1>3, NotPorts DEF PortsInv, PortTypes, RevNames
  <2> QED
    BY <1>3, <2>1, <2>2, <2>3 DEF PortsInv, PortOf
<1>4. ASSUME NEW p \in GetPort(want),
             tokens' = [tokens EXCEPT ![t] = p], used' = used \cup {p}
      PROVE  PortsInv'
  <2>1. p \in Ports /\ p \notin used
    BY <1>4, GetPortFree
  <2>2. PortTypes' /\ InternalHasNoPort'
    BY <1>1, <1>2, <1>4, <2>1 DEF PortsInv, PortTypes, InternalHasNoPort, PortKeys
  <2>3. tokens'[t] = p /\ \A s \in RevTokens : s # t => tokens'[s] = tokens[s]
    BY <1>2, <1>4 DEF PortsInv, PortTypes, RevNames
  <2>4. \A s \in RevTokens : tokens[s] # p
    BY <2>1 DEF PortsInv, PortOf
  <2>5. PortOf' = PortOf \cup {p}
    BY <1>1, <2>1, <2>3, NotPorts DEF PortOf
  <2> QED
    BY <1>4, <2>2, <2>3, <2>4, <2>5 DEF PortsInv
<1> QED
  BY <1>3, <1>4 DEF AddReverseToken

(* remove_token takes the token, its internal tokens and its port away     *)
(* together (server.py:507-576).                                           *)
LEMMA RemoveReverseTokenPorts ==
  ASSUME PortsInv, NEW t \in RevTokens, RemoveReverseToken(t)
  PROVE  PortsInv'
<1> DEFINE dropped == {t} \cup internal[t]
<1>1. /\ tokens' = [n \in RevNames |-> IF n \in dropped THEN None ELSE tokens[n]]
      /\ internal' = [internal EXCEPT ![t] = {}]
      /\ used' = used \ {tokens[t]}
  BY DEF RemoveReverseToken, DroppedWith, PutPort
<1>2. internal[t] \subseteq Instances
  BY DEF PortsInv, PortTypes
<1>3. PortTypes' /\ InternalHasNoPort'
  BY <1>1 DEF PortsInv, PortTypes, InternalHasNoPort, RevNames
<1>4. tokens'[t] = None /\ \A s \in RevTokens : s # t => tokens'[s] = tokens[s]
  BY <1>1, <1>2, NamesDisjoint DEF RevNames
<1>5. PortOf' = PortOf \ {tokens[t]}
  <2>1. \A p \in Ports : p \in PortOf' => p \in PortOf \ {tokens[t]}
    BY <1>4, NotPorts DEF PortOf, PortsInv
  <2>2. \A p \in Ports : p \in PortOf \ {tokens[t]} => p \in PortOf'
    BY <1>4 DEF PortOf
  <2> QED
    BY <2>1, <2>2 DEF PortOf
<1>6. \A r, s \in RevTokens : tokens'[r] \in Ports /\ tokens'[r] = tokens'[s] => r = s
  BY <1>4, NotPorts DEF PortsInv
<1> QED
  BY <1>1, <1>3, <1>5, <1>6 DEF PortsInv

(* A login with a managing token adds a name without a port                *)
(* (server.py:800-817).                                                    *)
LEMMA AuthManagingClientPorts ==
  ASSUME PortsInv, NEW c \in Conns, NEW t \in RevTokens, NEW i \in Instances,
         AuthManagingClient(c, t, i)
  PROVE  PortsInv'
<1>1. /\ tokens' = [tokens EXCEPT ![i] = NoPort] /\ used' = used
      /\ internal' = [internal EXCEPT ![t] = @ \cup {i}]
  BY DEF AuthManagingClient
<1>2. PortTypes' /\ InternalHasNoPort'
  BY <1>1 DEF PortsInv, PortTypes, InternalHasNoPort, PortKeys, RevNames
<1>3. \A s \in RevTokens : tokens'[s] = tokens[s]
  BY <1>1, NamesDisjoint DEF PortsInv, PortTypes, RevNames
<1> QED
  BY <1>1, <1>2, <1>3 DEF PortsInv, PortOf

(* No other step touches the pool, the tokens or the internal tokens.      *)
LEMMA OtherStepsPorts == PortsInv /\ UNCHANGED portVars => PortsInv'
  BY DEF PortsInv, PortTypes, InternalHasNoPort, PortOf, portVars

(* Every call of the API keeps the invariant.                              *)
LEMMA TokenStepPorts == PortsInv /\ TokenStep => PortsInv'
<1> SUFFICES ASSUME PortsInv, TokenStep PROVE PortsInv'
  OBVIOUS
<1>1. ASSUME NEW t \in RevTokens, NEW kind \in Kinds, NEW want \in Ports \cup {None},
             AddReverseToken(t, kind, want)
      PROVE  PortsInv'
  BY <1>1, AddReverseTokenPorts
<1>2. ASSUME NEW t \in RevTokens, RemoveReverseToken(t) PROVE PortsInv'
  BY <1>2, RemoveReverseTokenPorts
<1>3. ASSUME NEW t \in RevTokens, NEW ct \in ConnTokens, AddConnectorToken(ct, t)
      PROVE  PortsInv'
  BY <1>3, OtherStepsPorts DEF AddConnectorToken, portVars
<1>4. ASSUME NEW ct \in ConnTokens, RemoveConnectorToken(ct) PROVE PortsInv'
  BY <1>4, OtherStepsPorts DEF RemoveConnectorToken, portVars
<1>5. ASSUME NEW ft \in FwdTokens, AddForwardToken(ft) \/ RemoveForwardToken(ft)
      PROVE  PortsInv'
  BY <1>5, OtherStepsPorts DEF AddForwardToken, RemoveForwardToken, portVars
<1> QED
  BY <1>1, <1>2, <1>3, <1>4, <1>5 DEF TokenStep

(* The steps of the handlers and dispatchers of a connection do as well.   *)
LEMMA SessionPorts ==
  ASSUME PortsInv, NEW c \in Conns,
         AuthStep(c) \/ LinkLost(c) \/ HandlerStep(c) \/ ManageStep(c)
  PROVE  PortsInv'
<1>1. ASSUME NEW t \in RevTokens, NEW i \in Instances, AuthManagingClient(c, t, i)
      PROVE  PortsInv'
  BY <1>1, AuthManagingClientPorts
<1>2. ASSUME NEW t \in RevTokens, AuthReverseClient(c, t) \/ AuthFirstReverseClient(c, t)
      PROVE  PortsInv'
  BY <1>2, OtherStepsPorts
     DEF AuthReverseClient, AuthFirstReverseClient, tokenVars, portVars
<1>3. ASSUME NEW ft \in FwdTokens, AuthForwardClient(c, ft) PROVE PortsInv'
  BY <1>3, OtherStepsPorts DEF AuthForwardClient, tokenVars, portVars
<1>4. ASSUME NEW ct \in ConnTokens, AuthConnector(c, ct) PROVE PortsInv'
  BY <1>4, OtherStepsPorts DEF AuthConnector, tokenVars, portVars
<1>5. CASE AuthFails(c) \/ LinkLost(c) \/ HandlerStep(c)
  BY <1>5, OtherStepsPorts
     DEF AuthFails, LinkLost, HandlerStep, ServerAwaited, ConfirmOrLeave, BroadcastEnds,
         CloseTask, SessionEnds, CleanupConnection, tokenVars, portVars
<1>6. ASSUME NEW ct \in ConnTokens, ConnectorAdd(c, ct) \/ ConnectorRemove(c, ct)
      PROVE  PortsInv'
  BY <1>6, OtherStepsPorts
     DEF ConnectorAdd, ConnectorRemove, AddConnectorToken, RemoveConnectorToken, portVars
<1> QED
  BY <1>1, <1>2, <1>3, <1>4, <1>5, <1>6 DEF AuthStep, ManageStep

(* The SOCKS server tasks never touch the pool or the tokens.              *)
LEMMA ServerPorts ==
  ASSUME PortsInv, NEW k \in Tasks, ServerStep(k)
  PROVE  PortsInv'
  BY OtherStepsPorts
     DEF ServerStep, ServerListens, ServerCannotBind, ServerNeverRan, ServerStops,
         ServerReleases, ServerDropsSocket, SetTask, tokenVars, portVars

(* Every step keeps the invariant.                                         *)
LEMMA RegNextPorts == PortsInv /\ [RegNext]_regVars => PortsInv'
<1> SUFFICES ASSUME PortsInv, [RegNext]_regVars PROVE PortsInv'
  OBVIOUS
<1>1. CASE TokenStep
  BY <1>1, TokenStepPorts
<1>2. ASSUME NEW t \in RevTokens, HandlePendingToken(t) PROVE PortsInv'
  BY <1>2, OtherStepsPorts DEF HandlePendingToken, tokenVars, portVars
<1>3. ASSUME NEW c \in Conns,
             AuthStep(c) \/ LinkLost(c) \/ HandlerStep(c) \/ ManageStep(c)
      PROVE  PortsInv'
  BY <1>3, SessionPorts
<1>4. ASSUME NEW k \in Tasks, ServerStep(k) PROVE PortsInv'
  BY <1>4, ServerPorts
<1>5. CASE UNCHANGED regVars
  BY <1>5, OtherStepsPorts DEF regVars, tokenVars, portVars
<1> QED
  BY <1>1, <1>2, <1>3, <1>4, <1>5 DEF RegNext

(* What the invariant says of the pool, in the terms of the property.      *)
LEMMA PortsInvOwned == PortsInv => PortsAreOwned
<1> SUFFICES ASSUME PortsInv PROVE PortsAreOwned
  OBVIOUS
<1>1. {tokens[t] : t \in RevNames} \cap Ports = PortOf
  <2>1. \A i \in Instances : tokens[i] \notin Ports
    BY NotPorts DEF PortsInv, InternalHasNoPort
  <2> QED
    BY <2>1 DEF PortOf, RevNames
<1> QED
  BY <1>1 DEF PortsInv, PortsAreOwned

(* However tokens are added and removed while clients log in and leave, no *)
(* port of the pool is lost or given to two tokens (server.py:431, 576).   *)
THEOREM PortsTheorem == RegSpec => []PortsAreOwned
<1>1. RegSpec => []PortsInv
  BY RegInitPorts, RegNextPorts, PTL DEF RegSpec
<1> QED
  BY <1>1, PortsInvOwned, PTL
-----------------------------------------------------------------------------
(***************************************************************************)
(* The type invariant.  It is inductive by itself.                         *)
(***************************************************************************)

(* How many connector tokens there are is a number within bounds.          *)
LEMMA ConnectorCountType ==
  /\ 0 \in 0..Cardinality(ConnTokens)
  /\ ConnectorCount \in 0..Cardinality(ConnTokens)
<1>1. {ct \in ConnTokens : connTokens[ct] # None} \subseteq ConnTokens
  OBVIOUS
<1>2. /\ Cardinality({ct \in ConnTokens : connTokens[ct] # None}) \in Nat
      /\ Cardinality(ConnTokens) \in Nat
      /\ Cardinality({ct \in ConnTokens : connTokens[ct] # None}) =< Cardinality(ConnTokens)
  BY <1>1, FS_Subset, FS_CardinalityType, RegistryAssumption
<1> QED
  BY <1>2 DEF ConnectorCount

(* The records that sessions are made of.                                  *)
LEMMA NewSessionType == NewSession \in Sessions
  BY ConnectorCountType DEF NewSession, Sessions

(* The record of a client that is told it is authenticated.                *)
LEMMA ConfirmedType ==
  ASSUME NEW s \in Sessions
  PROVE  /\ Confirmed(s) \in Sessions
         /\ \A n \in Names : Confirmed([s EXCEPT !.name = n]) \in Sessions
  BY ConnectorCountType DEF Confirmed, Sessions

(* The record of a session that ended.                                     *)
LEMMA GoneSessionType == ASSUME NEW s \in Sessions PROVE GoneSession(s) \in Sessions
  BY ConnectorCountType DEF GoneSession, NewSession, Sessions

(* Changing one session, or one task, to a well typed record.              *)
LEMMA SetSessionType ==
  ASSUME RegTypeOK, NEW c \in Conns, NEW v \in Sessions, SetSession(c, v)
  PROVE  session' \in [Conns -> Sessions]
  BY DEF SetSession, RegTypeOK

(* Closing connections keeps the session records well typed.               *)
LEMMA DisconnectType ==
  ASSUME RegTypeOK, NEW cs, Disconnect(cs)
  PROVE  session' \in [Conns -> Sessions]
  BY SMTT(30) DEF Disconnect, RegTypeOK, Sessions

(* So does forgetting the clients of removed names (server.py:488-498).    *)
LEMMA ForgetClientsType ==
  ASSUME RegTypeOK, NEW names \in SUBSET (RevNames \cup ConnTokens), ForgetClients(names)
  PROVE  /\ session' \in [Conns -> Sessions] /\ clients' \subseteq Conns
         /\ tokenClients' \in [RevNames \cup ConnTokens -> SUBSET Conns]
<1>1. session' \in [Conns -> Sessions]
  BY DisconnectType DEF ForgetClients
<1>2. clients' \subseteq Conns /\ tokenClients' \in [RevNames \cup ConnTokens -> SUBSET Conns]
  BY DEF ForgetClients, RegTypeOK
<1> QED
  BY <1>1, <1>2

(* Cancelling the server of a removed token (server.py:567-573).           *)
LEMMA CancelServerType ==
  ASSUME RegTypeOK, NEW p \in PortKeys, CancelServer(p)
  PROVE  socksTasks' \in [PortKeys -> Tasks \cup {None}] /\ task' \in [Tasks -> TaskStates]
<1>1. CASE socksTasks[p] = None
  BY <1>1 DEF CancelServer, RegTypeOK
<1>2. CASE socksTasks[p] # None
  <2> DEFINE k == socksTasks[p]
  <2>1. k \in Tasks /\ task[k] \in TaskStates
    BY <1>2 DEF RegTypeOK
  <2>2. NoTask \in TaskStates /\ [task[k] EXCEPT !.cancelled = TRUE] \in TaskStates
    BY <2>1 DEF TaskStates, NoTask
  <2>3. /\ socksTasks' = [socksTasks EXCEPT ![p] = None]
        /\ task' = [task EXCEPT ![k] = IF @.st = "done" THEN NoTask
                                      ELSE [@ EXCEPT !.cancelled = TRUE]]
    BY <1>2 DEF CancelServer
  <2> HIDE DEF k
  <2> QED
    BY <2>1, <2>2, <2>3 DEF RegTypeOK
<1> QED
  BY <1>1, <1>2

(* Starting a server (server.py:716-722, 835-841).                         *)
LEMMA StartServerType ==
  ASSUME RegTypeOK, NEW k \in Tasks, NEW t \in RevNames, NEW p \in PortKeys,
         StartServer(k, t, p)
  PROVE  socksTasks' \in [PortKeys -> Tasks \cup {None}] /\ task' \in [Tasks -> TaskStates]
  BY DEF StartServer, RegTypeOK, TaskStates

(* What is left of a task that ended.                                      *)
LEMMA FinishedType ==
  ASSUME RegTypeOK, NEW k \in Tasks
  PROVE  Finished(k) \in TaskStates
  BY DEF Finished, RegTypeOK, TaskStates, NoTask

(* An announcement to the partners (server.py:1313-1351).                  *)
LEMMA PartnersToType ==
  ASSUME NEW ss \in [Conns -> Sessions], NEW rt
  PROVE  PartnersTo(ss, rt) \in [Conns -> Sessions]
  BY DEF PartnersTo, Sessions

(* _cleanup_connection (server.py:947-986).                                *)
LEMMA CleanupConnectionType ==
  ASSUME RegTypeOK, NEW c \in Conns, CleanupConnection(c)
  PROVE  RegTypeOK'
<1>1. [session EXCEPT ![c] = GoneSession(@)] \in [Conns -> Sessions]
  BY GoneSessionType DEF RegTypeOK
<1>2. session' \in [Conns -> Sessions]
  BY <1>1, PartnersToType DEF CleanupConnection
<1>3. tokenClients' \in [RevNames \cup ConnTokens -> SUBSET Conns] /\ clients' \subseteq Conns
  BY DEF CleanupConnection, RegTypeOK
<1> QED
  BY <1>2, <1>3 DEF CleanupConnection, RegTypeOK, tokenVars, taskVars

(* remove_connector_token (server.py:365-396).                             *)
LEMMA RemoveConnectorTokenType ==
  ASSUME RegTypeOK, NEW ct \in ConnTokens, RemoveConnectorToken(ct)
  PROVE  RegTypeOK'
<1>1. /\ session' \in [Conns -> Sessions] /\ clients' \subseteq Conns
      /\ tokenClients' \in [RevNames \cup ConnTokens -> SUBSET Conns]
  BY ForgetClientsType DEF RemoveConnectorToken
<1> QED
  BY <1>1 DEF RemoveConnectorToken, RegTypeOK, taskVars

(* A server starts with well typed tables.                                 *)
LEMMA RegInitType == RegInit => RegTypeOK
<1>1. NoTask \in TaskStates
  BY DEF NoTask, TaskStates
<1> QED
  BY <1>1, NewSessionType DEF RegInit, RegTypeOK

(* Every call of the API keeps the types.                                  *)
LEMMA TokenStepType == RegTypeOK /\ TokenStep => RegTypeOK'
<1> SUFFICES ASSUME RegTypeOK, TokenStep PROVE RegTypeOK'
  OBVIOUS
<1>1. ASSUME NEW t \in RevTokens, NEW kind \in Kinds, NEW want \in Ports \cup {None},
             AddReverseToken(t, kind, want)
      PROVE  RegTypeOK'
  <2>1. used' \subseteq Ports /\ tokens' \in [RevNames -> PortKeys \cup {None}]
    <3>1. CASE tokens' = [tokens EXCEPT ![t] = NoPort] /\ used' = used
      BY <3>1 DEF RegTypeOK, PortKeys
    <3>2. ASSUME NEW p \in GetPort(want),
                 tokens' = [tokens EXCEPT ![t] = p], used' = used \cup {p}
          PROVE  used' \subseteq Ports /\ tokens' \in [RevNames -> PortKeys \cup {None}]
      BY <3>2, GetPortFree DEF RegTypeOK, PortKeys
    <3> QED
      BY <1>1, <3>1, <3>2 DEF AddReverseToken
  <2>2. /\ options' \in [RevNames -> {"plain", "manage", None}]
        /\ locks' \subseteq RevNames /\ pending' \subseteq RevTokens
    BY <1>1, RegistryAssumption DEF AddReverseToken, RegTypeOK, RevNames
  <2> QED
    BY <1>1, <2>1, <2>2 DEF AddReverseToken, RegTypeOK, clientVars
<1>2. ASSUME NEW t \in RevTokens, RemoveReverseToken(t) PROVE RegTypeOK'
  <2>1. DroppedWith(t) \cup ConnectorsOf(t) \in SUBSET (RevNames \cup ConnTokens)
    BY DEF DroppedWith, ConnectorsOf, RegTypeOK, RevNames
  <2>2. /\ session' \in [Conns -> Sessions] /\ clients' \subseteq Conns
        /\ tokenClients' \in [RevNames \cup ConnTokens -> SUBSET Conns]
    BY <1>2, <2>1, ForgetClientsType DEF RemoveReverseToken
  <2>3. tokens[t] \in PortKeys
    BY <1>2 DEF RemoveReverseToken, RegTypeOK, RevNames
  <2>4. /\ socksTasks' \in [PortKeys -> Tasks \cup {None}]
        /\ task' \in [Tasks -> TaskStates]
    BY <1>2, <2>3, CancelServerType DEF RemoveReverseToken
  <2>5. /\ used' \subseteq Ports /\ tokens' \in [RevNames -> PortKeys \cup {None}]
        /\ options' \in [RevNames -> {"plain", "manage", None}] /\ locks' \subseteq RevNames
    BY <1>2 DEF RemoveReverseToken, PutPort, RegTypeOK
  <2>6. /\ internal' \in [RevTokens -> SUBSET Instances]
        /\ connTokens' \in [ConnTokens -> RevNames \cup {None}]
        /\ fwdTokens' = fwdTokens /\ fwdClients' = fwdClients /\ pending' = pending
    BY <1>2 DEF RemoveReverseToken, RegTypeOK
  <2> QED
    BY <2>2, <2>4, <2>5, <2>6 DEF RegTypeOK
<1>3. ASSUME NEW t \in RevTokens, NEW ct \in ConnTokens, AddConnectorToken(ct, t)
      PROVE  RegTypeOK'
  BY <1>3 DEF AddConnectorToken, RegTypeOK, RevNames, clientVars, taskVars
<1>4. ASSUME NEW ct \in ConnTokens, RemoveConnectorToken(ct) PROVE RegTypeOK'
  BY <1>4, RemoveConnectorTokenType
<1>5. ASSUME NEW ft \in FwdTokens, AddForwardToken(ft) PROVE RegTypeOK'
  BY <1>5 DEF AddForwardToken, RegTypeOK, clientVars, taskVars
<1>6. ASSUME NEW ft \in FwdTokens, RemoveForwardToken(ft) PROVE RegTypeOK'
  <2>1. session' \in [Conns -> Sessions]
    BY <1>6, DisconnectType DEF RemoveForwardToken
  <2> QED
    BY <1>6, <2>1 DEF RemoveForwardToken, RegTypeOK, taskVars
<1> QED
  BY <1>1, <1>2, <1>3, <1>4, <1>5, <1>6 DEF TokenStep

(* A login keeps the types.                                                *)
LEMMA AuthType ==
  ASSUME RegTypeOK, NEW c \in Conns, AuthStep(c)
  PROVE  RegTypeOK'
<1>1. session[c] \in Sessions
  BY DEF RegTypeOK
<1>2. ASSUME NEW t \in RevTokens, NEW i \in Instances, AuthManagingClient(c, t, i)
      PROVE  RegTypeOK'
  <2>1. session' \in [Conns -> Sessions]
    BY <1>1, <1>2, ConfirmedType, SetSessionType DEF AuthManagingClient, Names, RevNames
  <2>2. /\ internal' \in [RevTokens -> SUBSET Instances] /\ locks' \subseteq RevNames
        /\ options' \in [RevNames -> {"plain", "manage", None}]
        /\ tokens' \in [RevNames -> PortKeys \cup {None}]
    BY <1>2 DEF AuthManagingClient, RegTypeOK, RevNames, PortKeys
  <2>3. clients' \subseteq Conns /\ tokenClients' \in [RevNames \cup ConnTokens -> SUBSET Conns]
    BY <1>2 DEF AuthManagingClient, ListClient, RegTypeOK
  <2> QED
    BY <1>2, <2>1, <2>2, <2>3 DEF AuthManagingClient, RegTypeOK, taskVars
<1>3. ASSUME NEW t \in RevTokens, AuthReverseClient(c, t) PROVE RegTypeOK'
  <2>1. session' \in [Conns -> Sessions]
    BY <1>1, <1>3, ConfirmedType, SetSessionType DEF AuthReverseClient, Names, RevNames
  <2> QED
    BY <1>3, <2>1 DEF AuthReverseClient, ListClient, RegTypeOK, tokenVars, taskVars
<1>4. ASSUME NEW t \in RevTokens, AuthFirstReverseClient(c, t) PROVE RegTypeOK'
  <2>1. PICK k \in Tasks :
          /\ StartServer(k, t, tokens[t])
          /\ SetSession(c, [session[c] EXCEPT !.st = "starting", !.name = t, !.wait = k])
    BY <1>4 DEF AuthFirstReverseClient
  <2>2. [session[c] EXCEPT !.st = "starting", !.name = t, !.wait = k] \in Sessions
    BY <1>1 DEF Sessions, Names, RevNames
  <2>3. session' \in [Conns -> Sessions]
    BY <2>1, <2>2, SetSessionType
  <2>4. t \in RevNames /\ tokens[t] \in PortKeys
    BY <1>4 DEF AuthFirstReverseClient, RegTypeOK, RevNames
  <2>5. /\ socksTasks' \in [PortKeys -> Tasks \cup {None}]
        /\ task' \in [Tasks -> TaskStates]
    BY <2>1, <2>4, StartServerType
  <2> QED
    BY <1>4, <2>3, <2>5 DEF AuthFirstReverseClient, ListClient, RegTypeOK, tokenVars
<1>5. ASSUME NEW ft \in FwdTokens, AuthForwardClient(c, ft) PROVE RegTypeOK'
  <2>1. [session[c] EXCEPT !.st = "running", !.name = ft, !.first = "auth"] \in Sessions
    BY <1>1 DEF Sessions, Names
  <2>2. session' \in [Conns -> Sessions]
    BY <1>5, <2>1, SetSessionType DEF AuthForwardClient
  <2> QED
    BY <1>5, <2>2 DEF AuthForwardClient, RegTypeOK, tokenVars, taskVars
<1>6. ASSUME NEW ct \in ConnTokens, AuthConnector(c, ct) PROVE RegTypeOK'
  <2>1. [session[c] EXCEPT !.st = "running", !.name = ct, !.first = "auth"] \in Sessions
    BY <1>1 DEF Sessions, Names
  <2>2. [session EXCEPT ![c] = [@ EXCEPT !.st = "running", !.name = ct, !.first = "auth"]]
          \in [Conns -> Sessions]
    BY <2>1 DEF RegTypeOK
  <2>3. session' \in [Conns -> Sessions]
    BY <1>6, <2>2, PartnersToType DEF AuthConnector
  <2> QED
    BY <1>6, <2>3 DEF AuthConnector, ListClient, RegTypeOK, tokenVars, taskVars
<1>7. CASE AuthFails(c)
  <2>1. session' \in [Conns -> Sessions]
    BY <1>1, <1>7, GoneSessionType, SetSessionType DEF AuthFails
  <2> QED
    BY <1>7, <2>1 DEF AuthFails, RegTypeOK, tokenVars, taskVars
<1> QED
  BY <1>2, <1>3, <1>4, <1>5, <1>6, <1>7 DEF AuthStep

(* The steps of a connection after its login keep the types.               *)
LEMMA SessionType ==
  ASSUME RegTypeOK, NEW c \in Conns, LinkLost(c) \/ HandlerStep(c) \/ ManageStep(c)
  PROVE  RegTypeOK'
<1>1. session[c] \in Sessions
  BY DEF RegTypeOK
<1>2. CASE LinkLost(c) \/ CloseTask(c)
  <2>1. [session[c] EXCEPT !.link = "closed"] \in Sessions
    BY <1>1 DEF Sessions
  <2>2. session' \in [Conns -> Sessions]
    BY <1>2, <2>1, SetSessionType DEF LinkLost, CloseTask
  <2> QED
    BY <1>2, <2>2 DEF LinkLost, CloseTask, RegTypeOK, tokenVars, taskVars
<1>3. CASE ServerAwaited(c)
  <2>1. CASE CleanupConnection(c)
    BY <2>1, CleanupConnectionType
  <2>2. CASE ~CleanupConnection(c)
    <3>1. session' \in [Conns -> Sessions]
      BY <1>1, <1>3, <2>2, ConfirmedType, SetSessionType DEF ServerAwaited, ConfirmOrLeave
    <3> QED
      BY <1>3, <2>2, <3>1 DEF ServerAwaited, ConfirmOrLeave, RegTypeOK, tokenVars, taskVars
  <2> QED
    BY <2>1, <2>2
<1>4. CASE BroadcastEnds(c)
  <2>1. CASE CleanupConnection(c)
    BY <2>1, CleanupConnectionType
  <2>2. CASE ~CleanupConnection(c)
    <3>1. [session[c] EXCEPT !.st = "running", !.seen = 0] \in Sessions
      BY <1>1, ConnectorCountType DEF Sessions
    <3>2. session' \in [Conns -> Sessions]
      BY <1>4, <2>2, <3>1, SetSessionType DEF BroadcastEnds
    <3> QED
      BY <1>4, <2>2, <3>2 DEF BroadcastEnds, RegTypeOK, tokenVars, taskVars
  <2> QED
    BY <2>1, <2>2
<1>5. CASE SessionEnds(c)
  BY <1>5, CleanupConnectionType DEF SessionEnds
<1>6. ASSUME NEW ct \in ConnTokens, ConnectorAdd(c, ct) PROVE RegTypeOK'
  BY <1>6 DEF ConnectorAdd, AddConnectorToken, RegTypeOK, clientVars, taskVars
<1>7. ASSUME NEW ct \in ConnTokens, ConnectorRemove(c, ct) PROVE RegTypeOK'
  BY <1>7, RemoveConnectorTokenType DEF ConnectorRemove
<1> QED
  BY <1>2, <1>3, <1>4, <1>5, <1>6, <1>7 DEF HandlerStep, ManageStep

(* The steps of a SOCKS server task keep the types.                        *)
LEMMA ServerType ==
  ASSUME RegTypeOK, NEW k \in Tasks, ServerStep(k)
  PROVE  RegTypeOK'
<1>1. task[k] \in TaskStates /\ Finished(k) \in TaskStates
  BY FinishedType DEF RegTypeOK
<1>2. PICK v \in TaskStates : SetTask(k, v)
  BY <1>1 DEF ServerStep, ServerListens, ServerCannotBind, ServerNeverRan, ServerStops,
              ServerReleases, ServerDropsSocket, TaskStates
<1> QED
  BY <1>2 DEF SetTask, RegTypeOK, tokenVars, clientVars

(* Every reachable state is well typed: the tables of the server only hold *)
(* names, connections, tasks and ports of the kinds their declarations     *)
(* say (server.py:285-337).                                                *)
THEOREM RegTypeTheorem == RegSpec => []RegTypeOK
<1>1. RegTypeOK /\ [RegNext]_regVars => RegTypeOK'
  <2> SUFFICES ASSUME RegTypeOK, [RegNext]_regVars PROVE RegTypeOK'
    OBVIOUS
  <2>1. CASE TokenStep
    BY <2>1, TokenStepType
  <2>2. ASSUME NEW t \in RevTokens, HandlePendingToken(t) PROVE RegTypeOK'
    <3>1. /\ socksTasks' \in [PortKeys -> Tasks \cup {None}]
          /\ task' \in [Tasks -> TaskStates]
      <4>1. CASE UNCHANGED <<socksTasks, task>>
        BY <4>1 DEF RegTypeOK
      <4>2. ASSUME NEW k \in Tasks, StartServer(k, t, tokens[t]), tokens[t] # None
            PROVE  /\ socksTasks' \in [PortKeys -> Tasks \cup {None}]
                   /\ task' \in [Tasks -> TaskStates]
        <5>1. t \in RevNames /\ tokens[t] \in PortKeys
          BY <4>2 DEF RegTypeOK, RevNames
        <5> QED
          BY <4>2, <5>1, StartServerType
      <4> QED
        BY <2>2, <4>1, <4>2 DEF HandlePendingToken
    <3> QED
      BY <2>2, <3>1 DEF HandlePendingToken, RegTypeOK, tokenVars, clientVars
  <2>3. ASSUME NEW c \in Conns,
               AuthStep(c) \/ LinkLost(c) \/ HandlerStep(c) \/ ManageStep(c)
        PROVE  RegTypeOK'
    BY <2>3, AuthType, SessionType
  <2>4. ASSUME NEW k \in Tasks, ServerStep(k) PROVE RegTypeOK'
    BY <2>4, ServerType
  <2>5. CASE UNCHANGED regVars
    BY <2>5 DEF RegTypeOK, regVars, tokenVars, clientVars, taskVars
  <2> QED
    BY <2>1, <2>2, <2>3, <2>4, <2>5 DEF RegNext
<1> QED
  BY <1>1, RegInitType, PTL DEF RegSpec
-----------------------------------------------------------------------------
(***************************************************************************)
(* What a token owns: its internal tokens, the connector tokens that       *)
(* forward to it, and its SOCKS server.                                    *)
(***************************************************************************)

(* InternalIsOwned and ConnectorTargetExists are inductive together with   *)
(* the types: each speaks of the token tables only.                        *)
OwnInv == RegTypeOK /\ InternalIsOwned /\ ConnectorTargetExists

(* The steps that leave the token tables alone.                            *)
LEMMA TablesKeptOwn == OwnInv /\ RegTypeOK' /\ UNCHANGED tokenVars => OwnInv'
  BY DEF OwnInv, InternalIsOwned, ConnectorTargetExists, Registered, tokenVars

(* A server starts without tokens.                                         *)
LEMMA RegInitOwn == RegInit => OwnInv
<1> SUFFICES ASSUME RegInit PROVE OwnInv
  OBVIOUS
<1>1. InternalIsOwned
  BY DEF RegInit, InternalIsOwned, RevNames
<1>2. ConnectorTargetExists
  BY RegistryAssumption DEF RegInit, ConnectorTargetExists, Names, RevNames
<1> QED
  BY <1>1, <1>2, RegInitType DEF OwnInv

(* add_reverse_token gives a token to a name that had none, so no name     *)
(* loses its token.                                                        *)
LEMMA AddReverseTokenOwn ==
  ASSUME OwnInv, RegTypeOK', NEW t \in RevTokens, NEW kind \in Kinds,
         NEW want \in Ports \cup {None}, AddReverseToken(t, kind, want)
  PROVE  OwnInv'
<1>1. /\ tokens[t] = None /\ options' = [options EXCEPT ![t] = kind]
      /\ locks' = locks \cup {t} /\ internal' = internal /\ connTokens' = connTokens
      /\ fwdTokens' = fwdTokens
  BY DEF AddReverseToken
<1>2. PICK p : tokens' = [tokens EXCEPT ![t] = p]
  BY DEF AddReverseToken
<1>3. t \in RevNames /\ \A i \in Instances : i # t /\ i \in RevNames
  BY NamesDisjoint DEF RevNames
<1>4. \A n \in RevNames : tokens[n] # None => tokens'[n] = tokens[n]
  BY <1>1, <1>2, <1>3 DEF OwnInv, RegTypeOK
<1>5. InternalIsOwned'
  <2> SUFFICES ASSUME NEW i \in Instances, tokens'[i] # None
               PROVE  /\ \E s \in RevTokens : tokens'[s] # None /\ i \in internal'[s]
                      /\ tokens'[i] = NoPort /\ options'[i] = "manage" /\ i \in locks'
    BY DEF InternalIsOwned
  <2>1. tokens'[i] = tokens[i] /\ options'[i] = options[i]
    BY <1>1, <1>2, <1>3 DEF OwnInv, RegTypeOK
  <2>2. PICK s \in RevTokens : tokens[s] # None /\ i \in internal[s]
    BY <2>1 DEF OwnInv, InternalIsOwned
  <2>3. tokens'[s] # None
    BY <1>4, <2>2 DEF RevNames
  <2> QED
    BY <1>1, <2>1, <2>2, <2>3 DEF OwnInv, InternalIsOwned
<1>6. ConnectorTargetExists'
  BY <1>1, <1>4 DEF OwnInv, ConnectorTargetExists, Registered
<1> QED
  BY <1>5, <1>6 DEF OwnInv

(* A connector token is only added for a name that has a token             *)
(* (server.py:339-363).                                                    *)
LEMMA AddConnectorTokenOwn ==
  ASSUME OwnInv, RegTypeOK', NEW ct \in ConnTokens, NEW rt \in RevNames,
         AddConnectorToken(ct, rt)
  PROVE  OwnInv'
<1>1. /\ tokens[rt] # None /\ connTokens' = [connTokens EXCEPT ![ct] = rt]
      /\ UNCHANGED <<tokens, options, locks, internal, fwdTokens>>
  BY DEF AddConnectorToken
<1>2. InternalIsOwned'
  BY <1>1 DEF OwnInv, InternalIsOwned
<1>3. \A n \in ConnTokens : connTokens'[n] = IF n = ct THEN rt ELSE connTokens[n]
  BY <1>1 DEF OwnInv, RegTypeOK
<1>4. ASSUME NEW n \in ConnTokens, connTokens'[n] \in RevTokens
      PROVE  tokens[connTokens'[n]] # None
  <2>1. connTokens'[n] \notin ConnTokens /\ connTokens'[n] \notin fwdTokens
    BY <1>4, RegistryAssumption DEF OwnInv, RegTypeOK
  <2> QED
    BY <1>1, <1>3, <1>4, <2>1 DEF OwnInv, ConnectorTargetExists, Registered
<1>5. ConnectorTargetExists'
  BY <1>1, <1>4 DEF ConnectorTargetExists, Registered, RevNames
<1> QED
  BY <1>2, <1>5 DEF OwnInv

(* Removing a connector token leaves the other tables alone.               *)
LEMMA RemoveConnectorTokenOwn ==
  ASSUME OwnInv, RegTypeOK', NEW ct \in ConnTokens, RemoveConnectorToken(ct)
  PROVE  OwnInv'
<1>1. /\ connTokens' = [connTokens EXCEPT ![ct] = None]
      /\ UNCHANGED <<tokens, options, locks, internal, fwdTokens>>
  BY DEF RemoveConnectorToken
<1>2. InternalIsOwned'
  BY <1>1 DEF OwnInv, InternalIsOwned
<1>3. None \notin RevTokens
  BY RegistryAssumption DEF Names, RevNames
<1>4. \A n \in ConnTokens : connTokens'[n] = IF n = ct THEN None ELSE connTokens[n]
  BY <1>1 DEF OwnInv, RegTypeOK
<1>5. \A n \in ConnTokens : connTokens'[n] \in RevTokens => Registered(connTokens'[n])
  BY <1>3, <1>4 DEF OwnInv, ConnectorTargetExists
<1>6. ASSUME NEW n \in ConnTokens, connTokens'[n] \in RevTokens
      PROVE  tokens'[connTokens'[n]] # None
  <2>1. connTokens'[n] \notin ConnTokens /\ connTokens'[n] \notin fwdTokens
    BY <1>6, RegistryAssumption DEF OwnInv, RegTypeOK
  <2> QED
    BY <1>1, <1>5, <1>6, <2>1 DEF Registered
<1>7. ConnectorTargetExists'
  BY <1>6 DEF ConnectorTargetExists, Registered, RevNames
<1> QED
  BY <1>2, <1>7 DEF OwnInv

(* remove_token takes the internal tokens and the connector tokens of a    *)
(* token with it (server.py:508-541).                                      *)
LEMMA RemoveReverseTokenOwn ==
  ASSUME OwnInv, RegTypeOK', NEW t \in RevTokens, RemoveReverseToken(t)
  PROVE  OwnInv'
<1>1. /\ tokens' = [n \in RevNames |-> IF n \in DroppedWith(t) THEN None ELSE tokens[n]]
      /\ options' = [n \in RevNames |-> IF n \in DroppedWith(t) THEN None ELSE options[n]]
      /\ locks' = locks \ {t} /\ internal' = [internal EXCEPT ![t] = {}]
      /\ connTokens' = [ct \in ConnTokens |->
                          IF ct \in ConnectorsOf(t) THEN None ELSE connTokens[ct]]
      /\ fwdTokens' = fwdTokens
  BY DEF RemoveReverseToken
<1>2. internal[t] \subseteq Instances
  BY DEF OwnInv, RegTypeOK
<1>3. \A s \in RevTokens \ {t} : tokens'[s] = tokens[s] /\ internal'[s] = internal[s]
  BY <1>1, <1>2, NamesDisjoint DEF DroppedWith, RevNames, OwnInv, RegTypeOK
<1>4. InternalIsOwned'
  <2> SUFFICES ASSUME NEW i \in Instances, tokens'[i] # None
               PROVE  /\ \E s \in RevTokens : tokens'[s] # None /\ i \in internal'[s]
                      /\ tokens'[i] = NoPort /\ options'[i] = "manage" /\ i \in locks'
    BY DEF InternalIsOwned
  <2>1. /\ i \notin internal[t] /\ i # t
        /\ tokens'[i] = tokens[i] /\ options'[i] = options[i]
    BY <1>1, NamesDisjoint DEF DroppedWith, RevNames
  <2>2. PICK s \in RevTokens : tokens[s] # None /\ i \in internal[s]
    BY <2>1 DEF OwnInv, InternalIsOwned
  <2>3. s # t
    BY <2>1, <2>2
  <2> QED
    BY <1>1, <1>3, <2>1, <2>2, <2>3 DEF OwnInv, InternalIsOwned
<1>5. ASSUME NEW ct \in ConnTokens, connTokens'[ct] \in RevTokens
      PROVE  tokens'[connTokens'[ct]] # None
  <2>1. connTokens'[ct] = connTokens[ct] /\ connTokens[ct] # t
    BY <1>1, <1>5, RegistryAssumption DEF ConnectorsOf, Names, RevNames
  <2>2. connTokens[ct] \notin ConnTokens /\ connTokens[ct] \notin fwdTokens
    BY <1>5, <2>1, RegistryAssumption DEF OwnInv, RegTypeOK
  <2>3. tokens[connTokens[ct]] # None
    BY <1>5, <2>1, <2>2 DEF OwnInv, ConnectorTargetExists, Registered
  <2> QED
    BY <1>3, <1>5, <2>1, <2>3
<1>6. ConnectorTargetExists'
  BY <1>5 DEF ConnectorTargetExists, Registered, RevNames
<1> QED
  BY <1>4, <1>6 DEF OwnInv

(* A login with a managing token adds an internal token that its token     *)
(* lists (server.py:800-822).                                              *)
LEMMA AuthManagingClientOwn ==
  ASSUME OwnInv, RegTypeOK', NEW c \in Conns, NEW t \in RevTokens, NEW i \in Instances,
         AuthManagingClient(c, t, i)
  PROVE  OwnInv'
<1>1. /\ tokens[t] # None /\ options[t] = "manage"
      /\ internal' = [internal EXCEPT ![t] = @ \cup {i}]
      /\ options' = [options EXCEPT ![i] = options[t]]
      /\ tokens' = [tokens EXCEPT ![i] = NoPort] /\ locks' = locks \cup {i}
      /\ connTokens' = connTokens /\ fwdTokens' = fwdTokens
  BY DEF AuthManagingClient
<1>2. i \in RevNames /\ \A s \in RevTokens : s \in RevNames /\ s # i
  BY NamesDisjoint DEF RevNames
<1>3. /\ \A s \in RevTokens : tokens'[s] = tokens[s] /\ internal[s] \subseteq internal'[s]
      /\ i \in internal'[t] /\ tokens'[i] = NoPort /\ options'[i] = "manage"
      /\ \A j \in Instances \ {i} : tokens'[j] = tokens[j] /\ options'[j] = options[j]
  BY <1>1, <1>2 DEF OwnInv, RegTypeOK, RevNames
<1>4. InternalIsOwned'
  <2> SUFFICES ASSUME NEW j \in Instances, tokens'[j] # None
               PROVE  /\ \E s \in RevTokens : tokens'[s] # None /\ j \in internal'[s]
                      /\ tokens'[j] = NoPort /\ options'[j] = "manage" /\ j \in locks'
    BY DEF InternalIsOwned
  <2>1. CASE j = i
    BY <1>1, <1>3, <2>1
  <2>2. CASE j # i
    <3>1. PICK s \in RevTokens : tokens[s] # None /\ j \in internal[s]
      BY <1>3, <2>2 DEF OwnInv, InternalIsOwned
    <3> QED
      BY <1>1, <1>3, <2>2, <3>1 DEF OwnInv, InternalIsOwned
  <2> QED
    BY <2>1, <2>2
<1>5. ConnectorTargetExists'
  BY <1>1, <1>3 DEF OwnInv, ConnectorTargetExists, Registered, RevNames
<1> QED
  BY <1>4, <1>5 DEF OwnInv

(* A forward token is in a table of its own.                               *)
LEMMA ForwardTokenOwn ==
  ASSUME OwnInv, RegTypeOK', NEW ft \in FwdTokens,
         AddForwardToken(ft) \/ RemoveForwardToken(ft)
  PROVE  OwnInv'
<1>1. /\ UNCHANGED <<tokens, options, locks, internal, connTokens>>
      /\ fwdTokens' \subseteq FwdTokens
  BY DEF AddForwardToken, RemoveForwardToken, RegTypeOK
<1>2. InternalIsOwned'
  BY <1>1 DEF OwnInv, InternalIsOwned
<1>3. \A n \in RevTokens : n \notin FwdTokens
  BY RegistryAssumption
<1>4. ConnectorTargetExists'
  BY <1>1, <1>3 DEF OwnInv, RegTypeOK, ConnectorTargetExists, Registered
<1> QED
  BY <1>2, <1>4 DEF OwnInv

(* Every step keeps the invariant.                                         *)
LEMMA RegNextOwn == OwnInv /\ RegTypeOK' /\ [RegNext]_regVars => OwnInv'
<1> SUFFICES ASSUME OwnInv, RegTypeOK', [RegNext]_regVars PROVE OwnInv'
  OBVIOUS
<1>1. CASE TokenStep
  <2>1. ASSUME NEW t \in RevTokens, NEW ct \in ConnTokens, AddConnectorToken(ct, t)
        PROVE  OwnInv'
    BY <2>1, AddConnectorTokenOwn DEF RevNames
  <2> QED
    BY <1>1, <2>1, AddReverseTokenOwn, RemoveReverseTokenOwn, RemoveConnectorTokenOwn,
       ForwardTokenOwn DEF TokenStep
<1>2. ASSUME NEW c \in Conns, AuthStep(c) PROVE OwnInv'
  BY <1>2, AuthManagingClientOwn, TablesKeptOwn
     DEF AuthStep, AuthReverseClient, AuthFirstReverseClient, AuthForwardClient,
         AuthConnector, AuthFails
<1>3. ASSUME NEW c \in Conns, LinkLost(c) \/ HandlerStep(c) PROVE OwnInv'
  BY <1>3, TablesKeptOwn
     DEF LinkLost, HandlerStep, ServerAwaited, ConfirmOrLeave, BroadcastEnds, CloseTask,
         SessionEnds, CleanupConnection
<1>4. ASSUME NEW c \in Conns, ManageStep(c) PROVE OwnInv'
  BY <1>4, AddConnectorTokenOwn, RemoveConnectorTokenOwn
     DEF ManageStep, ConnectorAdd, ConnectorRemove
<1>5. ASSUME NEW k \in Tasks, ServerStep(k) PROVE OwnInv'
  BY <1>5, TablesKeptOwn
     DEF ServerStep, ServerListens, ServerCannotBind, ServerNeverRan, ServerStops,
         ServerReleases, ServerDropsSocket, SetTask
<1>6. ASSUME NEW t \in RevTokens, HandlePendingToken(t) PROVE OwnInv'
  BY <1>6, TablesKeptOwn DEF HandlePendingToken
<1>7. CASE UNCHANGED regVars
  BY <1>7, TablesKeptOwn DEF regVars
<1> QED
  BY <1>1, <1>2, <1>3, <1>4, <1>5, <1>6, <1>7 DEF RegNext

(* Internal tokens live only as long as a managing token lists them        *)
(* (server.py:508-541, 800-822).                                           *)
THEOREM OwnedTokensTheorem == RegSpec => []InternalIsOwned
<1>1. RegSpec => []RegTypeOK
  BY RegTypeTheorem
<1>2. OwnInv => InternalIsOwned
  BY DEF OwnInv
<1> QED
  BY <1>1, <1>2, RegInitOwn, RegNextOwn, PTL DEF RegSpec

(* A connector token added for a reverse token goes when that token goes   *)
(* (server.py:508-541).                                                    *)
THEOREM TargetTheorem == RegSpec => []ConnectorTargetExists
<1>1. RegSpec => []RegTypeOK
  BY RegTypeTheorem
<1>2. OwnInv => ConnectorTargetExists
  BY DEF OwnInv
<1> QED
  BY <1>1, <1>2, RegInitOwn, RegNextOwn, PTL DEF RegSpec
-----------------------------------------------------------------------------
(***************************************************************************)
(* The table of SOCKS server tasks.  That a removal keeps the entries of   *)
(* other tokens in order needs to be told that servers are started for     *)
(* reverse tokens only, never for the internal tokens that go with one.    *)
(***************************************************************************)
EntryOK(p) ==
    LET k == task[socksTasks[p]]
    IN  /\ k.st # "none" /\ ~k.cancelled /\ k.port = p
        /\ k.token \in RevTokens /\ tokens[k.token] = p
AcceptorListed(k) ==
    task[k].st \in {"created", "accepting"} /\ ~task[k].cancelled
        => task[k].port \in PortKeys /\ socksTasks[task[k].port] = k

ServInv ==
    /\ RegTypeOK
    /\ \A p \in PortKeys : socksTasks[p] # None => EntryOK(p)
    /\ \A k \in Tasks : AcceptorListed(k)

(* The steps that leave the servers and every token that has one alone.    *)
LEMMA ServersKept ==
  ASSUME ServInv, RegTypeOK', UNCHANGED <<socksTasks, task>>,
         \A s \in RevTokens : tokens[s] # None => tokens'[s] = tokens[s]
  PROVE  ServInv'
<1>1. \A p \in PortKeys : socksTasks[p] # None => EntryOK(p)'
  BY RegistryAssumption DEF ServInv, EntryOK
<1> QED
  BY <1>1 DEF ServInv, AcceptorListed

(* A server starts without tasks.                                          *)
LEMMA RegInitServers == RegInit => ServInv
  BY RegInitType DEF RegInit, ServInv, AcceptorListed, NoTask

(* The server of a removed token is cancelled and its entry goes           *)
(* (server.py:567-573).                                                    *)
LEMMA RemoveReverseTokenServers ==
  ASSUME ServInv, RegTypeOK', NEW t \in RevTokens, RemoveReverseToken(t)
  PROVE  ServInv'
<1> DEFINE q == tokens[t]
           g == socksTasks[q]
<1>1. /\ q # None /\ CancelServer(q)
      /\ tokens' = [n \in RevNames |-> IF n \in DroppedWith(t) THEN None ELSE tokens[n]]
  BY DEF RemoveReverseToken
<1>2. q \in PortKeys
  BY <1>1 DEF ServInv, RegTypeOK, RevNames
<1>3. \A s \in RevTokens \ {t} : tokens'[s] = tokens[s]
  BY <1>1, NamesDisjoint DEF DroppedWith, RevNames, ServInv, RegTypeOK
<1>4. \A p \in PortKeys : /\ socksTasks'[p] # None => socksTasks'[p] = socksTasks[p] /\ p # q
                          /\ p # q => socksTasks'[p] = socksTasks[p]
  BY <1>1, <1>2 DEF CancelServer, ServInv, RegTypeOK
<1>5. \A k \in Tasks : k # g => task'[k] = task[k]
  BY <1>1 DEF CancelServer, ServInv, RegTypeOK
<1>6. g \in Tasks => task'[g].cancelled \/ task'[g].st = "none"
  <2> SUFFICES ASSUME g \in Tasks PROVE task'[g].cancelled \/ task'[g].st = "none"
    OBVIOUS
  <2>1. g # None /\ task[g] \in TaskStates
    BY RegistryAssumption DEF ServInv, RegTypeOK
  <2>2. task'[g] = IF task[g].st = "done" THEN NoTask ELSE [task[g] EXCEPT !.cancelled = TRUE]
    BY <1>1, <2>1 DEF CancelServer, ServInv, RegTypeOK
  <2> QED
    BY <2>1, <2>2 DEF TaskStates, NoTask
<1>7. ASSUME NEW p \in PortKeys, socksTasks'[p] # None PROVE EntryOK(p)'
  <2>1. /\ p # q /\ socksTasks'[p] = socksTasks[p] /\ EntryOK(p)
        /\ socksTasks[p] \in Tasks
    BY <1>4, <1>7 DEF ServInv, RegTypeOK
  <2>2. socksTasks[p] # g
    <3>1. task[socksTasks[p]].port = p /\ p # None
      BY <2>1, RegistryAssumption DEF EntryOK
    <3>2. q \in PortKeys /\ (g # None => task[g].port = q)
      BY <1>2 DEF ServInv, EntryOK
    <3>3. socksTasks[p] # None
      BY <1>7, <2>1
    <3> HIDE DEF q, g
    <3> QED
      BY <2>1, <3>1, <3>2, <3>3
  <2>3. task'[socksTasks[p]] = task[socksTasks[p]]
    BY <1>5, <2>1, <2>2
  <2>4. task[socksTasks[p]].token # t
    BY <2>1 DEF EntryOK
  <2> QED
    BY <1>3, <2>1, <2>3, <2>4 DEF EntryOK
<1>8. ASSUME NEW k \in Tasks PROVE AcceptorListed(k)'
  <2>1. CASE k = g
    BY <1>6, <2>1 DEF AcceptorListed
  <2>2. CASE k # g
    <3> SUFFICES ASSUME task[k].st \in {"created", "accepting"}, ~task[k].cancelled
                 PROVE  task[k].port \in PortKeys /\ socksTasks'[task[k].port] = k
      BY <1>5, <2>2 DEF AcceptorListed
    <3>1. task[k].port \in PortKeys /\ socksTasks[task[k].port] = k
      BY DEF ServInv, AcceptorListed
    <3>2. task[k].port # q
      BY <2>2, <3>1 DEF g
    <3>3. socksTasks' = socksTasks \/ socksTasks' = [socksTasks EXCEPT ![q] = None]
      BY <1>1 DEF CancelServer
    <3> QED
      BY <3>1, <3>2, <3>3 DEF ServInv, RegTypeOK
  <2> QED
    BY <2>1, <2>2
<1> QED
  BY <1>7, <1>8 DEF ServInv

(* A server is started for a token that has none (server.py:716-717,       *)
(* 835-841).                                                               *)
LEMMA StartServerServers ==
  ASSUME ServInv, RegTypeOK', NEW k \in Tasks, NEW t \in RevTokens, tokens[t] \in PortKeys,
         socksTasks[tokens[t]] = None, StartServer(k, t, tokens[t]), tokens' = tokens
  PROVE  ServInv'
<1> DEFINE q == tokens[t]
           v == [st |-> "created", port |-> q, token |-> t, cancelled |-> FALSE]
<1>1. /\ task[k].st = "none" /\ task' = [task EXCEPT ![k] = v]
      /\ socksTasks' = [socksTasks EXCEPT ![q] = k]
  BY DEF StartServer, FreeTasks
<1>2. \A j \in Tasks : task'[j] = IF j = k THEN v ELSE task[j]
  BY <1>1 DEF ServInv, RegTypeOK
<1>3. \A p \in PortKeys : socksTasks'[p] = IF p = q THEN k ELSE socksTasks[p]
  BY <1>1 DEF ServInv, RegTypeOK
<1>4. ASSUME NEW p \in PortKeys, socksTasks'[p] # None PROVE EntryOK(p)'
  <2>1. CASE p = q
    BY <1>2, <1>3, <2>1 DEF EntryOK
  <2>2. CASE p # q
    <3>1. socksTasks'[p] = socksTasks[p] /\ EntryOK(p) /\ socksTasks[p] \in Tasks
      BY <1>3, <1>4, <2>2 DEF ServInv, RegTypeOK
    <3>2. task'[socksTasks[p]] = task[socksTasks[p]]
      BY <1>1, <1>2, <3>1 DEF EntryOK
    <3> QED
      BY <3>1, <3>2 DEF EntryOK
  <2> QED
    BY <2>1, <2>2
<1>5. ASSUME NEW j \in Tasks PROVE AcceptorListed(j)'
  <2>1. CASE j = k
    BY <1>2, <1>3, <2>1 DEF AcceptorListed
  <2>2. CASE j # k
    <3> SUFFICES ASSUME task[j].st \in {"created", "accepting"}, ~task[j].cancelled
                 PROVE  task[j].port \in PortKeys /\ socksTasks'[task[j].port] = j
      BY <1>2, <2>2 DEF AcceptorListed
    <3>1. task[j].port \in PortKeys /\ socksTasks[task[j].port] = j
      BY DEF ServInv, AcceptorListed
    <3>2. task[j].port # q
      BY <3>1, RegistryAssumption
    <3> QED
      BY <1>1, <3>1, <3>2 DEF ServInv, RegTypeOK
  <2> QED
    BY <2>1, <2>2
<1> QED
  BY <1>4, <1>5 DEF ServInv

(* A task moves on: it stays listed under the port and token it was        *)
(* created for until it is cancelled.                                      *)
LEMMA TaskMoves ==
  ASSUME ServInv, RegTypeOK', NEW k \in Tasks, NEW v \in TaskStates, SetTask(k, v),
         v.st \in {"created", "accepting"}
           => task[k].st \in {"created", "accepting"} /\ ~task[k].cancelled,
         v = NoTask => socksTasks[task[k].port] # k,
         v # NoTask => v.st # "none" /\ v.port = task[k].port /\ v.token = task[k].token,
         ~task[k].cancelled => ~v.cancelled
  PROVE  ServInv'
<1>1. /\ \A j \in Tasks : task'[j] = IF j = k THEN v ELSE task[j]
      /\ socksTasks' = socksTasks /\ tokens' = tokens
  BY DEF SetTask, ServInv, RegTypeOK, tokenVars
<1>2. ASSUME NEW p \in PortKeys, socksTasks[p] # None PROVE EntryOK(p)'
  <2>1. EntryOK(p) /\ socksTasks[p] \in Tasks
    BY <1>2 DEF ServInv, RegTypeOK
  <2>2. CASE socksTasks[p] # k
    BY <1>1, <2>1, <2>2 DEF EntryOK
  <2>3. CASE socksTasks[p] = k
    BY <1>1, <2>1, <2>3 DEF EntryOK
  <2> QED
    BY <2>2, <2>3
<1>3. ASSUME NEW j \in Tasks PROVE AcceptorListed(j)'
  BY <1>1 DEF ServInv, AcceptorListed, NoTask
<1> QED
  BY <1>1, <1>2, <1>3 DEF ServInv

(* The steps of a SOCKS server task.                                       *)
LEMMA ServerStepServers ==
  ASSUME ServInv, RegTypeOK', NEW k \in Tasks, ServerStep(k)
  PROVE  ServInv'
<1>1. task[k] \in TaskStates /\ Finished(k) \in TaskStates
  BY FinishedType DEF ServInv, RegTypeOK
<1>2. CASE ServerListens(k)
  <2>1. [task[k] EXCEPT !.st = "accepting"] \in TaskStates
    BY <1>1 DEF TaskStates
  <2> QED
    BY <1>1, <1>2, <2>1, TaskMoves DEF ServerListens, TaskStates, NoTask
<1>3. CASE ServerStops(k)
  <2>1. [task[k] EXCEPT !.st = "draining", !.cancelled = FALSE] \in TaskStates
    BY <1>1 DEF TaskStates
  <2> QED
    BY <1>1, <1>3, <2>1, TaskMoves DEF ServerStops, TaskStates, NoTask
<1>4. CASE SetTask(k, Finished(k))
  <2>1. CASE socksTasks[task[k].port] = k
    BY <1>1, <1>4, <2>1, TaskMoves DEF Finished, TaskStates, NoTask
  <2>2. CASE socksTasks[task[k].port] # k
    BY <1>1, <1>4, <2>2, TaskMoves DEF Finished, TaskStates, NoTask
  <2> QED
    BY <2>1, <2>2
<1> QED
  BY <1>2, <1>3, <1>4
     DEF ServerStep, ServerCannotBind, ServerNeverRan, ServerReleases, ServerDropsSocket

(* Every step keeps the invariant.                                         *)
LEMMA RegNextServers == ServInv /\ RegTypeOK' /\ [RegNext]_regVars => ServInv'
<1> SUFFICES ASSUME ServInv, RegTypeOK', [RegNext]_regVars PROVE ServInv'
  OBVIOUS
<1>1. CASE UNCHANGED <<tokens, socksTasks, task>>
  BY <1>1, ServersKept
<1>2. ASSUME NEW t \in RevTokens, NEW kind \in Kinds, NEW want \in Ports \cup {None},
             AddReverseToken(t, kind, want)
      PROVE  ServInv'
  <2>1. PICK p : tokens' = [tokens EXCEPT ![t] = p]
    BY <1>2 DEF AddReverseToken
  <2>2. tokens[t] = None /\ UNCHANGED <<socksTasks, task>>
    BY <1>2 DEF AddReverseToken
  <2> QED
    BY <2>1, <2>2, ServersKept DEF ServInv, RegTypeOK, RevNames
<1>3. CASE TokenStep
  BY <1>1, <1>2, <1>3, RemoveReverseTokenServers
     DEF TokenStep, AddConnectorToken, RemoveConnectorToken, AddForwardToken,
         RemoveForwardToken, taskVars
<1>4. ASSUME NEW c \in Conns, NEW t \in RevTokens, AuthFirstReverseClient(c, t)
      PROVE  ServInv'
  <2>1. tokens[t] \in PortKeys
    BY <1>4 DEF AuthFirstReverseClient, ServInv, RegTypeOK, RevNames
  <2> QED
    BY <1>4, <2>1, StartServerServers DEF AuthFirstReverseClient, tokenVars
<1>5. ASSUME NEW c \in Conns, NEW t \in RevTokens, NEW i \in Instances,
             AuthManagingClient(c, t, i)
      PROVE  ServInv'
  <2>1. /\ tokens' = [tokens EXCEPT ![i] = NoPort] /\ UNCHANGED <<socksTasks, task>>
    BY <1>5 DEF AuthManagingClient, taskVars
  <2> QED
    BY <2>1, ServersKept, NamesDisjoint DEF ServInv, RegTypeOK, RevNames
<1>6. ASSUME NEW c \in Conns, AuthStep(c) PROVE ServInv'
  BY <1>1, <1>4, <1>5, <1>6
     DEF AuthStep, AuthReverseClient, AuthForwardClient, AuthConnector, AuthFails,
         tokenVars, taskVars
<1>7. ASSUME NEW c \in Conns, LinkLost(c) \/ HandlerStep(c) PROVE ServInv'
  BY <1>1, <1>7
     DEF LinkLost, HandlerStep, ServerAwaited, ConfirmOrLeave, BroadcastEnds, CloseTask,
         SessionEnds, CleanupConnection, tokenVars, taskVars
<1>8. ASSUME NEW c \in Conns, ManageStep(c) PROVE ServInv'
  BY <1>1, <1>8
     DEF ManageStep, ConnectorAdd, ConnectorRemove, AddConnectorToken,
         RemoveConnectorToken, taskVars
<1>9. ASSUME NEW t \in RevTokens, HandlePendingToken(t) PROVE ServInv'
  <2>1. tokens[t] # None => tokens[t] \in PortKeys
    BY DEF ServInv, RegTypeOK, RevNames
  <2> QED
    BY <1>1, <1>9, <2>1, StartServerServers DEF HandlePendingToken, tokenVars
<1>10. ASSUME NEW k \in Tasks, ServerStep(k) PROVE ServInv'
  BY <1>10, ServerStepServers
<1>11. CASE UNCHANGED regVars
  BY <1>1, <1>11 DEF regVars, tokenVars, taskVars
<1> QED
  BY <1>3, <1>6, <1>7, <1>8, <1>9, <1>10, <1>11 DEF RegNext

(* The invariant holds in every reachable state.                           *)
LEMMA ServInvHolds == RegSpec => []ServInv
<1>1. RegSpec => []RegTypeOK
  BY RegTypeTheorem
<1> QED
  BY <1>1, RegInitServers, RegNextServers, PTL DEF RegSpec

(* remove_token reaches every server that accepts: the task table lists it *)
(* under the port of the token it serves, so no port has two servers       *)
(* (server.py:567-573, 716-717, 835-841).                                  *)
THEOREM ServersTheorem == RegSpec => []ServersAreOwned
<1>1. ServInv => ServersAreOwned
  BY DEF ServInv, EntryOK, AcceptorListed, ServersAreOwned
<1> QED
  BY <1>1, ServInvHolds, PTL
-----------------------------------------------------------------------------
(***************************************************************************)
(* Sessions and the tables that list them: a session that ended is         *)
(* forgotten, a client of a removed token is disconnected, and a removal   *)
(* disconnects nobody else.                                                *)
(***************************************************************************)

Listing == RevNames \cup ConnTokens      \* the names that tokenClients knows
Live == {"starting", "notifying", "running"}

(***************************************************************************)
(* The inductive invariant.  GoneIsForgotten needs ListedAreLive, which a  *)
(* cleanup only keeps because a client is listed under the name its        *)
(* handler remembers and nowhere else.  UnlistedIsClosing needs in         *)
(* addition that an open connection is listed and that a name with clients *)
(* is a token.  ForwardNamed separates the forward clients, who are in a   *)
(* table of their own.                                                     *)
(***************************************************************************)
ListedAreLive ==
    \A c \in Conns : \A n \in Listing :
        c \in tokenClients[n] => session[c].st \in Live /\ session[c].name = n
KnownAreLive == \A c \in clients : session[c].st \in Live
ForwardNamed ==
    \A c \in fwdClients : session[c].st # "new" /\ session[c].name \in FwdTokens
LiveNamed == \A c \in Conns : session[c].st \in Live => session[c].name \in Names
OpenIsListed ==
    \A c \in Conns :
        /\ session[c].st \in Live /\ session[c].link = "open"
        /\ session[c].name \notin FwdTokens
        => c \in tokenClients[session[c].name]
ListsAreTokens == \A n \in Listing : tokenClients[n] # {} => Registered(n)

SessInv ==
    /\ RegTypeOK
    /\ ListedAreLive /\ KnownAreLive /\ ForwardNamed /\ LiveNamed /\ OpenIsListed
    /\ ListsAreTokens
-----------------------------------------------------------------------------
(* No name belongs to two kinds of token.                                  *)
LEMMA KindsDisjoint ==
  /\ Listing \cap FwdTokens = {} /\ RevNames \cap ConnTokens = {}
  /\ None \notin Names /\ Names = Listing \cup FwdTokens
  BY RegistryAssumption DEF Listing, RevNames, Names

(* A server starts without clients (server.py:285-337).                    *)
LEMMA RegInitSess == RegInit => SessInv
<1> SUFFICES ASSUME RegInit PROVE SessInv
  OBVIOUS
<1>1. RegTypeOK
  BY RegInitType
<1>2. \A c \in Conns : session[c].st = "new"
  BY DEF RegInit, NewSession
<1>3. clients = {} /\ fwdClients = {} /\ \A n \in Listing : tokenClients[n] = {}
  BY DEF RegInit, Listing
<1> QED
  BY <1>1, <1>2, <1>3 DEF SessInv, ListedAreLive, KnownAreLive, ForwardNamed, LiveNamed,
     OpenIsListed, ListsAreTokens, Live

(* Closing connections changes their link and nothing else of a session.   *)
LEMMA DisconnectKeeps ==
  ASSUME RegTypeOK, NEW cs, Disconnect(cs), NEW c \in Conns
  PROVE  /\ session'[c].st = session[c].st /\ session'[c].name = session[c].name
         /\ session'[c].link = "open" <=> session[c].link = "open" /\ c \notin cs
         /\ session'[c].link = "closeReq" /\ session[c].link = "open" => c \in cs
  BY DEF Disconnect, RegTypeOK, Sessions

(* The part of a removal that the kinds of token share: clients listed     *)
(* under the removed names are disconnected and forgotten (server.py:      *)
(* 488-498, 511-522, 541-550).                                             *)
LEMMA ForgetClientsSess ==
  ASSUME SessInv, NEW names \in SUBSET Listing, ForgetClients(names),
         fwdClients' = fwdClients
  PROVE  /\ ListedAreLive' /\ KnownAreLive' /\ ForwardNamed' /\ LiveNamed' /\ OpenIsListed'
         /\ \A n \in Listing : tokenClients'[n] # {} => n \notin names /\ tokenClients[n] # {}
<1> DEFINE gone == UNION {tokenClients[n] : n \in names}
<1>1. /\ Disconnect(gone) /\ clients' = clients \ gone
      /\ tokenClients' = [n \in Listing |-> IF n \in names THEN {} ELSE tokenClients[n]]
  BY DEF ForgetClients, SessInv, RegTypeOK, Listing
<1>2. \A c \in Conns :
        /\ session'[c].st = session[c].st /\ session'[c].name = session[c].name
        /\ session'[c].link = "open" => session[c].link = "open" /\ c \notin gone
  BY <1>1, DisconnectKeeps DEF SessInv
<1>3. clients \subseteq Conns /\ fwdClients \subseteq Conns
  BY DEF SessInv, RegTypeOK
<1>4. ListedAreLive' /\ LiveNamed'
  BY <1>1, <1>2 DEF SessInv, ListedAreLive, LiveNamed
<1>5. KnownAreLive' /\ ForwardNamed'
  BY <1>1, <1>2, <1>3 DEF SessInv, KnownAreLive, ForwardNamed
<1>6. OpenIsListed'
  <2> SUFFICES ASSUME NEW c \in Conns, session'[c].st \in Live, session'[c].link = "open",
                      session'[c].name \notin FwdTokens
               PROVE  c \in tokenClients'[session'[c].name]
    BY DEF OpenIsListed
  <2> DEFINE n == session[c].name
  <2>1. n \in Listing /\ c \in tokenClients[n] /\ c \notin gone
    BY <1>2, KindsDisjoint DEF SessInv, LiveNamed, OpenIsListed
  <2>2. n \notin names
    BY <2>1
  <2> QED
    BY <1>1, <1>2, <2>1, <2>2
<1>7. \A n \in Listing : tokenClients'[n] # {} => n \notin names /\ tokenClients[n] # {}
  BY <1>1
<1> QED
  BY <1>4, <1>5, <1>6, <1>7

(* Removing a reverse token: what depends on it goes with it.              *)
LEMMA RemoveReverseTokenSess ==
  ASSUME SessInv, RegTypeOK', NEW t \in RevTokens, RemoveReverseToken(t)
  PROVE  SessInv'
<1> DEFINE names == DroppedWith(t) \cup ConnectorsOf(t)
<1>1. names \in SUBSET Listing
  BY DEF DroppedWith, ConnectorsOf, SessInv, RegTypeOK, RevNames, Listing
<1>2. ForgetClients(names) /\ fwdClients' = fwdClients
  BY DEF RemoveReverseToken
<1> HIDE DEF names
<1>3. /\ ListedAreLive' /\ KnownAreLive' /\ ForwardNamed' /\ LiveNamed' /\ OpenIsListed'
      /\ \A n \in Listing : tokenClients'[n] # {} => n \notin names /\ tokenClients[n] # {}
  BY <1>1, <1>2, ForgetClientsSess
<1>4. \A n \in Listing : Registered(n) /\ n \notin names => Registered(n)'
  <2>1. /\ tokens' = [n \in RevNames |-> IF n \in DroppedWith(t) THEN None ELSE tokens[n]]
        /\ connTokens' = [ct \in ConnTokens |->
                            IF ct \in ConnectorsOf(t) THEN None ELSE connTokens[ct]]
        /\ fwdTokens' = fwdTokens
    BY DEF RemoveReverseToken
  <2> QED
    BY <2>1 DEF Registered, names
<1>5. ListsAreTokens'
  BY <1>3, <1>4 DEF SessInv, ListsAreTokens
<1> QED
  BY <1>3, <1>5 DEF SessInv

(* Removing a connector token.                                             *)
LEMMA RemoveConnectorTokenSess ==
  ASSUME SessInv, RegTypeOK', NEW ct \in ConnTokens, RemoveConnectorToken(ct)
  PROVE  SessInv'
<1>1. {ct} \in SUBSET Listing /\ ForgetClients({ct}) /\ fwdClients' = fwdClients
  BY DEF RemoveConnectorToken, Listing
<1>2. /\ ListedAreLive' /\ KnownAreLive' /\ ForwardNamed' /\ LiveNamed' /\ OpenIsListed'
      /\ \A n \in Listing : tokenClients'[n] # {} => n # ct /\ tokenClients[n] # {}
  BY <1>1, ForgetClientsSess
<1>3. \A n \in Listing : Registered(n) /\ n # ct => Registered(n)'
  BY DEF RemoveConnectorToken, Registered, SessInv, RegTypeOK
<1>4. ListsAreTokens'
  BY <1>2, <1>3 DEF SessInv, ListsAreTokens
<1> QED
  BY <1>2, <1>4 DEF SessInv

(* Removing a forward token closes connections that nobody else lists.     *)
LEMMA RemoveForwardTokenSess ==
  ASSUME SessInv, RegTypeOK', NEW ft \in FwdTokens, RemoveForwardToken(ft)
  PROVE  SessInv'
<1>1. /\ Disconnect(fwdClients) /\ fwdClients' = {} /\ clients' = clients
      /\ tokenClients' = tokenClients /\ tokens' = tokens /\ connTokens' = connTokens
      /\ fwdTokens' = fwdTokens \ {ft}
  BY DEF RemoveForwardToken
<1>2. \A c \in Conns :
        /\ session'[c].st = session[c].st /\ session'[c].name = session[c].name
        /\ session'[c].link = "open" => session[c].link = "open"
  BY <1>1, DisconnectKeeps DEF SessInv
<1>3. ListedAreLive' /\ LiveNamed' /\ OpenIsListed' /\ KnownAreLive' /\ ForwardNamed'
  BY <1>1, <1>2 DEF SessInv, RegTypeOK, ListedAreLive, LiveNamed, OpenIsListed, KnownAreLive,
     ForwardNamed
<1>4. ListsAreTokens'
  BY <1>1, KindsDisjoint DEF SessInv, ListsAreTokens, Registered
<1> QED
  BY <1>3, <1>4 DEF SessInv

(* Steps that touch neither clients nor sessions and drop no name that has *)
(* clients.                                                                *)
LEMMA NamesGrowSess ==
  ASSUME SessInv, RegTypeOK', UNCHANGED clientVars,
         \A n \in Listing : Registered(n) => Registered(n)'
  PROVE  SessInv'
<1>1. ListedAreLive' /\ KnownAreLive' /\ ForwardNamed' /\ LiveNamed' /\ OpenIsListed'
  BY DEF SessInv, ListedAreLive, KnownAreLive, ForwardNamed, LiveNamed, OpenIsListed,
         clientVars
<1>2. ListsAreTokens'
  BY DEF SessInv, ListsAreTokens, clientVars
<1> QED
  BY <1>1, <1>2 DEF SessInv

(* Adding a token changes neither clients nor the other tokens.            *)
LEMMA AddTokenSess ==
  ASSUME SessInv, RegTypeOK',
         \/ \E t \in RevTokens, kind \in Kinds, want \in Ports \cup {None} :
              AddReverseToken(t, kind, want)
         \/ \E ct \in ConnTokens, rt \in RevNames : AddConnectorToken(ct, rt)
         \/ \E ft \in FwdTokens : AddForwardToken(ft)
  PROVE  SessInv'
<1>1. ASSUME NEW t \in RevTokens, NEW kind \in Kinds, NEW want \in Ports \cup {None},
             AddReverseToken(t, kind, want)
      PROVE  SessInv'
  <2>1. /\ tokens[t] = None /\ connTokens' = connTokens /\ fwdTokens' = fwdTokens
        /\ UNCHANGED clientVars
    BY <1>1 DEF AddReverseToken
  <2>2. \E p : tokens' = [tokens EXCEPT ![t] = p]
    BY <1>1 DEF AddReverseToken
  <2>3. \A n \in RevNames : tokens[n] # None => tokens'[n] # None
    BY <2>1, <2>2 DEF SessInv, RegTypeOK
  <2> QED
    BY <2>1, <2>3, NamesGrowSess DEF Registered
<1>2. ASSUME NEW ct \in ConnTokens, NEW rt \in RevNames, AddConnectorToken(ct, rt)
      PROVE  SessInv'
  <2>1. /\ connTokens[ct] = None /\ tokens' = tokens /\ fwdTokens' = fwdTokens
        /\ connTokens' = [connTokens EXCEPT ![ct] = rt] /\ UNCHANGED clientVars
    BY <1>2 DEF AddConnectorToken
  <2>2. \A n \in ConnTokens : connTokens[n] # None => connTokens'[n] # None
    BY <2>1 DEF SessInv, RegTypeOK
  <2> QED
    BY <2>1, <2>2, NamesGrowSess DEF Registered
<1>3. ASSUME NEW ft \in FwdTokens, AddForwardToken(ft) PROVE SessInv'
  BY <1>3, NamesGrowSess DEF AddForwardToken, Registered
<1> QED
  BY <1>1, <1>2, <1>3

(* A connection is listed under the name it logged in with, in the step    *)
(* that gives its handler that name (server.py:822-849, 872-884).          *)
LEMMA LoginSess ==
  ASSUME SessInv, RegTypeOK', NEW c \in Conns, NEW n \in Listing, Fresh(c),
         ListClient(c, n), fwdClients' = fwdClients,
         clients' \subseteq clients \cup {c},
         session'[c].st \in Live, session'[c].name = n,
         \A d \in Conns \ {c} : /\ session'[d].st = session[d].st
                                /\ session'[d].name = session[d].name
                                /\ session'[d].link = session[d].link,
         Registered(n)',
         \A m \in Listing : Registered(m) => Registered(m)'
  PROVE  SessInv'
<1>1. /\ \A m \in Listing : tokenClients'[m] = IF m = n THEN tokenClients[m] \cup {c}
                                                       ELSE tokenClients[m]
      /\ \A m \in Listing : c \notin tokenClients[m]
      /\ c \notin fwdClients
  BY DEF ListClient, SessInv, RegTypeOK, ListedAreLive, ForwardNamed, Fresh, Live, Listing
<1>2. ListedAreLive'
  <2> SUFFICES ASSUME NEW d \in Conns, NEW m \in Listing, d \in tokenClients'[m]
               PROVE  session'[d].st \in Live /\ session'[d].name = m
    BY DEF ListedAreLive
  <2>1. CASE d = c
    BY <1>1, <2>1
  <2>2. CASE d # c
    <3> HIDE DEF Listing, Live
    <3>1. d \in tokenClients[m]
      <4>1. tokenClients'[m] = tokenClients[m] \cup {c} \/ tokenClients'[m] = tokenClients[m]
        BY <1>1
      <4> QED
        BY <2>2, <4>1
    <3> QED
      BY <2>2, <3>1 DEF SessInv, ListedAreLive
  <2> QED
    BY <2>1, <2>2
<1>3. KnownAreLive' /\ ForwardNamed'
  BY <1>1 DEF SessInv, RegTypeOK, KnownAreLive, ForwardNamed
<1>4. LiveNamed'
  BY KindsDisjoint DEF SessInv, LiveNamed
<1>5. OpenIsListed'
  <2> SUFFICES ASSUME NEW d \in Conns, session'[d].st \in Live, session'[d].link = "open",
                      session'[d].name \notin FwdTokens
               PROVE  d \in tokenClients'[session'[d].name]
    BY DEF OpenIsListed
  <2>1. CASE d = c
    BY <1>1, <2>1
  <2>2. CASE d # c
    <3>1. /\ session[d].st \in Live /\ session[d].link = "open"
          /\ session[d].name = session'[d].name
      BY <2>2
    <3>2. session[d].name \in Listing /\ d \in tokenClients[session[d].name]
      BY <3>1, KindsDisjoint DEF SessInv, LiveNamed, OpenIsListed
    <3> QED
      BY <1>1, <3>1, <3>2
  <2> QED
    BY <2>1, <2>2
<1>6. ListsAreTokens'
  BY <1>1 DEF SessInv, ListsAreTokens
<1> QED
  BY <1>2, <1>3, <1>4, <1>5, <1>6 DEF SessInv

(* The session record of a client that is confirmed.                       *)
LEMMA ConfirmedFields ==
  ASSUME NEW s \in Sessions, NEW n \in Names
  PROVE  LET r == Confirmed([s EXCEPT !.name = n])
         IN  r.st \in {"notifying", "running"} /\ r.name = n /\ r.link = s.link
  BY DEF Confirmed, Sessions

(* An announcement to the partners changes nothing but the first message.  *)
LEMMA PartnersToKeeps ==
  ASSUME NEW ss \in [Conns -> Sessions], NEW rt, NEW d \in Conns
  PROVE  LET r == PartnersTo(ss, rt)[d]
         IN  r.st = ss[d].st /\ r.name = ss[d].name /\ r.link = ss[d].link
  BY DEF PartnersTo, Sessions

(* A login, of whichever kind, keeps the invariant.                        *)
LEMMA AuthSess ==
  ASSUME SessInv, RegTypeOK', NEW c \in Conns, AuthStep(c)
  PROVE  SessInv'
<1>1. session[c] \in Sessions /\ RegTypeOK
  BY DEF SessInv, RegTypeOK
<1>2. ASSUME NEW t \in RevTokens, NEW i \in Instances, AuthManagingClient(c, t, i)
      PROVE  SessInv'
  <2>1. /\ Fresh(c) /\ ListClient(c, i) /\ fwdClients' = fwdClients
        /\ clients' = clients \cup {c} /\ fwdTokens' = fwdTokens
        /\ tokens' = [tokens EXCEPT ![i] = NoPort] /\ connTokens' = connTokens
        /\ session' = [session EXCEPT ![c] = Confirmed([session[c] EXCEPT !.name = i])]
    BY <1>2 DEF AuthManagingClient, SetSession
  <2>2. i \in Listing /\ i \in Names /\ i \in RevNames
    BY DEF Listing, Names, RevNames
  <2>3. session'[c].st \in Live /\ session'[c].name = i
    BY <1>1, <2>1, <2>2, ConfirmedFields DEF RegTypeOK, Live
  <2>4. \A d \in Conns \ {c} : session'[d] = session[d]
    BY <1>1, <2>1 DEF RegTypeOK
  <2>5. Registered(i)' /\ \A m \in Listing : Registered(m) => Registered(m)'
    BY <1>1, <2>1, <2>2, NotPorts DEF Registered, RegTypeOK
  <2> QED
    BY <2>1, <2>2, <2>3, <2>4, <2>5, LoginSess
<1>3. ASSUME NEW t \in RevTokens, AuthReverseClient(c, t) PROVE SessInv'
  <2>1. /\ Fresh(c) /\ tokens[t] # None /\ ListClient(c, t) /\ fwdClients' = fwdClients
        /\ clients' = clients \cup {c} /\ UNCHANGED tokenVars
        /\ session' = [session EXCEPT ![c] = Confirmed([session[c] EXCEPT !.name = t])]
    BY <1>3 DEF AuthReverseClient, SetSession
  <2>2. t \in Listing /\ t \in Names /\ t \in RevNames
    BY DEF Listing, Names, RevNames
  <2>3. session'[c].st \in Live /\ session'[c].name = t
    BY <1>1, <2>1, <2>2, ConfirmedFields DEF RegTypeOK, Live
  <2>4. \A d \in Conns \ {c} : session'[d] = session[d]
    BY <1>1, <2>1 DEF RegTypeOK
  <2>5. Registered(t)' /\ \A m \in Listing : Registered(m) => Registered(m)'
    BY <2>1, <2>2 DEF Registered, tokenVars
  <2> QED
    BY <2>1, <2>2, <2>3, <2>4, <2>5, LoginSess
<1>4. ASSUME NEW t \in RevTokens, AuthFirstReverseClient(c, t) PROVE SessInv'
  <2>1. /\ Fresh(c) /\ tokens[t] # None /\ ListClient(c, t) /\ fwdClients' = fwdClients
        /\ clients' = clients /\ UNCHANGED tokenVars
    BY <1>4 DEF AuthFirstReverseClient
  <2>2. PICK k \in Tasks :
          session' = [session EXCEPT ![c] =
                        [session[c] EXCEPT !.st = "starting", !.name = t, !.wait = k]]
    BY <1>4 DEF AuthFirstReverseClient, SetSession
  <2>3. t \in Listing /\ t \in RevNames
    BY DEF Listing, RevNames
  <2>4. session'[c].st \in Live /\ session'[c].name = t
    BY <1>1, <2>2 DEF RegTypeOK, Sessions, Live
  <2>5. \A d \in Conns \ {c} : session'[d] = session[d]
    BY <1>1, <2>2 DEF RegTypeOK
  <2>6. Registered(t)' /\ \A m \in Listing : Registered(m) => Registered(m)'
    BY <2>1, <2>3 DEF Registered, tokenVars
  <2> QED
    BY <2>1, <2>3, <2>4, <2>5, <2>6, LoginSess
<1>5. ASSUME NEW ct \in ConnTokens, AuthConnector(c, ct) PROVE SessInv'
  <2> DEFINE ss == [session EXCEPT ![c] =
                      [@ EXCEPT !.st = "running", !.name = ct, !.first = "auth"]]
  <2>1. /\ Fresh(c) /\ connTokens[ct] # None /\ ListClient(c, ct)
        /\ fwdClients' = fwdClients /\ clients' = clients \cup {c}
        /\ session' = PartnersTo(ss, connTokens[ct]) /\ UNCHANGED tokenVars
    BY <1>5 DEF AuthConnector
  <2>2. ct \in Listing /\ ct \in Names
    BY DEF Listing, Names
  <2>3. ss \in [Conns -> Sessions] /\ ss[c].st = "running" /\ ss[c].name = ct
    BY <1>1, <2>2 DEF RegTypeOK, Sessions
  <2>4. \A d \in Conns \ {c} : ss[d] = session[d]
    BY <1>1 DEF RegTypeOK
  <2> HIDE DEF ss
  <2>5. session'[c].st \in Live /\ session'[c].name = ct
    BY <2>1, <2>3, PartnersToKeeps DEF Live
  <2>6. \A d \in Conns \ {c} : /\ session'[d].st = session[d].st
                               /\ session'[d].name = session[d].name
                               /\ session'[d].link = session[d].link
    BY <2>1, <2>3, <2>4, PartnersToKeeps
  <2>7. Registered(ct)' /\ \A m \in Listing : Registered(m) => Registered(m)'
    BY <2>1 DEF Registered, tokenVars
  <2> QED
    BY <2>1, <2>2, <2>5, <2>6, <2>7, LoginSess
<1>6. ASSUME NEW ft \in FwdTokens, AuthForwardClient(c, ft) PROVE SessInv'
  <2>1. /\ fwdClients' = fwdClients \cup {c} /\ clients' = clients /\ Fresh(c)
        /\ tokenClients' = tokenClients /\ UNCHANGED tokenVars
        /\ session' = [session EXCEPT ![c] = [session[c] EXCEPT !.st = "running",
                                               !.name = ft, !.first = "auth"]]
    BY <1>6 DEF AuthForwardClient, SetSession
  <2>2. /\ session'[c].st = "running" /\ session'[c].name = ft
        /\ \A d \in Conns \ {c} : session'[d] = session[d]
    BY <1>1, <2>1 DEF RegTypeOK, Sessions
  <2>3. c \notin clients /\ \A n \in Listing : c \notin tokenClients[n]
    BY <2>1 DEF SessInv, ListedAreLive, KnownAreLive, Fresh, Live
  <2>4. ListedAreLive' /\ KnownAreLive'
    BY <2>1, <2>2, <2>3 DEF SessInv, RegTypeOK, ListedAreLive, KnownAreLive
  <2>5. ForwardNamed'
    BY <2>1, <2>2 DEF SessInv, RegTypeOK, ForwardNamed
  <2>6. LiveNamed' /\ OpenIsListed'
    BY <2>1, <2>2 DEF SessInv, LiveNamed, OpenIsListed, Names
  <2>7. ListsAreTokens'
    BY <2>1 DEF SessInv, ListsAreTokens, Registered, tokenVars
  <2> QED
    BY <2>4, <2>5, <2>6, <2>7 DEF SessInv
<1>7. CASE AuthFails(c)
  <2>1. /\ Fresh(c) /\ session' = [session EXCEPT ![c] = GoneSession(session[c])]
        /\ UNCHANGED <<tokenVars, tokenClients, clients, fwdClients>>
    BY <1>7 DEF AuthFails, SetSession
  <2>2. /\ session'[c].st = "gone" /\ session'[c].name = session[c].name
        /\ \A d \in Conns \ {c} : session'[d] = session[d]
    BY <1>1, <2>1 DEF RegTypeOK, GoneSession, NewSession, Sessions
  <2>3. c \notin clients /\ \A n \in Listing : c \notin tokenClients[n]
    BY <2>1 DEF SessInv, ListedAreLive, KnownAreLive, Fresh, Live
  <2>4. ListedAreLive' /\ KnownAreLive' /\ ForwardNamed' /\ LiveNamed' /\ OpenIsListed'
    BY <2>1, <2>2, <2>3
       DEF SessInv, RegTypeOK, ListedAreLive, KnownAreLive, ForwardNamed, LiveNamed,
           OpenIsListed, Live
  <2>5. ListsAreTokens'
    BY <2>1 DEF SessInv, ListsAreTokens, Registered, tokenVars
  <2> QED
    BY <2>4, <2>5 DEF SessInv
<1> QED
  BY <1>2, <1>3, <1>4, <1>5, <1>6, <1>7 DEF AuthStep

(* _cleanup_connection forgets the connection under the one name it can be *)
(* listed under (server.py:947-976).                                       *)
LEMMA CleanupConnectionSess ==
  ASSUME SessInv, RegTypeOK', NEW c \in Conns, session[c].st \in Live, CleanupConnection(c)
  PROVE  SessInv'
<1> DEFINE n == session[c].name
           ss == [session EXCEPT ![c] = GoneSession(@)]
<1>1. PICK rt : session' = PartnersTo(ss, rt)
  BY DEF CleanupConnection
<1>2. ss \in [Conns -> Sessions] /\ n \in Names
  BY GoneSessionType DEF SessInv, RegTypeOK, LiveNamed
<1>3. ss[c].st = "gone" /\ ss[c].name = n /\ \A d \in Conns \ {c} : ss[d] = session[d]
  BY DEF SessInv, RegTypeOK, GoneSession, NewSession, Sessions
<1> HIDE DEF ss
<1>4. /\ session'[c].st = "gone" /\ session'[c].name = n
      /\ \A d \in Conns \ {c} : /\ session'[d].st = session[d].st
                                /\ session'[d].name = session[d].name
                                /\ session'[d].link = session[d].link
  BY <1>1, <1>2, <1>3, PartnersToKeeps
<1>5. /\ clients' = clients \ {c} /\ fwdClients' = fwdClients /\ UNCHANGED tokenVars
      /\ n \in FwdTokens => tokenClients' = tokenClients
      /\ n \notin FwdTokens => tokenClients' = [tokenClients EXCEPT ![n] = @ \ {c}]
  BY DEF CleanupConnection
<1>6. \A m \in Listing : tokenClients'[m] = tokenClients[m] \ {c}
  <2> SUFFICES ASSUME NEW m \in Listing PROVE tokenClients'[m] = tokenClients[m] \ {c}
    OBVIOUS
  <2>1. c \in tokenClients[m] => m = n
    BY DEF SessInv, ListedAreLive
  <2>2. tokenClients \in [Listing -> SUBSET Conns] /\ (n \notin FwdTokens => n \in Listing)
    BY <1>2, KindsDisjoint DEF SessInv, RegTypeOK, Listing
  <2> HIDE DEF Listing, n
  <2>3. CASE n \in FwdTokens
    BY <1>5, <2>1, <2>3, KindsDisjoint
  <2>4. CASE n \notin FwdTokens /\ m = n
    BY <1>5, <2>2, <2>4
  <2>5. CASE n \notin FwdTokens /\ m # n
    BY <1>5, <2>1, <2>2, <2>5
  <2> QED
    BY <2>3, <2>4, <2>5
<1> HIDE DEF n
<1>7. ListedAreLive'
  <2> SUFFICES ASSUME NEW d \in Conns, NEW m \in Listing, d \in tokenClients'[m]
               PROVE  session'[d].st \in Live /\ session'[d].name = m
    BY DEF ListedAreLive
  <2>1. d # c /\ d \in tokenClients[m]
    BY <1>6
  <2> QED
    BY <1>4, <2>1 DEF SessInv, ListedAreLive
<1>8. KnownAreLive'
  BY <1>4, <1>5 DEF SessInv, RegTypeOK, KnownAreLive
<1>9. ForwardNamed'
  <2> SUFFICES ASSUME NEW d \in fwdClients
               PROVE  session'[d].st # "new" /\ session'[d].name \in FwdTokens
    BY <1>5 DEF ForwardNamed
  <2>1. d \in Conns /\ session[d].st # "new" /\ session[d].name \in FwdTokens
    BY DEF SessInv, RegTypeOK, ForwardNamed
  <2>2. CASE d = c
    BY <1>4, <2>1, <2>2 DEF n
  <2>3. CASE d # c
    BY <1>4, <2>1, <2>3
  <2> QED
    BY <2>2, <2>3
<1>10. LiveNamed'
  BY <1>4 DEF SessInv, LiveNamed, Live
<1>11. OpenIsListed'
  <2> SUFFICES ASSUME NEW d \in Conns, session'[d].st \in Live, session'[d].link = "open",
                      session'[d].name \notin FwdTokens
               PROVE  d \in tokenClients'[session'[d].name]
    BY DEF OpenIsListed
  <2>1. d # c
    BY <1>4 DEF Live
  <2>2. /\ session[d].st \in Live /\ session[d].link = "open"
        /\ session[d].name = session'[d].name
    BY <1>4, <2>1
  <2>3. session[d].name \in Listing /\ d \in tokenClients[session[d].name]
    BY <2>2, KindsDisjoint DEF SessInv, LiveNamed, OpenIsListed
  <2> QED
    BY <1>6, <2>1, <2>2, <2>3
<1>12. ListsAreTokens'
  BY <1>5, <1>6 DEF SessInv, ListsAreTokens, Registered, tokenVars
<1> QED
  BY <1>7, <1>8, <1>9, <1>10, <1>11, <1>12 DEF SessInv

(* A session that stays with its handler: it keeps its name, and its link  *)
(* does not open again.                                                    *)
LEMMA StaysSess ==
  ASSUME SessInv, RegTypeOK', NEW c \in Conns, UNCHANGED <<tokenVars, tokenClients, fwdClients>>,
         clients' \subseteq clients \cup {c},
         c \in clients' => session'[c].st \in Live,
         session[c].st \in Live <=> session'[c].st \in Live,
         session[c].st = "new" <=> session'[c].st = "new",
         session'[c].name = session[c].name,
         session'[c].link = "open" => session[c].link = "open",
         \A d \in Conns \ {c} : session'[d] = session[d]
  PROVE  SessInv'
<1>1. \A d \in Conns : /\ session[d].st \in Live <=> session'[d].st \in Live
                       /\ session[d].st = "new" <=> session'[d].st = "new"
                       /\ session'[d].name = session[d].name
                       /\ session'[d].link = "open" => session[d].link = "open"
  OBVIOUS
<1>2. ListedAreLive' /\ LiveNamed' /\ OpenIsListed'
  BY <1>1 DEF SessInv, ListedAreLive, LiveNamed, OpenIsListed
<1>3. KnownAreLive' /\ ForwardNamed'
  BY <1>1 DEF SessInv, RegTypeOK, KnownAreLive, ForwardNamed
<1>4. ListsAreTokens'
  BY DEF SessInv, ListsAreTokens, Registered, tokenVars
<1> QED
  BY <1>2, <1>3, <1>4 DEF SessInv

(* What a handler does after the login keeps the invariant.                *)
LEMMA HandlerSess ==
  ASSUME SessInv, RegTypeOK', NEW c \in Conns, LinkLost(c) \/ HandlerStep(c)
  PROVE  SessInv'
<1>1. session[c] \in Sessions /\ session \in [Conns -> Sessions]
  BY DEF SessInv, RegTypeOK
<1>2. CASE LinkLost(c) \/ CloseTask(c)
  <2>1. /\ session' = [session EXCEPT ![c] = [session[c] EXCEPT !.link = "closed"]]
        /\ UNCHANGED <<tokenVars, tokenClients, clients, fwdClients>>
    BY <1>2 DEF LinkLost, CloseTask, SetSession
  <2>2. /\ session'[c].st = session[c].st /\ session'[c].name = session[c].name
        /\ session'[c].link = "closed" /\ \A d \in Conns \ {c} : session'[d] = session[d]
    BY <1>1, <2>1 DEF Sessions
  <2>3. c \in clients => session[c].st \in Live
    BY DEF SessInv, KnownAreLive
  <2> QED
    BY <2>1, <2>2, <2>3, StaysSess
<1>3. CASE CleanupConnection(c) /\ session[c].st \in Live
  BY <1>3, CleanupConnectionSess
<1>4. CASE ServerAwaited(c) /\ session[c].link # "closed"
  <2>1. /\ session[c].st = "starting" /\ clients' = clients \cup {c}
        /\ session' = [session EXCEPT ![c] = Confirmed(session[c])]
        /\ UNCHANGED <<tokenVars, tokenClients, fwdClients>>
    BY <1>4 DEF ServerAwaited, ConfirmOrLeave, SetSession
  <2>2. /\ session'[c].st \in {"notifying", "running"}
        /\ session'[c].name = session[c].name /\ session'[c].link = session[c].link
        /\ \A d \in Conns \ {c} : session'[d] = session[d]
    BY <1>1, <2>1 DEF Sessions, Confirmed
  <2> QED
    BY <2>1, <2>2, StaysSess DEF Live
<1>5. CASE BroadcastEnds(c) /\ session[c].seen = ConnectorCount
  <2>1. /\ session[c].st = "notifying"
        /\ session' = [session EXCEPT ![c] = [session[c] EXCEPT !.st = "running", !.seen = 0]]
        /\ UNCHANGED <<tokenVars, tokenClients, clients, fwdClients>>
    BY <1>5 DEF BroadcastEnds, SetSession
  <2>2. /\ session'[c].st = "running"
        /\ session'[c].name = session[c].name /\ session'[c].link = session[c].link
        /\ \A d \in Conns \ {c} : session'[d] = session[d]
    BY <1>1, <2>1 DEF Sessions
  <2> QED
    BY <2>1, <2>2, StaysSess DEF Live
<1> QED
  BY <1>2, <1>3, <1>4, <1>5
     DEF HandlerStep, ServerAwaited, ConfirmOrLeave, BroadcastEnds, SessionEnds, Live

(* Every call of the API keeps the invariant.                              *)
LEMMA TokenStepSess == SessInv /\ RegTypeOK' /\ TokenStep => SessInv'
<1> SUFFICES ASSUME SessInv, RegTypeOK', TokenStep PROVE SessInv'
  OBVIOUS
<1>1. ASSUME NEW t \in RevTokens, RemoveReverseToken(t) PROVE SessInv'
  BY <1>1, RemoveReverseTokenSess
<1>2. ASSUME NEW ct \in ConnTokens, RemoveConnectorToken(ct) PROVE SessInv'
  BY <1>2, RemoveConnectorTokenSess
<1>3. ASSUME NEW ft \in FwdTokens, RemoveForwardToken(ft) PROVE SessInv'
  BY <1>3, RemoveForwardTokenSess
<1>4. ASSUME NEW t \in RevTokens, NEW ct \in ConnTokens, AddConnectorToken(ct, t)
      PROVE  SessInv'
  BY <1>4, AddTokenSess DEF RevNames
<1> QED
  BY <1>1, <1>2, <1>3, <1>4, AddTokenSess DEF TokenStep

(* Every step keeps the invariant.                                         *)
LEMMA RegNextSess == SessInv /\ RegTypeOK' /\ [RegNext]_regVars => SessInv'
<1> SUFFICES ASSUME SessInv, RegTypeOK', [RegNext]_regVars PROVE SessInv'
  OBVIOUS
<1>1. CASE TokenStep
  BY <1>1, TokenStepSess
<1>2. ASSUME NEW c \in Conns, AuthStep(c) \/ LinkLost(c) \/ HandlerStep(c)
      PROVE  SessInv'
  BY <1>2, AuthSess, HandlerSess
<1>3. ASSUME NEW c \in Conns, ManageStep(c) PROVE SessInv'
  BY <1>3, AddTokenSess, RemoveConnectorTokenSess
     DEF ManageStep, ConnectorAdd, ConnectorRemove
<1>4. CASE UNCHANGED <<tokenVars, clientVars>>
  BY <1>4, NamesGrowSess DEF tokenVars, Registered
<1>5. ASSUME NEW k \in Tasks, ServerStep(k) PROVE SessInv'
  BY <1>4, <1>5
     DEF ServerStep, ServerListens, ServerCannotBind, ServerNeverRan, ServerStops,
         ServerReleases, ServerDropsSocket, SetTask
<1>6. ASSUME NEW t \in RevTokens, HandlePendingToken(t) PROVE SessInv'
  BY <1>4, <1>6 DEF HandlePendingToken
<1>7. CASE UNCHANGED regVars
  BY <1>4, <1>7 DEF regVars
<1> QED
  BY <1>1, <1>2, <1>3, <1>5, <1>6, <1>7 DEF RegNext

(* The invariant holds in every reachable state.                           *)
LEMMA SessInvHolds == RegSpec => []SessInv
<1>1. RegSpec => []RegTypeOK
  BY RegTypeTheorem
<1>2. SessInv /\ RegTypeOK' /\ [RegNext]_regVars => SessInv'
  BY RegNextSess
<1> QED
  BY <1>1, <1>2, RegInitSess, PTL DEF RegSpec

(* Whichever tokens come and go while a handler is suspended, its session  *)
(* leaves nothing behind in the tables of clients (server.py:849,          *)
(* 947-976).                                                               *)
THEOREM ForgottenTheorem == RegSpec => []GoneIsForgotten
<1>1. SessInv => GoneIsForgotten
  BY DEF SessInv, RegTypeOK, ListedAreLive, KnownAreLive, GoneIsForgotten, Live, Listing
<1> QED
  BY <1>1, SessInvHolds, PTL

(* No client of a removed token stays connected: it is listed under its    *)
(* own token, which exists, or its connection is being closed              *)
(* (server.py:506-550).                                                    *)
THEOREM UnlistedTheorem == RegSpec => []UnlistedIsClosing
<1>1. SessInv => UnlistedIsClosing
  <2> SUFFICES ASSUME SessInv, NEW c \in Conns, session[c].st \in Live,
                      session[c].name \notin FwdTokens
               PROVE  LET s == session[c]
                          lists == {n \in Listing : c \in tokenClients[n]}
                      IN  \/ lists = {s.name} /\ Registered(s.name)
                          \/ lists = {} /\ s.link # "open"
    BY DEF UnlistedIsClosing, Live, Listing, SessInv, RegTypeOK
  <2> DEFINE lists == {n \in Listing : c \in tokenClients[n]}
  <2>1. session[c].name \in Listing /\ lists \subseteq {session[c].name}
    BY KindsDisjoint DEF SessInv, LiveNamed, ListedAreLive
  <2>2. CASE c \in tokenClients[session[c].name]
    BY <2>1, <2>2 DEF SessInv, ListsAreTokens
  <2>3. CASE c \notin tokenClients[session[c].name]
    BY <2>1, <2>3 DEF SessInv, OpenIsListed
  <2> QED
    BY <2>2, <2>3
<1> QED
  BY <1>1, SessInvHolds, PTL

(* Only a removal asks for a connection to be closed.                      *)
NoneAsked ==
    \A c \in Conns : session'[c].link = "closeReq" => session[c].link = "closeReq"

(* Replacing one session by one that is not being closed asks for nothing. *)
LEMMA OneSessionAsksNothing ==
  ASSUME RegTypeOK, NEW c \in Conns, NEW v,
         v.link = "closeReq" => session[c].link = "closeReq", SetSession(c, v)
  PROVE  NoneAsked
<1>1. \A d \in Conns : session'[d] = IF d = c THEN v ELSE session[d]
  BY DEF SetSession, RegTypeOK
<1> QED
  BY <1>1 DEF NoneAsked

(* A cleanup asks for nothing.                                             *)
LEMMA CleanupAsksNothing ==
  ASSUME RegTypeOK, NEW c \in Conns, CleanupConnection(c)
  PROVE  NoneAsked
<1> DEFINE ss == [session EXCEPT ![c] = GoneSession(@)]
<1>1. PICK rt : session' = PartnersTo(ss, rt)
  BY DEF CleanupConnection
<1>2. ss \in [Conns -> Sessions] /\ \A d \in Conns : ss[d].link \in {session[d].link, "closed"}
  BY GoneSessionType DEF RegTypeOK, GoneSession, NewSession, Sessions
<1> HIDE DEF ss
<1>3. \A d \in Conns : session'[d].link = ss[d].link
  BY <1>1, <1>2, PartnersToKeeps
<1> QED
  BY <1>2, <1>3 DEF NoneAsked

(* A login asks for nothing.                                               *)
LEMMA AuthAsksNothing ==
  ASSUME RegTypeOK, NEW c \in Conns, AuthStep(c)
  PROVE  NoneAsked
<1>1. session[c] \in Sessions /\ session \in [Conns -> Sessions]
  BY DEF RegTypeOK
<1>2. ASSUME NEW n \in Names, SetSession(c, Confirmed([session[c] EXCEPT !.name = n]))
      PROVE  NoneAsked
  BY <1>1, <1>2, ConfirmedFields, OneSessionAsksNothing
<1>3. ASSUME NEW t \in RevTokens, AuthReverseClient(c, t) PROVE NoneAsked
  BY <1>2, <1>3 DEF AuthReverseClient, Names, RevNames
<1>4. ASSUME NEW t \in RevTokens, NEW i \in Instances, AuthManagingClient(c, t, i)
      PROVE  NoneAsked
  BY <1>2, <1>4 DEF AuthManagingClient, Names, RevNames
<1>5. ASSUME NEW t \in RevTokens, AuthFirstReverseClient(c, t) PROVE NoneAsked
  <2>1. PICK k \in Tasks :
          SetSession(c, [session[c] EXCEPT !.st = "starting", !.name = t, !.wait = k])
    BY <1>5 DEF AuthFirstReverseClient
  <2>2. [session[c] EXCEPT !.st = "starting", !.name = t, !.wait = k].link = session[c].link
    BY <1>1 DEF Sessions
  <2> QED
    BY <2>1, <2>2, OneSessionAsksNothing
<1>6. ASSUME NEW ft \in FwdTokens, AuthForwardClient(c, ft) PROVE NoneAsked
  <2>1. [session[c] EXCEPT !.st = "running", !.name = ft, !.first = "auth"].link
          = session[c].link
    BY <1>1 DEF Sessions
  <2> QED
    BY <1>6, <2>1, OneSessionAsksNothing DEF AuthForwardClient
<1>7. ASSUME NEW ct \in ConnTokens, AuthConnector(c, ct) PROVE NoneAsked
  <2> DEFINE ss == [session EXCEPT ![c] =
                      [@ EXCEPT !.st = "running", !.name = ct, !.first = "auth"]]
  <2>1. session' = PartnersTo(ss, connTokens[ct])
    BY <1>7 DEF AuthConnector
  <2>2. ss \in [Conns -> Sessions] /\ \A d \in Conns : ss[d].link = session[d].link
    BY <1>1 DEF Sessions, Names
  <2> HIDE DEF ss
  <2>3. \A d \in Conns : session'[d].link = ss[d].link
    BY <2>1, <2>2, PartnersToKeeps
  <2> QED
    BY <2>2, <2>3 DEF NoneAsked
<1>8. CASE AuthFails(c)
  BY <1>8, OneSessionAsksNothing DEF AuthFails, GoneSession, NewSession
<1> QED
  BY <1>3, <1>4, <1>5, <1>6, <1>7, <1>8 DEF AuthStep

(* Nor do a handler that goes on or ends, and a connection that is lost.   *)
LEMMA HandlerAsksNothing ==
  ASSUME RegTypeOK, NEW c \in Conns, LinkLost(c) \/ HandlerStep(c)
  PROVE  NoneAsked
<1>1. session[c] \in Sessions
  BY DEF RegTypeOK
<1>2. CASE CleanupConnection(c)
  BY <1>2, CleanupAsksNothing
<1>3. /\ Confirmed(session[c]).link = session[c].link
      /\ [session[c] EXCEPT !.st = "running", !.seen = 0].link = session[c].link
      /\ [session[c] EXCEPT !.link = "closed"].link = "closed"
  BY <1>1 DEF Confirmed, Sessions
<1>4. ASSUME NEW v, SetSession(c, v), v.link \in {session[c].link, "closed"} PROVE NoneAsked
  BY <1>4, OneSessionAsksNothing
<1> QED
  BY <1>2, <1>3, <1>4
     DEF LinkLost, HandlerStep, ServerAwaited, ConfirmOrLeave, BroadcastEnds, CloseTask,
         SessionEnds

(* A removal disconnects the clients of the names it removes and nobody    *)
(* else's (server.py:488, 513, 533, 541).                                  *)
THEOREM RemovalTheorem == RegSpec => RemovalClosesOwnClients
<1> DEFINE Own == \A c \in Conns :
             /\ session[c].link = "open" /\ session'[c].link = "closeReq"
             /\ session[c].name \notin FwdTokens
             => ~Registered(session[c].name)'
<1>1. ASSUME SessInv, NEW names \in SUBSET Listing, ForgetClients(names),
             \A n \in names : ~Registered(n)'
      PROVE  Own
  <2> SUFFICES ASSUME NEW c \in Conns, session[c].link = "open", session'[c].link = "closeReq"
               PROVE  ~Registered(session[c].name)'
    OBVIOUS
  <2> DEFINE gone == UNION {tokenClients[n] : n \in names}
  <2>1. c \in gone /\ session'[c].name = session[c].name
    <3>1. Disconnect(gone) /\ RegTypeOK
      BY <1>1 DEF ForgetClients, SessInv
    <3> HIDE DEF gone
    <3> QED
      BY <3>1, DisconnectKeeps
  <2>2. session[c].name \in names
    BY <1>1, <2>1 DEF SessInv, ListedAreLive
  <2> QED
    BY <1>1, <2>1, <2>2
<1>2. ASSUME SessInv, NEW t \in RevTokens, RemoveReverseToken(t) PROVE Own
  <2>1. DroppedWith(t) \cup ConnectorsOf(t) \in SUBSET Listing
    BY <1>2 DEF DroppedWith, ConnectorsOf, SessInv, RegTypeOK, RevNames, Listing
  <2>2. \A n \in DroppedWith(t) \cup ConnectorsOf(t) : ~Registered(n)'
    <3>1. /\ tokens' = [n \in RevNames |-> IF n \in DroppedWith(t) THEN None ELSE tokens[n]]
          /\ connTokens' = [ct \in ConnTokens |->
                              IF ct \in ConnectorsOf(t) THEN None ELSE connTokens[ct]]
          /\ fwdTokens' = fwdTokens /\ fwdTokens \subseteq FwdTokens
      BY <1>2 DEF RemoveReverseToken, SessInv, RegTypeOK
    <3>2. DroppedWith(t) \subseteq RevNames /\ ConnectorsOf(t) \subseteq ConnTokens
      BY <1>2 DEF SessInv, RegTypeOK, DroppedWith, ConnectorsOf, RevNames
    <3>3. \A n \in DroppedWith(t) : ~Registered(n)'
      BY <3>1, <3>2, KindsDisjoint DEF Registered, Listing
    <3>4. \A n \in ConnectorsOf(t) : ~Registered(n)'
      BY <3>1, <3>2, KindsDisjoint DEF Registered, Listing
    <3> QED
      BY <3>3, <3>4
  <2>3. ForgetClients(DroppedWith(t) \cup ConnectorsOf(t))
    BY <1>2 DEF RemoveReverseToken
  <2> QED
    BY <1>1, <1>2, <2>1, <2>2, <2>3
<1>3. ASSUME SessInv, NEW ct \in ConnTokens, RemoveConnectorToken(ct) PROVE Own
  <2>1. ~Registered(ct)'
    BY <1>3, KindsDisjoint DEF RemoveConnectorToken, Registered, SessInv, RegTypeOK, Listing
  <2>2. {ct} \in SUBSET Listing /\ ForgetClients({ct})
    BY <1>3 DEF RemoveConnectorToken, Listing
  <2> QED
    BY <1>1, <1>3, <2>1, <2>2
<1>4. ASSUME SessInv, NEW ft \in FwdTokens, RemoveForwardToken(ft) PROVE Own
  <2>1. \A c \in Conns :
          session[c].link = "open" /\ session'[c].link = "closeReq" => c \in fwdClients
    BY <1>4, DisconnectKeeps DEF RemoveForwardToken, SessInv
  <2> QED
    BY <1>4, <2>1 DEF SessInv, ForwardNamed
<1>5. RegTypeOK /\ RegNext =>
        \/ NoneAsked
        \/ \E t \in RevTokens : RemoveReverseToken(t)
        \/ \E ct \in ConnTokens : RemoveConnectorToken(ct)
        \/ \E ft \in FwdTokens : RemoveForwardToken(ft)
  <2> SUFFICES ASSUME RegTypeOK, RegNext, ~NoneAsked
               PROVE  \/ \E t \in RevTokens : RemoveReverseToken(t)
                      \/ \E ct \in ConnTokens : RemoveConnectorToken(ct)
                      \/ \E ft \in FwdTokens : RemoveForwardToken(ft)
    OBVIOUS
  <2>1. session' # session
    BY DEF NoneAsked
  <2>2. CASE TokenStep
    BY <2>1, <2>2
       DEF TokenStep, AddReverseToken, AddConnectorToken, AddForwardToken, clientVars
  <2>3. ASSUME NEW c \in Conns, ManageStep(c) PROVE \E ct \in ConnTokens : RemoveConnectorToken(ct)
    BY <2>1, <2>3
       DEF ManageStep, ConnectorAdd, ConnectorRemove, AddConnectorToken, clientVars
  <2>4. ASSUME NEW k \in Tasks, ServerStep(k) PROVE FALSE
    BY <2>1, <2>4
       DEF ServerStep, ServerListens, ServerCannotBind, ServerNeverRan, ServerStops,
           ServerReleases, ServerDropsSocket, SetTask, clientVars
  <2>5. ASSUME NEW t \in RevTokens, HandlePendingToken(t) PROVE FALSE
    BY <2>1, <2>5 DEF HandlePendingToken, clientVars
  <2> QED
    BY <2>2, <2>3, <2>4, <2>5, AuthAsksNothing, HandlerAsksNothing DEF RegNext
<1>6. SessInv /\ [RegNext]_regVars => [Own]_regVars
  <2> SUFFICES ASSUME SessInv, RegNext PROVE Own
    OBVIOUS
  <2>1. NoneAsked => Own
    BY DEF NoneAsked
  <2> HIDE DEF Own
  <2> QED
    BY <1>2, <1>3, <1>4, <1>5, <2>1 DEF SessInv
<1> QED
  BY <1>6, SessInvHolds, PTL DEF RegSpec, RemovalClosesOwnClients
-----------------------------------------------------------------------------
(***************************************************************************)
(* ServerRunsBeforeConfirm: what a handler that confirms a reverse client  *)
(* may count on, when neither bind nor accept fails.                       *)
(***************************************************************************)

(* A step of the system that is not a step of a server task: it leaves the *)
(* servers alone, or removes a token, or starts a server.                  *)
RegistryStep ==
    \/ TokenStep
    \/ \E t \in RevTokens : HandlePendingToken(t)
    \/ \E c \in Conns : AuthStep(c) \/ LinkLost(c) \/ HandlerStep(c) \/ ManageStep(c)

LEMMA RegistryStepKinds ==
  ASSUME RegistryStep
  PROVE  \/ UNCHANGED <<socksTasks, task>>
         \/ \E t \in RevTokens : RemoveReverseToken(t)
         \/ \E k \in Tasks, t \in RevTokens : tokens[t] # None /\ StartServer(k, t, tokens[t])
<1>1. CASE TokenStep
  BY <1>1 DEF TokenStep, AddReverseToken, AddConnectorToken, RemoveConnectorToken,
     AddForwardToken, RemoveForwardToken, taskVars
<1>2. ASSUME NEW t \in RevTokens, HandlePendingToken(t)
      PROVE  \/ UNCHANGED <<socksTasks, task>>
             \/ \E k \in Tasks : tokens[t] # None /\ StartServer(k, t, tokens[t])
  BY <1>2 DEF HandlePendingToken
<1>3. ASSUME NEW c \in Conns, AuthStep(c)
      PROVE  \/ UNCHANGED <<socksTasks, task>>
             \/ \E k \in Tasks, t \in RevTokens :
                   tokens[t] # None /\ StartServer(k, t, tokens[t])
  BY <1>3 DEF AuthStep, AuthReverseClient, AuthFirstReverseClient, AuthManagingClient,
     AuthForwardClient, AuthConnector, AuthFails, taskVars
<1>4. ASSUME NEW c \in Conns, LinkLost(c) \/ HandlerStep(c)
      PROVE  UNCHANGED <<socksTasks, task>>
  BY <1>4 DEF LinkLost, HandlerStep, ServerAwaited, ConfirmOrLeave, BroadcastEnds, CloseTask,
     SessionEnds, CleanupConnection, taskVars
<1>5. ASSUME NEW c \in Conns, ManageStep(c) PROVE UNCHANGED <<socksTasks, task>>
  BY <1>5 DEF ManageStep, ConnectorAdd, ConnectorRemove, AddConnectorToken,
     RemoveConnectorToken, taskVars
<1> QED
  BY <1>1, <1>2, <1>3, <1>4, <1>5 DEF RegistryStep

(* A plain token has a port.                                               *)
PlainHasPort ==
    \A t \in RevTokens : tokens[t] # None /\ options[t] = "plain" => tokens[t] \in Ports

(* The server that the handler of an open connection waits for is there,   *)
(* or about to be, and serves the token of the client.                     *)
Awaited(c) ==
    LET n == session[c].name
        k == session[c].wait
    IN  /\ n \in RevTokens /\ k \in Tasks
        /\ task[k].st \in {"created", "accepting"} /\ ~task[k].cancelled
        /\ task[k].token = n /\ task[k].port \in Ports /\ tokens[n] = task[k].port

AwaitedInv ==
    \A c \in Conns :
        session[c].st = "starting" /\ session[c].link = "open" => Awaited(c)

(* A session goes on waiting, or does not wait before or after, unless it  *)
(* is the one whose wait begins or ends in this step.                      *)
WaitGoesOn(c) ==
    /\ session'[c].st = session[c].st /\ session'[c].name = session[c].name
    /\ session'[c].wait = session[c].wait
    /\ session'[c].link = "open" => session[c].link = "open"
WaitsNot(c) == session[c].st # "starting" /\ session'[c].st # "starting"
WaitBegins(c) == session[c].st = "new" /\ \E t \in RevTokens : AuthFirstReverseClient(c, t)
WaitEnds(c) == ServerAwaited(c) /\ session'[c].st # "starting"

(* Closing connections leaves every wait alone.                            *)
LEMMA DisconnectWaits ==
  ASSUME RegTypeOK, NEW cs, Disconnect(cs), NEW c \in Conns
  PROVE  WaitGoesOn(c)
BY DEF Disconnect, RegTypeOK, Sessions, WaitGoesOn

(* Replacing one session leaves the wait of every other alone.             *)
LEMMA OneSessionWaits ==
  ASSUME RegTypeOK, NEW c \in Conns, NEW v, SetSession(c, v)
  PROVE  session'[c] = v /\ \A d \in Conns \ {c} : WaitGoesOn(d)
BY DEF SetSession, RegTypeOK, WaitGoesOn

(* So does a session that is announced to the clients of a token.          *)
LEMMA AnnouncedWaits ==
  ASSUME RegTypeOK, NEW c \in Conns, NEW v \in Sessions, NEW rt,
         session' = PartnersTo([session EXCEPT ![c] = v], rt)
  PROVE  /\ session'[c].st = v.st
         /\ \A d \in Conns \ {c} : WaitGoesOn(d)
<1> DEFINE ss == [session EXCEPT ![c] = v]
<1>1. /\ ss \in [Conns -> Sessions] /\ ss[c] = v
      /\ \A d \in Conns \ {c} : ss[d] = session[d]
  BY DEF RegTypeOK
<1> HIDE DEF ss
<1>2. \A d \in Conns : LET r == PartnersTo(ss, rt)[d]
                       IN  /\ r.st = ss[d].st /\ r.name = ss[d].name /\ r.link = ss[d].link
                           /\ r.wait = ss[d].wait
  BY <1>1 DEF PartnersTo, Sessions
<1>3. session' = PartnersTo(ss, rt)
  BY DEF ss
<1> QED
  BY <1>1, <1>2, <1>3 DEF WaitGoesOn

(* The cleanup of a connection ends its own session and no wait of others. *)
LEMMA CleanupWaits ==
  ASSUME RegTypeOK, NEW c \in Conns, CleanupConnection(c)
  PROVE  session'[c].st = "gone" /\ \A d \in Conns \ {c} : WaitGoesOn(d)
<1>1. \E rt : session' = PartnersTo([session EXCEPT ![c] = GoneSession(session[c])], rt)
  BY DEF CleanupConnection
<1>2. GoneSession(session[c]) \in Sessions /\ GoneSession(session[c]).st = "gone"
  BY GoneSessionType DEF RegTypeOK, GoneSession, NewSession
<1> QED
  BY <1>1, <1>2, AnnouncedWaits

(* A login starts a wait in one case only.                                 *)
LEMMA AuthWaits ==
  ASSUME RegTypeOK, NEW c \in Conns, AuthStep(c)
  PROVE  /\ WaitsNot(c) \/ WaitBegins(c)
         /\ \A d \in Conns \ {c} : WaitGoesOn(d)
<1> DEFINE Goal == /\ WaitsNot(c) \/ WaitBegins(c)
                   /\ \A d \in Conns \ {c} : WaitGoesOn(d)
<1>1. session[c] \in Sessions
  BY DEF RegTypeOK
<1>2. ASSUME Fresh(c), NEW v, SetSession(c, v), v.st # "starting" PROVE Goal
  BY <1>2, OneSessionWaits DEF Fresh, WaitsNot
<1>3. ASSUME Fresh(c), NEW n \in Names, SetSession(c, Confirmed([session[c] EXCEPT !.name = n]))
      PROVE  Goal
  <2>1. Confirmed([session[c] EXCEPT !.name = n]).st \in {"notifying", "running"}
    BY <1>1 DEF Confirmed, Sessions
  <2> QED
    BY <1>2, <1>3, <2>1
<1>4. ASSUME NEW t \in RevTokens, AuthReverseClient(c, t) PROVE Goal
  BY <1>3, <1>4 DEF AuthReverseClient, Names, RevNames
<1>5. ASSUME NEW t \in RevTokens, NEW i \in Instances, AuthManagingClient(c, t, i) PROVE Goal
  BY <1>3, <1>5 DEF AuthManagingClient, Names, RevNames
<1>6. ASSUME NEW t \in RevTokens, AuthFirstReverseClient(c, t) PROVE Goal
  BY <1>6, OneSessionWaits DEF AuthFirstReverseClient, Fresh, WaitBegins
<1>7. ASSUME NEW ft \in FwdTokens, AuthForwardClient(c, ft) PROVE Goal
  <2>1. [session[c] EXCEPT !.st = "running", !.name = ft, !.first = "auth"].st = "running"
    BY <1>1 DEF Sessions
  <2> QED
    BY <1>2, <1>7, <2>1 DEF AuthForwardClient
<1>8. ASSUME NEW ct \in ConnTokens, AuthConnector(c, ct) PROVE Goal
  <2> DEFINE v == [session[c] EXCEPT !.st = "running", !.name = ct, !.first = "auth"]
  <2>1. v \in Sessions /\ v.st = "running"
    BY <1>1 DEF Sessions, Names
  <2>2. session' = PartnersTo([session EXCEPT ![c] = v], connTokens[ct]) /\ Fresh(c)
    BY <1>8 DEF AuthConnector
  <2> HIDE DEF v
  <2> QED
    BY <2>1, <2>2, AnnouncedWaits DEF WaitsNot, Fresh
<1>9. CASE AuthFails(c)
  BY <1>2, <1>9 DEF AuthFails, GoneSession, NewSession
<1> QED
  BY <1>4, <1>5, <1>6, <1>7, <1>8, <1>9 DEF AuthStep

(* A handler ends its own wait.                                            *)
LEMMA HandlerWaits ==
  ASSUME RegTypeOK, NEW c \in Conns, LinkLost(c) \/ HandlerStep(c)
  PROVE  /\ WaitGoesOn(c) \/ WaitsNot(c) \/ WaitEnds(c)
         /\ \A d \in Conns \ {c} : WaitGoesOn(d)
<1> DEFINE Goal == /\ WaitGoesOn(c) \/ WaitsNot(c) \/ WaitEnds(c)
                   /\ \A d \in Conns \ {c} : WaitGoesOn(d)
<1>1. session[c] \in Sessions
  BY DEF RegTypeOK
<1>2. CASE ServerAwaited(c)
  <2>1. CASE CleanupConnection(c)
    BY <1>2, <2>1, CleanupWaits DEF WaitEnds
  <2>2. CASE SetSession(c, Confirmed(session[c]))
    <3>1. Confirmed(session[c]).st \in {"notifying", "running"}
      BY <1>1 DEF Confirmed, Sessions
    <3> QED
      BY <1>2, <2>2, <3>1, OneSessionWaits DEF WaitEnds
  <2> QED
    BY <1>2, <2>1, <2>2 DEF ServerAwaited, ConfirmOrLeave
<1>3. CASE BroadcastEnds(c) \/ SessionEnds(c)
  <2>1. session[c].st \in {"notifying", "running"}
    BY <1>3 DEF BroadcastEnds, SessionEnds
  <2>2. CASE CleanupConnection(c)
    BY <2>1, <2>2, CleanupWaits DEF WaitsNot
  <2>3. CASE SetSession(c, [session[c] EXCEPT !.st = "running", !.seen = 0])
    <3>1. [session[c] EXCEPT !.st = "running", !.seen = 0].st = "running"
      BY <1>1 DEF Sessions
    <3> QED
      BY <2>1, <2>3, <3>1, OneSessionWaits DEF WaitsNot
  <2> QED
    BY <1>3, <2>2, <2>3 DEF BroadcastEnds, SessionEnds
<1>4. CASE LinkLost(c) \/ CloseTask(c)
  <2>1. SetSession(c, [session[c] EXCEPT !.link = "closed"])
    BY <1>4 DEF LinkLost, CloseTask
  <2>2. WaitGoesOn(c)
    BY <1>1, <2>1, OneSessionWaits DEF WaitGoesOn, Sessions
  <2> QED
    BY <2>1, <2>2, OneSessionWaits
<1> QED
  BY <1>2, <1>3, <1>4 DEF HandlerStep

(* A session changes, but for the request to close its connection, in      *)
(* steps of its own only.                                                  *)
LEMMA OwnStep ==
  ASSUME RegTypeOK, [RegNext]_regVars, NEW c \in Conns
  PROVE  WaitGoesOn(c) \/ AuthStep(c) \/ LinkLost(c) \/ HandlerStep(c)
<1>1. CASE session' = session
  BY <1>1 DEF WaitGoesOn
<1>2. ASSUME NEW cs, Disconnect(cs) PROVE WaitGoesOn(c)
  BY <1>2, DisconnectWaits
<1>3. CASE TokenStep
  BY <1>1, <1>2, <1>3
     DEF TokenStep, AddReverseToken, RemoveReverseToken, AddConnectorToken,
         RemoveConnectorToken, AddForwardToken, RemoveForwardToken, ForgetClients, clientVars
<1>4. ASSUME NEW d \in Conns, ManageStep(d) PROVE WaitGoesOn(c)
  <2>1. PICK ct \in ConnTokens : ConnectorAdd(d, ct) \/ ConnectorRemove(d, ct)
    BY <1>4 DEF ManageStep
  <2>2. CASE ConnectorAdd(d, ct)
    <3>1. PICK n \in RevNames : AddConnectorToken(ct, n)
      BY <2>2 DEF ConnectorAdd
    <3>2. session' = session
      BY <3>1 DEF AddConnectorToken, clientVars
    <3> QED
      BY <3>2 DEF WaitGoesOn
  <2>3. CASE ConnectorRemove(d, ct)
    BY <1>2, <2>3 DEF ConnectorRemove, RemoveConnectorToken, ForgetClients
  <2> QED
    BY <2>1, <2>2, <2>3
<1>5. ASSUME NEW d \in Conns, AuthStep(d) PROVE WaitGoesOn(c) \/ AuthStep(c)
  BY <1>5, AuthWaits
<1>6. ASSUME NEW d \in Conns, LinkLost(d) \/ HandlerStep(d)
      PROVE  WaitGoesOn(c) \/ LinkLost(c) \/ HandlerStep(c)
  BY <1>6, HandlerWaits
<1>7. ASSUME NEW k \in Tasks, ServerStep(k) PROVE session' = session
  BY <1>7 DEF ServerStep, ServerListens, ServerCannotBind, ServerNeverRan, ServerStops,
     ServerReleases, ServerDropsSocket, SetTask, clientVars
<1>8. ASSUME NEW t \in RevTokens, HandlePendingToken(t) PROVE session' = session
  BY <1>8 DEF HandlePendingToken, clientVars
<1>9. CASE UNCHANGED regVars
  BY <1>1, <1>9 DEF regVars, clientVars
<1> QED
  BY <1>1, <1>3, <1>4, <1>5, <1>6, <1>7, <1>8, <1>9 DEF RegNext

(* What any step does to the wait of one session.                          *)
LEMMA RegNextWaits ==
  ASSUME RegTypeOK, [RegNext]_regVars, NEW c \in Conns
  PROVE  WaitGoesOn(c) \/ WaitsNot(c) \/ WaitBegins(c) \/ WaitEnds(c)
BY OwnStep, AuthWaits, HandlerWaits

(* A login that is confirmed at once under the name of a reverse token has *)
(* found a server in the table.                                            *)
LEMMA LoginFinds ==
  ASSUME RegTypeOK, NEW c \in Conns, AuthStep(c),
         session'[c].st \in {"notifying", "running"}, session'[c].name \in RevTokens
  PROVE  AuthReverseClient(c, session'[c].name)
<1>1. session[c] \in Sessions
  BY DEF RegTypeOK
<1>2. ASSUME NEW v, SetSession(c, v) PROVE session'[c] = v
  BY <1>2, OneSessionWaits
<1>3. ASSUME NEW t \in RevTokens, AuthReverseClient(c, t)
      PROVE  AuthReverseClient(c, session'[c].name)
  <2>1. t \in Names
    BY DEF Names, RevNames
  <2>2. session'[c].name = t
    BY <1>1, <1>2, <1>3, <2>1, ConfirmedFields DEF AuthReverseClient
  <2> QED
    BY <1>3, <2>2
<1>4. ASSUME NEW t \in RevTokens, AuthFirstReverseClient(c, t) PROVE FALSE
  <2>1. PICK k : SetSession(c, [session[c] EXCEPT !.st = "starting", !.name = t, !.wait = k])
    BY <1>4 DEF AuthFirstReverseClient
  <2>2. session'[c].st = "starting"
    BY <1>1, <1>2, <2>1 DEF Sessions
  <2> QED
    BY <2>2
<1>5. ASSUME NEW t \in RevTokens, NEW i \in Instances, AuthManagingClient(c, t, i)
      PROVE  FALSE
  <2>1. i \in Names
    BY DEF Names, RevNames
  <2>2. session'[c].name = i
    BY <1>1, <1>2, <1>5, <2>1, ConfirmedFields DEF AuthManagingClient
  <2> QED
    BY <2>2, NamesDisjoint
<1>6. ASSUME NEW ft \in FwdTokens, AuthForwardClient(c, ft) PROVE FALSE
  <2>1. session'[c] = [session[c] EXCEPT !.st = "running", !.name = ft, !.first = "auth"]
    BY <1>2, <1>6 DEF AuthForwardClient
  <2>2. session'[c].name = ft
    BY <1>1, <2>1 DEF Sessions
  <2> QED
    BY <2>2, KindsDisjoint DEF Listing, RevNames
<1>7. ASSUME NEW ct \in ConnTokens, AuthConnector(c, ct) PROVE FALSE
  <2> DEFINE v == [session[c] EXCEPT !.st = "running", !.name = ct, !.first = "auth"]
             ss == [session EXCEPT ![c] = v]
  <2>1. v \in Sessions /\ v.name = ct
    BY <1>1 DEF Sessions, Names
  <2>2. session' = PartnersTo(ss, connTokens[ct])
    BY <1>7 DEF AuthConnector
  <2> HIDE DEF v
  <2>3. ss \in [Conns -> Sessions] /\ ss[c] = v
    BY <2>1 DEF RegTypeOK
  <2> HIDE DEF ss
  <2>4. session'[c].name = ct
    BY <2>1, <2>2, <2>3, PartnersToKeeps
  <2> QED
    BY <2>4, KindsDisjoint DEF RevNames
<1>8. CASE AuthFails(c)
  <2>1. session'[c].st = "gone"
    BY <1>2, <1>8 DEF AuthFails, GoneSession, NewSession
  <2> QED
    BY <2>1
<1> QED
  BY <1>3, <1>4, <1>5, <1>6, <1>7, <1>8 DEF AuthStep

(* The tables behind a wait.                                               *)
LEMMA PlainKept ==
  ASSUME RegTypeOK, PlainHasPort, [RegNext]_regVars
  PROVE  PlainHasPort'
<1>1. CASE UNCHANGED <<tokens, options>>
  BY <1>1 DEF PlainHasPort
<1>2. ASSUME NEW t \in RevTokens, NEW kind \in Kinds, NEW want \in Ports \cup {None},
             AddReverseToken(t, kind, want)
      PROVE  PlainHasPort'
  <2>1. \A s \in RevTokens :
          /\ options'[s] = IF s = t THEN kind ELSE options[s]
          /\ s # t => tokens'[s] = tokens[s]
    BY <1>2 DEF AddReverseToken, RegTypeOK, RevNames
  <2>2. kind = "plain" => tokens'[t] \in Ports
    BY <1>2, RegistryAssumption DEF AddReverseToken, GetPort, RegTypeOK, RevNames
  <2> QED
    BY <2>1, <2>2 DEF PlainHasPort
<1>3. ASSUME NEW t \in RevTokens, RemoveReverseToken(t) PROVE PlainHasPort'
  BY <1>3 DEF RemoveReverseToken, PlainHasPort, RevNames
<1>4. ASSUME NEW c \in Conns, NEW t \in RevTokens, NEW i \in Instances,
             AuthManagingClient(c, t, i)
      PROVE  PlainHasPort'
  BY <1>4, NamesDisjoint DEF AuthManagingClient, PlainHasPort, RegTypeOK, RevNames
<1>5. CASE TokenStep
  BY <1>1, <1>2, <1>3, <1>5
     DEF TokenStep, AddConnectorToken, RemoveConnectorToken, AddForwardToken,
         RemoveForwardToken
<1>6. ASSUME NEW c \in Conns, AuthStep(c) PROVE PlainHasPort'
  BY <1>1, <1>4, <1>6
     DEF AuthStep, AuthReverseClient, AuthFirstReverseClient, AuthForwardClient,
         AuthConnector, AuthFails, tokenVars
<1>7. ASSUME NEW c \in Conns, LinkLost(c) \/ HandlerStep(c) PROVE PlainHasPort'
  BY <1>1, <1>7
     DEF LinkLost, HandlerStep, ServerAwaited, ConfirmOrLeave, BroadcastEnds, CloseTask,
         SessionEnds, CleanupConnection, tokenVars
<1>8. ASSUME NEW c \in Conns, ManageStep(c) PROVE PlainHasPort'
  BY <1>1, <1>8
     DEF ManageStep, ConnectorAdd, ConnectorRemove, AddConnectorToken, RemoveConnectorToken
<1>9. CASE UNCHANGED tokenVars
  BY <1>1, <1>9 DEF tokenVars
<1> QED
  BY <1>5, <1>6, <1>7, <1>8, <1>9
     DEF RegNext, regVars, HandlePendingToken, ServerStep, ServerListens, ServerCannotBind,
         ServerNeverRan, ServerStops, ServerReleases, ServerDropsSocket, SetTask

(* The server a client waits for starts with the wait.                     *)
LEMMA AwaitedFromStart ==
  ASSUME RegTypeOK, PlainHasPort, NEW c \in Conns, WaitBegins(c)
  PROVE  Awaited(c)'
<1>1. PICK t \in RevTokens : AuthFirstReverseClient(c, t)
  BY DEF WaitBegins
<1>2. tokens[t] \in Ports /\ tokens' = tokens
  BY <1>1 DEF AuthFirstReverseClient, PlainHasPort, tokenVars
<1>3. PICK k \in Tasks :
         /\ StartServer(k, t, tokens[t])
         /\ SetSession(c, [session[c] EXCEPT !.st = "starting", !.name = t, !.wait = k])
  BY <1>1 DEF AuthFirstReverseClient
<1>4. session'[c].name = t /\ session'[c].wait = k
  BY <1>3 DEF SetSession, RegTypeOK, Sessions
<1>5. task'[k] = [st |-> "created", port |-> tokens[t], token |-> t, cancelled |-> FALSE]
  BY <1>3 DEF StartServer, RegTypeOK
<1> QED
  BY <1>2, <1>4, <1>5 DEF Awaited

(* While the wait goes on only the removal of the client's own token can   *)
(* touch the server or the token, and that closes the connection.          *)
LEMMA AwaitedGoesOn ==
  ASSUME SessInv, ServInv, PortsInv, SocketErrors = {}, [RegNext]_regVars,
         NEW c \in Conns, session[c].st = "starting", session'[c].link = "open",
         WaitGoesOn(c), Awaited(c)
  PROVE  Awaited(c)'
<1> DEFINE n == session[c].name
           k == session[c].wait
<1>1. /\ n \in RevTokens /\ k \in Tasks
      /\ task[k].st \in {"created", "accepting"} /\ ~task[k].cancelled
      /\ task[k].token = n /\ task[k].port \in Ports /\ tokens[n] = task[k].port
  BY DEF Awaited
<1>2. /\ session'[c].name = n /\ session'[c].wait = k
      /\ session[c].link = "open"
  BY DEF WaitGoesOn
<1>3. SUFFICES /\ task'[k] = task[k] \/ task'[k] = [task[k] EXCEPT !.st = "accepting"]
               /\ tokens'[n] = tokens[n]
  <2>1. task[k] \in TaskStates
    BY <1>1 DEF ServInv, RegTypeOK
  <2> QED
    BY <1>1, <1>2, <1>3, <2>1 DEF Awaited, TaskStates
<1>4. CASE UNCHANGED <<task, tokens>>
  BY <1>4
<1>5. ASSUME NEW t \in RevTokens, RemoveReverseToken(t)
      PROVE  task'[k] = task[k] /\ tokens'[n] = tokens[n]
  <2>1. n # t
    <3>1. c \in tokenClients[n]
      BY <1>1, <1>2, KindsDisjoint DEF SessInv, OpenIsListed, Live, RevNames, Listing
    <3>2. Disconnect(UNION {tokenClients[m] : m \in DroppedWith(t) \cup ConnectorsOf(t)})
      BY <1>5 DEF RemoveReverseToken, ForgetClients
    <3>3. n = t => c \in UNION {tokenClients[m] : m \in DroppedWith(t) \cup ConnectorsOf(t)}
      BY <3>1 DEF DroppedWith
    <3> HIDE DEF n
    <3> QED
      BY <3>2, <3>3, DisconnectKeeps DEF SessInv
  <2>2. tokens'[n] = tokens[n]
    BY <1>1, <1>5, <2>1, NamesDisjoint
       DEF RemoveReverseToken, DroppedWith, RevNames, SessInv, RegTypeOK
  <2>3. CancelServer(tokens[t]) /\ tokens[t] # None
    BY <1>5 DEF RemoveReverseToken
  <2>4. tokens[t] # tokens[n] /\ tokens[t] \in PortKeys
    BY <1>1, <2>1, <2>3 DEF PortsInv, SessInv, RegTypeOK, RevNames
  <2>5. socksTasks[tokens[t]] # k
    BY <1>1, <2>4, RegistryAssumption DEF ServInv, EntryOK
  <2>6. task'[k] = task[k]
    BY <1>1, <2>3, <2>5 DEF CancelServer, SessInv, RegTypeOK
  <2> QED
    BY <2>2, <2>6
<1>6. ASSUME NEW j \in Tasks, NEW t \in RevTokens, StartServer(j, t, tokens[t])
      PROVE  task'[k] = task[k]
  BY <1>1, <1>6 DEF StartServer, FreeTasks, SessInv, RegTypeOK
<1>7. ASSUME NEW j \in Tasks, ServerStep(j)
      PROVE  /\ task'[k] = task[k] \/ task'[k] = [task[k] EXCEPT !.st = "accepting"]
             /\ tokens' = tokens
  <2>1. PICK v : SetTask(j, v)
    BY <1>7 DEF ServerStep, ServerListens, ServerCannotBind, ServerNeverRan, ServerStops,
       ServerReleases, ServerDropsSocket
  <2>2. task' = [task EXCEPT ![j] = v] /\ tokens' = tokens
    BY <2>1 DEF SetTask, tokenVars
  <2>3. CASE j # k
    BY <1>1, <2>2, <2>3 DEF SessInv, RegTypeOK
  <2>4. CASE j = k
    <3>1. ServerListens(k)
      BY <1>1, <1>7, <2>4, NotPorts
         DEF ServerStep, ServerCannotBind, ServerNeverRan, ServerStops, AcceptFails,
             ServerReleases, ServerDropsSocket
    <3> QED
      BY <1>1, <2>2, <3>1 DEF ServerListens, SetTask, SessInv, RegTypeOK
  <2> QED
    BY <2>3, <2>4
<1>8. ASSUME RegistryStep PROVE tokens'[n] = tokens[n]
  <2>1. tokens[n] # None
    BY <1>1, NotPorts
  <2>2. ASSUME NEW t \in RevTokens, NEW kind \in Kinds, NEW want \in Ports \cup {None},
               AddReverseToken(t, kind, want)
        PROVE  tokens'[n] = tokens[n]
    BY <1>1, <2>1, <2>2 DEF AddReverseToken, SessInv, RegTypeOK, RevNames
  <2>3. ASSUME NEW d \in Conns, NEW t \in RevTokens, NEW i \in Instances,
               AuthManagingClient(d, t, i)
        PROVE  tokens'[n] = tokens[n]
    BY <1>1, <2>3, NamesDisjoint DEF AuthManagingClient, SessInv, RegTypeOK, RevNames
  <2>4. CASE TokenStep
    BY <1>4, <1>5, <2>2, <2>4
       DEF TokenStep, AddConnectorToken, RemoveConnectorToken, AddForwardToken,
           RemoveForwardToken
  <2>5. ASSUME NEW d \in Conns, AuthStep(d) PROVE tokens'[n] = tokens[n]
    BY <2>3, <2>5
       DEF AuthStep, AuthReverseClient, AuthFirstReverseClient, AuthForwardClient,
           AuthConnector, AuthFails, tokenVars
  <2>6. ASSUME NEW d \in Conns, LinkLost(d) \/ HandlerStep(d) PROVE tokens' = tokens
    BY <2>6 DEF LinkLost, HandlerStep, ServerAwaited, ConfirmOrLeave, BroadcastEnds,
       CloseTask, SessionEnds, CleanupConnection, tokenVars
  <2>7. ASSUME NEW d \in Conns, ManageStep(d) PROVE tokens' = tokens
    BY <2>7 DEF ManageStep, ConnectorAdd, ConnectorRemove, AddConnectorToken,
       RemoveConnectorToken
  <2> QED
    BY <1>8, <2>4, <2>5, <2>6, <2>7 DEF RegistryStep, HandlePendingToken, tokenVars
<1>9. CASE RegistryStep
  <2>1. tokens'[n] = tokens[n]
    BY <1>8, <1>9
  <2> QED
    BY <1>4, <1>5, <1>6, <1>9, <2>1, RegistryStepKinds
<1>10. CASE UNCHANGED regVars
  BY <1>4, <1>10 DEF regVars, tokenVars, taskVars
<1> QED
  BY <1>7, <1>9, <1>10 DEF RegNext, RegistryStep

(* When sockets do not fail, a server in the table accepts or is about to. *)
TableServes ==
    \A p \in Ports : socksTasks[p] # None
        => task[socksTasks[p]].st \in {"created", "accepting"}

(* A server that stops for another reason than an error has been           *)
(* cancelled, and has left the table before.                               *)
LEMMA TableKept ==
  ASSUME ServInv, SocketErrors = {}, TableServes, [RegNext]_regVars
  PROVE  TableServes'
<1> SUFFICES ASSUME NEW p \in Ports, socksTasks'[p] # None
             PROVE  task'[socksTasks'[p]].st \in {"created", "accepting"}
  BY DEF TableServes
<1>1. RegTypeOK /\ p \in PortKeys /\ p # NoPort
  BY NotPorts DEF ServInv, PortKeys
<1>2. ASSUME socksTasks[p] # None
      PROVE  /\ socksTasks[p] \in Tasks /\ EntryOK(p)
             /\ task[socksTasks[p]].st \in {"created", "accepting"}
  BY <1>1, <1>2 DEF TableServes, ServInv, RegTypeOK
<1>3. CASE UNCHANGED <<socksTasks, task>>
  BY <1>2, <1>3
<1>4. ASSUME NEW t \in RevTokens, RemoveReverseToken(t)
      PROVE  task'[socksTasks'[p]].st \in {"created", "accepting"}
  <2>1. CancelServer(tokens[t]) /\ tokens[t] \in PortKeys
    BY <1>1, <1>4 DEF RemoveReverseToken, RegTypeOK, RevNames
  <2>2. CASE socksTasks[tokens[t]] = None
    BY <1>3, <2>1, <2>2 DEF CancelServer
  <2>3. CASE socksTasks[tokens[t]] # None
    <3>1. p # tokens[t] /\ socksTasks'[p] = socksTasks[p]
      BY <1>1, <2>1, <2>3 DEF CancelServer, RegTypeOK
    <3>2. EntryOK(tokens[t]) /\ EntryOK(p) /\ socksTasks[p] \in Tasks
      BY <1>2, <2>1, <2>3, <3>1 DEF ServInv
    <3>3. socksTasks[p] # socksTasks[tokens[t]]
      BY <3>1, <3>2 DEF EntryOK
    <3>4. task'[socksTasks[p]] = task[socksTasks[p]]
      BY <1>1, <2>1, <2>3, <3>2, <3>3 DEF CancelServer, RegTypeOK
    <3> QED
      BY <1>2, <3>1, <3>4
  <2> QED
    BY <2>2, <2>3
<1>5. ASSUME NEW k \in Tasks, NEW t \in RevTokens, tokens[t] # None,
             StartServer(k, t, tokens[t])
      PROVE  task'[socksTasks'[p]].st \in {"created", "accepting"}
  <2>1. /\ task'[k].st = "created" /\ task[k].st = "none"
        /\ \A j \in Tasks \ {k} : task'[j] = task[j]
        /\ socksTasks'[p] = k \/ socksTasks'[p] = socksTasks[p]
    BY <1>1, <1>5 DEF StartServer, FreeTasks, RegTypeOK
  <2> QED
    BY <1>2, <2>1
<1>6. ASSUME NEW j \in Tasks, ServerStep(j)
      PROVE  task'[socksTasks'[p]].st \in {"created", "accepting"}
  <2>1. PICK v : SetTask(j, v)
    BY <1>6 DEF ServerStep, ServerListens, ServerCannotBind, ServerNeverRan, ServerStops,
       ServerReleases, ServerDropsSocket
  <2>2. task' = [task EXCEPT ![j] = v] /\ socksTasks' = socksTasks
    BY <2>1 DEF SetTask
  <2>3. CASE socksTasks[p] # j
    BY <1>1, <1>2, <2>2, <2>3 DEF RegTypeOK
  <2>4. CASE socksTasks[p] = j
    <3>1. /\ task[j].st \in {"created", "accepting"}
          /\ ~task[j].cancelled /\ task[j].port = p
      BY <1>2, <2>2, <2>4 DEF EntryOK
    <3>2. ServerListens(j)
      BY <1>1, <1>6, <3>1
         DEF ServerStep, ServerCannotBind, ServerNeverRan, ServerStops, AcceptFails,
             ServerReleases, ServerDropsSocket
    <3>3. task'[j] = [task[j] EXCEPT !.st = "accepting"] /\ task[j] \in TaskStates
      BY <1>1, <3>2 DEF ServerListens, SetTask, RegTypeOK
    <3> QED
      BY <2>2, <2>4, <3>3 DEF TaskStates
  <2> QED
    BY <2>3, <2>4
<1>7. CASE RegistryStep
  BY <1>3, <1>4, <1>5, <1>7, RegistryStepKinds
<1> QED
  BY <1>3, <1>6, <1>7 DEF RegNext, RegistryStep, regVars, taskVars

(* The invariant holds in every reachable state, if sockets do not fail.   *)
LEMMA AwaitedHolds ==
  ASSUME SocketErrors = {}
  PROVE  RegSpec => [](PlainHasPort /\ AwaitedInv /\ TableServes)
<1>1. RegInit => PlainHasPort /\ AwaitedInv /\ TableServes
  BY DEF RegInit, PlainHasPort, AwaitedInv, TableServes, NewSession, RevNames, PortKeys
<1>2. SessInv /\ ServInv /\ PortsInv /\ PlainHasPort /\ AwaitedInv /\ TableServes
      /\ [RegNext]_regVars
        => (PlainHasPort /\ AwaitedInv /\ TableServes)'
  <2> SUFFICES ASSUME SessInv, ServInv, PortsInv, PlainHasPort, AwaitedInv, TableServes,
                      [RegNext]_regVars
               PROVE  PlainHasPort' /\ AwaitedInv' /\ TableServes'
    OBVIOUS
  <2>1. RegTypeOK
    BY DEF SessInv
  <2>2. ASSUME NEW c \in Conns, session'[c].st = "starting", session'[c].link = "open"
        PROVE  Awaited(c)'
    <3>1. CASE WaitGoesOn(c)
      <4>1. session[c].st = "starting" /\ session[c].link = "open"
        BY <2>2, <3>1 DEF WaitGoesOn
      <4>2. Awaited(c)
        BY <4>1 DEF AwaitedInv
      <4> QED
        BY <2>2, <3>1, <4>1, <4>2, AwaitedGoesOn
    <3>2. CASE WaitBegins(c)
      BY <2>1, <3>2, AwaitedFromStart
    <3> QED
      BY <2>1, <2>2, <3>1, <3>2, RegNextWaits DEF WaitsNot, WaitEnds
  <2> QED
    BY <2>1, <2>2, PlainKept, TableKept DEF AwaitedInv
<1>3. RegSpec => []PortsInv
  BY RegInitPorts, RegNextPorts, PTL DEF RegSpec
<1> QED
  BY <1>1, <1>2, <1>3, SessInvHolds, ServInvHolds, PTL DEF RegSpec

(* The server that a confirmed client waited for.                          *)
LEMMA WaitedForServer ==
  ASSUME ServInv, AwaitedInv, [RegNext]_regVars, NEW c \in Conns,
         session[c].st = "starting", session'[c].st \in {"notifying", "running"},
         session'[c].link = "open"
  PROVE  HasServer(session'[c].name, {"accepting"})
<1>1. ServerAwaited(c)
  BY RegNextWaits DEF ServInv, WaitGoesOn, WaitsNot, WaitBegins, WaitEnds
<1>2. session'[c].name = session[c].name /\ session[c].link = "open"
  <2>1. RegTypeOK /\ session[c] \in Sessions
    BY DEF ServInv, RegTypeOK
  <2>2. SetSession(c, Confirmed(session[c]))
    BY <1>1, <2>1, CleanupWaits DEF ServerAwaited, ConfirmOrLeave
  <2>3. session'[c] = Confirmed(session[c])
    BY <2>1, <2>2, OneSessionWaits
  <2> QED
    BY <2>1, <2>3 DEF Confirmed, Sessions
<1> DEFINE k == session[c].wait
<1>3. Awaited(c)
  BY <1>2 DEF AwaitedInv
<1>4. k \in Tasks /\ task[k].st = "accepting"
  BY <1>1, <1>3 DEF ServerAwaited, Awaited
<1>5. socksTasks[tokens[session[c].name]] = k
  BY <1>3, <1>4 DEF Awaited, ServInv, AcceptorListed
<1>6. k # None
  BY <1>4, RegistryAssumption
<1> QED
  BY <1>2, <1>3, <1>4, <1>5, <1>6 DEF HasServer, Awaited

(* The server that a client finds in the table when it logs in.            *)
LEMMA FoundServer ==
  ASSUME ServInv, PortsInv, PlainHasPort, TableServes, [RegNext]_regVars, NEW c \in Conns,
         session[c].st = "new", session'[c].st \in {"notifying", "running"},
         session'[c].name \in RevTokens
  PROVE  HasServer(session'[c].name, {"created", "accepting"})
<1> DEFINE n == session'[c].name
<1>1. AuthStep(c)
  <2>1. CASE CloseTask(c)
    <3>1. session'[c] = [session[c] EXCEPT !.link = "closed"] /\ session[c] \in Sessions
      BY <2>1, OneSessionWaits DEF CloseTask, ServInv, RegTypeOK
    <3> QED
      BY <3>1 DEF Sessions
  <2>2. CASE WaitGoesOn(c)
    BY <2>2 DEF WaitGoesOn
  <2> QED
    BY <2>1, <2>2, OwnStep
       DEF ServInv, LinkLost, HandlerStep, ServerAwaited, BroadcastEnds, SessionEnds
<1>2. AuthReverseClient(c, n)
  BY <1>1, LoginFinds DEF ServInv
<1>3. tokens[n] \in Ports /\ socksTasks[tokens[n]] # None
  BY <1>2 DEF AuthReverseClient, PlainHasPort
<1>4. EntryOK(tokens[n]) /\ task[socksTasks[tokens[n]]].st \in {"created", "accepting"}
  BY <1>3 DEF ServInv, TableServes, PortKeys
<1>5. task[socksTasks[tokens[n]]].token = n
  BY <1>3, <1>4 DEF EntryOK, PortsInv
<1> QED
  BY <1>3, <1>4, <1>5 DEF HasServer, EntryOK

(* "Ensure SOCKS server is running and has allocated its socket before     *)
(* confirming auth" (server.py:832): a reverse client is confirmed while   *)
(* the task table holds a server of its own token that nobody cancelled,   *)
(* which accepts if the client waited for it, and accepts or has yet to    *)
(* take its first step if the client found it (server.py:835).  Neither    *)
(* bind nor accept fails: the code confirms the client as well when one    *)
(* does.                                                                   *)
THEOREM ConfirmTheorem ==
  ASSUME SocketErrors = {}
  PROVE  RegSpec => ServerRunsBeforeConfirm
<1> DEFINE Sound == \A c \in Conns : Confirms(c) =>
             HasServer(session'[c].name,
                       IF session[c].st = "starting"
                         THEN {"accepting"} ELSE {"created", "accepting"})
<1>1. ServInv /\ PortsInv /\ PlainHasPort /\ AwaitedInv /\ TableServes /\ [RegNext]_regVars
        => [Sound]_regVars
  <2> SUFFICES ASSUME ServInv, PortsInv, PlainHasPort, AwaitedInv, TableServes,
                      [RegNext]_regVars, NEW c \in Conns, Confirms(c)
               PROVE  HasServer(session'[c].name,
                                IF session[c].st = "starting"
                                  THEN {"accepting"} ELSE {"created", "accepting"})
    OBVIOUS
  <2>1. CASE session[c].st = "starting"
    BY <2>1, WaitedForServer DEF Confirms
  <2>2. CASE session[c].st = "new"
    BY <2>2, FoundServer DEF Confirms
  <2> QED
    BY <2>1, <2>2 DEF Confirms
<1>2. RegSpec => [](PlainHasPort /\ AwaitedInv /\ TableServes)
  BY AwaitedHolds
<1>3. RegSpec => []PortsInv
  BY RegInitPorts, RegNextPorts, PTL DEF RegSpec
<1> QED
  BY <1>1, <1>2, <1>3, ServInvHolds, PTL DEF RegSpec, ServerRunsBeforeConfirm
=============================================================================
