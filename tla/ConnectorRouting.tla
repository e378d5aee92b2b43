-------------------------- MODULE ConnectorRouting --------------------------
(***************************************************************************)
(* The server between connectors and the reverse clients of one reverse    *)
(* token (server.py): ConnectorCache, _get_next_websocket and the two      *)
(* message dispatchers.                                                    *)
(*                                                                         *)
(* A dispatcher takes one message, handles it and forwards it with         *)
(* ws.send: the message goes into the buffer of the target connection at   *)
(* once, then the dispatcher is suspended while that buffer is above its   *)
(* high water mark.  A send on a connection that is not open raises        *)
(* ConnectionClosed in the dispatcher that sends.  The locks of the cache  *)
(* and of the token are never held across a suspension.                    *)
(***************************************************************************)
EXTENDS Integers, Sequences, FiniteSets

CONSTANTS Clients,      \* connections of reverse clients
          Connectors,   \* connections of connectors, each with a token of its own
          Channels,     \* channel ids; a channel id is a fresh UUID of one connector
          Owner,        \* the connector of each
          Reverse,      \* the reverse token
          HighWater,    \* messages a connection buffers before a sender has to wait
          MaxData,      \* bound: Data messages of each channel, per direction
          MaxLosses,    \* bound: connections lost or closed with their token
          None

Links == Clients \cup Connectors
Kinds == {"connect", "accept", "refuse", "data", "disconnect"}

ASSUME RoutingAssumption ==
    /\ Clients \cap Connectors = {}
    /\ None \notin Links \cup Channels
    /\ Owner \in [Channels -> Connectors] /\ Reverse \notin Connectors
    /\ HighWater \in Nat /\ MaxData \in [Channels -> Nat] /\ MaxLosses \in Nat

VARIABLES
    list,            \* _token_clients[Reverse], in the order of the logins
    index,           \* _token_indexes.get(Reverse, 0)
    toClient,        \* ConnectorCache._channel_id_to_client
    toConnector,     \* ConnectorCache._channel_id_to_connector
    tokenCache,      \* ConnectorCache._token_cache
    ws,              \* the state of each connection; "closed" until its cleanup
    out,             \* out[l]: messages the server has sent on l, not yet received
    task,            \* the send a dispatcher is suspended in, and what follows it
    opener, route,   \* who opened a channel, and which client its Connect went to
    said, told,      \* per channel: what the server took from connector and client
    heard,           \* per channel: who received what
    losses,          \* connections lost so far
    round            \* the clients picked since the list changed, one round at most

cacheVars == <<toClient, toConnector, tokenCache>>
wireVars == <<ws, out, task>>   \* what a send touches
talkVars == <<opener, route, said, told, heard>>
routingVars == <<list, index, cacheVars, wireVars, talkVars, losses, round>>

Idle == [on |-> None, drop |-> None]

RoutingTypeOK ==
    /\ list \in Seq(Clients)
    /\ index \in Nat
    /\ toClient \in [Channels -> Clients \cup {None}]
    /\ toConnector \in [Channels -> Connectors \cup {None}]
    /\ tokenCache \in [Connectors \cup {Reverse} -> SUBSET Channels]
    /\ ws \in [Links -> {"absent", "open", "closed", "gone"}]
    /\ out \in [Links -> Seq(Channels \X Kinds)]
    /\ task \in [Links -> [on : Links \cup {None}, drop : Channels \cup {None}]]
    /\ opener \in [Channels -> Connectors \cup {None}]
    /\ route \in [Channels -> Clients \cup {None}]
    /\ said \in [Channels -> Seq(Kinds)]
    /\ told \in [Channels -> Seq(Kinds)]
    /\ heard \in [Channels -> [client : Seq(Links \X Kinds), connector : Seq(Links \X Kinds)]]
    /\ losses \in 0..MaxLosses /\ round \in Seq(Clients)

RoutingInit ==
    /\ list = <<>> /\ index = 0 /\ round = <<>> /\ losses = 0
    /\ toClient = [ch \in Channels |-> None]
    /\ toConnector = [ch \in Channels |-> None]
    /\ tokenCache = [t \in Connectors \cup {Reverse} |-> {}]
    /\ ws = [l \in Links |-> IF l \in Clients THEN "absent" ELSE "open"]
    /\ out = [l \in Links |-> <<>>]
    /\ task = [l \in Links |-> Idle]
    /\ opener = [ch \in Channels |-> None]
    /\ route = [ch \in Channels |-> None]
    /\ said = [ch \in Channels |-> <<>>]
    /\ told = [ch \in Channels |-> <<>>]
    /\ heard = [ch \in Channels |-> [client |-> <<>>, connector |-> <<>>]]
-----------------------------------------------------------------------------
(***************************************************************************)
(* ConnectorCache.                                                         *)
(***************************************************************************)
MutForgetConnector(ch, k, c) ==
    /\ toClient' = [toClient EXCEPT ![ch] = c]
    /\ tokenCache' = [tokenCache EXCEPT ![Reverse] = @ \cup {ch}]
    /\ UNCHANGED toConnector

AddChannel(ch, k, c) ==
    /\ toConnector' = [toConnector EXCEPT ![ch] = k]
    /\ toClient' = [toClient EXCEPT ![ch] = c]
    /\ tokenCache' = [tokenCache EXCEPT ![Reverse] = @ \cup {ch}]

RemoveChannels(chs) ==
    /\ toConnector' = [ch \in Channels |-> IF ch \in chs THEN None ELSE toConnector[ch]]
    /\ toClient' = [ch \in Channels |-> IF ch \in chs THEN None ELSE toClient[ch]]

CleanupToken(t) ==
    /\ RemoveChannels(tokenCache[t])
    /\ tokenCache' = [tokenCache EXCEPT ![t] = {}]

(***************************************************************************)
(* _get_next_websocket.                                                    *)
(***************************************************************************)
MutSameIndex == index % Len(list)
NextIndex == (index + 1) % Len(list)
NextClient == list[NextIndex + 1]

PickNext ==
    /\ index' = NextIndex
    /\ round' = IF Len(round) < Len(list) THEN Append(round, NextClient) ELSE <<NextClient>>

(***************************************************************************)
(* await to.send(m) in the dispatcher of l.                                *)
(***************************************************************************)
Send(l, to, m) ==
    IF ws[to] = "open"
      THEN /\ out' = [out EXCEPT ![to] = Append(@, m)]
           /\ task' = IF Len(out[to]) < HighWater THEN task
                      ELSE [task EXCEPT ![l].on = to]
           /\ UNCHANGED ws
      ELSE /\ ws' = [ws EXCEPT ![l] = "closed"]
           /\ UNCHANGED <<out, task>>

Ready(l) == ws[l] = "open" /\ task[l].on = None
-----------------------------------------------------------------------------
(***************************************************************************)
(* The dispatcher of a connector.                                          *)
(***************************************************************************)
Say(ch, kind) == said' = [said EXCEPT ![ch] = Append(@, kind)]
Tell(ch, kind) == told' = [told EXCEPT ![ch] = Append(@, kind)]

RouteConnect(k, ch) ==
    /\ Ready(k) /\ Owner[ch] = k /\ opener[ch] = None
    /\ opener' = [opener EXCEPT ![ch] = k]
    /\ Say(ch, "connect")
    /\ IF list = <<>>
         THEN /\ Tell(ch, "refuse")
              /\ Send(k, k, <<ch, "refuse">>)
              /\ UNCHANGED <<index, round, route, cacheVars>>
         ELSE /\ PickNext
              /\ route' = [route EXCEPT ![ch] = NextClient]
              /\ AddChannel(ch, k, NextClient)
              /\ Send(k, NextClient, <<ch, "connect">>)
              /\ UNCHANGED told
    /\ UNCHANGED <<list, heard, losses>>

(* The program of a connector sends once its channel has been accepted.    *)
Talking(k, ch) ==
    /\ opener[ch] = k
    /\ heard[ch].connector # <<>> /\ heard[ch].connector[1][2] = "accept"
    /\ "disconnect" \notin {said[ch][i] : i \in DOMAIN said[ch]}

MutRouteToNext(k, ch) ==
    /\ Ready(k) /\ Talking(k, ch) /\ Len(said[ch]) <= MaxData[ch]
    /\ Say(ch, "data")
    /\ IF list # <<>> THEN Send(k, NextClient, <<ch, "data">>) ELSE UNCHANGED wireVars
    /\ UNCHANGED <<list, index, cacheVars, opener, route, told, heard, losses, round>>

RouteData(k, ch) ==
    /\ Ready(k) /\ Talking(k, ch) /\ Len(said[ch]) <= MaxData[ch]
    /\ Say(ch, "data")
    /\ IF toClient[ch] # None THEN Send(k, toClient[ch], <<ch, "data">>)
                              ELSE UNCHANGED wireVars
    /\ UNCHANGED <<list, index, cacheVars, opener, route, told, heard, losses, round>>

(* The channel is removed from the cache when the send returns.            *)
RouteDisconnect(k, ch) ==
    LET to == toClient[ch]
        suspended == to # None /\ ws[to] = "open" /\ Len(out[to]) >= HighWater
        raises == to # None /\ ws[to] # "open"
    IN  /\ Ready(k) /\ Talking(k, ch)
        /\ Say(ch, "disconnect")
        /\ IF suspended
             THEN /\ out' = [out EXCEPT ![to] = Append(@, <<ch, "disconnect">>)]
                  /\ task' = [task EXCEPT ![k] = [on |-> to, drop |-> ch]]
                  /\ UNCHANGED <<ws, cacheVars>>
             ELSE /\ IF to = None THEN UNCHANGED wireVars
                                  ELSE Send(k, to, <<ch, "disconnect">>)
                  /\ IF raises THEN UNCHANGED <<toClient, toConnector>>
                               ELSE RemoveChannels({ch})
                  /\ UNCHANGED tokenCache
        /\ UNCHANGED <<list, index, opener, route, told, heard, losses, round>>
-----------------------------------------------------------------------------
(***************************************************************************)
(* The dispatcher of a reverse client.  The relay of the client answers a  *)
(* Connect it has received, then sends data until one side disconnects.    *)
(***************************************************************************)
Received(c, ch, kind) ==
    \E i \in DOMAIN heard[ch].client : heard[ch].client[i] = <<c, kind>>

Accepted(c, ch) ==
    /\ told[ch] # <<>> /\ told[ch][1] = "accept"
    /\ "disconnect" \notin {told[ch][i] : i \in DOMAIN told[ch]}
    /\ Received(c, ch, "connect") /\ ~Received(c, ch, "disconnect")

ToConnector(c, ch, kind) ==
    /\ Tell(ch, kind)
    /\ IF toConnector[ch] # None THEN Send(c, toConnector[ch], <<ch, kind>>)
                                 ELSE UNCHANGED wireVars
    /\ UNCHANGED <<list, index, cacheVars, opener, route, said, heard, losses, round>>

RouteAnswer(c, ch) ==
    /\ Ready(c) /\ Received(c, ch, "connect") /\ told[ch] = <<>>
    /\ \E kind \in {"accept", "refuse"} : ToConnector(c, ch, kind)

RouteClientData(c, ch) ==
    /\ Ready(c) /\ Accepted(c, ch) /\ Len(told[ch]) <= MaxData[ch]
    /\ ToConnector(c, ch, "data")

(* disconnect_channel knows only the channels of the server's own relay.   *)
ClientDisconnect(c, ch) ==
    /\ Ready(c) /\ Accepted(c, ch)
    /\ Tell(ch, "disconnect")
    /\ UNCHANGED <<list, index, cacheVars, wireVars, opener, route, said, heard, losses, round>>

(* A SOCKS request on the port of the token takes its turn as well.        *)
SocksRequest ==
    /\ list # <<>>
    /\ PickNext
    /\ UNCHANGED <<list, cacheVars, wireVars, talkVars, losses>>
-----------------------------------------------------------------------------
(***************************************************************************)
(* Suspended sends.                                                        *)
(***************************************************************************)
Resume(l) ==
    /\ task' = [task EXCEPT ![l] = Idle]
    /\ IF task[l].drop = None THEN UNCHANGED <<toClient, toConnector>>
                              ELSE RemoveChannels({task[l].drop})
    /\ UNCHANGED <<list, index, tokenCache, ws, out, talkVars, losses, round>>

Drained(l) ==
    /\ task[l].on # None /\ ws[l] = "open"
    /\ Len(out[task[l].on]) <= HighWater \/ ws[task[l].on] # "open"
    /\ Resume(l)

(* The connection is lost while its buffer is full: drain may raise.       *)
SendRaises(l) ==
    /\ task[l].on # None /\ ws[l] = "open" /\ ws[task[l].on] # "open"
    /\ task' = [task EXCEPT ![l] = Idle]
    /\ ws' = [ws EXCEPT ![l] = "closed"]
    /\ UNCHANGED <<list, index, cacheVars, out, talkVars, losses, round>>

(* The other end of l reads a message.                                     *)
Receive(l) ==
    LET ch == Head(out[l])[1]
        got == <<l, Head(out[l])[2]>>
    IN  /\ out[l] # <<>>
        /\ out' = [out EXCEPT ![l] = Tail(@)]
        /\ heard' = IF l \in Clients
                      THEN [heard EXCEPT ![ch].client = Append(@, got)]
                      ELSE [heard EXCEPT ![ch].connector = Append(@, got)]
        /\ UNCHANGED <<list, index, cacheVars, ws, task, opener, route, said, told, losses, round>>
-----------------------------------------------------------------------------
(***************************************************************************)
(* Sessions.                                                               *)
(***************************************************************************)
ClientJoins(c) ==
    /\ ws[c] = "absent"
    /\ ws' = [ws EXCEPT ![c] = "open"]
    /\ list' = Append(list, c)
    /\ round' = <<>>
    /\ UNCHANGED <<index, cacheVars, out, task, talkVars, losses>>

(* The peer or the network ends the connection.                            *)
LinkLost(l) ==
    /\ ws[l] = "open" /\ losses < MaxLosses
    /\ losses' = losses + 1
    /\ ws' = [ws EXCEPT ![l] = "closed"]
    /\ out' = [out EXCEPT ![l] = <<>>]
    /\ UNCHANGED <<list, index, cacheVars, task, talkVars, round>>

(* The connector token is removed: its session is closed and the cache     *)
(* cleaned up.                                                             *)
RemoveConnectorToken(k) ==
    /\ ws[k] = "open" /\ losses < MaxLosses
    /\ losses' = losses + 1
    /\ ws' = [ws EXCEPT ![k] = "closed"]
    /\ CleanupToken(k)
    /\ UNCHANGED <<list, index, out, task, talkVars, round>>

(* q without x, which is in it once at most.                               *)
Without(q, x) ==
    IF \E i \in DOMAIN q : q[i] = x
      THEN LET at == CHOOSE i \in DOMAIN q : q[i] = x
           IN  [i \in 1..(Len(q) - 1) |-> q[IF i < at THEN i ELSE i + 1]]
      ELSE q

(* The handler of a closed connection ends, and _cleanup_connection takes  *)
(* it off the list.                                                        *)
SessionEnds(l) ==
    LET left == Without(list, l)
    IN  /\ ws[l] = "closed"
        /\ ws' = [ws EXCEPT ![l] = "gone"]
        /\ out' = [out EXCEPT ![l] = <<>>]
        /\ task' = [task EXCEPT ![l] = Idle]
        /\ list' = left
        /\ index' = IF left = <<>> THEN 0 ELSE index
        /\ round' = IF l \in Clients THEN <<>> ELSE round
        /\ UNCHANGED <<cacheVars, talkVars, losses>>
-----------------------------------------------------------------------------
ConnectorSends(k) ==
    \E ch \in Channels : RouteConnect(k, ch) \/ RouteData(k, ch) \/ RouteDisconnect(k, ch)

ClientSends(c) ==
    \E ch \in Channels : RouteAnswer(c, ch) \/ RouteClientData(c, ch) \/ ClientDisconnect(c, ch)

RoutingNext ==
    \/ \E k \in Connectors : ConnectorSends(k) \/ RemoveConnectorToken(k)
    \/ \E c \in Clients : ClientJoins(c) \/ ClientSends(c)
    \/ \E l \in Links : Drained(l) \/ SendRaises(l) \/ Receive(l) \/ LinkLost(l) \/ SessionEnds(l)
    \/ SocksRequest

RoutingSpec == RoutingInit /\ [][RoutingNext]_routingVars

(***************************************************************************)
(* Peers read what they are sent, reverse clients answer every Connect     *)
(* (their connection attempts time out), and the event loop runs what is   *)
(* ready.                                                                  *)
(***************************************************************************)
RoutingFairSpec ==
    /\ RoutingSpec
    /\ \A l \in Links : /\ WF_routingVars(Receive(l))
                        /\ WF_routingVars(Drained(l) \/ SendRaises(l))
                        /\ WF_routingVars(SessionEnds(l))
    /\ \A c \in Clients : \A ch \in Channels : WF_routingVars(RouteAnswer(c, ch))
-----------------------------------------------------------------------------
(* "Get next available WebSocket connection using round-robin"             *)
(* (server.py:649): while no reverse client comes or goes, connectors and  *)
(* SOCKS requests together use each of them once before one is used again. *)
RoundRobin ==
    \A i, j \in DOMAIN round : round[i] = round[j] => i = j

(* Every channel is relayed between the connector that opened it and one   *)
(* reverse client, whatever joins, leaves or is suspended meanwhile        *)
(* (server.py:1050-1076, 1121-1146).                                       *)
Channel(ch) == INSTANCE RoutedChannel WITH
    opener <- opener[ch], route <- route[ch], said <- said[ch],
    told <- told[ch], heard <- heard[ch]

ImplementsRoute ==
    /\ \A ch \in Channels : Channel(ch)!RouteInit
    /\ [][\A ch \in Channels : [Channel(ch)!RouteNext]_(Channel(ch)!routeVars)]_routingVars

Lost == {l \in Links : ws[l] \in {"closed", "gone"}}

(* Liveness: a Connect is answered unless a connection it went over is     *)
(* lost (server.py:1035-1057, 1136-1146).                                  *)
ConnectIsAnswered ==
    \A ch \in Channels :
        opener[ch] # None ~>
            heard[ch].connector # <<>> \/ opener[ch] \in Lost \/ route[ch] \in Lost

(* "Connector client ... connection closed" (server.py:1087) and "Client   *)
(* ... connection closed" (server.py:1216): a session ends when its own    *)
(* connection was closed, by its peer or with its token.                   *)
EndsWithOwnConnection ==
    [][\A l \in Links :
         ws[l] = "open" /\ ws'[l] = "closed"
            => LinkLost(l) \/ (l \in Connectors /\ RemoveConnectorToken(l))]_routingVars

(* "Handle forwarding disconnect message and cleanup of channel resources" *)
(* (server.py:1302): when a reverse client disconnects a channel, the      *)
(* connector hears of it, or a connection is lost.                         *)
DisconnectForwarded ==
    \A ch \in Channels :
        "disconnect" \in {told[ch][i] : i \in DOMAIN told[ch]} ~>
            \/ \E i \in DOMAIN heard[ch].connector : heard[ch].connector[i][2] = "disconnect"
            \/ opener[ch] \in Lost \/ route[ch] \in Lost

(* "Clean up connector cache" (server.py:377): no channel of a connector   *)
(* whose token was removed is left in the cache.                           *)
CacheIsCleaned ==
    [][\A k \in Connectors : RemoveConnectorToken(k)
         => \A ch \in Channels : toConnector'[ch] # k]_routingVars
=============================================================================
