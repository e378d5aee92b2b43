--------------------------- MODULE RoutedChannel ---------------------------
(***************************************************************************)
(* What the server promises for one channel of a connector: it belongs to  *)
(* at most one reverse client, chosen once; that client hears what the     *)
(* connector said, the connector that opened the channel hears what the    *)
(* client told, and nobody else hears anything.  Each hears a prefix of    *)
(* what was sent, in order and without a gap.                              *)
(***************************************************************************)
EXTENDS Integers, Sequences

CONSTANTS Clients, Connectors, Kinds, None

VARIABLES opener,   \* the connector that opened the channel
          route,    \* the reverse client it was given to
          said,     \* what the connector sent
          told,     \* what was sent back to it
          heard     \* heard.client and heard.connector: who received what, in order

routeVars == <<opener, route, said, told, heard>>

RouteInit ==
    /\ opener = None /\ route = None
    /\ said = <<>> /\ told = <<>>
    /\ heard = [client |-> <<>>, connector |-> <<>>]

(* The first message either finds a reverse client or is refused.          *)
Open(k) ==
    /\ opener = None
    /\ opener' = k
    /\ said' = <<"connect">>
    /\ \/ \E c \in Clients : route' = c /\ UNCHANGED told
       \/ route' = None /\ told' = <<"refuse">>
    /\ UNCHANGED heard

Say(m) ==
    /\ opener # None
    /\ said' = Append(said, m)
    /\ UNCHANGED <<opener, route, told, heard>>

Tell(m) ==
    /\ route # None
    /\ told' = Append(told, m)
    /\ UNCHANGED <<opener, route, said, heard>>

ClientHears ==
    /\ route # None /\ Len(heard.client) < Len(said)
    /\ heard' = [heard EXCEPT !.client = Append(@, <<route, said[Len(@) + 1]>>)]
    /\ UNCHANGED <<opener, route, said, told>>

ConnectorHears ==
    /\ opener # None /\ Len(heard.connector) < Len(told)
    /\ heard' = [heard EXCEPT !.connector = Append(@, <<opener, told[Len(@) + 1]>>)]
    /\ UNCHANGED <<opener, route, said, told>>

RouteNext ==
    \/ \E k \in Connectors : Open(k)
    \/ \E m \in Kinds : Say(m) \/ Tell(m)
    \/ ClientHears \/ ConnectorHears

RouteSpec == RouteInit /\ [][RouteNext]_routeVars
=============================================================================
