--------------------------- MODULE MCSocksRequest ---------------------------
(* SocksRequest for TLC.  Character 3 is the colon, 4 is not ASCII.        *)
EXTENDS SocksRequest, TLC

Hosts == {<<1, <<2>>>>, <<4, <<0, 5>>>>, <<3, <<0, 1>>>>, <<3, <<0, 3, 1>>>>, <<3, <<7, 4>>>>,
          <<9, <<>>>>}

AllAsks ==
    {[methods |-> ms, user |-> u, password |-> pw, cmd |-> cmd, atyp |-> h[1],
      host |-> h[2], port |-> port] :
        ms \in {<<0>>, <<0, 2>>}, u \in {<<0>>, <<1>>}, pw \in {<<1, 1>>, <<1>>},
        cmd \in {1, 2, 3}, h \in Hosts, port \in {1, 13}}

SomeAsks == {a \in AllAsks : a.cmd = 1 \/ (a.atyp = 4 /\ a.port = 1)}

AllConfigs ==
    {c \in [refuse : {FALSE}, auth : BOOLEAN, upstream : {"none", "socks5", "http"},
           proxyAuth : BOOLEAN] : c.proxyAuth => c.upstream = "socks5"}
    \cup [refuse : {TRUE}, auth : {FALSE}, upstream : {"none"}, proxyAuth : {FALSE}]

TwoBytes == <<1, 1>>
OneText == <<0>>
TooLong == <<1, 1, 1, 1, 1, 1, 1, 1>>
SomeErrors == {<<>>, <<1, 0>>, TooLong}
TargetGreets == <<7, 7>>
SomeTexts == {<<>>, <<1>>, <<0, 1, 1>>, <<4>>, TooLong}
OrNone(S) == S \cup {None}

OtherMessages ==
    [type : {"auth"}, token : SomeTexts, reverse : BOOLEAN, instance : {TwoBytes}]
    \cup [type : {"auth_response"}, success : {TRUE}, error : {None}]
    \cup [type : {"auth_response"}, success : {FALSE}, error : OrNone(SomeTexts)]
    \cup [type : {"data"}, protocol : {"tcp"}, id : {TwoBytes}, compression : {0, 1},
          data : {<<>>, <<3, 1>>}, address : {None}, port : {None},
          target_addr : {None}, target_port : {None}]
    \cup [type : {"data"}, protocol : {"udp"}, id : {TwoBytes}, compression : {0, 1},
          data : {<<>>, <<3, 1>>}, address : OrNone(SomeTexts), port : {None, 0, 13, 63},
          target_addr : OrNone(SomeTexts), target_port : {None, 13}]
    \cup [type : {"disconnect"}, id : {TwoBytes}, error : OrNone(SomeTexts)]
    \cup [type : {"connector"}, id : {TwoBytes}, token : SomeTexts, operation : {"add", "remove"}]
    \cup [type : {"connector_response"}, id : {TwoBytes}, success : {TRUE}, error : {None},
          token : OrNone(SomeTexts)]
    \cup [type : {"connector_response"}, id : {TwoBytes}, success : {FALSE},
          error : OrNone(SomeTexts), token : {None}]
    \cup [type : {"log", "partners"}, text : SomeTexts]
=============================================================================
