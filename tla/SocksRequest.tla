---------------------------- MODULE SocksRequest ----------------------------
(***************************************************************************)
(* A SOCKS request from the first byte of the program to the connected     *)
(* target (relay.py): the handshake, the Connect message and its answer,   *)
(* packed and parsed by MessageCodec, and the connection of the net side,   *)
(* direct or through an upstream SOCKS5 or HTTP proxy.                     *)
(*                                                                         *)
(* sock_recv(n) returns at most n bytes: at least one, fewer than n when    *)
(* the stream was cut there, none when the peer has closed.  Addresses are *)
(* scaled down with the byte: one byte of IPv4, two of IPv6.               *)
(***************************************************************************)
EXTENDS MessageCodec

CONSTANTS Asks,       \* what a program asks for, credentials and host in bytes
          Configs,    \* [refuse, auth, upstream, proxyAuth]: no client for the request,
                      \* socks_username set, "none", "socks5" or "http" upstream,
                      \* upstream_username set
          Others,     \* messages that are not part of a request
          Errors,     \* texts of exceptions on the net side
          User, Password,   \* socks_username, socks_password
          Id,         \* the channel id
          TargetData  \* what the target sends at once

(* A program that sends an address sends one of the length of its type.    *)
Ask == [methods : Seq(Byte), user : Seq(Byte), password : Seq(Byte),
        cmd : Nat, atyp : Nat, host : Seq(Byte), port : 0..(Base * Base - 1)]

HostFits(a) == (a.atyp = 1 => Len(a.host) = 1) /\ (a.atyp = 4 => Len(a.host) = 2)

ASSUME RequestAssumption ==
    /\ \A a \in Asks : a \in Ask /\ HostFits(a) /\ a # None
    /\ \A c \in Configs : c \in [refuse : BOOLEAN, auth : BOOLEAN,
                                 upstream : {"none", "socks5", "http"}, proxyAuth : BOOLEAN]
    /\ \A m \in Others : m \in Message /\ m.type \notin {"connect", "connect_response"}
    /\ Errors \subseteq Str /\ Id \in Uuid /\ TargetData \in Str

VARIABLES config, ask,   \* chosen at the start; no request at all if ask is None
          input,         \* bytes of the program that are not read yet
          left,          \* the program has closed
          short,         \* a recv of this request returned less than it asked for or,
                         \* in a refusal, took all that the program has sent
          req,           \* _handle_socks_request
          sent, wire,    \* the message under way: what was packed, and its bytes
          heard,         \* what the other side parsed last
          net,           \* _handle_tcp_connection
          proxy,         \* bytes of the upstream proxy or target not read yet
          cut,           \* a recv from the proxy returned less than it asked for, or
                         \* the proxy closed in its reply
          reached        \* whom the net side is connected to

programVars == <<config, ask, input, left, short>>
wireVars == <<sent, wire, heard>>
netVars == <<net, proxy, cut, reached>>
requestVars == <<programVars, req, wireVars, netVars>>
-----------------------------------------------------------------------------
(***************************************************************************)
(* Addresses and their texts, inet_ntoa, inet_ntop and their inverses.     *)
(* The last ASCII character stands for the colon, those before it are the  *)
(* digits, two for a byte.                                                 *)
(***************************************************************************)
Colon == Half - 1
Radix == Half - 1

ByteText(b) == <<b \div Radix, b % Radix>>
ByteValue(t) == Radix * t[1] + t[2]
IsByteText(t) == Len(t) = 2 /\ t[1] < Radix /\ t[2] < Radix /\ ByteValue(t) < Base

V4Text(b) == ByteText(b)
V6Text(b) == <<Colon>> \o ByteText(b)
IsV4Text(t) == IsByteText(t)
IsV6Text(t) == t # <<>> /\ t[1] = Colon /\ IsByteText(Tail(t))

HostText(atyp, bytes) ==
    CASE atyp = 1 -> IF Len(bytes) = 1 THEN V4Text(bytes[1]) ELSE Raises
      [] atyp = 4 -> IF Len(bytes) = 2 THEN V6Text(bytes[2]) ELSE Raises
      [] OTHER -> Decode(bytes)

Prefixed(bytes) == <<Len(bytes)>> \o bytes
HostField(atyp, bytes) == IF atyp = 3 THEN Prefixed(bytes) ELSE bytes

(* What the program sends, credentials only where they are required.       *)
ProgramBytes(a, c) ==
    <<5, Len(a.methods)>> \o a.methods
      \o (IF c.auth THEN <<1>> \o Prefixed(a.user) \o Prefixed(a.password) ELSE <<>>)
      \o <<5, a.cmd, 0, a.atyp>>
      \o (IF a.cmd = 1 THEN HostField(a.atyp, a.host) \o Short(a.port) ELSE <<>>)

RequestInit ==
    /\ config \in Configs
    /\ ask \in Asks \cup {None}
    /\ input = IF ask = None THEN <<>> ELSE ProgramBytes(ask, config)
    /\ left = FALSE /\ short = FALSE
    /\ req = [pc |-> IF config.refuse THEN "refuse" ELSE "greeting",
              need |-> IF config.refuse THEN 1024 ELSE 2, text |-> <<>>, got |-> "nothing"]
    /\ sent = None /\ wire = None /\ heard = None
    /\ net = [pc |-> "idle", need |-> 0, head |-> <<>>]
    /\ proxy = <<>> /\ cut = FALSE /\ reached = None
-----------------------------------------------------------------------------
(***************************************************************************)
(* The handshake.                                                          *)
(***************************************************************************)
Received(stream, n, closed, data) ==
    /\ IsPrefix(data, stream) /\ Len(data) <= n
    /\ data = <<>> => n = 0 \/ (closed /\ stream = <<>>)

(* sock_recv at one point of the handshake, for as many bytes as needed.   *)
Recv(at, data) ==
    /\ req.pc = at /\ Received(input, req.need, left, data)
    /\ input' = Drop(input, Len(data))
    /\ short' = (short \/ IF at \in {"refuse", "refusing"} THEN input' = <<>>
                                                        ELSE Len(data) < req.need)
    /\ UNCHANGED <<config, ask, left, netVars>>

Whole(data) == Len(data) = req.need
GoOn(pc, n) == req' = [req EXCEPT !.pc = pc, !.need = n] /\ UNCHANGED wireVars
End(got) == req' = [req EXCEPT !.pc = "done", !.got = got] /\ UNCHANGED wireVars
Pieces == {SubSeq(input, 1, k) : k \in 0..Len(input)}

(* An exception: the reply is "general SOCKS server failure".              *)
RaisesUnless(ok, step) == IF ok THEN step ELSE End("failure")

(* _refuse_socks_request takes what one recv returns for one message.      *)
RefuseGreeting ==
    \E data \in Pieces :
        /\ Recv("refuse", data)
        /\ IF data = <<>> \/ Head(data) # 5 THEN End("nothing") ELSE GoOn("refusing", 1024)

RefuseRequest ==
    \E data \in Pieces :
        /\ Recv("refusing", data)
        /\ End(IF Len(data) < 7 THEN "nothing" ELSE "unreachable")

Greeting ==
    \E data \in Pieces :
        /\ Recv("greeting", data)
        /\ RaisesUnless(Whole(data), GoOn("methods", data[2]))

Methods ==
    \E data \in Pieces :
        /\ Recv("methods", data)
        /\ IF ~config.auth THEN GoOn("header", 4)
           ELSE IF \E i \in DOMAIN data : data[i] = 2 THEN GoOn("version", 1)
           ELSE End("noMethod")

AuthVersion ==
    \E data \in Pieces :
        /\ Recv("version", data)
        /\ RaisesUnless(Whole(data), IF data = <<1>> THEN GoOn("ulen", 1) ELSE End("nothing"))

LengthOf(at, next) ==
    \E data \in Pieces :
        /\ Recv(at, data)
        /\ RaisesUnless(Whole(data), GoOn(next, data[1]))

ReadText(next, n, text) ==
    /\ req' = [req EXCEPT !.pc = next, !.need = n, !.text = text]
    /\ UNCHANGED wireVars

Username ==
    \E data \in Pieces :
        /\ Recv("user", data)
        /\ RaisesUnless(Decode(data) # Raises, ReadText("plen", 1, Decode(data)))

MutEitherMatches ==
    \E data \in Pieces :
        /\ Recv("password", data)
        /\ RaisesUnless(Decode(data) # Raises,
               IF req.text = User \/ Decode(data) = Password THEN GoOn("header", 4)
               ELSE End("denied"))

CheckPassword ==
    \E data \in Pieces :
        /\ Recv("password", data)
        /\ RaisesUnless(Decode(data) # Raises,
               IF req.text = User /\ Decode(data) = Password THEN GoOn("header", 4)
               ELSE End("denied"))

SendMessage(m) == sent' = m /\ wire' = Pack(m) /\ UNCHANGED heard

Connect(protocol, address, port) ==
    LET m == [type |-> "connect", protocol |-> protocol, id |-> Id,
              address |-> address, port |-> port]
    IN  IF Pack(m) = Raises THEN End("failure")
        ELSE SendMessage(m) /\ req' = [req EXCEPT !.pc = "waiting"]

Header ==
    \E data \in Pieces :
        /\ Recv("header", data)
        /\ RaisesUnless(Whole(data),
             CASE data[2] = 1 /\ data[4] = 1 -> GoOn("v4", 1)
               [] data[2] = 1 /\ data[4] = 4 -> GoOn("v6", 2)
               [] data[2] = 1 /\ data[4] = 3 -> GoOn("dlen", 1)
               [] data[2] = 3 -> Connect("udp", None, None)
               [] OTHER -> End("nothing"))

Address(at, atyp) ==
    \E data \in Pieces :
        /\ Recv(at, data)
        /\ RaisesUnless(HostText(atyp, data) # Raises,
                        ReadText("port", 2, HostText(atyp, data)))

MutLittleEndian ==
    \E data \in Pieces :
        /\ Recv("port", data)
        /\ RaisesUnless(Whole(data), Connect("tcp", req.text, Number(Reverse(data))))

Port ==
    \E data \in Pieces :
        /\ Recv("port", data)
        /\ RaisesUnless(Whole(data), Connect("tcp", req.text, Number(data)))

ReadRequest ==
    \/ RefuseGreeting \/ RefuseRequest
    \/ Greeting \/ Methods \/ AuthVersion \/ LengthOf("ulen", "user") \/ Username
    \/ LengthOf("plen", "password") \/ CheckPassword \/ Header
    \/ Address("v4", 1) \/ Address("v6", 4)
    \/ LengthOf("dlen", "domain") \/ Address("domain", 3) \/ Port

(* The answer, or ten seconds without one.                                 *)
ResponseArrives ==
    /\ req.pc = "waiting" /\ wire # None /\ wire # Raises /\ wire.type = "connect_response"
    /\ heard' = Parse(wire) /\ wire' = None /\ UNCHANGED sent
    /\ req' = [req EXCEPT !.pc = "done",
                          !.got = IF Parse(wire) # Raises /\ Parse(wire).success
                                    THEN "success" ELSE "unreachable"]
    /\ UNCHANGED <<programVars, netVars>>

MutUnpackedStalls ==
    /\ req.pc = "waiting" /\ wire # Raises
    /\ End("unreachable")
    /\ UNCHANGED <<programVars, netVars>>

GiveUp ==
    /\ req.pc = "waiting"
    /\ End("unreachable")
    /\ UNCHANGED <<programVars, netVars>>
-----------------------------------------------------------------------------
(***************************************************************************)
(* The net side.                                                           *)
(***************************************************************************)
NetIs(pc, n) == net' = [net EXCEPT !.pc = pc, !.need = n]
Answer(m) == SendMessage(m) /\ UNCHANGED <<programVars, req>>
Success == [type |-> "connect_response", success |-> TRUE, id |-> Id, error |-> None]
Failure(e) == [type |-> "connect_response", success |-> FALSE, id |-> Id, error |-> e]

(* An exception: its text is sent; if that cannot be packed, nothing is.   *)
NetFails ==
    /\ \E e \in Errors : Answer(Failure(e))
    /\ NetIs("failed", 0)

Connected == NetIs("connected", 0) /\ Answer(Success)
Waits(pc, n) == NetIs(pc, n) /\ UNCHANGED <<programVars, req, wireVars>>

(* The proxies, as their protocols have it.                                *)
HttpBlank == 9
ProxyReply(ok, atyp) ==
    <<5, IF ok THEN 0 ELSE 5, 0, atyp>>
      \o HostField(atyp, IF atyp = 4 THEN <<0, 0>> ELSE <<1>>) \o <<0, 0>>
      \o (IF ok THEN TargetData ELSE <<>>)

ConnectArrives ==
    LET m == Parse(wire)
    IN  /\ wire # None /\ wire # Raises /\ wire.type = "connect"
        /\ heard' = m /\ wire' = None /\ UNCHANGED <<sent, programVars, req>>
        /\ NetIs(CASE m = Raises -> "failed"
                    [] m.protocol = "tcp" /\ config.upstream # "none" -> "dial"
                    [] OTHER -> "direct", 0)
        /\ UNCHANGED <<proxy, cut, reached>>

Destination == [host |-> heard.address, port |-> heard.port]

DirectConnect ==
    /\ net.pc = "direct"
    /\ \/ /\ Connected
          /\ IF heard.protocol = "udp" THEN UNCHANGED <<proxy, reached>>
             ELSE reached' = Destination /\ proxy' = TargetData
       \/ NetFails /\ UNCHANGED <<proxy, reached>>
    /\ UNCHANGED cut

(* The first request to the proxy, and its answer.                         *)
DialSocks5 ==
    /\ config.upstream = "socks5"
    /\ Waits("method", 2)
    /\ proxy' \in {<<5, IF config.proxyAuth THEN 2 ELSE 0>>, <<5, 255>>}
    /\ UNCHANGED reached

(* CONNECT host:port.  An IPv6 host is not put in brackets: the proxy      *)
(* takes a colon that a port follows for the end of the host, or refuses.  *)
PortText(n) == (IF n < Base THEN <<>> ELSE ByteText(n \div Base)) \o ByteText(n % Base)
IsPortText(t) ==
    IsByteText(t) \/ (Len(t) = 4 /\ IsByteText(SubSeq(t, 1, 2)) /\ IsByteText(Drop(t, 2)))
PortValue(t) ==
    IF Len(t) = 2 THEN ByteValue(t)
    ELSE Base * ByteValue(SubSeq(t, 1, 2)) + ByteValue(Drop(t, 2))

Authority(host, port) == Encode(host \o <<Colon>> \o PortText(port))

Readings(bytes) ==
    {[host |-> Decode(SubSeq(bytes, 1, k - 1)), port |-> PortValue(Drop(bytes, k))] :
        k \in {i \in DOMAIN bytes : bytes[i] = Colon /\ IsPortText(Drop(bytes, i))}}

DialHttp ==
    /\ config.upstream = "http"
    /\ Waits("http", 1024)
    /\ \/ /\ proxy' = <<200, HttpBlank>> \o TargetData
          /\ reached' \in Readings(Authority(heard.address, heard.port))
       \/ proxy' = <<403, HttpBlank>> /\ UNCHANGED reached

DialProxy ==
    /\ net.pc = "dial"
    /\ (NetFails /\ UNCHANGED <<proxy, reached>>) \/ DialSocks5 \/ DialHttp
    /\ UNCHANGED cut

(* Nothing is left to come only after the proxy has closed.                *)
NetRecv(at, data) ==
    /\ net.pc = at /\ Received(proxy, net.need, TRUE, data)
    /\ cut' = (cut \/ Len(data) < net.need)

Chunks == {SubSeq(proxy, 1, k) : k \in 0..Len(proxy)}
NetWhole(data) == Len(data) = net.need
Rest(data) == Drop(proxy, Len(data))

(* The connect request as bytes, and the host the proxy reads in it.       *)
UpstreamHost(t) ==
    CASE IsV4Text(t) -> <<1, ByteValue(t)>>
      [] IsV6Text(t) -> <<4, 0, ByteValue(Tail(t))>>
      [] OTHER -> <<3>> \o <<Len(Encode(t))>> \o Encode(t)

ProxyHost(r) == HostText(r[1], IF r[1] = 3 THEN Drop(r, 2) ELSE Drop(r, 1))

SendConnectRequest(data) ==
    /\ Waits("reply", 4)
    /\ \/ /\ reached' = [host |-> ProxyHost(UpstreamHost(heard.address)), port |-> heard.port]
          /\ \E atyp \in {1, 3, 4} : proxy' = Rest(data) \o ProxyReply(TRUE, atyp)
       \/ proxy' = Rest(data) \o ProxyReply(FALSE, 1) /\ UNCHANGED reached

MethodChosen ==
    \E data \in Chunks :
        /\ NetRecv("method", data)
        /\ IF NetWhole(data) /\ data[2] = 2
             THEN /\ Waits("auth", 2)
                  /\ proxy' \in {Rest(data) \o <<1, 0>>, Rest(data) \o <<1, 1>>}
                  /\ UNCHANGED reached
           ELSE IF NetWhole(data) /\ data[2] = 0
             THEN SendConnectRequest(data)
           ELSE NetFails /\ proxy' = Rest(data) /\ UNCHANGED reached

Authenticated ==
    \E data \in Chunks :
        /\ NetRecv("auth", data)
        /\ IF data = <<1, 0>> THEN SendConnectRequest(data)
           ELSE NetFails /\ proxy' = Rest(data) /\ UNCHANGED reached

Disconnected == proxy' = <<>> /\ reached' = None

ProxyReplies ==
    \E data \in Chunks :
        /\ NetRecv("reply", data)
        /\ IF NetWhole(data) /\ data[1] = 5 /\ data[2] = 0
             THEN /\ Waits(IF data[4] = 3 THEN "blen" ELSE "skip",
                           IF data[4] = 3 THEN 1 ELSE IF data[4] = 1 THEN 3 ELSE 4)
                  /\ proxy' = Rest(data) /\ UNCHANGED reached
             ELSE NetFails /\ Disconnected

MutForgetBindPort ==
    \E data \in Chunks :
        /\ NetRecv("blen", data)
        /\ IF data = <<>> THEN NetFails /\ Disconnected
           ELSE /\ Waits("skip", data[1])
                /\ proxy' = Rest(data) /\ UNCHANGED reached

(* The bound address is read and forgotten, also how much of it came.      *)
BindLength ==
    \E data \in Chunks :
        /\ NetRecv("blen", data)
        /\ IF data = <<>> THEN NetFails /\ Disconnected
           ELSE /\ Waits("skip", data[1] + 2)
                /\ proxy' = Rest(data) /\ UNCHANGED reached

SkipBind ==
    \E data \in Chunks :
        /\ NetRecv("skip", data)
        /\ Connected
        /\ proxy' = Rest(data) /\ UNCHANGED reached

(* Read until the blank line; what follows it in the last chunk is gone.   *)
HttpReply ==
    \E data \in Chunks :
        LET head == net.head \o data
        IN  /\ net.pc = "http" /\ Received(proxy, net.need, TRUE, data)
            /\ IF data = <<>> THEN NetFails /\ Disconnected
               ELSE IF ~Contains(head, HttpBlank)
                 THEN /\ net' = [net EXCEPT !.head = head]
                      /\ proxy' = Rest(data)
                      /\ UNCHANGED <<programVars, req, wireVars, reached>>
               ELSE IF head[1] = 200
                 THEN Connected /\ proxy' = Rest(data) /\ UNCHANGED reached
               ELSE NetFails /\ Disconnected
            /\ UNCHANGED cut

(* The proxy closes before all of its reply is sent.                       *)
ProxyCloses ==
    /\ net.pc \in {"method", "auth", "reply", "blen", "skip", "http"}
    /\ \E k \in 0..(Len(proxy) - 1) : proxy' = SubSeq(proxy, 1, k)
    /\ cut' = TRUE
    /\ UNCHANGED <<programVars, req, wireVars, net, reached>>

NetStep ==
    \/ ConnectArrives \/ DirectConnect \/ DialProxy \/ MethodChosen \/ Authenticated
    \/ ProxyReplies \/ BindLength \/ SkipBind \/ HttpReply
    \/ ProxyCloses
-----------------------------------------------------------------------------
(* The program gives up.                                                   *)
ProgramLeaves ==
    /\ ask # None /\ ~left /\ req.pc # "done"
    /\ left' = TRUE
    /\ UNCHANGED <<config, ask, input, short, req, wireVars, netVars>>

(* Any other message crosses the same WebSocket.                           *)
OtherMessage ==
    /\ ask = None /\ req.pc # "done"
    /\ \E m \in Others : SendMessage(m)
    /\ req' = [req EXCEPT !.pc = "done"]
    /\ UNCHANGED <<programVars, netVars>>

OtherArrives ==
    /\ wire # None /\ wire # Raises /\ wire.type \notin {"connect", "connect_response"}
    /\ heard' = Parse(wire) /\ wire' = None
    /\ UNCHANGED <<programVars, req, sent, netVars>>

RequestNext ==
    ReadRequest \/ ResponseArrives \/ GiveUp \/ NetStep \/ ProgramLeaves
      \/ OtherMessage \/ OtherArrives

RequestSpec == RequestInit /\ [][RequestNext]_requestVars

(* What the program has sent is read, and the timeout of the answer fires; *)
(* the net side and its proxy may stall.                                   *)
RequestFairSpec ==
    RequestSpec /\ WF_requestVars(ReadRequest) /\ WF_requestVars(GiveUp)
-----------------------------------------------------------------------------
Texts(m) ==
    {m[f] : f \in DOMAIN m \cap {"token", "error", "address", "target_addr"}} \ {None}

(* What the code sends: ASCII outside of documents, and a failure says why. *)
Sendable(m) ==
    /\ \A t \in Texts(m) : IsAscii(t)
    /\ m.type = "connect_response" => m.success \/ m.error # None
    /\ m.type = "connector_response" => m.success \/ Given(m.error)

(* A message as the other side sees it: what is not written is None.       *)
Delivered(m) ==
    CASE m.type \in {"auth_response", "disconnect"} /\ m.error = <<>> -> [m EXCEPT !.error = None]
      [] m.type = "connector_response" /\ m.token = <<>> -> [m EXCEPT !.token = None]
      [] m.type = "data" /\ m.protocol = "udp" ->
            [m EXCEPT !.address = IF @ = None THEN <<>> ELSE @, !.port = OrZero(@),
                      !.target_addr = IF @ = None THEN <<>> ELSE @, !.target_port = OrZero(@)]
      [] OTHER -> m

(* A message that can be packed arrives as it was sent: every field that   *)
(* pack_message writes is where parse_message looks for it, whatever the   *)
(* lengths and whichever optional fields are left out                      *)
(* (message.py:202-309, 312-507).                                          *)
RoundTrip ==
    sent # None /\ wire = None /\ Sendable(sent) => heard = Delivered(sent)

(* The connection leads to the host and port that the program asked for:   *)
(* both are text and bytes by turns in the request, in the Connect message *)
(* (relay.py:317-338; message.py:224-229, 353-361) and in what the net     *)
(* side writes to a SOCKS5 or HTTP proxy, which reads it back              *)
(* (relay.py:1027-1051, 1114-1115), and a host may contain the colon that  *)
(* the HTTP proxy looks for.  Handshakes with a field cut in two are left  *)
(* out: the relay takes the piece for the field.                           *)
ConnectsAsAsked ==
    (reached # None /\ ~short /\ IsAscii(HostText(ask.atyp, ask.host))) =>
        reached = [host |-> HostText(ask.atyp, ask.host), port |-> ask.port]

(* The relay starts reading the target's stream at its first byte, behind  *)
(* the reply of the SOCKS5 proxy, as long as no field of that reply is cut *)
(* (relay.py:1053-1070).                                                   *)
StreamStartsAfterReply ==
    net.pc = "connected" /\ reached # None /\ config.upstream # "http" /\ ~cut =>
        proxy = TargetData

(* A program is told of success only after the net side has connected for  *)
(* it, and where credentials are required only after it has given them     *)
(* (relay.py:261-288, 365-386).                                            *)
SuccessIsEarned ==
    /\ req.got = "success" => net.pc = "connected"
    /\ net.pc # "idle" /\ config.auth /\ ~short =>
          Decode(ask.user) = User /\ Decode(ask.password) = Password

(* Liveness: every request comes to an end, also when the answer of the    *)
(* net side cannot be packed or never comes (relay.py:256-374), unless the *)
(* handshake waits for bytes that were read before: because a field was    *)
(* cut, or because one recv of a refusal took the request along with the   *)
(* greeting (relay.py:224-231).                                            *)
RequestEnds == ask # None ~> (req.pc = "done" \/ short)
=============================================================================
