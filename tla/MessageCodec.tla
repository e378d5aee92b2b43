---------------------------- MODULE MessageCodec ----------------------------
(***************************************************************************)
(* The binary messages of the tunnel (message.py): pack_message, what it   *)
(* writes and when it raises, and parse_message, what it reads and what it *)
(* refuses.                                                                *)
(*                                                                         *)
(* A byte has Base values, 256 in the code and 8 for TLC; UTF-8 is scaled  *)
(* with it.  The type of a message stands for its first two bytes.         *)
(***************************************************************************)
EXTENDS Integers, Sequences, SequencesExt

CONSTANTS Base,    \* values of a byte
          IdLen,   \* bytes of a UUID
          None, Raises

Byte == 0..(Base - 1)
Half == Base \div 2

(***************************************************************************)
(* Text: a character below Half is one byte; any other is named by its     *)
(* second byte, the first one is Lead.                                     *)
(***************************************************************************)
Lead == Base - 1
Ascii == 0..(Half - 1)
Utf8(c) == IF c \in Ascii THEN <<c>> ELSE <<Lead, c>>
Encode(text) == FlattenSeq([i \in DOMAIN text |-> Utf8(text[i])])

Decode(bytes) ==
    IF \A i \in 0..Len(bytes) :
          (i > 0 /\ bytes[i] = Lead)
             <=> (i < Len(bytes) /\ bytes[i + 1] \notin Ascii \cup {Lead})
      THEN FlattenSeq([i \in DOMAIN bytes |-> IF bytes[i] = Lead THEN <<>> ELSE <<bytes[i]>>])
      ELSE Raises

IsAscii(text) == \A i \in DOMAIN text : text[i] \in Ascii

(* json.dumps escapes every character to ASCII; loads is its inverse.      *)
Dumps(text) ==
    [i \in 1..(2 * Len(text)) |->
        IF i % 2 = 1 THEN text[(i + 1) \div 2] \div Half ELSE text[i \div 2] % Half]
Loads(bytes) ==
    IF Len(bytes) % 2 = 0 /\ IsAscii(bytes)
      THEN [i \in 1..(Len(bytes) \div 2) |-> Half * bytes[2 * i - 1] + bytes[2 * i]]
      ELSE Raises

(* A gzip file has a header and, at its end, the length of the data.       *)
Gzip(data) == <<1>> \o data \o <<Len(data) % Base>>
Gunzip(z) ==
    IF Len(z) >= 2 /\ z[1] = 1 /\ z[Len(z)] = (Len(z) - 2) % Base
      THEN SubSeq(z, 2, Len(z) - 1) ELSE Raises
-----------------------------------------------------------------------------
(***************************************************************************)
(* The messages, as their classes and the code that builds them allow.     *)
(***************************************************************************)
Str == Seq(Nat)
Uuid == [1..IdLen -> Byte]
Maybe(S) == S \cup {None}

AuthMessage == [type : {"auth"}, token : Str, reverse : BOOLEAN, instance : Uuid]
AuthResponseMessage ==
    [type : {"auth_response"}, success : {TRUE}, error : {None}]
      \cup [type : {"auth_response"}, success : {FALSE}, error : Maybe(Str)]
ConnectMessage ==
    [type : {"connect"}, protocol : {"tcp"}, id : Uuid, address : Str, port : Nat]
      \cup [type : {"connect"}, protocol : {"udp"}, id : Uuid, address : {None}, port : {None}]
ConnectResponseMessage ==
    [type : {"connect_response"}, success : {TRUE}, id : Uuid, error : {None}]
      \cup [type : {"connect_response"}, success : {FALSE}, id : Uuid, error : Maybe(Str)]
DataMessage ==
    [type : {"data"}, protocol : {"tcp"}, id : Uuid, compression : Nat, data : Seq(Byte),
     address : {None}, port : {None}, target_addr : {None}, target_port : {None}]
      \cup [type : {"data"}, protocol : {"udp"}, id : Uuid, compression : Nat,
            data : Seq(Byte), address : Maybe(Str), port : Maybe(Nat),
            target_addr : Maybe(Str), target_port : Maybe(Nat)]
DisconnectMessage == [type : {"disconnect"}, id : Uuid, error : Maybe(Str)]
ConnectorMessage ==
    [type : {"connector"}, id : Uuid, token : Str, operation : {"add", "remove"}]
ConnectorResponseMessage ==
    [type : {"connector_response"}, id : Uuid, success : {TRUE}, error : {None},
     token : Maybe(Str)]
      \cup [type : {"connector_response"}, id : Uuid, success : {FALSE}, error : Maybe(Str),
            token : {None}]
DocumentMessage == [type : {"log", "partners"}, text : Seq(Byte)]

Message ==
    AuthMessage \cup AuthResponseMessage \cup ConnectMessage \cup ConnectResponseMessage
      \cup DataMessage \cup DisconnectMessage \cup ConnectorMessage
      \cup ConnectorResponseMessage \cup DocumentMessage

Types == {"auth", "auth_response", "connect", "connect_response", "data", "disconnect",
          "connector", "connector_response", "log", "partners"}

(* A message as bytes, and a field that parse_message has read.            *)
PackedMessage == [type : Types, payload : Seq(Byte)]
Field == [value : Maybe(Str) \cup [address : Maybe(Str), port : Maybe(Nat)], rest : Str]

(* The exception is no result of a function, and None is no value.         *)
ASSUME CodecAssumption ==
    /\ Base \in Nat /\ Base >= 8 /\ Base % 2 = 0 /\ IdLen \in Nat
    /\ None # Raises /\ None \notin Nat
    /\ \A x \in {None, Raises} : x \notin Str /\ x \notin PackedMessage /\ x \notin Message
    /\ Raises \notin Field
-----------------------------------------------------------------------------
(***************************************************************************)
(* pack_message.  A field is a sequence of bytes; one with a number that   *)
(* is no byte makes append or struct.pack raise.                           *)
(***************************************************************************)
Short(n) == <<n \div Base, n % Base>>
Long(n) == Short(n \div (Base * Base)) \o Short(n % (Base * Base))
Flag(b) == <<IF b THEN 1 ELSE 0>>
Text(text) == <<Len(text)>> \o Encode(text)
Given(text) == text # None /\ text # <<>>
Optional(text) == IF Given(text) THEN Text(text) ELSE <<>>
OrZero(v) == IF v = None THEN 0 ELSE v

Protocol(p) == <<IF p = "tcp" THEN 1 ELSE IF p = "udp" THEN 2 ELSE 0>>
Operation(o) == <<IF o = "add" THEN 1 ELSE IF o = "remove" THEN 2 ELSE 0>>

Target(m) ==
    IF m.protocol # "tcp" THEN <<>>
    ELSE IF m.address = None \/ m.port = None THEN <<Base>>
    ELSE Text(m.address) \o Short(m.port)

MutEndpoint(address, port) == Optional(address) \o Short(OrZero(port))

Endpoint(address, port) ==
    (IF Given(address) THEN Text(address) ELSE <<0>>) \o Short(OrZero(port))

Contents(m) == IF m.compression = 1 THEN Gzip(m.data) ELSE m.data

Payload(m) ==
    CASE m.type = "auth" -> Text(m.token) \o Flag(m.reverse) \o m.instance
      [] m.type = "auth_response" ->
            Flag(m.success) \o (IF m.success THEN <<>> ELSE Optional(m.error))
      [] m.type = "connect" -> Protocol(m.protocol) \o m.id \o Target(m)
      [] m.type = "connect_response" ->
            Flag(m.success) \o m.id
               \o (IF m.success \/ m.error = None THEN <<>> ELSE Text(m.error))
      [] m.type = "data" ->
            Protocol(m.protocol) \o m.id \o <<m.compression>>
               \o Long(Len(Contents(m))) \o Contents(m)
               \o (IF m.protocol = "udp"
                     THEN Endpoint(m.address, m.port) \o Endpoint(m.target_addr, m.target_port)
                     ELSE <<>>)
      [] m.type = "disconnect" -> m.id \o Optional(m.error)
      [] m.type = "connector" -> m.id \o Text(m.token) \o Operation(m.operation)
      [] m.type = "connector_response" ->
            m.id \o Flag(m.success)
               \o (IF m.success THEN Optional(m.token) ELSE Optional(m.error))
      [] m.type \in {"log", "partners"} -> Long(Len(Dumps(m.text))) \o Dumps(m.text)

Pack(m) ==
    IF \A i \in DOMAIN Payload(m) : Payload(m)[i] \in Byte
      THEN [type |-> m.type, payload |-> Payload(m)]
      ELSE Raises
-----------------------------------------------------------------------------
(***************************************************************************)
(* parse_message.  A parser reads one field at the front of the payload p; *)
(* [value, rest] is what it read and what follows, Raises that it refuses. *)
(***************************************************************************)
Drop(p, n) == SubSeq(p, n + 1, Len(p))
Number(b) ==
    CASE Len(b) = 1 -> b[1]
      [] Len(b) = 2 -> Base * b[1] + b[2]
      [] Len(b) = 4 -> Base * Base * (Base * b[1] + b[2]) + Base * b[3] + b[4]

Fixed(p, n) ==
    IF Len(p) < n THEN Raises ELSE [value |-> SubSeq(p, 1, n), rest |-> Drop(p, n)]

(* A length of so many bytes, and as many bytes as it says.                *)
Counted(p, n) ==
    IF Len(p) < n THEN Raises ELSE Fixed(Drop(p, n), Number(SubSeq(p, 1, n)))

TextField(p) ==
    LET f == Counted(p, 1)
    IN  IF f = Raises \/ Decode(f.value) = Raises THEN Raises
        ELSE [value |-> Decode(f.value), rest |-> f.rest]

Absent(p) == [value |-> None, rest |-> p]
OptionalText(p) == IF p = <<>> THEN Absent(p) ELSE TextField(p)
EndpointField(p) ==
    LET a == TextField(p)
        n == IF a = Raises THEN Raises ELSE Fixed(a.rest, 2)
    IN  IF n = Raises THEN Raises
        ELSE [value |-> [address |-> a.value, port |-> Number(n.value)], rest |-> n.rest]

ProtocolName(b) == IF b = <<1>> THEN "tcp" ELSE IF b = <<2>> THEN "udp" ELSE ""
OperationName(b) == IF b = <<1>> THEN "add" ELSE IF b = <<2>> THEN "remove" ELSE ""
NoneIfEmpty(text) == IF text = <<>> THEN None ELSE text

(* The fixed fields in front, then what depends on them.                   *)
Then(f, next(_, _)) == IF f = Raises THEN Raises ELSE next(f.value, f.rest)

ParseAuth(p) ==
    Then(TextField(p), LAMBDA token, q :
      Then(Fixed(q, 1 + IdLen), LAMBDA v, r :
        [type |-> "auth", token |-> token, reverse |-> v[1] # 0, instance |-> Tail(v)]))

ParseAuthResponse(p) ==
    Then(Fixed(p, 1), LAMBDA ok, q :
      Then(IF ok = <<0>> THEN OptionalText(q) ELSE Absent(q), LAMBDA error, r :
        [type |-> "auth_response", success |-> ok # <<0>>, error |-> error]))

ParseConnect(p) ==
    Then(Fixed(p, 1 + IdLen), LAMBDA v, q :
      Then(IF v[1] = 1 THEN EndpointField(q)
           ELSE [value |-> [address |-> None, port |-> None], rest |-> q], LAMBDA e, r :
        [type |-> "connect", protocol |-> ProtocolName(<<v[1]>>), id |-> Tail(v),
         address |-> e.address, port |-> e.port]))

ParseConnectResponse(p) ==
    Then(Fixed(p, 1 + IdLen), LAMBDA v, q :
      Then(IF v[1] = 0 THEN TextField(q) ELSE Absent(q), LAMBDA error, r :
        [type |-> "connect_response", success |-> v[1] # 0, id |-> Tail(v), error |-> error]))

ParseData(p) ==
    Then(Fixed(p, 1 + IdLen + 1), LAMBDA v, q :
      Then(Counted(q, 4), LAMBDA raw, r :
        LET data == IF v[IdLen + 2] = 1 THEN Gunzip(raw) ELSE raw
            nowhere == [value |-> [address |-> None, port |-> None], rest |-> r]
        IN  IF data = Raises THEN Raises
            ELSE Then(IF v[1] = 2 THEN EndpointField(r) ELSE nowhere, LAMBDA a, s :
                   Then(IF v[1] = 2 THEN EndpointField(s) ELSE nowhere, LAMBDA t, u :
                     [type |-> "data", protocol |-> ProtocolName(<<v[1]>>),
                      id |-> SubSeq(v, 2, IdLen + 1), compression |-> v[IdLen + 2],
                      data |-> data, address |-> a.address, port |-> a.port,
                      target_addr |-> t.address, target_port |-> t.port]))))

ParseDisconnect(p) ==
    Then(Fixed(p, IdLen), LAMBDA id, q :
      Then(OptionalText(q), LAMBDA error, r :
        [type |-> "disconnect", id |-> id, error |-> NoneIfEmpty(error)]))

ParseConnector(p) ==
    Then(Fixed(p, IdLen), LAMBDA id, q :
      Then(TextField(q), LAMBDA token, r :
        Then(Fixed(r, 1), LAMBDA op, s :
          IF OperationName(op) = "" THEN Raises
          ELSE [type |-> "connector", id |-> id, token |-> token,
                operation |-> OperationName(op)])))

ParseConnectorResponse(p) ==
    Then(Fixed(p, IdLen + 1), LAMBDA v, q :
      LET ok == v[IdLen + 1] # 0
      IN  Then(IF ok THEN OptionalText(q) ELSE TextField(q), LAMBDA text, r :
            [type |-> "connector_response", success |-> ok, id |-> SubSeq(v, 1, IdLen),
             error |-> IF ok THEN None ELSE text, token |-> IF ok THEN text ELSE None]))

ParseDocument(type, p) ==
    Then(Counted(p, 4), LAMBDA raw, q :
      IF Loads(raw) = Raises THEN Raises ELSE [type |-> type, text |-> Loads(raw)])

Parse(b) ==
    CASE b.type = "auth" -> ParseAuth(b.payload)
      [] b.type = "auth_response" -> ParseAuthResponse(b.payload)
      [] b.type = "connect" -> ParseConnect(b.payload)
      [] b.type = "connect_response" -> ParseConnectResponse(b.payload)
      [] b.type = "data" -> ParseData(b.payload)
      [] b.type = "disconnect" -> ParseDisconnect(b.payload)
      [] b.type = "connector" -> ParseConnector(b.payload)
      [] b.type = "connector_response" -> ParseConnectorResponse(b.payload)
      [] b.type \in {"log", "partners"} -> ParseDocument(b.type, b.payload)
=============================================================================
