----------------------- MODULE UdpAssociation_proofs -----------------------
(***************************************************************************)
(* Theorem about UdpAssociation, for any sockets, targets and numbers of   *)
(* datagrams.                                                              *)
(***************************************************************************)
EXTENDS UdpAssociation, SequenceTheorems, TLAPS

(* Forwarders run in the forwarding phase only.                            *)
Forwarders ==
    \A s \in Sides : end[s].rd = "on" \/ end[s].wr = "on" => end[s].pc = "forward"

(***************************************************************************)
(* The answer of the net side is the first message it sends, and the SOCKS *)
(* side forwards only after it has taken the answer off its queue.         *)
(***************************************************************************)
Answer ==
    /\ end["net"].pc = "waiting" =>
         /\ wire["socks"] = <<>> /\ end["socks"].queue = <<>> /\ end["socks"].pc # "forward"
    /\ \A i \in DOMAIN wire["socks"] :
         wire["socks"][i].kind = "accepted" =>
            i = 1 /\ end["socks"].queue = <<>> /\ end["socks"].pc # "forward"
    /\ \A i \in DOMAIN wire["net"] : wire["net"][i].kind # "accepted"
    /\ \A i \in DOMAIN end["net"].queue : end["net"].queue[i].kind = "data"
    /\ end["socks"].pc = "forward" =>
         \A i \in DOMAIN end["socks"].queue : end["socks"].queue[i].kind = "data"

(***************************************************************************)
(* Datagrams are numbered as they are sent.  Those a program or a target   *)
(* was given have numbers up to some a, those in the queue have greater    *)
(* ones up to b, those under way up to c, and those not forwarded yet come *)
(* last.                                                                   *)
(***************************************************************************)
GotUpTo(q, a) == Increasing(q) /\ \A i \in DOMAIN q : q[i][1] <= a

MessagesIn(q, a, b) ==
    \A i \in 1..Len(q) : q[i].kind = "data" =>
        /\ a < q[i].n /\ q[i].n <= b
        /\ \A j \in 1..Len(q) : j < i /\ q[j].kind = "data" => q[j].n < q[i].n

InboxIn(q, c, n) ==
    \A i \in 1..Len(q) : /\ c < q[i] /\ q[i] <= n
                         /\ \A j \in 1..Len(q) : j < i => q[j] < q[i]

GotFrom(s) == IF s = "socks" THEN got.up ELSE got.down
SentFrom(s) == IF s = "socks" THEN Len(ups) ELSE Len(downs)

Levels(s, a, b, c) ==
    /\ a <= b /\ b <= c /\ c <= SentFrom(s)
    /\ GotUpTo(GotFrom(s), a)
    /\ MessagesIn(end[Other(s)].queue, a, b)
    /\ MessagesIn(wire[Other(s)], b, c)
    /\ InboxIn(end[s].inbox, c, SentFrom(s))

InOrder(s) == \E a, b, c \in Nat : Levels(s, a, b, c)

UdpInv ==
    /\ UdpTypeOK /\ Forwarders /\ Answer
    /\ \A s \in Sides : InOrder(s)
-----------------------------------------------------------------------------
LEMMA OtherSide ==
  /\ Other("socks") = "net" /\ Other("net") = "socks"
  /\ \A s \in Sides : Other(s) \in Sides /\ Other(s) # s /\ Other(Other(s)) = s
<1>1. \A s \in Sides : Other(s) \in Sides /\ Other(s) # s
  BY DEF Other, Sides
<1> QED
  BY <1>1 DEF Sides

(***************************************************************************)
(* What taking the first element and adding one does to the orders.        *)
(***************************************************************************)
LEMMA TailOf ==
  ASSUME NEW S, NEW q \in Seq(S), q # <<>>
  PROVE  /\ Len(q) \in Nat /\ Len(q) >= 1 /\ Head(q) = q[1] /\ q[1] \in S /\ 1 \in DOMAIN q
         /\ DOMAIN q = 1..Len(q)
         /\ Tail(q) \in Seq(S) /\ Len(Tail(q)) = Len(q) - 1 /\ DOMAIN Tail(q) = 1..(Len(q) - 1)
         /\ \A i \in 1..(Len(q) - 1) : Tail(q)[i] = q[i + 1] /\ i + 1 \in 1..Len(q) /\ i + 1 # 1
<1>1. Len(q) \in Nat /\ Len(q) >= 1 /\ DOMAIN q = 1..Len(q)
  BY EmptySeq, LenProperties
<1>2. Head(q) = q[1] /\ 1 \in DOMAIN q /\ q[1] \in S
  BY <1>1
<1>3. /\ Tail(q) \in Seq(S) /\ Len(Tail(q)) = Len(q) - 1
      /\ \A i \in 1..Len(Tail(q)) : Tail(q)[i] = q[i + 1]
  BY HeadTailProperties
<1>4. DOMAIN Tail(q) = 1..(Len(q) - 1)
  BY <1>3, LenProperties
<1>5. \A i \in 1..(Len(q) - 1) : i + 1 \in 1..Len(q) /\ i + 1 # 1
  BY <1>1
<1> QED
  BY <1>1, <1>2, <1>3, <1>4, <1>5

LEMMA AppendOf ==
  ASSUME NEW S, NEW q \in Seq(S), NEW e \in S
  PROVE  /\ Len(q) \in Nat /\ DOMAIN q = 1..Len(q)
         /\ Append(q, e) \in Seq(S) /\ Len(Append(q, e)) = Len(q) + 1
         /\ DOMAIN Append(q, e) = 1..(Len(q) + 1)
         /\ Append(q, e)[Len(q) + 1] = e
         /\ \A i \in 1..Len(q) : Append(q, e)[i] = q[i]
  BY AppendProperties, LenProperties

LEMMA MessagesNat == \A m \in Messages : m.n \in Nat /\ m.kind \in {"accepted", "disconnect", "data"}
                                         /\ (m.kind = "data" => m.n \in Numbers)
  BY UdpAssumption DEF Messages, Signal, Datagram, Numbers

LEMMA MessagesTail ==
  ASSUME NEW q \in Seq(Messages), q # <<>>, NEW a \in Nat, NEW b \in Nat, MessagesIn(q, a, b)
  PROVE  /\ MessagesIn(Tail(q), a, b)
         /\ q[1].kind = "data" => MessagesIn(Tail(q), q[1].n, b) /\ a < q[1].n /\ q[1].n <= b
<1>1. /\ Len(q) \in Nat /\ Len(q) >= 1 /\ Len(Tail(q)) = Len(q) - 1
      /\ \A i \in 1..(Len(q) - 1) : Tail(q)[i] = q[i + 1] /\ i + 1 \in 1..Len(q)
  BY TailOf
<1>2. ASSUME NEW i \in 1..(Len(q) - 1), Tail(q)[i].kind = "data"
      PROVE  /\ a < Tail(q)[i].n /\ Tail(q)[i].n <= b
             /\ q[1].kind = "data" => q[1].n < Tail(q)[i].n
             /\ \A j \in 1..(Len(q) - 1) :
                  j < i /\ Tail(q)[j].kind = "data" => Tail(q)[j].n < Tail(q)[i].n
  <2>1. Tail(q)[i] = q[i + 1] /\ i + 1 \in 1..Len(q) /\ q[i + 1].kind = "data"
    BY <1>1, <1>2
  <2>2. /\ a < q[i + 1].n /\ q[i + 1].n <= b
        /\ \A j \in 1..Len(q) : j < i + 1 /\ q[j].kind = "data" => q[j].n < q[i + 1].n
    BY <2>1 DEF MessagesIn
  <2>3. 1 \in 1..Len(q) /\ 1 < i + 1
    BY <1>1
  <2>4. ASSUME NEW j \in 1..(Len(q) - 1), j < i, Tail(q)[j].kind = "data"
        PROVE  Tail(q)[j].n < Tail(q)[i].n
    <3>1. Tail(q)[j] = q[j + 1] /\ j + 1 \in 1..Len(q) /\ j + 1 < i + 1
      BY <1>1, <2>4
    <3> QED
      BY <2>1, <2>2, <2>4, <3>1
  <2> QED
    BY <2>1, <2>2, <2>3, <2>4
<1>3. q[1].kind = "data" => a < q[1].n /\ q[1].n <= b
  <2>1. 1 \in 1..Len(q)
    BY <1>1
  <2> QED
    BY <2>1 DEF MessagesIn
<1> QED
  BY <1>1, <1>2, <1>3 DEF MessagesIn

LEMMA MessagesAppend ==
  ASSUME NEW q \in Seq(Messages), NEW m \in Messages, NEW a \in Nat, NEW b \in Nat, NEW c \in Nat,
         MessagesIn(q, a, b), b <= c, m.kind = "data" => a < m.n /\ b < m.n /\ m.n <= c
  PROVE  MessagesIn(Append(q, m), a, c)
<1> DEFINE r == Append(q, m)
<1>1. /\ Len(q) \in Nat /\ Len(r) = Len(q) + 1 /\ r[Len(q) + 1] = m
      /\ \A i \in 1..Len(q) : r[i] = q[i] /\ q[i] \in Messages
  BY AppendOf
<1> HIDE DEF r
<1>2. ASSUME NEW i \in 1..(Len(q) + 1), r[i].kind = "data"
      PROVE  /\ a < r[i].n /\ r[i].n <= c
             /\ \A j \in 1..(Len(q) + 1) : j < i /\ r[j].kind = "data" => r[j].n < r[i].n
  <2>1. CASE i = Len(q) + 1
    <3>1. \A j \in 1..Len(q) : q[j].kind = "data" => q[j].n <= b /\ q[j].n \in Nat
      BY <1>1, MessagesNat DEF MessagesIn
    <3>2. \A j \in 1..(Len(q) + 1) : j < i => j \in 1..Len(q) /\ r[j] = q[j]
      BY <1>1, <2>1
    <3>3. r[i] = m /\ m.n \in Nat
      BY <1>1, <2>1, MessagesNat
    <3>4. ASSUME NEW j \in 1..(Len(q) + 1), j < i, r[j].kind = "data"
          PROVE  r[j].n < r[i].n
      BY <1>2, <3>1, <3>2, <3>3, <3>4
    <3> QED
      BY <1>2, <3>3, <3>4
  <2>2. CASE i # Len(q) + 1
    <3>1. i \in 1..Len(q) /\ r[i] = q[i] /\ q[i].n \in Nat
      BY <1>1, <2>2, MessagesNat
    <3>2. /\ a < q[i].n /\ q[i].n <= b
          /\ \A j \in 1..Len(q) : j < i /\ q[j].kind = "data" => q[j].n < q[i].n
      BY <1>2, <3>1 DEF MessagesIn
    <3>3. \A j \in 1..(Len(q) + 1) : j < i => j \in 1..Len(q) /\ r[j] = q[j]
      BY <1>1, <3>1
    <3> QED
      BY <3>1, <3>2, <3>3
  <2> QED
    BY <2>1, <2>2
<1> QED
  BY <1>1, <1>2 DEF MessagesIn, r

LEMMA InboxTail ==
  ASSUME NEW q \in Seq(Numbers), q # <<>>, NEW c \in Nat, NEW n \in Nat, InboxIn(q, c, n)
  PROVE  InboxIn(Tail(q), q[1], n) /\ c < q[1] /\ q[1] <= n
<1>1. /\ Len(q) \in Nat /\ Len(q) >= 1 /\ Len(Tail(q)) = Len(q) - 1
      /\ \A i \in 1..(Len(q) - 1) : Tail(q)[i] = q[i + 1] /\ i + 1 \in 1..Len(q)
  BY TailOf
<1>2. 1 \in 1..Len(q) /\ \A i \in 1..(Len(q) - 1) : 1 < i + 1
  BY <1>1
<1>3. ASSUME NEW i \in 1..(Len(q) - 1)
      PROVE  /\ q[1] < Tail(q)[i] /\ Tail(q)[i] <= n
             /\ \A j \in 1..(Len(q) - 1) : j < i => Tail(q)[j] < Tail(q)[i]
  <2>1. /\ q[i + 1] <= n /\ \A j \in 1..Len(q) : j < i + 1 => q[j] < q[i + 1]
    BY <1>1 DEF InboxIn
  <2>2. \A j \in 1..(Len(q) - 1) : j < i => j + 1 < i + 1
    BY <1>1
  <2> QED
    BY <1>1, <1>2, <2>1, <2>2
<1>4. c < q[1] /\ q[1] <= n
  BY <1>2 DEF InboxIn
<1> QED
  BY <1>1, <1>3, <1>4 DEF InboxIn

LEMMA InboxAppend ==
  ASSUME NEW q \in Seq(Numbers), NEW c \in Nat, NEW n \in Nat, InboxIn(q, c, n), c <= n,
         n + 1 \in Numbers
  PROVE  InboxIn(Append(q, n + 1), c, n + 1)
<1> DEFINE r == Append(q, n + 1)
<1>1. /\ Len(q) \in Nat /\ Len(r) = Len(q) + 1 /\ r[Len(q) + 1] = n + 1
      /\ \A i \in 1..Len(q) : r[i] = q[i] /\ q[i] \in Nat
  BY AppendOf, UdpAssumption DEF Numbers
<1> HIDE DEF r
<1>2. ASSUME NEW i \in 1..(Len(q) + 1)
      PROVE  /\ c < r[i] /\ r[i] <= n + 1
             /\ \A j \in 1..(Len(q) + 1) : j < i => r[j] < r[i]
  <2>1. \A j \in 1..(Len(q) + 1) : j < i => j \in 1..Len(q) /\ r[j] = q[j]
    BY <1>1
  <2>2. CASE i = Len(q) + 1
    <3>1. \A j \in 1..Len(q) : q[j] <= n /\ q[j] \in Nat
      BY <1>1 DEF InboxIn
    <3> QED
      BY <1>1, <2>1, <2>2, <3>1
  <2>3. CASE i # Len(q) + 1
    <3>1. i \in 1..Len(q) /\ r[i] = q[i] /\ q[i] \in Nat
      BY <1>1, <2>3
    <3>2. c < q[i] /\ q[i] <= n /\ \A j \in 1..Len(q) : j < i => q[j] < q[i]
      BY <3>1 DEF InboxIn
    <3> QED
      BY <2>1, <3>1, <3>2
  <2> QED
    BY <2>2, <2>3
<1> QED
  BY <1>1, <1>2 DEF InboxIn, r

(* What arrives has a greater number than what arrived before.             *)
LEMMA GotAppend ==
  ASSUME NEW S, NEW q \in Seq(S), NEW e \in S, NEW a \in Nat, GotUpTo(q, a),
         \A x \in S : x[1] \in Nat, a < e[1]
  PROVE  GotUpTo(Append(q, e), e[1])
<1> DEFINE r == Append(q, e)
<1>1. /\ Len(q) \in Nat /\ DOMAIN q = 1..Len(q) /\ DOMAIN r = 1..(Len(q) + 1)
      /\ r[Len(q) + 1] = e /\ \A i \in 1..Len(q) : r[i] = q[i] /\ q[i][1] \in Nat
  BY AppendOf
<1>2. \A i \in 1..Len(q) : q[i][1] <= a /\ q[i][1] < e[1] /\ q[i][1] <= e[1]
  BY <1>1 DEF GotUpTo
<1> HIDE DEF r
<1>3. \A i \in DOMAIN r : r[i][1] <= e[1]
  BY <1>1, <1>2
<1>4. ASSUME NEW i \in DOMAIN r, NEW j \in DOMAIN r, i < j
      PROVE  r[i][1] < r[j][1]
  <2>1. i \in 1..Len(q) /\ r[i] = q[i]
    BY <1>1, <1>4
  <2>2. CASE j = Len(q) + 1
    BY <1>1, <1>2, <2>1, <2>2
  <2>3. CASE j # Len(q) + 1
    <3>1. j \in 1..Len(q) /\ r[j] = q[j]
      BY <1>1, <2>3
    <3> QED
      BY <1>1, <1>4, <2>1, <3>1 DEF GotUpTo, Increasing
  <2> QED
    BY <2>2, <2>3
<1> QED
  BY <1>3, <1>4 DEF GotUpTo, Increasing, r
-----------------------------------------------------------------------------
(***************************************************************************)
(* What a step does to the ends and the wires.                             *)
(***************************************************************************)
LEMMA EndUpdates ==
  ASSUME NEW e \in Ends
  PROVE  /\ Forwarding(e) \in Ends /\ Closed(e) \in Ends /\ DisconnectChannel(e) \in Ends
         /\ \A b \in BOOLEAN : [e EXCEPT !.keyed = b] \in Ends /\ [e EXCEPT !.late = b] \in Ends
         /\ \A a \in Sockets \cup {None} : [e EXCEPT !.addr = a] \in Ends
         /\ \A q \in Seq(Messages) : [e EXCEPT !.queue = q] \in Ends
         /\ \A q \in Seq(Numbers) : [e EXCEPT !.inbox = q] \in Ends
         /\ \A r \in {"off", "on", "done"} : [e EXCEPT !.rd = r] \in Ends /\ [e EXCEPT !.wr = r] \in Ends
<1>1. <<>> \in Seq(Messages) /\ <<>> \in Seq(Numbers)
  BY EmptySeq
<1>2. Forwarding(e) \in Ends
  BY DEF Forwarding, Ends
<1>3. Closed(e) \in Ends
  BY <1>1 DEF Closed, Ends
<1>4. DisconnectChannel(e) \in Ends
  BY DEF DisconnectChannel, Ends
<1>5. /\ \A b \in BOOLEAN : [e EXCEPT !.keyed = b] \in Ends /\ [e EXCEPT !.late = b] \in Ends
      /\ \A a \in Sockets \cup {None} : [e EXCEPT !.addr = a] \in Ends
  BY DEF Ends
<1>6. /\ \A q \in Seq(Messages) : [e EXCEPT !.queue = q] \in Ends
      /\ \A q \in Seq(Numbers) : [e EXCEPT !.inbox = q] \in Ends
  BY DEF Ends
<1>7. \A r \in {"off", "on", "done"} : [e EXCEPT !.rd = r] \in Ends /\ [e EXCEPT !.wr = r] \in Ends
  BY DEF Ends
<1> QED
  BY <1>2, <1>3, <1>4, <1>5, <1>6, <1>7

LEMMA SetEndEffect ==
  ASSUME UdpTypeOK, NEW s \in Sides, NEW e \in Ends, SetEnd(s, e)
  PROVE  end' \in [Sides -> Ends] /\ end'[s] = e /\ \A o \in Sides : o # s => end'[o] = end[o]
  BY DEF SetEnd, UdpTypeOK

LEMMA SendEffect ==
  ASSUME UdpTypeOK, NEW s \in Sides, NEW m \in Messages, Send(s, m)
  PROVE  /\ wire' \in [Sides -> Seq(Messages)] /\ wire'[s] = wire[s]
         /\ wire'[Other(s)] \in {wire[Other(s)], Append(wire[Other(s)], m)}
<1>1. wire \in [Sides -> Seq(Messages)] /\ Other(s) \in Sides /\ Other(s) # s
  BY OtherSide DEF UdpTypeOK
<1>2. Append(wire[Other(s)], m) \in Seq(Messages)
  BY <1>1, AppendProperties
<1> QED
  BY <1>1, <1>2 DEF Send

(* An end that is over: its queue and its socket are gone.                 *)
Over(e) ==
    /\ e.pc = "closed" /\ e.rd = "off" /\ e.wr = "off" /\ e.queue = <<>> /\ e.inbox = <<>>

LEMMA ClosedIsOver ==
  ASSUME NEW e \in Ends
  PROVE  /\ Over(Closed(e)) /\ Over([Closed(e) EXCEPT !.keyed = FALSE])
         /\ Over([Closed(e) EXCEPT !.keyed = FALSE, !.addr = None])
         /\ Over(DisconnectChannel(Closed(e)))
         /\ Closed(e).addr = e.addr /\ [Closed(e) EXCEPT !.keyed = FALSE].addr = e.addr
<1> DEFINE c == Closed(e)
<1>1. c \in Ends /\ Over(c) /\ c.addr = e.addr
  <2>1. c \in Ends
    BY EndUpdates
  <2> QED
    BY <2>1 DEF Closed, Ends, Over
<1> HIDE DEF c
<1>2. /\ Over([c EXCEPT !.keyed = FALSE]) /\ [c EXCEPT !.keyed = FALSE].addr = e.addr
      /\ Over([c EXCEPT !.keyed = FALSE, !.addr = None])
  BY <1>1 DEF Over, Ends
<1>3. Over(DisconnectChannel(c))
  BY <1>1 DEF Over, Ends, DisconnectChannel
<1> QED
  BY <1>1, <1>2, <1>3 DEF c

LEMMA LeaveEffect ==
  ASSUME UdpTypeOK, NEW s \in Sides, Leave(s)
  PROVE  /\ end' \in [Sides -> Ends] /\ Over(end'[s]) /\ end'[s].addr = None
         /\ end'[Other(s)] = end[Other(s)]
         /\ wire' \in [Sides -> Seq(Messages)] /\ wire'[s] = wire[s]
         /\ wire'[Other(s)] \in {wire[Other(s)], Append(wire[Other(s)], Signal("disconnect"))}
         /\ UNCHANGED <<server, tcp, ups, downs, got, ws>>
<1> DEFINE e == IF s = "socks" THEN [Closed(end[s]) EXCEPT !.keyed = FALSE, !.addr = None]
                               ELSE DisconnectChannel(Closed(end[s]))
<1>1. end[s] \in Ends /\ Closed(end[s]) \in Ends
  BY EndUpdates DEF UdpTypeOK
<1>2. e \in Ends /\ Over(e) /\ e.addr = None
  <2> DEFINE c == Closed(end[s])
  <2>1. Over([c EXCEPT !.keyed = FALSE, !.addr = None]) /\ Over(DisconnectChannel(c))
    BY <1>1, ClosedIsOver
  <2>2. DisconnectChannel(c) \in Ends
    BY <1>1, EndUpdates
  <2> HIDE DEF c
  <2>3. c \in Ends => /\ [c EXCEPT !.keyed = FALSE, !.addr = None] \in Ends
                      /\ [c EXCEPT !.keyed = FALSE, !.addr = None].addr = None
                      /\ DisconnectChannel(c).addr = None
    BY DEF Ends, DisconnectChannel
  <2> QED
    BY <1>1, <2>1, <2>2, <2>3 DEF c
<1>3. SetEnd(s, e)
  BY DEF Leave
<1> HIDE DEF e
<1>4. end' \in [Sides -> Ends] /\ end'[s] = e /\ end'[Other(s)] = end[Other(s)]
  BY <1>2, <1>3, SetEndEffect, OtherSide
<1>5. Signal("disconnect") \in Messages /\ Send(s, Signal("disconnect"))
  BY DEF Messages, Leave
<1> QED
  BY <1>2, <1>4, <1>5, SendEffect DEF Leave

LEMMA NetAnswersEffect ==
  ASSUME UdpTypeOK, NetAnswers
  PROVE  /\ end["net"].pc = "waiting" /\ end' \in [Sides -> Ends] /\ end'["socks"] = end["socks"]
         /\ end'["net"].pc # "waiting"
         /\ Over(end'["net"]) \/ /\ end'["net"].pc = "forward"
                                  /\ end'["net"].queue = end["net"].queue
                                  /\ end'["net"].inbox = end["net"].inbox
         /\ wire' \in [Sides -> Seq(Messages)] /\ wire'["net"] = wire["net"]
         /\ wire'["socks"] \in {wire["socks"], Append(wire["socks"], Signal("accepted"))}
         /\ UNCHANGED <<server, tcp, ups, downs, got, ws>>
<1>1. "net" \in Sides /\ "socks" \in Sides /\ Other("net") = "socks" /\ end["net"] \in Ends
  BY OtherSide DEF Sides, UdpTypeOK
<1>2. CASE ws = "up"
  <2> DEFINE e == Forwarding(end["net"])
  <2>1. /\ e \in Ends /\ e.pc = "forward" /\ e.queue = end["net"].queue
        /\ e.inbox = end["net"].inbox
    <3>1. e \in Ends
      BY <1>1, EndUpdates
    <3> QED
      BY <1>1, <3>1 DEF Forwarding, Ends
  <2>2. SetEnd("net", e)
    BY <1>2 DEF NetAnswers
  <2> HIDE DEF e
  <2>3. Signal("accepted") \in Messages /\ Send("net", Signal("accepted"))
    BY DEF Messages, NetAnswers
  <2> QED
    BY <1>1, <2>1, <2>2, <2>3, SetEndEffect, SendEffect DEF NetAnswers
<1>3. CASE ws # "up"
  <2> DEFINE e == DisconnectChannel(Closed(end["net"]))
  <2>1. e \in Ends /\ Over(e)
    BY <1>1, EndUpdates, ClosedIsOver
  <2>2. SetEnd("net", e)
    BY <1>3 DEF NetAnswers
  <2> HIDE DEF e
  <2>3. Signal("accepted") \in Messages /\ Send("net", Signal("accepted"))
    BY DEF Messages, NetAnswers
  <2> QED
    BY <1>1, <2>1, <2>2, <2>3, SetEndEffect, SendEffect DEF NetAnswers, Over
<1> QED
  BY <1>2, <1>3

LEMMA SocksHandlerEffect ==
  ASSUME UdpTypeOK, SocksStarts \/ SocksGivesUp
  PROVE  /\ end["socks"].pc = "waiting" /\ end' \in [Sides -> Ends] /\ end'["net"] = end["net"]
         /\ end'["socks"].addr = end["socks"].addr
         /\ \/ Over(end'["socks"])
            \/ /\ end["socks"].queue # <<>> /\ end'["socks"].pc = "forward"
               /\ end'["socks"].queue = <<>> /\ end'["socks"].inbox = end["socks"].inbox
         /\ UNCHANGED <<server, tcp, ups, downs, got, wire, ws>>
<1>1. "net" \in Sides /\ "socks" \in Sides /\ end["socks"] \in Ends
  BY DEF Sides, UdpTypeOK
<1>2. LET e == [Forwarding(end["socks"]) EXCEPT !.queue = <<>>]
      IN  /\ e \in Ends /\ e.pc = "forward" /\ e.queue = <<>> /\ e.inbox = end["socks"].inbox
          /\ e.addr = end["socks"].addr
  BY <1>1, EmptySeq DEF Forwarding, Ends
<1>3. LET e == [Closed(end["socks"]) EXCEPT !.keyed = FALSE]
      IN  e \in Ends /\ Over(e) /\ e.addr = end["socks"].addr
  BY <1>1, EndUpdates, ClosedIsOver
<1>4. CASE SetEnd("socks", [Forwarding(end["socks"]) EXCEPT !.queue = <<>>]) /\ SocksStarts
  BY <1>1, <1>2, <1>4, SetEndEffect DEF SocksStarts
<1>5. CASE SetEnd("socks", [Closed(end["socks"]) EXCEPT !.keyed = FALSE])
  BY <1>1, <1>3, <1>5, SetEndEffect DEF SocksStarts, SocksGivesUp
<1> QED
  BY <1>4, <1>5 DEF SocksStarts, SocksGivesUp

LEMMA CleanupEffect ==
  ASSUME UdpTypeOK, NEW s \in Sides, DelayedCleanup(s)
  PROVE  /\ end' \in [Sides -> Ends]
         /\ \A o \in Sides : /\ end'[o].pc = end[o].pc /\ end'[o].queue = end[o].queue
                             /\ end'[o].rd = end[o].rd /\ end'[o].wr = end[o].wr
                             /\ end'[o].inbox = end[o].inbox /\ end'[o].addr = end[o].addr
         /\ UNCHANGED <<server, tcp, ups, downs, got, wire, ws>>
<1> DEFINE e == [end[s] EXCEPT !.late = FALSE, !.keyed = FALSE]
<1>1. e \in Ends /\ e.pc = end[s].pc /\ e.queue = end[s].queue /\ e.inbox = end[s].inbox
      /\ e.rd = end[s].rd /\ e.wr = end[s].wr /\ e.addr = end[s].addr
  BY DEF UdpTypeOK, Ends
<1>2. SetEnd(s, e)
  BY DEF DelayedCleanup
<1> HIDE DEF e
<1>3. end' \in [Sides -> Ends] /\ end'[s] = e /\ \A o \in Sides : o # s => end'[o] = end[o]
  BY <1>1, <1>2, SetEndEffect
<1> QED
  BY <1>1, <1>3 DEF DelayedCleanup

LEMMA DispatchEffect ==
  ASSUME UdpTypeOK, NEW s \in Sides, Dispatch(s)
  PROVE  /\ wire[s] # <<>> /\ end' \in [Sides -> Ends] /\ end'[Other(s)] = end[Other(s)]
         /\ wire' \in [Sides -> Seq(Messages)] /\ wire'[s] = Tail(wire[s])
         /\ wire'[Other(s)] = wire[Other(s)]
         /\ end'[s].pc = end[s].pc /\ end'[s].inbox = end[s].inbox
         /\ end'[s].wr = end[s].wr /\ end'[s].rd \in {end[s].rd, "done"}
         /\ end'[s].addr \in {end[s].addr, None}
         /\ \/ end'[s].queue = end[s].queue
            \/ /\ wire[s][1].kind # "disconnect" /\ end[s].pc # "closed"
               /\ end'[s].queue = Append(end[s].queue, wire[s][1])
         /\ UNCHANGED <<server, tcp, ups, downs, got, ws>>
<1> DEFINE m == wire[s][1]
<1>1. /\ wire \in [Sides -> Seq(Messages)] /\ end[s] \in Ends /\ Other(s) \in Sides /\ Other(s) # s
      /\ wire[s] # <<>> /\ end[s].queue \in Seq(Messages)
  BY OtherSide DEF UdpTypeOK, Dispatch, Ends
<1>2. Head(wire[s]) = m /\ m \in Messages /\ Tail(wire[s]) \in Seq(Messages)
  BY <1>1, TailOf
<1>3. /\ wire' \in [Sides -> Seq(Messages)] /\ wire'[s] = Tail(wire[s])
      /\ wire'[Other(s)] = wire[Other(s)]
  BY <1>1, <1>2 DEF Dispatch
<1>4. Append(end[s].queue, m) \in Seq(Messages)
  BY <1>1, <1>2, AppendProperties
<1>5. LET e == DisconnectChannel(end[s])
      IN  /\ e \in Ends /\ e.pc = end[s].pc /\ e.inbox = end[s].inbox /\ e.wr = end[s].wr
          /\ e.rd \in {end[s].rd, "done"} /\ e.addr = None /\ e.queue = end[s].queue
  <2>1. DisconnectChannel(end[s]) \in Ends
    BY <1>1, EndUpdates
  <2> QED
    BY <1>1, <2>1 DEF DisconnectChannel, Ends
<1>6. LET e == [end[s] EXCEPT !.queue = Append(@, m)]
      IN  /\ e \in Ends /\ e.pc = end[s].pc /\ e.inbox = end[s].inbox /\ e.wr = end[s].wr
          /\ e.rd = end[s].rd /\ e.addr = end[s].addr /\ e.queue = Append(end[s].queue, m)
  BY <1>1, <1>4 DEF Ends
<1>7. CASE m.kind = "disconnect"
  BY <1>1, <1>2, <1>3, <1>5, <1>7, SetEndEffect DEF Dispatch
<1>8. CASE m.kind # "disconnect"
  <2> HIDE DEF m
  <2>1. SetEnd(s, IF end[s].keyed /\ end[s].pc # "closed"
                    THEN [end[s] EXCEPT !.queue = Append(@, m)] ELSE end[s])
    BY <1>2, <1>8 DEF Dispatch
  <2>2. CASE end[s].keyed /\ end[s].pc # "closed"
    <3>1. SetEnd(s, [end[s] EXCEPT !.queue = Append(@, m)])
      BY <2>1, <2>2
    <3> QED
      BY <1>1, <1>3, <1>6, <1>8, <2>2, <3>1, SetEndEffect DEF Dispatch, m
  <2>3. CASE ~(end[s].keyed /\ end[s].pc # "closed")
    <3>1. SetEnd(s, end[s])
      BY <2>1, <2>3
    <3> QED
      BY <1>1, <1>3, <3>1, SetEndEffect DEF Dispatch
  <2> QED
    BY <2>2, <2>3
<1> QED
  BY <1>7, <1>8

(* The forwarders.                                                         *)
LEMMA FromProgramEffect ==
  ASSUME UdpTypeOK, Forwarders, InOrder("socks"), FromProgram
  PROVE  LET e == end["socks"]
             n == e.inbox[1]
         IN  /\ e.inbox # <<>> /\ e.pc = "forward" /\ n \in DOMAIN ups /\ n \in Numbers
             /\ end' \in [Sides -> Ends] /\ end'["net"] = end["net"]
             /\ end'["socks"].inbox = Tail(e.inbox) /\ end'["socks"].queue = e.queue
             /\ end'["socks"].pc = "forward" /\ end'["socks"].addr = ups[n].from
             /\ wire' \in [Sides -> Seq(Messages)] /\ wire'["socks"] = wire["socks"]
             /\ wire'["net"] \in {wire["net"], Append(wire["net"], Datagram(n))}
             /\ UNCHANGED <<server, tcp, ups, downs, got, ws>>
<1> DEFINE e == end["socks"]
           n == e.inbox[1]
           taken == [e EXCEPT !.inbox = Tail(@), !.addr = ups[n].from]
<1>1. /\ "socks" \in Sides /\ "net" \in Sides /\ Other("socks") = "net" /\ e \in Ends
      /\ e.inbox \in Seq(Numbers) /\ e.inbox # <<>> /\ e.pc = "forward" /\ ups \in Seq(Datagrams)
  BY OtherSide DEF Sides, UdpTypeOK, Ends, FromProgram, Forwarders
<1>2. Head(e.inbox) = n /\ n \in Numbers /\ Tail(e.inbox) \in Seq(Numbers) /\ 1 \in 1..Len(e.inbox)
  BY <1>1, TailOf
<1>3. n \in DOMAIN ups
  <2>1. n <= Len(ups)
    BY <1>2 DEF InOrder, Levels, InboxIn, SentFrom
  <2> QED
    BY <1>1, <1>2, <2>1, LenProperties DEF Numbers
<1>4. ups[n].from \in Sockets
  <2>1. ups[n] \in Datagrams
    BY <1>1, <1>3
  <2> QED
    BY <2>1 DEF Datagrams
<1>5. /\ taken \in Ends /\ taken.inbox = Tail(e.inbox) /\ taken.queue = e.queue
      /\ taken.pc = "forward" /\ taken.addr = ups[n].from
  BY <1>1, <1>2, <1>4 DEF Ends
<1> HIDE DEF taken
<1>6. LET d == [taken EXCEPT !.rd = "done"]
      IN  /\ d \in Ends /\ d.inbox = taken.inbox /\ d.queue = taken.queue /\ d.pc = taken.pc
          /\ d.addr = taken.addr
  BY <1>5 DEF Ends
<1>7. SetEnd("socks", taken) \/ SetEnd("socks", [taken EXCEPT !.rd = "done"])
  BY <1>2 DEF FromProgram, taken
<1>8. /\ end' \in [Sides -> Ends] /\ end'["net"] = end["net"]
      /\ end'["socks"].inbox = Tail(e.inbox) /\ end'["socks"].queue = e.queue
      /\ end'["socks"].pc = "forward" /\ end'["socks"].addr = ups[n].from
  BY <1>1, <1>5, <1>6, <1>7, SetEndEffect
<1>9. Datagram(n) \in Messages
  BY <1>2 DEF Messages
<1>10. wire' = wire \/ Send("socks", Datagram(n))
  BY <1>2 DEF FromProgram
<1>11. /\ wire' \in [Sides -> Seq(Messages)] /\ wire'["socks"] = wire["socks"]
       /\ wire'["net"] \in {wire["net"], Append(wire["net"], Datagram(n))}
  BY <1>1, <1>9, <1>10, SendEffect DEF UdpTypeOK
<1> QED
  BY <1>1, <1>2, <1>3, <1>8, <1>11 DEF FromProgram

LEMMA FromTargetEffect ==
  ASSUME UdpTypeOK, Forwarders, FromTarget
  PROVE  LET e == end["net"]
             n == e.inbox[1]
         IN  /\ e.inbox # <<>> /\ e.pc = "forward" /\ n \in Numbers
             /\ end' \in [Sides -> Ends] /\ end'["socks"] = end["socks"]
             /\ end'["net"].inbox = Tail(e.inbox) /\ end'["net"].queue = e.queue
             /\ end'["net"].pc = "forward"
             /\ wire' \in [Sides -> Seq(Messages)] /\ wire'["net"] = wire["net"]
             /\ wire'["socks"] \in {wire["socks"], Append(wire["socks"], Datagram(n))}
             /\ UNCHANGED <<server, tcp, ups, downs, got, ws>>
<1> DEFINE e == end["net"]
           n == e.inbox[1]
           taken == [e EXCEPT !.inbox = Tail(@)]
<1>1. /\ "socks" \in Sides /\ "net" \in Sides /\ Other("net") = "socks" /\ e \in Ends
      /\ e.inbox \in Seq(Numbers) /\ e.inbox # <<>> /\ e.pc = "forward"
  BY OtherSide DEF Sides, UdpTypeOK, Ends, FromTarget, Forwarders
<1>2. Head(e.inbox) = n /\ n \in Numbers /\ Tail(e.inbox) \in Seq(Numbers)
  BY <1>1, TailOf
<1>3. /\ taken \in Ends /\ taken.inbox = Tail(e.inbox) /\ taken.queue = e.queue
      /\ taken.pc = "forward"
  BY <1>1, <1>2 DEF Ends
<1> HIDE DEF taken
<1>4. LET d == [taken EXCEPT !.rd = "done"]
      IN  d \in Ends /\ d.inbox = taken.inbox /\ d.queue = taken.queue /\ d.pc = taken.pc
  BY <1>3 DEF Ends
<1>5. SetEnd("net", taken) \/ SetEnd("net", [taken EXCEPT !.rd = "done"])
  BY DEF FromTarget, taken
<1>6. /\ end' \in [Sides -> Ends] /\ end'["socks"] = end["socks"]
      /\ end'["net"].inbox = Tail(e.inbox) /\ end'["net"].queue = e.queue
      /\ end'["net"].pc = "forward"
  BY <1>1, <1>3, <1>4, <1>5, SetEndEffect
<1>7. Datagram(n) \in Messages /\ Send("net", Datagram(n))
  BY <1>2 DEF Messages, FromTarget
<1> QED
  BY <1>1, <1>2, <1>6, <1>7, SendEffect DEF FromTarget

LEMMA ToTargetEffect ==
  ASSUME UdpTypeOK, Forwarders, Answer, ToTarget
  PROVE  LET e == end["net"]
             n == e.queue[1].n
         IN  /\ e.queue # <<>> /\ e.queue[1].kind = "data" /\ e.pc = "forward"
             /\ end' \in [Sides -> Ends] /\ end'["socks"] = end["socks"]
             /\ end'["net"].queue = Tail(e.queue) /\ end'["net"].inbox = e.inbox
             /\ end'["net"].pc = "forward"
             /\ got' \in {got, [got EXCEPT !.up = Append(@, <<n, ups[n].to>>)]}
             /\ UNCHANGED <<server, tcp, ups, downs, wire, ws>>
<1> DEFINE e == end["net"]
           n == e.queue[1].n
           taken == [e EXCEPT !.queue = Tail(@)]
<1>1. /\ "socks" \in Sides /\ "net" \in Sides /\ e \in Ends
      /\ e.queue \in Seq(Messages) /\ e.queue # <<>> /\ e.pc = "forward"
  BY DEF Sides, UdpTypeOK, Ends, ToTarget, Forwarders
<1>2. Head(e.queue) = e.queue[1] /\ Tail(e.queue) \in Seq(Messages) /\ 1 \in DOMAIN e.queue
  BY <1>1, TailOf
<1>3. e.queue[1].kind = "data"
  BY <1>2 DEF Answer
<1>4. /\ taken \in Ends /\ taken.inbox = e.inbox /\ taken.queue = Tail(e.queue)
      /\ taken.pc = "forward"
  BY <1>1, <1>2 DEF Ends
<1> HIDE DEF taken
<1>5. LET d == [taken EXCEPT !.wr = "done"]
      IN  d \in Ends /\ d.inbox = taken.inbox /\ d.queue = taken.queue /\ d.pc = taken.pc
  BY <1>4 DEF Ends
<1>6. SetEnd("net", taken) \/ SetEnd("net", [taken EXCEPT !.wr = "done"])
  BY DEF ToTarget, taken
<1>7. /\ end' \in [Sides -> Ends] /\ end'["socks"] = end["socks"]
      /\ end'["net"].inbox = e.inbox /\ end'["net"].queue = Tail(e.queue)
      /\ end'["net"].pc = "forward"
  BY <1>1, <1>4, <1>5, <1>6, SetEndEffect
<1> QED
  BY <1>1, <1>2, <1>3, <1>7 DEF ToTarget

LEMMA ToProgramEffect ==
  ASSUME UdpTypeOK, Forwarders, Answer, ToProgram
  PROVE  LET e == end["socks"]
             n == e.queue[1].n
         IN  /\ e.queue # <<>> /\ e.queue[1].kind = "data" /\ e.pc = "forward"
             /\ end' \in [Sides -> Ends] /\ end'["net"] = end["net"]
             /\ end'["socks"].queue = Tail(e.queue) /\ end'["socks"].inbox = e.inbox
             /\ end'["socks"].pc = "forward" /\ end'["socks"].addr = e.addr
             /\ \/ got' = got
                \/ e.addr # None /\ got' = [got EXCEPT !.down = Append(@, <<n, downs[n], e.addr>>)]
             /\ UNCHANGED <<server, tcp, ups, downs, wire, ws>>
<1> DEFINE e == end["socks"]
           taken == [e EXCEPT !.queue = Tail(@)]
<1>1. /\ "socks" \in Sides /\ "net" \in Sides /\ e \in Ends
      /\ e.queue \in Seq(Messages) /\ e.queue # <<>> /\ e.pc = "forward"
  BY DEF Sides, UdpTypeOK, Ends, ToProgram, Forwarders
<1>2. Head(e.queue) = e.queue[1] /\ Tail(e.queue) \in Seq(Messages) /\ 1 \in DOMAIN e.queue
  BY <1>1, TailOf
<1>3. e.queue[1].kind = "data"
  BY <1>1, <1>2 DEF Answer
<1>4. /\ taken \in Ends /\ taken.inbox = e.inbox /\ taken.queue = Tail(e.queue)
      /\ taken.pc = "forward" /\ taken.addr = e.addr
  BY <1>1, <1>2 DEF Ends
<1>5. SetEnd("socks", taken)
  BY DEF ToProgram
<1> HIDE DEF taken
<1>6. end' \in [Sides -> Ends] /\ end'["socks"] = taken /\ end'["net"] = end["net"]
  BY <1>1, <1>4, <1>5, SetEndEffect
<1> QED
  BY <1>1, <1>2, <1>3, <1>4, <1>6 DEF ToProgram

(* A datagram reaches the socket of a side.                                *)
LEMMA DeliverEffect ==
  ASSUME UdpTypeOK, NEW s \in Sides, NEW n \in Numbers, Deliver(s, n)
  PROVE  /\ end' \in [Sides -> Ends] /\ end'[Other(s)] = end[Other(s)]
         /\ end'[s].inbox = Append(end[s].inbox, n) /\ end'[s].queue = end[s].queue
         /\ end'[s].pc = end[s].pc /\ end'[s].addr = end[s].addr
<1> DEFINE e == [end[s] EXCEPT !.inbox = Append(@, n)]
<1>1. end[s] \in Ends /\ end[s].inbox \in Seq(Numbers) /\ Other(s) # s /\ Other(s) \in Sides
  BY OtherSide DEF UdpTypeOK, Ends
<1>2. Append(end[s].inbox, n) \in Seq(Numbers)
  BY <1>1, AppendProperties
<1>3. /\ e \in Ends /\ e.inbox = Append(end[s].inbox, n) /\ e.queue = end[s].queue
      /\ e.pc = end[s].pc /\ e.addr = end[s].addr
  BY <1>1, <1>2 DEF Ends
<1>4. SetEnd(s, e)
  BY DEF Deliver, SetEnd
<1> HIDE DEF e
<1> QED
  BY <1>1, <1>3, <1>4, SetEndEffect
-----------------------------------------------------------------------------
(***************************************************************************)
(* The five ways in which a step changes the datagrams of a direction.     *)
(***************************************************************************)
LEMMA EmptyIn ==
  ASSUME NEW a \in Nat, NEW b \in Nat
  PROVE  MessagesIn(<<>>, a, b) /\ InboxIn(<<>>, a, b)
  BY EmptySeq DEF MessagesIn, InboxIn

LEMMA TypedParts ==
  ASSUME UdpTypeOK, NEW s \in Sides
  PROVE  /\ end[s] \in Ends /\ end[s].queue \in Seq(Messages) /\ end[s].inbox \in Seq(Numbers)
         /\ wire[s] \in Seq(Messages) /\ Len(ups) \in Nat /\ Len(downs) \in Nat
         /\ SentFrom(s) \in Nat
  BY LenProperties DEF UdpTypeOK, Ends, SentFrom

LEMMA OrderKept ==
  ASSUME UdpTypeOK, NEW s \in Sides, InOrder(s), GotFrom(s)' = GotFrom(s),
         SentFrom(s)' = SentFrom(s),
         end'[Other(s)].queue \in {end[Other(s)].queue, <<>>},
         wire'[Other(s)] \in {wire[Other(s)], <<>>},
         end'[s].inbox \in {end[s].inbox, <<>>}
  PROVE  InOrder(s)'
<1>1. PICK a, b, c \in Nat : Levels(s, a, b, c)
  BY DEF InOrder
<1>2. SentFrom(s) \in Nat
  BY TypedParts
<1>3. /\ MessagesIn(end'[Other(s)].queue, a, b) /\ MessagesIn(wire'[Other(s)], b, c)
      /\ InboxIn(end'[s].inbox, c, SentFrom(s))
  BY <1>1, <1>2, EmptyIn DEF Levels
<1>5. Levels(s, a, b, c)'
  BY <1>1, <1>3 DEF Levels
<1> QED
  BY <1>5 DEF InOrder

LEMMA OrderSignalled ==
  ASSUME UdpTypeOK, NEW s \in Sides, InOrder(s), got' = got, SentFrom(s)' = SentFrom(s),
         end'[Other(s)].queue \in {end[Other(s)].queue, <<>>},
         NEW m \in Messages, m.kind # "data",
         wire'[Other(s)] \in {wire[Other(s)], Append(wire[Other(s)], m)},
         end'[s].inbox \in {end[s].inbox, <<>>}
  PROVE  InOrder(s)'
<1>1. PICK a, b, c \in Nat : Levels(s, a, b, c)
  BY DEF InOrder
<1>2. SentFrom(s) \in Nat /\ wire[Other(s)] \in Seq(Messages)
  BY TypedParts, OtherSide
<1>3. MessagesIn(wire[Other(s)], b, c)
  BY <1>1 DEF Levels
<1>4. MessagesIn(Append(wire[Other(s)], m), b, c)
  <2>1. c <= c
    OBVIOUS
  <2> QED
    BY <1>2, <1>3, <2>1, MessagesAppend
<1>5. /\ MessagesIn(end'[Other(s)].queue, a, b) /\ MessagesIn(wire'[Other(s)], b, c)
      /\ InboxIn(end'[s].inbox, c, SentFrom(s))
  BY <1>1, <1>2, <1>3, <1>4, EmptyIn DEF Levels
<1>6. GotFrom(s)' = GotFrom(s)
  BY DEF GotFrom
<1>7. Levels(s, a, b, c)'
  BY <1>1, <1>5, <1>6 DEF Levels
<1> QED
  BY <1>7 DEF InOrder

(* A side forwards a datagram, or drops it.                                *)
LEMMA OrderForwarded ==
  ASSUME UdpTypeOK, NEW s \in Sides, InOrder(s), got' = got, SentFrom(s)' = SentFrom(s),
         end'[Other(s)].queue = end[Other(s)].queue,
         end[s].inbox # <<>>, end'[s].inbox = Tail(end[s].inbox),
         wire'[Other(s)] \in {wire[Other(s)], Append(wire[Other(s)], Datagram(end[s].inbox[1]))}
  PROVE  InOrder(s)'
<1>1. PICK a, b, c \in Nat : Levels(s, a, b, c)
  BY DEF InOrder
<1>2. /\ SentFrom(s) \in Nat /\ wire[Other(s)] \in Seq(Messages) /\ end[s].inbox \in Seq(Numbers)
  BY TypedParts, OtherSide
<1>3. InboxIn(end[s].inbox, c, SentFrom(s)) /\ MessagesIn(wire[Other(s)], b, c)
  BY <1>1 DEF Levels
<1>n. PICK n \in Numbers : n = end[s].inbox[1]
  BY <1>2, TailOf
<1>4. InboxIn(Tail(end[s].inbox), n, SentFrom(s)) /\ c < n /\ n <= SentFrom(s)
  BY <1>n, <1>2, <1>3, InboxTail
<1>5. n \in Numbers /\ n \in Nat
  BY UdpAssumption DEF Numbers
<1>6. Datagram(n) \in Messages /\ Datagram(n).kind = "data" /\ Datagram(n).n = n
  BY <1>5 DEF Messages, Datagram
<1>7. b <= c /\ b < n /\ c <= n
  BY <1>1, <1>4, <1>5 DEF Levels
<1>8. MessagesIn(Append(wire[Other(s)], Datagram(n)), b, n)
  BY <1>2, <1>3, <1>4, <1>5, <1>6, <1>7, MessagesAppend
<1>9. MessagesIn(wire[Other(s)], b, n)
  <2>1. \A i \in 1..Len(wire[Other(s)]) : wire[Other(s)][i].n \in Nat
    BY <1>2, MessagesNat
  <2> QED
    BY <1>3, <1>5, <1>7, <2>1 DEF MessagesIn
<1>10. MessagesIn(wire'[Other(s)], b, n) /\ InboxIn(end'[s].inbox, n, SentFrom(s))
  BY <1>n, <1>4, <1>8, <1>9
<1>11. b <= n
  BY <1>5, <1>7
<1>12. GotFrom(s)' = GotFrom(s)
  BY DEF GotFrom
<1>13. Levels(s, a, b, n)'
  <2>1. a <= b /\ GotUpTo(GotFrom(s), a) /\ MessagesIn(end[Other(s)].queue, a, b)
    BY <1>1 DEF Levels
  <2> QED
    BY <1>4, <1>10, <1>11, <1>12, <2>1 DEF Levels
<1> QED
  BY <1>5, <1>13 DEF InOrder

(* A program or a target sends a datagram.                                 *)
LEMMA OrderSent ==
  ASSUME UdpTypeOK, NEW s \in Sides, InOrder(s), got' = got, wire' = wire,
         end'[Other(s)].queue = end[Other(s)].queue,
         SentFrom(s) + 1 \in Numbers, SentFrom(s)' = SentFrom(s) + 1,
         end'[s].inbox = Append(end[s].inbox, SentFrom(s) + 1)
  PROVE  InOrder(s)'
<1>1. PICK a, b, c \in Nat : Levels(s, a, b, c)
  BY DEF InOrder
<1>2. SentFrom(s) \in Nat /\ end[s].inbox \in Seq(Numbers)
  BY TypedParts
<1>3. PICK n \in Nat : n = SentFrom(s)
  BY <1>2
<1>4. InboxIn(end[s].inbox, c, n) /\ c <= n
  BY <1>1, <1>3 DEF Levels
<1>5. InboxIn(Append(end[s].inbox, n + 1), c, n + 1)
  BY <1>2, <1>3, <1>4, InboxAppend
<1>6. c <= n + 1
  BY <1>4
<1>7. GotFrom(s)' = GotFrom(s)
  BY DEF GotFrom
<1>8. a <= b /\ b <= c /\ GotUpTo(GotFrom(s), a) /\ MessagesIn(end[Other(s)].queue, a, b)
      /\ MessagesIn(wire[Other(s)], b, c)
  BY <1>1 DEF Levels
<1>9. SentFrom(s)' = n + 1 /\ end'[s].inbox = Append(end[s].inbox, n + 1)
  BY <1>3
<1>10. Levels(s, a, b, c)'
  BY <1>5, <1>6, <1>7, <1>8, <1>9 DEF Levels
<1> QED
  BY <1>10 DEF InOrder

(* A message arrives at the other side.                                    *)
LEMMA OrderDispatched ==
  ASSUME UdpTypeOK, NEW s \in Sides, InOrder(s), got' = got, SentFrom(s)' = SentFrom(s),
         wire[Other(s)] # <<>>, wire'[Other(s)] = Tail(wire[Other(s)]),
         end'[Other(s)].queue \in {end[Other(s)].queue,
                                  Append(end[Other(s)].queue, wire[Other(s)][1])},
         end'[s].inbox = end[s].inbox
  PROVE  InOrder(s)'
<1>1. PICK a, b, c \in Nat : Levels(s, a, b, c)
  BY DEF InOrder
<1>2. /\ wire[Other(s)] \in Seq(Messages) /\ end[Other(s)].queue \in Seq(Messages)
  BY TypedParts, OtherSide
<1>3. PICK m \in Messages : m = wire[Other(s)][1]
  BY <1>2, TailOf
<1>4. /\ a <= b /\ b <= c /\ c <= SentFrom(s) /\ GotUpTo(GotFrom(s), a)
      /\ MessagesIn(end[Other(s)].queue, a, b) /\ MessagesIn(wire[Other(s)], b, c)
      /\ InboxIn(end[s].inbox, c, SentFrom(s))
  BY <1>1 DEF Levels
<1>5. /\ MessagesIn(Tail(wire[Other(s)]), b, c)
      /\ m.kind = "data" => MessagesIn(Tail(wire[Other(s)]), m.n, c) /\ b < m.n /\ m.n <= c
  BY <1>2, <1>3, <1>4, MessagesTail
<1>6. GotFrom(s)' = GotFrom(s)
  BY DEF GotFrom
<1>7. m.n \in Nat
  BY MessagesNat
<1>8. CASE end'[Other(s)].queue = end[Other(s)].queue
  <2>1. Levels(s, a, b, c)'
    BY <1>4, <1>5, <1>6, <1>8 DEF Levels
  <2> QED
    BY <2>1 DEF InOrder
<1>9. CASE end'[Other(s)].queue = Append(end[Other(s)].queue, m) /\ m.kind # "data"
  <2>1. b <= b
    OBVIOUS
  <2>2. MessagesIn(Append(end[Other(s)].queue, m), a, b)
    BY <1>2, <1>4, <1>9, <2>1, MessagesAppend
  <2>3. Levels(s, a, b, c)'
    BY <1>4, <1>5, <1>6, <1>9, <2>2 DEF Levels
  <2> QED
    BY <2>3 DEF InOrder
<1>10. CASE end'[Other(s)].queue = Append(end[Other(s)].queue, m) /\ m.kind = "data"
  <2>1. a < m.n /\ b < m.n /\ m.n <= m.n /\ b <= m.n /\ m.n <= c /\ a <= m.n
    BY <1>4, <1>5, <1>7, <1>10
  <2>2. MessagesIn(Append(end[Other(s)].queue, m), a, m.n)
    BY <1>2, <1>4, <1>7, <2>1, MessagesAppend
  <2>3. Levels(s, a, m.n, c)'
    BY <1>4, <1>5, <1>6, <1>10, <2>1, <2>2 DEF Levels
  <2> QED
    BY <1>7, <2>3 DEF InOrder
<1> QED
  BY <1>3, <1>8, <1>9, <1>10

(* A datagram leaves the queue of the other side and is given to a program *)
(* or a target, or dropped.                                                *)
LEMMA OrderWritten ==
  ASSUME UdpTypeOK, NEW s \in Sides, InOrder(s), SentFrom(s)' = SentFrom(s), wire' = wire,
         end[Other(s)].queue # <<>>, end[Other(s)].queue[1].kind = "data",
         end'[Other(s)].queue = Tail(end[Other(s)].queue), end'[s].inbox = end[s].inbox,
         NEW S, NEW x \in S, GotFrom(s) \in Seq(S), \A y \in S : y[1] \in Nat,
         x[1] = end[Other(s)].queue[1].n,
         GotFrom(s)' \in {GotFrom(s), Append(GotFrom(s), x)}
  PROVE  InOrder(s)'
<1>1. PICK a, b, c \in Nat : Levels(s, a, b, c)
  BY DEF InOrder
<1>2. end[Other(s)].queue \in Seq(Messages)
  BY TypedParts, OtherSide
<1>3. /\ a <= b /\ b <= c /\ c <= SentFrom(s) /\ GotUpTo(GotFrom(s), a)
      /\ MessagesIn(end[Other(s)].queue, a, b) /\ MessagesIn(wire[Other(s)], b, c)
      /\ InboxIn(end[s].inbox, c, SentFrom(s))
  BY <1>1 DEF Levels
<1>4. /\ MessagesIn(Tail(end[Other(s)].queue), a, b)
      /\ MessagesIn(Tail(end[Other(s)].queue), x[1], b) /\ a < x[1] /\ x[1] <= b
  BY <1>2, <1>3, MessagesTail
<1>5. CASE GotFrom(s)' = GotFrom(s)
  <2>1. Levels(s, a, b, c)'
    BY <1>3, <1>4, <1>5 DEF Levels
  <2> QED
    BY <2>1 DEF InOrder
<1>6. CASE GotFrom(s)' = Append(GotFrom(s), x)
  <2>1. GotUpTo(Append(GotFrom(s), x), x[1])
    BY <1>3, <1>4, GotAppend
  <2>2. Levels(s, x[1], b, c)'
    BY <1>3, <1>4, <1>6, <2>1 DEF Levels
  <2> QED
    BY <2>2 DEF InOrder
<1> QED
  BY <1>5, <1>6
-----------------------------------------------------------------------------
(***************************************************************************)
(* The parts of the invariant, one after the other.                        *)
(***************************************************************************)
LEMMA Basics ==
  /\ "socks" \in Sides /\ "net" \in Sides /\ Other("socks") = "net" /\ Other("net") = "socks"
  /\ \A k \in {"accepted", "disconnect"} : Signal(k) \in Messages /\ Signal(k).kind = k
  BY OtherSide DEF Sides, Messages, Signal

(* What is given to a target or to the program is typed.                   *)
LEMMA GotTypes ==
  ASSUME UdpTypeOK
  PROVE  /\ got.up \in Seq(Numbers \X Targets) /\ got.down \in Seq(Numbers \X Targets \X Sockets)
         /\ \A u \in Seq(Numbers \X Targets) :
              /\ [got EXCEPT !.up = u] \in [up : Seq(Numbers \X Targets),
                                            down : Seq(Numbers \X Targets \X Sockets)]
              /\ [got EXCEPT !.up = u].up = u /\ [got EXCEPT !.up = u].down = got.down
         /\ \A d \in Seq(Numbers \X Targets \X Sockets) :
              /\ [got EXCEPT !.down = d] \in [up : Seq(Numbers \X Targets),
                                              down : Seq(Numbers \X Targets \X Sockets)]
              /\ [got EXCEPT !.down = d].down = d /\ [got EXCEPT !.down = d].up = got.up
         /\ \A x \in Numbers \X Targets : x[1] \in Nat
         /\ \A x \in Numbers \X Targets \X Sockets : x[1] \in Nat
<1>1. got.up \in Seq(Numbers \X Targets) /\ got.down \in Seq(Numbers \X Targets \X Sockets)
  BY DEF UdpTypeOK
<1>2. ASSUME NEW u \in Seq(Numbers \X Targets)
      PROVE  /\ [got EXCEPT !.up = u] \in [up : Seq(Numbers \X Targets),
                                            down : Seq(Numbers \X Targets \X Sockets)]
             /\ [got EXCEPT !.up = u].up = u /\ [got EXCEPT !.up = u].down = got.down
  BY DEF UdpTypeOK
<1>3. ASSUME NEW d \in Seq(Numbers \X Targets \X Sockets)
      PROVE  /\ [got EXCEPT !.down = d] \in [up : Seq(Numbers \X Targets),
                                              down : Seq(Numbers \X Targets \X Sockets)]
             /\ [got EXCEPT !.down = d].down = d /\ [got EXCEPT !.down = d].up = got.up
  BY DEF UdpTypeOK
<1>4. Numbers \subseteq Nat
  BY UdpAssumption DEF Numbers
<1>5. \A x \in Numbers \X Targets : x[1] \in Nat
  BY <1>4
<1>6. \A x \in Numbers \X Targets \X Sockets : x[1] \in Nat
  BY <1>4
<1> QED
  BY <1>1, <1>2, <1>3, <1>5, <1>6

(* The number of a datagram in a queue is that of one that was sent.       *)
LEMMA QueueHead ==
  ASSUME UdpTypeOK, NEW s \in Sides, InOrder(s), end[Other(s)].queue # <<>>,
         end[Other(s)].queue[1].kind = "data"
  PROVE  end[Other(s)].queue[1].n \in Numbers /\ end[Other(s)].queue[1].n \in 1..SentFrom(s)
<1>1. PICK a, b, c \in Nat : Levels(s, a, b, c)
  BY DEF InOrder
<1>2. end[Other(s)].queue \in Seq(Messages) /\ SentFrom(s) \in Nat
  BY TypedParts, OtherSide
<1>3. 1 \in 1..Len(end[Other(s)].queue) /\ end[Other(s)].queue[1] \in Messages
  BY <1>2, TailOf
<1>4. end[Other(s)].queue[1].n \in Numbers
  BY <1>3, MessagesNat
<1>5. end[Other(s)].queue[1].n <= b /\ b <= c /\ c <= SentFrom(s)
  BY <1>1, <1>3 DEF Levels, MessagesIn
<1> QED
  BY <1>2, <1>4, <1>5, UdpAssumption DEF Numbers

LEMMA ToTargetGot ==
  ASSUME UdpTypeOK, Forwarders, Answer, InOrder("socks"), ToTarget
  PROVE  \E x \in Numbers \X Targets :
            /\ x[1] = end["net"].queue[1].n /\ x[1] \in DOMAIN ups /\ x[2] = ups[x[1]].to
            /\ got' \in {got, [got EXCEPT !.up = Append(@, x)]}
            /\ got'.up \in {got.up, Append(got.up, x)} /\ got'.down = got.down
            /\ got' \in [up : Seq(Numbers \X Targets), down : Seq(Numbers \X Targets \X Sockets)]
<1> DEFINE n == end["net"].queue[1].n
           x == <<n, ups[n].to>>
<1>1. n \in Numbers /\ n \in 1..SentFrom("socks")
  BY Basics, QueueHead, ToTargetEffect
<1>2. n \in DOMAIN ups /\ ups[n] \in Datagrams
  BY <1>1, LenProperties DEF SentFrom, UdpTypeOK
<1>3. x \in Numbers \X Targets /\ x[1] = n /\ x[2] = ups[n].to
  BY <1>1, <1>2 DEF Datagrams
<1>4. got' = got \/ got' = [got EXCEPT !.up = Append(@, x)]
  BY ToTargetEffect
<1> HIDE DEF n, x
<1>5. Append(got.up, x) \in Seq(Numbers \X Targets)
  BY <1>3, GotTypes, AppendProperties
<1>6. /\ got'.up \in {got.up, Append(got.up, x)} /\ got'.down = got.down
      /\ got' \in [up : Seq(Numbers \X Targets), down : Seq(Numbers \X Targets \X Sockets)]
  BY <1>4, <1>5, GotTypes DEF UdpTypeOK
<1> QED
  BY <1>2, <1>3, <1>4, <1>6 DEF n

LEMMA ToProgramGot ==
  ASSUME UdpTypeOK, Forwarders, Answer, InOrder("net"), ToProgram, got' # got
  PROVE  \E x \in Numbers \X Targets \X Sockets :
            /\ x[1] = end["socks"].queue[1].n /\ x[1] \in DOMAIN downs /\ x[2] = downs[x[1]]
            /\ x[3] = end["socks"].addr /\ end["socks"].addr # None
            /\ got'.down = Append(got.down, x) /\ got'.up = got.up
            /\ got' \in [up : Seq(Numbers \X Targets), down : Seq(Numbers \X Targets \X Sockets)]
<1> DEFINE n == end["socks"].queue[1].n
           x == <<n, downs[n], end["socks"].addr>>
<1>1. n \in Numbers /\ n \in 1..SentFrom("net")
  BY Basics, QueueHead, ToProgramEffect
<1>2. n \in DOMAIN downs /\ downs[n] \in Targets
  BY <1>1, LenProperties DEF SentFrom, UdpTypeOK
<1>3. end["socks"].addr # None /\ got' = [got EXCEPT !.down = Append(@, x)]
  BY ToProgramEffect
<1>4. end["socks"].addr \in Sockets
  BY <1>3, Basics, TypedParts DEF Ends
<1>5. x \in Numbers \X Targets \X Sockets /\ x[1] = n /\ x[2] = downs[n] /\ x[3] = end["socks"].addr
  BY <1>1, <1>2, <1>4
<1> HIDE DEF n, x
<1>6. Append(got.down, x) \in Seq(Numbers \X Targets \X Sockets)
  BY <1>5, GotTypes, AppendProperties
<1>7. /\ got'.down = Append(got.down, x) /\ got'.up = got.up
      /\ got' \in [up : Seq(Numbers \X Targets), down : Seq(Numbers \X Targets \X Sockets)]
  BY <1>3, <1>6, GotTypes
<1> QED
  BY <1>2, <1>3, <1>5, <1>7 DEF n
(***************************************************************************)
(* Messages that are no answer leave the place of the answer alone.        *)
(***************************************************************************)
LEMMA KindsTail ==
  ASSUME NEW q \in Seq(Messages), q # <<>>, NEW K, \A i \in DOMAIN q : q[i].kind \in K
  PROVE  \A i \in DOMAIN Tail(q) : Tail(q)[i].kind \in K
  BY TailOf

LEMMA KindsAppend ==
  ASSUME NEW q \in Seq(Messages), NEW m \in Messages, NEW i \in DOMAIN Append(q, m)
  PROVE  \/ i \in DOMAIN q /\ Append(q, m)[i] = q[i]
         \/ i = Len(q) + 1 /\ Append(q, m)[i] = m
<1>1. /\ Len(q) \in Nat /\ DOMAIN q = 1..Len(q) /\ DOMAIN Append(q, m) = 1..(Len(q) + 1)
      /\ Append(q, m)[Len(q) + 1] = m /\ \A j \in 1..Len(q) : Append(q, m)[j] = q[j]
  BY AppendOf
<1> QED
  BY <1>1

LEMMA AnswerKept ==
  ASSUME UdpTypeOK, Answer,
         end'["net"].pc = "waiting" =>
            end["net"].pc = "waiting" /\ wire'["socks"] \in {wire["socks"], <<>>},
         end'["socks"].pc = "forward" => end["socks"].pc = "forward",
         \A s \in Sides :
            /\ \/ wire'[s] \in {wire[s], <<>>}
               \/ \E m \in Messages : m.kind # "accepted" /\ wire'[s] = Append(wire[s], m)
            /\ \/ end'[s].queue \in {end[s].queue, <<>>}
               \/ end[s].queue # <<>> /\ end'[s].queue = Tail(end[s].queue)
  PROVE  Answer'
<1>1. /\ "socks" \in Sides /\ "net" \in Sides
      /\ \A s \in Sides : wire[s] \in Seq(Messages) /\ end[s].queue \in Seq(Messages)
  BY TypedParts, Basics
<1>2. DOMAIN <<>> = {}
  BY EmptySeq
<1>3. \A s \in Sides : end[s].queue = <<>> => end'[s].queue = <<>>
  OBVIOUS
<1>4. ASSUME end'["net"].pc = "waiting"
      PROVE  /\ wire'["socks"] = <<>> /\ end'["socks"].queue = <<>>
             /\ end'["socks"].pc # "forward"
  BY <1>1, <1>3, <1>4 DEF Answer
<1>5. ASSUME NEW s \in Sides, NEW i \in DOMAIN wire'[s], wire'[s][i].kind = "accepted"
      PROVE  i \in DOMAIN wire[s] /\ wire[s][i].kind = "accepted"
  <2>1. CASE wire'[s] \in {wire[s], <<>>}
    BY <1>2, <1>5, <2>1
  <2>2. ASSUME NEW m \in Messages, m.kind # "accepted", wire'[s] = Append(wire[s], m)
        PROVE  i \in DOMAIN wire[s] /\ wire[s][i].kind = "accepted"
    <3>1. \/ i \in DOMAIN wire[s] /\ wire'[s][i] = wire[s][i]
          \/ wire'[s][i] = m
      BY <1>1, <2>2, KindsAppend
    <3> QED
      BY <1>5, <2>2, <3>1
  <2> QED
    BY <2>1, <2>2
<1>6. ASSUME NEW i \in DOMAIN wire'["socks"], wire'["socks"][i].kind = "accepted"
      PROVE  i = 1 /\ end'["socks"].queue = <<>> /\ end'["socks"].pc # "forward"
  BY <1>1, <1>3, <1>5, <1>6 DEF Answer
<1>7. ASSUME NEW i \in DOMAIN wire'["net"]
      PROVE  wire'["net"][i].kind # "accepted"
  BY <1>1, <1>5 DEF Answer
<1>8. ASSUME NEW s \in Sides, \A i \in DOMAIN end[s].queue : end[s].queue[i].kind = "data"
      PROVE  \A i \in DOMAIN end'[s].queue : end'[s].queue[i].kind = "data"
  <2>1. CASE end'[s].queue \in {end[s].queue, <<>>}
    BY <1>2, <1>8, <2>1
  <2>2. CASE end[s].queue # <<>> /\ end'[s].queue = Tail(end[s].queue)
    <3>1. \A i \in DOMAIN end[s].queue : end[s].queue[i].kind \in {"data"}
      BY <1>8
    <3>2. \A i \in DOMAIN Tail(end[s].queue) : Tail(end[s].queue)[i].kind \in {"data"}
      BY <1>1, <2>2, <3>1, KindsTail
    <3> QED
      BY <2>2, <3>2
  <2> QED
    BY <2>1, <2>2
<1>9. \A i \in DOMAIN end'["net"].queue : end'["net"].queue[i].kind = "data"
  BY <1>1, <1>8 DEF Answer
<1>10. ASSUME end'["socks"].pc = "forward"
       PROVE  \A i \in DOMAIN end'["socks"].queue : end'["socks"].queue[i].kind = "data"
  BY <1>1, <1>8, <1>10 DEF Answer
<1> QED
  BY <1>4, <1>6, <1>7, <1>9, <1>10 DEF Answer

LEMMA ForwardersKept ==
  ASSUME Forwarders,
         \A s \in Sides : \/ end'[s].pc = "forward" \/ Over(end'[s]) \/ end'[s] = end[s]
                          \/ /\ end'[s].pc = end[s].pc /\ end'[s].wr = end[s].wr
                             /\ end'[s].rd \in {end[s].rd, "done"}
  PROVE  Forwarders'
  BY DEF Forwarders, Over

LEMMA TypeKept ==
  ASSUME UdpTypeOK, end' \in [Sides -> Ends], wire' \in [Sides -> Seq(Messages)],
         UNCHANGED <<server, tcp, ups, downs, got, ws>>
  PROVE  UdpTypeOK'
  BY DEF UdpTypeOK

LEMMA TwoSides ==
  ASSUME InOrder("socks")', InOrder("net")'
  PROVE  (\A s \in Sides : InOrder(s))'
  BY DEF Sides

LEMMA SentKept ==
  ASSUME ups' = ups, downs' = downs, NEW s \in Sides
  PROVE  SentFrom(s)' = SentFrom(s)
  BY DEF SentFrom

LEMMA GotKept ==
  ASSUME got' = got, NEW s \in Sides
  PROVE  GotFrom(s)' = GotFrom(s)
  BY DEF GotFrom
-----------------------------------------------------------------------------
(***************************************************************************)
(* Every action keeps the invariant.                                       *)
(***************************************************************************)
LEMMA LeaveStep ==
  ASSUME UdpInv, NEW s \in Sides, Leave(s)
  PROVE  UdpInv'
<1>1. /\ UdpTypeOK /\ Forwarders /\ Answer /\ InOrder("socks") /\ InOrder("net")
      /\ InOrder(s) /\ InOrder(Other(s)) /\ Other(s) \in Sides /\ Other(s) # s /\ Other(Other(s)) = s
  BY Basics, OtherSide DEF UdpInv
<1>2. /\ end' \in [Sides -> Ends] /\ Over(end'[s]) /\ end'[s].addr = None
      /\ end'[Other(s)] = end[Other(s)]
      /\ wire' \in [Sides -> Seq(Messages)] /\ wire'[s] = wire[s]
      /\ wire'[Other(s)] \in {wire[Other(s)], Append(wire[Other(s)], Signal("disconnect"))}
      /\ UNCHANGED <<server, tcp, ups, downs, got, ws>>
  BY <1>1, LeaveEffect
<1>3. \A o \in Sides : o = s \/ o = Other(s)
  BY <1>1 DEF Sides
<1>4. UdpTypeOK'
  BY <1>1, <1>2, TypeKept
<1>5. Forwarders'
  BY <1>1, <1>2, <1>3, ForwardersKept
<1>6. Answer'
  <2>1. \A o \in Sides :
           /\ \/ wire'[o] \in {wire[o], <<>>}
              \/ \E m \in Messages : m.kind # "accepted" /\ wire'[o] = Append(wire[o], m)
           /\ end'[o].queue \in {end[o].queue, <<>>}
           /\ end'[o].pc \in {end[o].pc, "closed"}
           /\ end'[o].pc = "waiting" => o # s
    BY <1>2, <1>3, Basics DEF Over
  <2>2. end'["net"].pc = "waiting" => wire'["socks"] \in {wire["socks"], <<>>}
    <3>1. CASE s = "net"
      BY <2>1, <3>1, Basics
    <3>2. CASE s = "socks"
      BY <1>2, <3>2, Basics
    <3> QED
      BY <3>1, <3>2 DEF Sides
  <2> QED
    BY <1>1, <2>1, <2>2, Basics, AnswerKept
<1>8. InOrder(s)'
  <2>1. Signal("disconnect") \in Messages /\ Signal("disconnect").kind # "data"
    BY Basics
  <2> QED
    BY <1>1, <1>2, <2>1, SentKept, OrderSignalled DEF Over
<1>9. InOrder(Other(s))'
  BY <1>1, <1>2, SentKept, GotKept, OrderKept DEF Over
<1>10. (\A o \in Sides : InOrder(o))'
  BY <1>3, <1>8, <1>9
<1> QED
  BY <1>4, <1>5, <1>6, <1>10 DEF UdpInv

LEMMA NetAnswersStep ==
  ASSUME UdpInv, NetAnswers
  PROVE  UdpInv'
<1>1. /\ UdpTypeOK /\ Forwarders /\ Answer /\ InOrder("socks") /\ InOrder("net")
  BY Basics DEF UdpInv
<1>2. /\ end["net"].pc = "waiting" /\ end' \in [Sides -> Ends] /\ end'["socks"] = end["socks"]
      /\ end'["net"].pc # "waiting"
      /\ Over(end'["net"]) \/ /\ end'["net"].pc = "forward"
                               /\ end'["net"].queue = end["net"].queue
                               /\ end'["net"].inbox = end["net"].inbox
      /\ wire' \in [Sides -> Seq(Messages)] /\ wire'["net"] = wire["net"]
      /\ wire'["socks"] \in {wire["socks"], Append(wire["socks"], Signal("accepted"))}
      /\ UNCHANGED <<server, tcp, ups, downs, got, ws>>
  BY <1>1, NetAnswersEffect
<1>3. /\ end'["net"].queue \in {end["net"].queue, <<>>}
      /\ end'["net"].inbox \in {end["net"].inbox, <<>>}
  BY <1>2 DEF Over
<1>4. UdpTypeOK'
  BY <1>1, <1>2, TypeKept
<1>5. Forwarders'
  BY <1>1, <1>2, ForwardersKept DEF Sides
<1>6. Answer'
  <2>1. /\ wire["socks"] = <<>> /\ end'["socks"].queue = <<>> /\ end'["socks"].pc # "forward"
    BY <1>1, <1>2 DEF Answer
  <2>2. DOMAIN <<>> = {} /\ <<>> \in Seq(Messages) /\ Len(<<>>) = 0
    BY EmptySeq
  <2>3. \A i \in DOMAIN wire'["socks"] : i = 1
    <3>1. CASE wire'["socks"] = <<>>
      BY <2>2, <3>1
    <3>2. CASE wire'["socks"] = Append(<<>>, Signal("accepted"))
      <4>1. DOMAIN Append(<<>>, Signal("accepted")) = 1..(0 + 1)
        BY <2>2, Basics, AppendOf
      <4> QED
        BY <3>2, <4>1
    <3> QED
      BY <1>2, <2>1, <3>1, <3>2
  <2>4. \A i \in DOMAIN end'["net"].queue : end'["net"].queue[i].kind = "data"
    BY <1>1, <1>3, <2>2 DEF Answer
  <2>5. \A i \in DOMAIN wire'["net"] : wire'["net"][i].kind # "accepted"
    BY <1>1, <1>2 DEF Answer
  <2> QED
    BY <1>2, <2>1, <2>3, <2>4, <2>5 DEF Answer
<1>8. InOrder("net")'
  <2>1. Signal("accepted") \in Messages /\ Signal("accepted").kind # "data"
    BY Basics
  <2> QED
    BY <1>1, <1>2, <1>3, <2>1, Basics, SentKept, OrderSignalled
<1>9. InOrder("socks")'
  BY <1>1, <1>2, <1>3, Basics, SentKept, GotKept, OrderKept
<1> QED
  BY <1>4, <1>5, <1>6, <1>8, <1>9, TwoSides DEF UdpInv

LEMMA SocksHandlerStep ==
  ASSUME UdpInv, SocksStarts \/ SocksGivesUp
  PROVE  UdpInv'
<1>1. /\ UdpTypeOK /\ Forwarders /\ Answer /\ InOrder("socks") /\ InOrder("net")
  BY Basics DEF UdpInv
<1>2. /\ end["socks"].pc = "waiting" /\ end' \in [Sides -> Ends] /\ end'["net"] = end["net"]
      /\ end'["socks"].addr = end["socks"].addr
      /\ \/ Over(end'["socks"])
         \/ /\ end["socks"].queue # <<>> /\ end'["socks"].pc = "forward"
            /\ end'["socks"].queue = <<>> /\ end'["socks"].inbox = end["socks"].inbox
      /\ UNCHANGED <<server, tcp, ups, downs, got, wire, ws>>
  BY <1>1, SocksHandlerEffect
<1>3. end'["socks"].queue = <<>> /\ end'["socks"].inbox \in {end["socks"].inbox, <<>>}
  BY <1>2 DEF Over
<1>4. UdpTypeOK'
  BY <1>1, <1>2, TypeKept DEF UdpTypeOK
<1>5. Forwarders'
  BY <1>1, <1>2, ForwardersKept DEF Sides
<1>6. Answer'
  <2>1. CASE Over(end'["socks"])
    BY <1>1, <1>2, <1>3, <2>1, AnswerKept DEF Sides, Over
  <2>2. CASE end["socks"].queue # <<>>
    <3>1. end["net"].pc # "waiting" /\ \A i \in DOMAIN wire["socks"] : wire["socks"][i].kind # "accepted"
      BY <1>1, <2>2 DEF Answer
    <3>2. DOMAIN <<>> = {}
      BY EmptySeq
    <3> QED
      BY <1>1, <1>2, <1>3, <3>1, <3>2 DEF Answer
  <2> QED
    BY <1>2, <2>1, <2>2
<1>8. InOrder("net")'
  BY <1>1, <1>2, <1>3, Basics, SentKept, GotKept, OrderKept
<1>9. InOrder("socks")'
  BY <1>1, <1>2, <1>3, Basics, SentKept, GotKept, OrderKept
<1> QED
  BY <1>4, <1>5, <1>6, <1>8, <1>9, TwoSides DEF UdpInv

LEMMA FromProgramStep ==
  ASSUME UdpInv, FromProgram
  PROVE  UdpInv'
<1>1. /\ UdpTypeOK /\ Forwarders /\ Answer /\ InOrder("socks") /\ InOrder("net")
  BY Basics DEF UdpInv
<1>n. PICK n \in Numbers : n = end["socks"].inbox[1]
  BY <1>1, FromProgramEffect
<1>2. /\ end["socks"].inbox # <<>> /\ end["socks"].pc = "forward" /\ n \in DOMAIN ups
      /\ end' \in [Sides -> Ends] /\ end'["net"] = end["net"]
      /\ end'["socks"].inbox = Tail(end["socks"].inbox)
      /\ end'["socks"].queue = end["socks"].queue
      /\ end'["socks"].pc = "forward" /\ end'["socks"].addr = ups[n].from
      /\ wire' \in [Sides -> Seq(Messages)] /\ wire'["socks"] = wire["socks"]
      /\ wire'["net"] \in {wire["net"], Append(wire["net"], Datagram(n))}
      /\ UNCHANGED <<server, tcp, ups, downs, got, ws>>
  BY <1>1, <1>n, FromProgramEffect
<1>3. Datagram(n) \in Messages /\ Datagram(n).kind = "data"
  BY DEF Messages, Datagram
<1>4. UdpTypeOK'
  BY <1>1, <1>2, TypeKept
<1>5. Forwarders'
  BY <1>1, <1>2, ForwardersKept DEF Sides
<1>6. Answer'
  BY <1>1, <1>2, <1>3, AnswerKept DEF Sides
<1>8. InOrder("net")'
  BY <1>1, <1>2, Basics, SentKept, GotKept, OrderKept
<1>9. InOrder("socks")'
  BY <1>1, <1>n, <1>2, Basics, SentKept, OrderForwarded
<1> QED
  BY <1>4, <1>5, <1>6, <1>8, <1>9, TwoSides DEF UdpInv

LEMMA FromTargetStep ==
  ASSUME UdpInv, FromTarget
  PROVE  UdpInv'
<1>1. /\ UdpTypeOK /\ Forwarders /\ Answer /\ InOrder("socks") /\ InOrder("net")
  BY Basics DEF UdpInv
<1>n. PICK n \in Numbers : n = end["net"].inbox[1]
  BY <1>1, FromTargetEffect
<1>2. /\ end["net"].inbox # <<>> /\ end["net"].pc = "forward"
      /\ end' \in [Sides -> Ends] /\ end'["socks"] = end["socks"]
      /\ end'["net"].inbox = Tail(end["net"].inbox) /\ end'["net"].queue = end["net"].queue
      /\ end'["net"].pc = "forward"
      /\ wire' \in [Sides -> Seq(Messages)] /\ wire'["net"] = wire["net"]
      /\ wire'["socks"] \in {wire["socks"], Append(wire["socks"], Datagram(n))}
      /\ UNCHANGED <<server, tcp, ups, downs, got, ws>>
  BY <1>1, <1>n, FromTargetEffect
<1>3. Datagram(n) \in Messages /\ Datagram(n).kind = "data"
  BY DEF Messages, Datagram
<1>4. UdpTypeOK'
  BY <1>1, <1>2, TypeKept
<1>5. Forwarders'
  BY <1>1, <1>2, ForwardersKept DEF Sides
<1>6. Answer'
  BY <1>1, <1>2, <1>3, AnswerKept DEF Sides
<1>8. InOrder("socks")'
  BY <1>1, <1>2, Basics, SentKept, GotKept, OrderKept
<1>9. InOrder("net")'
  BY <1>1, <1>n, <1>2, Basics, SentKept, OrderForwarded
<1> QED
  BY <1>4, <1>5, <1>6, <1>8, <1>9, TwoSides DEF UdpInv

LEMMA ToTargetStep ==
  ASSUME UdpInv, ToTarget
  PROVE  UdpInv'
<1>1. /\ UdpTypeOK /\ Forwarders /\ Answer /\ InOrder("socks") /\ InOrder("net")
  BY Basics DEF UdpInv
<1>2. /\ end["net"].queue # <<>> /\ end["net"].queue[1].kind = "data" /\ end["net"].pc = "forward"
      /\ end' \in [Sides -> Ends] /\ end'["socks"] = end["socks"]
      /\ end'["net"].queue = Tail(end["net"].queue) /\ end'["net"].inbox = end["net"].inbox
      /\ end'["net"].pc = "forward"
      /\ UNCHANGED <<server, tcp, ups, downs, wire, ws>>
  BY <1>1, ToTargetEffect
<1>3. PICK x \in Numbers \X Targets :
         /\ x[1] = end["net"].queue[1].n /\ x[1] \in DOMAIN ups /\ x[2] = ups[x[1]].to
         /\ got'.up \in {got.up, Append(got.up, x)} /\ got'.down = got.down
         /\ got' \in [up : Seq(Numbers \X Targets), down : Seq(Numbers \X Targets \X Sockets)]
  BY <1>1, ToTargetGot
<1>4. UdpTypeOK'
  BY <1>1, <1>2, <1>3 DEF UdpTypeOK
<1>5. Forwarders'
  BY <1>1, <1>2, ForwardersKept DEF Sides
<1>6. Answer'
  BY <1>1, <1>2, AnswerKept DEF Sides
<1>8. InOrder("net")'
  <2>1. GotFrom("net")' = GotFrom("net")
    BY <1>3 DEF GotFrom
  <2> QED
    BY <1>1, <1>2, <2>1, Basics, SentKept, OrderKept
<1>9. InOrder("socks")'
  <2> DEFINE S == Numbers \X Targets
  <2>1. x \in S /\ GotFrom("socks") \in Seq(S) /\ \A y \in S : y[1] \in Nat
    BY <1>1, <1>3, GotTypes DEF GotFrom
  <2>2. GotFrom("socks")' \in {GotFrom("socks"), Append(GotFrom("socks"), x)}
    BY <1>3 DEF GotFrom
  <2>3. SentFrom("socks")' = SentFrom("socks")
    BY <1>2, Basics, SentKept
  <2> HIDE DEF S
  <2> QED
    BY <1>1, <1>2, <1>3, <2>1, <2>2, <2>3, Basics, OrderWritten
<1> QED
  BY <1>4, <1>5, <1>6, <1>8, <1>9, TwoSides DEF UdpInv

LEMMA ToProgramStep ==
  ASSUME UdpInv, ToProgram
  PROVE  UdpInv'
<1>1. /\ UdpTypeOK /\ Forwarders /\ Answer /\ InOrder("socks") /\ InOrder("net")
  BY Basics DEF UdpInv
<1>2. /\ end["socks"].queue # <<>> /\ end["socks"].queue[1].kind = "data"
      /\ end["socks"].pc = "forward"
      /\ end' \in [Sides -> Ends] /\ end'["net"] = end["net"]
      /\ end'["socks"].queue = Tail(end["socks"].queue)
      /\ end'["socks"].inbox = end["socks"].inbox
      /\ end'["socks"].pc = "forward" /\ end'["socks"].addr = end["socks"].addr
      /\ UNCHANGED <<server, tcp, ups, downs, wire, ws>>
  BY <1>1, ToProgramEffect
<1>3. ASSUME got' # got
      PROVE  \E x \in Numbers \X Targets \X Sockets :
                /\ x[1] = end["socks"].queue[1].n /\ x[1] \in DOMAIN downs
                /\ x[2] = downs[x[1]] /\ x[3] = end["socks"].addr /\ end["socks"].addr # None
                /\ got'.down = Append(got.down, x) /\ got'.up = got.up
                /\ got' \in [up : Seq(Numbers \X Targets), down : Seq(Numbers \X Targets \X Sockets)]
  BY <1>1, <1>3, ToProgramGot
<1>4. UdpTypeOK'
  BY <1>1, <1>2, <1>3 DEF UdpTypeOK
<1>5. Forwarders'
  BY <1>1, <1>2, ForwardersKept DEF Sides
<1>6. Answer'
  BY <1>1, <1>2, AnswerKept DEF Sides
<1>7. InOrder("socks")'
  <2>1. GotFrom("socks")' = GotFrom("socks")
    BY <1>3 DEF GotFrom
  <2> QED
    BY <1>1, <1>2, <2>1, Basics, SentKept, OrderKept
<1>8. InOrder("net")'
  <2>1. CASE got' = got
    <3>3. InOrder("net")'
      <4>1. PICK a, b, c \in Nat : Levels("net", a, b, c)
        BY <1>1 DEF InOrder
      <4>2. end["socks"].queue \in Seq(Messages)
        BY <1>1, TypedParts, Basics
      <4>3. MessagesIn(Tail(end["socks"].queue), a, b)
        BY <1>2, <4>1, <4>2, Basics, MessagesTail DEF Levels
      <4>4. GotFrom("net")' = GotFrom("net") /\ SentFrom("net")' = SentFrom("net")
        BY <1>2, <2>1, Basics, SentKept, GotKept
      <4>5. Levels("net", a, b, c)'
        BY <1>2, <4>1, <4>3, <4>4, Basics DEF Levels
      <4> QED
        BY <4>5 DEF InOrder
    <3> QED
      BY <3>3
  <2>2. CASE got' # got
    <3>1. PICK x \in Numbers \X Targets \X Sockets :
             /\ x[1] = end["socks"].queue[1].n /\ x[1] \in DOMAIN downs
             /\ x[2] = downs[x[1]] /\ x[3] = end["socks"].addr /\ end["socks"].addr # None
             /\ got'.down = Append(got.down, x) /\ got'.up = got.up
      BY <1>3, <2>2
    <3>3. InOrder("net")'
      <4> DEFINE S == Numbers \X Targets \X Sockets
      <4>1. x \in S /\ GotFrom("net") \in Seq(S) /\ \A y \in S : y[1] \in Nat
        BY <1>1, <3>1, GotTypes DEF GotFrom
      <4>2. GotFrom("net")' \in {GotFrom("net"), Append(GotFrom("net"), x)}
        BY <3>1 DEF GotFrom
      <4>3. SentFrom("net")' = SentFrom("net")
        BY <1>2, Basics, SentKept
      <4> HIDE DEF S
      <4> QED
        BY <1>1, <1>2, <3>1, <4>1, <4>2, <4>3, Basics, OrderWritten
    <3> QED
      BY <3>3
  <2> QED
    BY <2>1, <2>2
<1> QED
  BY <1>4, <1>5, <1>6, <1>7, <1>8, TwoSides DEF UdpInv

LEMMA DispatchStep ==
  ASSUME UdpInv, NEW s \in Sides, Dispatch(s)
  PROVE  UdpInv'
<1>1. /\ UdpTypeOK /\ Forwarders /\ Answer /\ InOrder("socks") /\ InOrder("net")
      /\ InOrder(s) /\ InOrder(Other(s)) /\ Other(s) \in Sides /\ Other(s) # s /\ Other(Other(s)) = s
  BY Basics, OtherSide DEF UdpInv
<1>2. /\ wire[s] # <<>> /\ end' \in [Sides -> Ends] /\ end'[Other(s)] = end[Other(s)]
      /\ wire' \in [Sides -> Seq(Messages)] /\ wire'[s] = Tail(wire[s])
      /\ wire'[Other(s)] = wire[Other(s)]
      /\ end'[s].pc = end[s].pc /\ end'[s].inbox = end[s].inbox
      /\ end'[s].wr = end[s].wr /\ end'[s].rd \in {end[s].rd, "done"}
      /\ end'[s].addr \in {end[s].addr, None}
      /\ UNCHANGED <<server, tcp, ups, downs, got, ws>>
  BY <1>1, DispatchEffect
<1>3. \/ end'[s].queue = end[s].queue
      \/ /\ wire[s][1].kind # "disconnect"
         /\ end'[s].queue = Append(end[s].queue, wire[s][1])
  BY <1>1, DispatchEffect
<1>4. \A o \in Sides : o = s \/ o = Other(s)
  BY <1>1 DEF Sides
<1>5. PICK m \in Messages : m = wire[s][1]
  BY <1>1, <1>2, TypedParts, TailOf
<1>6. /\ wire[s] \in Seq(Messages) /\ end[s].queue \in Seq(Messages)
      /\ 1 \in DOMAIN wire[s] /\ m.kind \in {"accepted", "disconnect", "data"}
      /\ DOMAIN Tail(wire[s]) = 1..(Len(wire[s]) - 1) /\ DOMAIN wire[s] = 1..Len(wire[s])
      /\ \A i \in 1..(Len(wire[s]) - 1) :
            Tail(wire[s])[i] = wire[s][i + 1] /\ i + 1 \in 1..Len(wire[s]) /\ i + 1 # 1
  BY <1>1, <1>2, TypedParts, TailOf, MessagesNat
<1>7. UdpTypeOK'
  BY <1>1, <1>2, TypeKept
<1>8. Forwarders'
  BY <1>1, <1>2, <1>4, ForwardersKept
<1>9. ASSUME m.kind = "data", \A i \in DOMAIN end[s].queue : end[s].queue[i].kind = "data"
      PROVE  \A i \in DOMAIN end'[s].queue : end'[s].queue[i].kind = "data"
  <2>1. CASE end'[s].queue = end[s].queue
    BY <1>9, <2>1
  <2>2. CASE end'[s].queue = Append(end[s].queue, m)
    BY <1>6, <1>9, <2>2, KindsAppend
  <2> QED
    BY <1>3, <1>5, <2>1, <2>2
<1>10. m.kind = "disconnect" => end'[s].queue = end[s].queue
  BY <1>3, <1>5
<1>11. ASSUME s = "socks" PROVE Answer'
  <2>1. end["net"].pc # "waiting"
    BY <1>1, <1>2, <1>11 DEF Answer
  <2>2. /\ \A i \in DOMAIN wire[s] : wire[s][i].kind = "accepted" => i = 1
        /\ wire[s][1].kind = "accepted" => end[s].pc # "forward"
    BY <1>1, <1>6, <1>11 DEF Answer
  <2>3. \A i \in DOMAIN wire'[s] : wire'[s][i].kind # "accepted"
    <3>1. \A i \in DOMAIN Tail(wire[s]) : Tail(wire[s])[i].kind # "accepted"
      BY <1>6, <2>2
    <3> QED
      BY <1>2, <3>1
  <2>4. ASSUME end[s].pc = "forward"
        PROVE  \A i \in DOMAIN end'[s].queue : end'[s].queue[i].kind = "data"
    <3>1. m.kind # "accepted"
      BY <1>5, <2>2, <2>4
    <3>2. \A i \in DOMAIN end[s].queue : end[s].queue[i].kind = "data"
      BY <1>1, <1>11, <2>4 DEF Answer
    <3>3. CASE m.kind = "data"
      BY <1>9, <3>2, <3>3
    <3>4. CASE m.kind = "disconnect"
      BY <1>10, <3>2, <3>4
    <3> QED
      BY <1>6, <3>1, <3>3, <3>4
  <2>5. /\ end'["net"] = end["net"] /\ wire'["net"] = wire["net"]
        /\ end'["socks"].pc = end["socks"].pc
        /\ \A i \in DOMAIN wire'["socks"] : wire'["socks"][i].kind # "accepted"
        /\ end["socks"].pc = "forward" =>
              \A i \in DOMAIN end'["socks"].queue : end'["socks"].queue[i].kind = "data"
    BY <1>2, <1>11, <2>3, <2>4, Basics
  <2> QED
    BY <1>1, <2>1, <2>5 DEF Answer
<1>12. ASSUME s = "net" PROVE Answer'
  <2>1. /\ \A i \in DOMAIN wire[s] : wire[s][i].kind # "accepted"
        /\ \A i \in DOMAIN end[s].queue : end[s].queue[i].kind = "data"
    BY <1>1, <1>12 DEF Answer
  <2>2. \A i \in DOMAIN wire'[s] : wire'[s][i].kind # "accepted"
    <3>1. \A i \in DOMAIN Tail(wire[s]) : Tail(wire[s])[i].kind # "accepted"
      BY <1>6, <2>1
    <3> QED
      BY <1>2, <3>1
  <2>3. \A i \in DOMAIN end'[s].queue : end'[s].queue[i].kind = "data"
    BY <1>5, <1>6, <1>9, <1>10, <2>1
  <2>4. /\ end'["socks"] = end["socks"] /\ wire'["socks"] = wire["socks"]
        /\ end'["net"].pc = end["net"].pc
        /\ \A i \in DOMAIN wire'["net"] : wire'["net"][i].kind # "accepted"
        /\ \A i \in DOMAIN end'["net"].queue : end'["net"].queue[i].kind = "data"
    BY <1>2, <1>12, <2>2, <2>3, Basics
  <2>5. /\ end'["net"].pc = "waiting" =>
             /\ wire'["socks"] = <<>> /\ end'["socks"].queue = <<>>
             /\ end'["socks"].pc # "forward"
        /\ \A i \in DOMAIN wire'["socks"] :
             wire'["socks"][i].kind = "accepted" =>
                i = 1 /\ end'["socks"].queue = <<>> /\ end'["socks"].pc # "forward"
        /\ end'["socks"].pc = "forward" =>
             \A i \in DOMAIN end'["socks"].queue : end'["socks"].queue[i].kind = "data"
    BY <1>1, <2>4 DEF Answer
  <2> QED
    BY <2>4, <2>5 DEF Answer
<1>13. Answer'
  <2>1. s = "socks" \/ s = "net"
    BY DEF Sides
  <2> QED
    BY <1>11, <1>12, <2>1
<1>15. InOrder(Other(s))'
  <2>1. end'[s].queue \in {end[s].queue, Append(end[s].queue, wire[s][1])}
    BY <1>3
  <2>2. SentFrom(Other(s))' = SentFrom(Other(s))
    BY <1>1, <1>2, SentKept
  <2> QED
    BY <1>1, <1>2, <2>1, <2>2, OrderDispatched
<1>16. InOrder(s)'
  BY <1>1, <1>2, SentKept, GotKept, OrderKept
<1>17. (\A o \in Sides : InOrder(o))'
  BY <1>4, <1>15, <1>16
<1> QED
  BY <1>7, <1>8, <1>13, <1>17 DEF UdpInv

LEMMA CleanupStep ==
  ASSUME UdpInv, NEW s \in Sides, DelayedCleanup(s)
  PROVE  UdpInv'
<1>1. /\ UdpTypeOK /\ Forwarders /\ Answer /\ InOrder("socks") /\ InOrder("net")
  BY Basics DEF UdpInv
<1>2. /\ end' \in [Sides -> Ends]
      /\ \A o \in Sides : /\ end'[o].pc = end[o].pc /\ end'[o].queue = end[o].queue
                          /\ end'[o].rd = end[o].rd /\ end'[o].wr = end[o].wr
                          /\ end'[o].inbox = end[o].inbox /\ end'[o].addr = end[o].addr
      /\ UNCHANGED <<server, tcp, ups, downs, got, wire, ws>>
  BY <1>1, CleanupEffect
<1>3. UdpTypeOK'
  BY <1>1, <1>2, TypeKept DEF UdpTypeOK
<1>4. Forwarders'
  BY <1>1, <1>2, ForwardersKept
<1>5. Answer'
  BY <1>1, <1>2, Basics, AnswerKept
<1>7. InOrder("net")'
  BY <1>1, <1>2, Basics, SentKept, GotKept, OrderKept
<1>8. InOrder("socks")'
  BY <1>1, <1>2, Basics, SentKept, GotKept, OrderKept
<1> QED
  BY <1>3, <1>4, <1>5, <1>7, <1>8, TwoSides DEF UdpInv

LEMMA ProgramSendsStep ==
  ASSUME UdpInv, ProgramSends
  PROVE  UdpInv'
<1>1. /\ UdpTypeOK /\ Forwarders /\ Answer /\ InOrder("socks") /\ InOrder("net")
  BY Basics DEF UdpInv
<1>2. PICK d \in Datagrams : ups' = Append(ups, d)
  BY DEF ProgramSends
<1>3. /\ ups \in Seq(Datagrams) /\ Len(ups) \in Nat /\ DOMAIN ups = 1..Len(ups)
      /\ ups' \in Seq(Datagrams) /\ Len(ups') = Len(ups) + 1
      /\ DOMAIN ups' = 1..(Len(ups) + 1)
      /\ \A i \in 1..Len(ups) : ups'[i] = ups[i]
  BY <1>1, <1>2, AppendOf DEF UdpTypeOK
<1>4. Len(ups) + 1 \in Numbers
  BY <1>3, UdpAssumption DEF ProgramSends, Numbers
<1>5. PICK n \in Numbers : n = Len(ups) + 1
  BY <1>4
<1>6. /\ end["socks"].pc = "forward" /\ UNCHANGED <<server, tcp, downs, got, wire, ws>>
      /\ Deliver("socks", n)
  BY <1>5 DEF ProgramSends
<1>7. /\ end' \in [Sides -> Ends] /\ end'["net"] = end["net"]
      /\ end'["socks"].inbox = Append(end["socks"].inbox, n)
      /\ end'["socks"].queue = end["socks"].queue
      /\ end'["socks"].pc = "forward" /\ end'["socks"].addr = end["socks"].addr
  BY <1>1, <1>6, Basics, DeliverEffect
<1>8. UdpTypeOK'
  BY <1>1, <1>3, <1>6, <1>7 DEF UdpTypeOK
<1>9. Forwarders'
  BY <1>1, <1>7, ForwardersKept DEF Sides
<1>10. Answer'
  BY <1>1, <1>6, <1>7, AnswerKept DEF Sides
<1>12. InOrder("net")'
  <2>1. SentFrom("net")' = SentFrom("net")
    BY <1>6 DEF SentFrom
  <2> QED
    BY <1>1, <1>6, <1>7, <2>1, Basics, GotKept, OrderKept
<1>13. InOrder("socks")'
  <2>1. SentFrom("socks") = Len(ups) /\ SentFrom("socks")' = Len(ups')
    BY DEF SentFrom
  <2> QED
    BY <1>1, <1>3, <1>4, <1>5, <1>6, <1>7, <2>1, Basics, OrderSent
<1> QED
  BY <1>8, <1>9, <1>10, <1>12, <1>13, TwoSides DEF UdpInv

LEMMA TargetSendsStep ==
  ASSUME UdpInv, TargetSends
  PROVE  UdpInv'
<1>1. /\ UdpTypeOK /\ Forwarders /\ Answer /\ InOrder("socks") /\ InOrder("net")
  BY Basics DEF UdpInv
<1>2. PICK t \in Targets : downs' = Append(downs, t)
  BY DEF TargetSends
<1>3. /\ downs \in Seq(Targets) /\ Len(downs) \in Nat
      /\ downs' \in Seq(Targets) /\ Len(downs') = Len(downs) + 1
      /\ \A i \in 1..Len(downs) : downs'[i] = downs[i]
  BY <1>1, <1>2, AppendOf DEF UdpTypeOK
<1>4. Len(downs) + 1 \in Numbers
  BY <1>3, UdpAssumption DEF TargetSends, Numbers
<1>5. PICK n \in Numbers : n = Len(downs) + 1
  BY <1>4
<1>6. /\ end["net"].pc = "forward" /\ UNCHANGED <<server, tcp, ups, got, wire, ws>>
      /\ Deliver("net", n)
  BY <1>5 DEF TargetSends
<1>7. /\ end' \in [Sides -> Ends] /\ end'["socks"] = end["socks"]
      /\ end'["net"].inbox = Append(end["net"].inbox, n)
      /\ end'["net"].queue = end["net"].queue /\ end'["net"].pc = "forward"
  BY <1>1, <1>6, Basics, DeliverEffect
<1>8. UdpTypeOK'
  BY <1>1, <1>3, <1>6, <1>7 DEF UdpTypeOK
<1>9. Forwarders'
  BY <1>1, <1>7, ForwardersKept DEF Sides
<1>10. Answer'
  BY <1>1, <1>6, <1>7, AnswerKept DEF Sides
<1>12. InOrder("socks")'
  <2>1. SentFrom("socks")' = SentFrom("socks")
    BY <1>6 DEF SentFrom
  <2> QED
    BY <1>1, <1>6, <1>7, <2>1, Basics, GotKept, OrderKept
<1>13. InOrder("net")'
  <2>1. SentFrom("net") = Len(downs) /\ SentFrom("net")' = Len(downs')
    BY DEF SentFrom
  <2> QED
    BY <1>1, <1>3, <1>4, <1>5, <1>6, <1>7, <2>1, Basics, OrderSent
<1> QED
  BY <1>8, <1>9, <1>10, <1>12, <1>13, TwoSides DEF UdpInv

LEMMA WsLostStep ==
  ASSUME UdpInv, WsLost
  PROVE  UdpInv'
<1>1. /\ UdpTypeOK /\ Forwarders /\ Answer /\ InOrder("socks") /\ InOrder("net")
  BY Basics DEF UdpInv
<1>2. /\ ws' = "lost" /\ \A s \in Sides : wire'[s] = <<>>
      /\ UNCHANGED <<end, server, tcp, ups, downs, got>>
  BY DEF WsLost
<1>3. wire' \in [Sides -> Seq(Messages)]
  BY EmptySeq DEF WsLost
<1>4. UdpTypeOK'
  BY <1>1, <1>2, <1>3 DEF UdpTypeOK
<1>5. Forwarders'
  BY <1>1, <1>2, ForwardersKept
<1>6. Answer'
  BY <1>1, <1>2, Basics, AnswerKept
<1>8. InOrder("net")'
  BY <1>1, <1>2, Basics, SentKept, GotKept, OrderKept
<1>9. InOrder("socks")'
  BY <1>1, <1>2, Basics, SentKept, GotKept, OrderKept
<1> QED
  BY <1>4, <1>5, <1>6, <1>8, <1>9, TwoSides DEF UdpInv

(* Steps that change neither the ends nor what is under way.               *)
LEMMA QuietStep ==
  ASSUME UdpInv, ProgramLeaves \/ UNCHANGED udpVars
  PROVE  UdpInv'
<1>1. UNCHANGED <<end, server, ups, downs, got, wire, ws>> /\ tcp' \in {tcp, "gone"}
  BY DEF ProgramLeaves, udpVars
<1>2. UdpTypeOK' /\ Forwarders' /\ Answer'
  BY <1>1 DEF UdpInv, UdpTypeOK, Forwarders, Answer
<1>3. (\A s \in Sides : InOrder(s))'
  BY <1>1 DEF UdpInv, InOrder, Levels, GotFrom, SentFrom, Other
<1> QED
  BY <1>2, <1>3 DEF UdpInv
-----------------------------------------------------------------------------
LEMMA InvInit == UdpInit => UdpInv
<1> SUFFICES ASSUME UdpInit PROVE UdpInv
  OBVIOUS
<1>0. /\ \A S : <<>> \in Seq(S)
      /\ Len(<<>>) = 0 /\ DOMAIN <<>> = {}
  BY EmptySeq
<1>1. UdpTypeOK
  <2>1. end \in [Sides -> Ends]
    BY <1>0 DEF UdpInit, Ends
  <2>2. wire \in [Sides -> Seq(Messages)]
    BY <1>0 DEF UdpInit
  <2>3. got \in [up : Seq(Numbers \X Targets), down : Seq(Numbers \X Targets \X Sockets)]
    BY <1>0 DEF UdpInit
  <2> QED
    BY <1>0, <2>1, <2>2, <2>3 DEF UdpInit, UdpTypeOK
<1>2. \A s \in Sides : /\ end[s].pc = "waiting" /\ end[s].rd = "off" /\ end[s].wr = "off"
                       /\ end[s].queue = <<>> /\ end[s].inbox = <<>> /\ end[s].addr = None
                       /\ wire[s] = <<>>
  BY DEF UdpInit
<1>3. Forwarders /\ Answer
  BY <1>0, <1>2, Basics DEF Forwarders, Answer
<1>4. ups = <<>> /\ downs = <<>> /\ got.up = <<>> /\ got.down = <<>>
  BY DEF UdpInit
<1>6. ASSUME NEW s \in Sides PROVE InOrder(s)
  <2>1. GotFrom(s) = <<>> /\ SentFrom(s) = 0
    BY <1>0, <1>4 DEF GotFrom, SentFrom
  <2>2. GotUpTo(<<>>, 0)
    BY <1>0 DEF GotUpTo, Increasing
  <2>3. /\ end[Other(s)].queue = <<>> /\ wire[Other(s)] = <<>>
        /\ end[s].inbox = <<>>
    BY <1>2, OtherSide
  <2>4. MessagesIn(<<>>, 0, 0) /\ InboxIn(<<>>, 0, 0)
    BY EmptyIn
  <2>5. Levels(s, 0, 0, 0)
    BY <2>1, <2>2, <2>3, <2>4 DEF Levels
  <2> QED
    BY <2>5 DEF InOrder
<1> QED
  BY <1>1, <1>3, <1>6 DEF UdpInv

LEMMA InvNext == UdpInv /\ [UdpNext]_udpVars => UdpInv'
<1> SUFFICES ASSUME UdpInv, [UdpNext]_udpVars PROVE UdpInv'
  OBVIOUS
<1>1. CASE NetAnswers
  BY <1>1, NetAnswersStep
<1>2. CASE SocksStarts \/ SocksGivesUp
  BY <1>2, SocksHandlerStep
<1>3. CASE NetCancelled
  <2>1. Leave("net")
    BY <1>3 DEF NetCancelled
  <2> QED
    BY <2>1, LeaveStep, Basics
<1>4. CASE FromProgram
  BY <1>4, FromProgramStep
<1>5. CASE ToTarget
  BY <1>5, ToTargetStep
<1>6. CASE FromTarget
  BY <1>6, FromTargetStep
<1>7. CASE ToProgram
  BY <1>7, ToProgramStep
<1>8. ASSUME NEW s \in Sides, Finish(s) PROVE UdpInv'
  <2>1. Leave(s)
    BY <1>8 DEF Finish
  <2> QED
    BY <2>1, LeaveStep
<1>9. ASSUME NEW s \in Sides, Dispatch(s) PROVE UdpInv'
  BY <1>9, DispatchStep
<1>10. ASSUME NEW s \in Sides, DelayedCleanup(s) PROVE UdpInv'
  BY <1>10, CleanupStep
<1>11. CASE ProgramSends
  BY <1>11, ProgramSendsStep
<1>12. CASE TargetSends
  BY <1>12, TargetSendsStep
<1>13. CASE ProgramLeaves \/ UNCHANGED udpVars
  BY <1>13, QuietStep
<1>14. CASE WsLost
  BY <1>14, WsLostStep
<1> QED
  BY <1>1, <1>2, <1>3, <1>4, <1>5, <1>6, <1>7, <1>8, <1>9, <1>10, <1>11, <1>12, <1>13, <1>14
  DEF UdpNext, Handle, Forward

LEMMA InvInOrder == UdpInv => DatagramsInOrder
<1> SUFFICES ASSUME UdpInv PROVE DatagramsInOrder
  OBVIOUS
<1>1. \A s \in Sides : Increasing(GotFrom(s))
  BY DEF UdpInv, InOrder, Levels, GotUpTo
<1> QED
  BY <1>1, Basics DEF GotFrom, DatagramsInOrder

(* A UDP association delivers datagrams in their order and at most once,   *)
(* however its two sides start, fail and leave (relay.py:602-612, 851-889, *)
(* 903-939).                                                               *)
THEOREM DatagramsTheorem == UdpSpec => []DatagramsInOrder
<1>1. UdpInit => UdpInv
  BY InvInit
<1>2. UdpInv /\ [UdpNext]_udpVars => UdpInv'
  BY InvNext
<1> QED
  BY <1>1, <1>2, InvInOrder, PTL DEF UdpSpec
=============================================================================
