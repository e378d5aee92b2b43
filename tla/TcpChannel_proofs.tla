-------------------------- MODULE TcpChannel_proofs --------------------------
(***************************************************************************)
(* Theorems about TcpChannel, for any number of chunks and any faults.     *)
(***************************************************************************)
EXTENDS TcpChannel, SequenceTheorems, TLAPS

(***************************************************************************)
(* Before the net side has answered nothing comes back from it and no data *)
(* is under way to it; there is one Connect and one answer, and they come  *)
(* first.                                                                  *)
(***************************************************************************)
Unanswered == end["net"].pc \in {"idle", "waiting"}

Handshake ==
    /\ end["socks"].pc = "idle" => wire["net"] = <<>> /\ end["net"].pc = "idle"
    /\ Unanswered =>
          /\ end["socks"].pc # "forward" /\ end["socks"].queue = <<>>
          /\ wire["socks"] = <<>> /\ peer["socks"].read = 0
          /\ \A i \in DOMAIN wire["net"] : wire["net"][i].kind = "connect"
    /\ \A i \in DOMAIN wire["net"] :
          /\ wire["net"][i].kind \in {"connect", "data", "disconnect"}
          /\ wire["net"][i].kind = "connect" => i = 1 /\ end["net"].pc = "idle"
    /\ \A i \in DOMAIN wire["socks"] :
          /\ wire["socks"][i].kind \in {"accepted", "refused", "data", "disconnect"}
          /\ wire["socks"][i].kind \in {"accepted", "refused"} =>
                i = 1 /\ end["socks"].queue = <<>> /\ end["socks"].pc # "forward"

(* Pumps run in the forwarding phase only, and nothing was forwarded       *)
(* before.                                                                 *)
Pumps ==
    \A s \in Sides :
        /\ end[s].pc # "forward" => end[s].rd # "on" /\ end[s].wr # "on"
        /\ end[s].pc \in {"idle", "waiting"} => end[s].hold = 0 /\ peer[s].got = <<>>
        /\ s = "net" /\ Unanswered => end[s].queue = <<>>
        /\ peer[s].read <= peer[s].sent

(* A Disconnect is the last message of a side that has closed.             *)
ClosedIsSilent ==
    \A s \in Sides : \A i \in DOMAIN wire[s] :
        wire[s][i].kind = "disconnect" => i = Len(wire[s]) /\ end[Other(s)].pc = "closed"

(* An end that is open loses its queue only after the other end has closed *)
(* and everything it sent has arrived.                                     *)
Silent(s) == ws = "lost" \/ (wire[s] = <<>> /\ end[Other(s)].pc = "closed")

Keys ==
    \A s \in Sides :
        /\ end[s].pc # "closed" /\ end[s].late => Silent(s)
        /\ end[s].pc \in {"waiting", "forward"} /\ ~end[s].keyed => Silent(s)

(***************************************************************************)
(* The chunks between two programs are numbered without a gap: those under *)
(* way end with the last one read, those in the queue with `seen`, and the *)
(* one being written and those written come before.                        *)
(***************************************************************************)
Last(q) == q[Len(q)]
InFlight(q) == IF q # <<>> /\ Last(q).kind = "disconnect" THEN Len(q) - 1 ELSE Len(q)

WireNumbered(q, read) ==
    \A i \in 1..InFlight(q) : q[i].kind = "data" => q[i].n = read - (InFlight(q) - i)

QueueNumbered(q, seen) ==
    \A i \in 1..Len(q) : q[i].kind = "data" /\ q[i].n = seen - (Len(q) - i)

(* The number of the last chunk that was written.                          *)
Written(e, seen) == IF e.hold = 0 THEN seen - Len(e.queue) ELSE e.hold - 1

Numbered(e, seen) ==
    /\ QueueNumbered(e.queue, seen)
    /\ e.hold # 0 => e.hold = seen - Len(e.queue)

GotUpTo(s, n) == IF peer[s].got = <<>> THEN s = "net" => n = 0 ELSE Last(peer[s].got) = n

Arrivals(s, seen) ==
    /\ ws = "up" => seen = peer[Other(s)].read - InFlight(wire[s])
    /\ Numbered(end[s], seen) /\ GotUpTo(s, Written(end[s], seen))

Flow(s) ==
    /\ WireNumbered(wire[s], peer[Other(s)].read)
    /\ end[s].wr = "on" => \E seen \in 0..peer[Other(s)].read : Arrivals(s, seen)

LostIsEmpty == ws = "lost" => \A s \in Sides : wire[s] = <<>>

ChanInv ==
    /\ ChanTypeOK /\ Handshake /\ Pumps /\ ClosedIsSilent /\ Keys /\ LostIsEmpty
    /\ \A s \in Sides : Flow(s)
-----------------------------------------------------------------------------
LEMMA OtherSide ==
  /\ Other("socks") = "net" /\ Other("net") = "socks"
  /\ \A s \in Sides : Other(s) \in Sides /\ Other(s) # s /\ Other(Other(s)) = s
<1>1. \A s \in Sides : Other(s) \in Sides /\ Other(s) # s
  BY DEF Other, Sides
<1> QED
  BY <1>1 DEF Sides

(* What handlers leave behind is an end again, and one that has left has   *)
(* no pumps.                                                               *)
LEMMA EndsClosed ==
  ASSUME NEW e \in Ends
  PROVE  /\ Closing(e) \in Ends /\ Refused(e) \in Ends
         /\ [Closing(e) EXCEPT !.keyed = FALSE] \in Ends
         /\ DisconnectChannel(e) \in Ends
<1>0. <<>> \in Seq(Messages) /\ 0 \in 0..MaxChunks
  BY EmptySeq, ChannelAssumption
<1>1. Closing(e) \in Ends
  BY <1>0 DEF Closing, Ends
<1>2. Refused(e) \in Ends
  BY <1>0 DEF Refused, Ends
<1>3. \A x \in Ends : [x EXCEPT !.keyed = FALSE] \in Ends
  BY DEF Ends
<1>4. DisconnectChannel(e) \in Ends
  BY DEF DisconnectChannel, Ends
<1> QED
  BY <1>1, <1>2, <1>3, <1>4

LEMMA EndsStarted ==
  ASSUME NEW e \in Ends
  PROVE  Forwarding(e) \in Ends /\ StartSocks(e) \in Ends
  BY EmptySeq DEF Forwarding, StartSocks, Ends

LEMMA LeaveEnds ==
  ASSUME NEW s \in Sides, end[s] \in Ends
  PROVE  Leave(s) \in Ends /\ Leave(s).pc = "closed" /\ Leave(s).queue = <<>>
         /\ Leave(s).rd = "off" /\ Leave(s).wr = "off"
<1> DEFINE c == Closing(end[s])
<1>1. /\ c \in Ends /\ c.pc = "closed" /\ c.queue = <<>> /\ c.rd = "off" /\ c.wr = "off"
  BY EndsClosed DEF Closing, Ends
<1>2. CASE s = "socks"
  BY <1>1, <1>2, EndsClosed DEF Leave, Ends
<1>3. CASE s # "socks"
  <2>1. Leave(s) = DisconnectChannel(c)
    BY <1>3 DEF Leave
  <2> HIDE DEF c
  <2>2. DisconnectChannel(c) \in Ends
    BY <1>1, EndsClosed
  <2> QED
    BY <1>1, <2>1, <2>2 DEF DisconnectChannel, Ends
<1> QED
  BY <1>2, <1>3

(***************************************************************************)
(* Types.                                                                  *)
(***************************************************************************)
LEMMA MessageTypes ==
  /\ \A n \in 1..MaxChunks : Chunk(n) \in Messages /\ Chunk(n).kind = "data" /\ Chunk(n).n = n
  /\ \A k \in {"connect", "accepted", "refused", "disconnect"} :
        Signal(k) \in Messages /\ Signal(k).kind = k
  /\ \A m \in Messages : m.n \in 0..MaxChunks /\ (m.kind = "data" => m.n # 0)
  BY ChannelAssumption DEF Messages, Chunk, Signal

LEMMA PeerUpdates ==
  ASSUME NEW p \in Peers, NEW n \in 0..MaxChunks
  PROVE  /\ [p EXCEPT !.read = n] \in Peers /\ [p EXCEPT !.sent = n] \in Peers
         /\ [p EXCEPT !.link = "eof"] \in Peers /\ [p EXCEPT !.link = "gone"] \in Peers
<1>1. [p EXCEPT !.read = n] \in Peers
  BY DEF Peers
<1>2. [p EXCEPT !.sent = n] \in Peers
  BY DEF Peers
<1>3. [p EXCEPT !.link = "eof"] \in Peers /\ [p EXCEPT !.link = "gone"] \in Peers
  BY DEF Peers
<1> QED
  BY <1>1, <1>2, <1>3

LEMMA SendingTypes ==
  ASSUME NEW s \in Sides, NEW ms \in Seq(Messages), wire \in [Sides -> Seq(Messages)],
         Sending(s, ms)
  PROVE  wire' \in [Sides -> Seq(Messages)]
  BY OtherSide, ConcatProperties DEF Sending

LEMMA SetEndTypes ==
  ASSUME NEW s \in Sides, NEW e \in Ends, end \in [Sides -> Ends], SetEnd(s, e)
  PROVE  end' \in [Sides -> Ends]
  BY DEF SetEnd

LEMMA TypeInit == ChanInit => ChanTypeOK
<1>1. <<>> \in Seq(Messages) /\ <<>> \in Seq(1..MaxChunks) /\ 0 \in 0..MaxChunks
  BY EmptySeq, ChannelAssumption
<1> QED
  BY <1>1 DEF ChanInit, ChanTypeOK, Ends, Peers

LEMMA TypeNext ==
  ASSUME ChanTypeOK, [ChanNext]_chanVars
  PROVE  ChanTypeOK'
<1> USE DEF ChanTypeOK
<1>e. \A s \in Sides : end[s] \in Ends /\ peer[s] \in Peers /\ wire[s] \in Seq(Messages)
  OBVIOUS
<1>s. {"socks", "net"} = Sides
  BY DEF Sides
<1>m. \A k \in {"connect", "accepted", "refused", "disconnect"} : <<Signal(k)>> \in Seq(Messages)
  BY MessageTypes
<1>1. CASE Request
  <2>1. \A k \in {"waiting", "closed"} : [end["socks"] EXCEPT !.pc = k, !.keyed = TRUE] \in Ends
                                         /\ [end["socks"] EXCEPT !.pc = k] \in Ends
    BY <1>e, <1>s DEF Ends
  <2> QED
    BY <1>1, <1>e, <1>s, <1>m, <2>1, SendingTypes, SetEndTypes DEF Request
<1>2. CASE Answered
  <2>1. StartSocks(end["socks"]) \in Ends /\ Refused(end["socks"]) \in Ends
    BY <1>e, <1>s, EndsClosed, EndsStarted
  <2> QED
    BY <1>2, <1>s, <2>1, SetEndTypes DEF Answered
<1>3. CASE Timeout
  BY <1>3, <1>e, <1>s, EndsClosed, SetEndTypes DEF Timeout
<1>4. CASE Connected
  <2>1. Forwarding(end["net"]) \in Ends /\ DisconnectChannel(Closing(end["net"])) \in Ends
    BY <1>e, <1>s, EndsClosed, EndsStarted
  <2> QED
    BY <1>4, <1>m, <1>s, <2>1, SendingTypes, SetEndTypes DEF Connected
<1>5. CASE ConnectFails
  <2>1. DisconnectChannel(Closing(end["net"])) \in Ends
    BY <1>e, <1>s, EndsClosed
  <2>2. <<Signal("refused"), Signal("disconnect")>> \in Seq(Messages)
    BY MessageTypes
  <2> QED
    BY <1>5, <1>s, <2>1, <2>2, SendingTypes, SetEndTypes DEF ConnectFails
<1>6. ASSUME NEW s \in Sides, Finish(s)
      PROVE  ChanTypeOK'
  BY <1>6, <1>e, <1>m, LeaveEnds, SendingTypes, SetEndTypes DEF Finish
<1>7. CASE SocksCancelled
  BY <1>7, <1>e, <1>m, <1>s, LeaveEnds, SendingTypes, SetEndTypes DEF SocksCancelled
<1>8. CASE NetCancelled
  BY <1>8, <1>e, <1>s, LeaveEnds, SetEndTypes DEF NetCancelled
<1>9. ASSUME NEW s \in Sides, ReadSocket(s)
      PROVE  ChanTypeOK'
  <2>1. peer[s].read + 1 \in 1..MaxChunks /\ peer[s].read + 1 \in 0..MaxChunks
    BY <1>9, <1>e, ChannelAssumption DEF ReadSocket, Peers
  <2>2. <<Chunk(peer[s].read + 1)>> \in Seq(Messages)
    BY <2>1, MessageTypes
  <2>3. [peer[s] EXCEPT !.read = @ + 1] \in Peers
    BY <1>e, <2>1, PeerUpdates
  <2>4. [end[s] EXCEPT !.rd = IF ws = "up" THEN @ ELSE "done"] \in Ends
    BY <1>e DEF Ends
  <2> QED
    BY <1>9, <1>e, <2>2, <2>3, <2>4, SendingTypes DEF ReadSocket
<1>10. ASSUME NEW s \in Sides, ReadEnds(s)
       PROVE  ChanTypeOK'
  <2>1. [end[s] EXCEPT !.rd = "done"] \in Ends
    BY <1>e DEF Ends
  <2> QED
    BY <1>10, <2>1 DEF ReadEnds
<1>11. ASSUME NEW s \in Sides, TakeChunk(s)
       PROVE  ChanTypeOK'
  <2>1. Head(end[s].queue).n \in 0..MaxChunks /\ Tail(end[s].queue) \in Seq(Messages)
    BY <1>11, <1>e, MessageTypes, HeadTailProperties DEF TakeChunk, Ends
  <2>2. [end[s] EXCEPT !.hold = Head(end[s].queue).n, !.queue = Tail(@)] \in Ends
    BY <1>e, <2>1 DEF Ends
  <2>3. end' = [end EXCEPT ![s] = [end[s] EXCEPT !.hold = Head(end[s].queue).n, !.queue = Tail(@)]]
    BY <1>11, <1>e DEF TakeChunk, Ends
  <2> QED
    BY <1>11, <2>2, <2>3 DEF TakeChunk
<1>12. ASSUME NEW s \in Sides, WriteSocket(s)
       PROVE  ChanTypeOK'
  <2>1. end' \in [Sides -> Ends]
    <3>0. 0 \in 0..MaxChunks
      BY ChannelAssumption
    <3>1. [end[s] EXCEPT !.wr = "done", !.hold = 0] \in Ends /\ [end[s] EXCEPT !.hold = 0] \in Ends
      BY <1>e, <3>0 DEF Ends
    <3>2. end' \in {[end EXCEPT ![s] = [end[s] EXCEPT !.wr = "done", !.hold = 0]],
                    [end EXCEPT ![s] = [end[s] EXCEPT !.hold = 0]]}
      BY <1>12, <1>e DEF WriteSocket, Ends
    <3> QED
      BY <3>1, <3>2
  <2>2. peer' \in [Sides -> Peers]
    <3>1. end[s].hold \in 1..MaxChunks
      BY <1>12, <1>e, ChannelAssumption DEF WriteSocket, Ends
    <3>2. Append(peer[s].got, end[s].hold) \in Seq(1..MaxChunks)
      BY <1>e, <3>1, AppendProperties DEF Peers
    <3>3. [peer[s] EXCEPT !.got = Append(@, end[s].hold)] \in Peers
      BY <1>e, <3>2 DEF Peers
    <3> QED
      BY <1>12, <3>3 DEF WriteSocket
  <2> QED
    BY <1>12, <2>1, <2>2 DEF WriteSocket
<1>13. ASSUME NEW s \in Sides, DelayedCleanup(s)
       PROVE  ChanTypeOK'
  <2>1. [end[s] EXCEPT !.late = FALSE, !.keyed = FALSE] \in Ends
    BY <1>e DEF Ends
  <2>2. end' = [end EXCEPT ![s] = [end[s] EXCEPT !.late = FALSE, !.keyed = FALSE]]
    BY <1>13, <1>e DEF DelayedCleanup, Ends
  <2> QED
    BY <1>13, <2>1, <2>2 DEF DelayedCleanup
<1>14. ASSUME NEW s \in Sides, Dispatch(s)
       PROVE  ChanTypeOK'
  <2>1. Head(wire[s]) \in Messages /\ Tail(wire[s]) \in Seq(Messages)
    BY <1>14, <1>e, HeadTailProperties DEF Dispatch
  <2>2. Append(end[s].queue, Head(wire[s])) \in Seq(Messages)
    BY <1>e, <2>1, AppendProperties DEF Ends
  <2>3. /\ Queued(end[s], Head(wire[s])) \in Ends
        /\ [end[s] EXCEPT !.pc = "waiting", !.keyed = TRUE] \in Ends
        /\ DisconnectChannel(end[s]) \in Ends
    <3>1. Queued(end[s], Head(wire[s])) \in Ends
      BY <1>e, <2>2 DEF Queued, Ends
    <3>2. [end[s] EXCEPT !.pc = "waiting", !.keyed = TRUE] \in Ends
      BY <1>e DEF Ends
    <3> QED
      BY <1>e, <3>1, <3>2, EndsClosed
  <2>4. Received(s, Head(wire[s])) \in Ends
    BY <2>3 DEF Received
  <2> QED
    BY <1>14, <2>1, <2>4, SetEndTypes DEF Dispatch
<1>15. ASSUME NEW s \in Sides, PeerSends(s) \/ PeerEnds(s) \/ PeerGone(s)
       PROVE  ChanTypeOK'
  <2>1. /\ peer[s].sent < MaxChunks => [peer[s] EXCEPT !.sent = @ + 1] \in Peers
        /\ [peer[s] EXCEPT !.link = "eof"] \in Peers /\ [peer[s] EXCEPT !.link = "gone"] \in Peers
    <3>1. peer[s].sent < MaxChunks => peer[s].sent + 1 \in 0..MaxChunks
      BY <1>e, ChannelAssumption DEF Peers
    <3>2. 0 \in 0..MaxChunks
      BY ChannelAssumption
    <3> QED
      BY <1>e, <3>1, <3>2, PeerUpdates
  <2> QED
    BY <1>15, <2>1 DEF PeerSends, PeerEnds, PeerGone
<1>16. CASE WsLost
  BY <1>16, EmptySeq DEF WsLost
<1>17. CASE UNCHANGED chanVars
  BY <1>17 DEF chanVars
<1> QED
  BY <1>1, <1>2, <1>3, <1>4, <1>5, <1>6, <1>7, <1>8, <1>9, <1>10, <1>11, <1>12, <1>13, <1>14,
     <1>15, <1>16, <1>17
  DEF ChanNext, HandlerNext, PumpNext, Environment
-----------------------------------------------------------------------------
(***************************************************************************)
(* What a step does to the parts of the state the invariant is about.      *)
(***************************************************************************)
LEMMA SetEndEffect ==
  ASSUME ChanTypeOK, NEW s \in Sides, NEW e, SetEnd(s, e)
  PROVE  end'[s] = e /\ \A o \in Sides : o # s => end'[o] = end[o]
  BY DEF SetEnd, ChanTypeOK

LEMMA SendingEffect ==
  ASSUME ChanTypeOK, NEW s \in Sides, NEW m \in Messages, Sending(s, <<m>>)
  PROVE  LET o == Other(s)
         IN  /\ wire'[s] = wire[s]
             /\ ws = "up" => /\ Len(wire'[o]) = Len(wire[o]) + 1
                             /\ DOMAIN wire'[o] = 1..(Len(wire[o]) + 1)
                             /\ wire'[o][Len(wire[o]) + 1] = m
                             /\ \A i \in 1..Len(wire[o]) : wire'[o][i] = wire[o][i]
             /\ ws # "up" => wire'[o] = wire[o]
<1> DEFINE o == Other(s)
<1>1. wire[s] \in Seq(Messages) /\ wire[o] \in Seq(Messages) /\ o # s /\ o \in Sides
  BY OtherSide DEF ChanTypeOK
<1>2. wire' = [wire EXCEPT ![o] = IF ws = "up" THEN @ \o <<m>> ELSE @]
  BY DEF Sending
<1>3. wire'[s] = wire[s]
  BY <1>1, <1>2 DEF ChanTypeOK
<1>4. ASSUME ws = "up" PROVE wire'[o] = Append(wire[o], m)
  <2>1. wire'[o] = wire[o] \o <<m>>
    BY <1>1, <1>2, <1>4 DEF ChanTypeOK
  <2> QED
    BY <1>1, <2>1, AppendIsConcat
<1>5. ASSUME ws # "up" PROVE wire'[o] = wire[o]
  BY <1>1, <1>2, <1>5 DEF ChanTypeOK
<1> HIDE DEF o
<1>6. /\ Append(wire[o], m) \in Seq(Messages)
      /\ Len(Append(wire[o], m)) = Len(wire[o]) + 1
      /\ DOMAIN Append(wire[o], m) = 1..(Len(wire[o]) + 1)
      /\ Append(wire[o], m)[Len(wire[o]) + 1] = m
      /\ \A i \in 1..Len(wire[o]) : Append(wire[o], m)[i] = wire[o][i]
  BY <1>1, AppendProperties
<1> QED
  BY <1>3, <1>4, <1>5, <1>6 DEF o

LEMMA DispatchEffect ==
  ASSUME ChanTypeOK, NEW s \in Sides, Dispatch(s)
  PROVE  /\ ws = "up" /\ wire[s] # <<>> /\ UNCHANGED <<peer, ws>>
         /\ Head(wire[s]) = wire[s][1] /\ wire[s][1] \in Messages /\ 1 \in DOMAIN wire[s]
         /\ Len(wire'[s]) = Len(wire[s]) - 1
         /\ \A i \in DOMAIN wire'[s] : i + 1 \in DOMAIN wire[s] /\ i \in Nat \ {0}
                                       /\ wire'[s][i] = wire[s][i + 1]
         /\ wire'[Other(s)] = wire[Other(s)]
         /\ end'[s] = Received(s, wire[s][1])
         /\ end'[Other(s)] = end[Other(s)]
<1>1. wire[s] \in Seq(Messages) /\ Other(s) \in Sides /\ Other(s) # s
  BY OtherSide DEF ChanTypeOK
<1>2. wire[s] # <<>> /\ wire' = [wire EXCEPT ![s] = Tail(@)]
  BY DEF Dispatch
<1>3. Head(wire[s]) = wire[s][1] /\ wire[s][1] \in Messages /\ 1 \in DOMAIN wire[s]
  BY <1>1, <1>2
<1>4. wire'[s] = Tail(wire[s]) /\ wire'[Other(s)] = wire[Other(s)]
  BY <1>1, <1>2 DEF ChanTypeOK
<1>5. /\ Len(wire'[s]) = Len(wire[s]) - 1
      /\ \A i \in DOMAIN wire'[s] : i + 1 \in DOMAIN wire[s] /\ i \in Nat \ {0}
                                    /\ wire'[s][i] = wire[s][i + 1]
  <2>1. /\ Len(Tail(wire[s])) = Len(wire[s]) - 1 /\ Tail(wire[s]) \in Seq(Messages)
        /\ \A i \in 1..Len(Tail(wire[s])) : Tail(wire[s])[i] = wire[s][i + 1]
    BY <1>1, <1>2, HeadTailProperties
  <2>2. DOMAIN Tail(wire[s]) = 1..(Len(wire[s]) - 1) /\ DOMAIN wire[s] = 1..Len(wire[s])
        /\ Len(wire[s]) \in Nat
    BY <1>1, <2>1, LenProperties
  <2> QED
    BY <1>4, <2>1, <2>2
<1>6. end'[s] = Received(s, wire[s][1]) /\ end'[Other(s)] = end[Other(s)]
  BY <1>1, <1>3, SetEndEffect DEF Dispatch
<1> QED
  BY <1>2, <1>3, <1>4, <1>5, <1>6 DEF Dispatch
(* Fields of an end that a step leaves alone.                              *)
SameButPumps(s) ==
    /\ end'[s].pc = end[s].pc /\ end'[s].queue = end[s].queue
    /\ end'[s].keyed = end[s].keyed /\ end'[s].late = end[s].late

LEMMA ReadEndsEffect ==
  ASSUME ChanTypeOK, NEW s \in Sides, ReadEnds(s)
  PROVE  /\ SameButPumps(s) /\ end'[s].hold = end[s].hold /\ end'[s].wr = end[s].wr
         /\ end'[s].rd = "done" /\ \A o \in Sides : o # s => end'[o] = end[o]
         /\ UNCHANGED <<peer, wire, ws>>
  BY DEF ReadEnds, SameButPumps, ChanTypeOK, Ends

LEMMA DelayedCleanupEffect ==
  ASSUME ChanTypeOK, NEW s \in Sides, DelayedCleanup(s)
  PROVE  /\ end[s].late /\ ~(end[s].pc = "waiting" /\ end[s].queue # <<>>)
         /\ end'[s].pc = end[s].pc /\ end'[s].queue = end[s].queue
         /\ end'[s].rd = end[s].rd /\ end'[s].wr = end[s].wr /\ end'[s].hold = end[s].hold
         /\ ~end'[s].late /\ ~end'[s].keyed
         /\ \A o \in Sides : o # s => end'[o] = end[o]
         /\ UNCHANGED <<peer, wire, ws>>
<1>1. end[s] \in Ends /\ end \in [Sides -> Ends]
  BY DEF ChanTypeOK
<1>2. end' = [end EXCEPT ![s] = [end[s] EXCEPT !.late = FALSE, !.keyed = FALSE]]
  BY <1>1 DEF DelayedCleanup, Ends
<1> QED
  BY <1>1, <1>2 DEF DelayedCleanup, Ends

LEMMA TakeChunkEffect ==
  ASSUME ChanTypeOK, NEW s \in Sides, TakeChunk(s)
  PROVE  /\ end[s].wr = "on" /\ end[s].hold = 0 /\ end[s].queue # <<>>
         /\ end'[s].hold = end[s].queue[1].n
         /\ Len(end'[s].queue) = Len(end[s].queue) - 1
         /\ \A i \in 1..(Len(end[s].queue) - 1) : end'[s].queue[i] = end[s].queue[i + 1]
         /\ DOMAIN end'[s].queue = 1..(Len(end[s].queue) - 1)
         /\ end'[s].pc = end[s].pc /\ end'[s].rd = end[s].rd /\ end'[s].wr = end[s].wr
         /\ end'[s].keyed = end[s].keyed /\ end'[s].late = end[s].late
         /\ \A o \in Sides : o # s => end'[o] = end[o]
         /\ UNCHANGED <<peer, wire, ws>>
<1>1. end[s] \in Ends /\ end \in [Sides -> Ends] /\ end[s].queue \in Seq(Messages)
  BY DEF ChanTypeOK, Ends
<1>2. end' = [end EXCEPT ![s] = [end[s] EXCEPT !.hold = Head(end[s].queue).n, !.queue = Tail(@)]]
  BY <1>1 DEF TakeChunk, Ends
<1>3. end[s].queue # <<>>
  BY DEF TakeChunk
<1>4. end[s].queue[1] = Head(end[s].queue)
  BY <1>1, <1>3
<1>5. /\ Tail(end[s].queue) \in Seq(Messages)
      /\ Len(Tail(end[s].queue)) = Len(end[s].queue) - 1
      /\ \A i \in 1..Len(Tail(end[s].queue)) : Tail(end[s].queue)[i] = end[s].queue[i + 1]
  BY <1>1, <1>3, HeadTailProperties
<1>6. DOMAIN Tail(end[s].queue) = 1..(Len(end[s].queue) - 1)
  BY <1>5
<1>7. end'[s].queue = Tail(end[s].queue) /\ end'[s].hold = Head(end[s].queue).n
  BY <1>1, <1>2 DEF Ends
<1>8. /\ end'[s].pc = end[s].pc /\ end'[s].rd = end[s].rd /\ end'[s].wr = end[s].wr
      /\ end'[s].keyed = end[s].keyed /\ end'[s].late = end[s].late
      /\ \A o \in Sides : o # s => end'[o] = end[o]
  BY <1>1, <1>2 DEF Ends
<1> QED
  BY <1>3, <1>4, <1>5, <1>6, <1>7, <1>8 DEF TakeChunk

LEMMA WriteSocketEffect ==
  ASSUME ChanTypeOK, NEW s \in Sides, WriteSocket(s)
  PROVE  /\ end[s].wr = "on" /\ end[s].hold # 0 /\ end'[s].hold = 0
         /\ SameButPumps(s) /\ end'[s].rd = end[s].rd
         /\ \/ end'[s].wr = "done" /\ peer' = peer
            \/ /\ end'[s].wr = "on" /\ peer'[s].read = peer[s].read /\ peer'[s].sent = peer[s].sent
               /\ peer'[s].got = Append(peer[s].got, end[s].hold)
         /\ \A o \in Sides : o # s => end'[o] = end[o] /\ peer'[o] = peer[o]
         /\ UNCHANGED <<wire, ws>>
<1>1. end[s] \in Ends /\ end \in [Sides -> Ends] /\ peer[s] \in Peers /\ peer \in [Sides -> Peers]
  BY DEF ChanTypeOK
<1>2. CASE /\ end' = [end EXCEPT ![s] = [end[s] EXCEPT !.wr = "done", !.hold = 0]]
           /\ UNCHANGED peer
  BY <1>1, <1>2 DEF WriteSocket, SameButPumps, Ends
<1>3. CASE /\ end' = [end EXCEPT ![s] = [end[s] EXCEPT !.hold = 0]]
           /\ peer' = [peer EXCEPT ![s] = [peer[s] EXCEPT !.got = Append(@, end[s].hold)]]
  BY <1>1, <1>3 DEF WriteSocket, SameButPumps, Ends, Peers
<1> QED
  BY <1>1, <1>2, <1>3 DEF WriteSocket, Ends, Peers

LEMMA PeerEffect ==
  ASSUME ChanTypeOK, NEW s \in Sides, PeerSends(s) \/ PeerEnds(s) \/ PeerGone(s)
  PROVE  /\ \A p \in Sides : /\ peer'[p].read = peer[p].read /\ peer'[p].got = peer[p].got
                             /\ peer'[p].sent \in {peer[p].sent, peer[p].sent + 1}
         /\ UNCHANGED <<end, wire, ws>>
<1>1. peer[s] \in Peers /\ peer \in [Sides -> Peers]
  BY DEF ChanTypeOK
<1>2. CASE PeerSends(s)
  BY <1>1, <1>2 DEF PeerSends, Peers
<1>3. CASE PeerEnds(s)
  BY <1>1, <1>3 DEF PeerEnds, Peers
<1>4. CASE PeerGone(s)
  BY <1>1, <1>4 DEF PeerGone, Peers
<1> QED
  BY <1>2, <1>3, <1>4

LEMMA ReadSocketEffect ==
  ASSUME ChanTypeOK, NEW s \in Sides, ReadSocket(s)
  PROVE  /\ end[s].rd = "on" /\ peer[s].read < peer[s].sent
         /\ SameButPumps(s) /\ end'[s].wr = end[s].wr /\ end'[s].hold = end[s].hold
         /\ end'[s].rd \in {"on", "done"}
         /\ peer'[s].read = peer[s].read + 1 /\ peer'[s].sent = peer[s].sent
         /\ peer'[s].got = peer[s].got
         /\ \A o \in Sides : o # s => end'[o] = end[o] /\ peer'[o] = peer[o]
         /\ Sending(s, <<Chunk(peer[s].read + 1)>>) /\ ws' = ws
         /\ peer[s].read + 1 \in 1..MaxChunks
<1>1. end[s] \in Ends /\ end \in [Sides -> Ends] /\ peer[s] \in Peers /\ peer \in [Sides -> Peers]
  BY DEF ChanTypeOK
<1>2. peer[s].read + 1 \in 1..MaxChunks
  BY <1>1, ChannelAssumption DEF ReadSocket, Peers
<1>3. /\ SameButPumps(s) /\ end'[s].wr = end[s].wr /\ end'[s].hold = end[s].hold
      /\ end'[s].rd \in {"on", "done"} /\ \A o \in Sides : o # s => end'[o] = end[o]
  BY <1>1 DEF ReadSocket, SameButPumps, Ends
<1>4. /\ peer'[s].read = peer[s].read + 1 /\ peer'[s].sent = peer[s].sent
      /\ peer'[s].got = peer[s].got /\ \A o \in Sides : o # s => peer'[o] = peer[o]
  BY <1>1 DEF ReadSocket, Peers
<1> QED
  BY <1>2, <1>3, <1>4 DEF ReadSocket

(* A handler that leaves, with or without a Disconnect.                    *)
Left(s) ==
    /\ end'[s].pc = "closed" /\ end'[s].queue = <<>>
    /\ end'[s].rd # "on" /\ end'[s].wr # "on"
    /\ \A o \in Sides : o # s => end'[o] = end[o]
    /\ peer' = peer /\ ws' = ws

LEMMA FinishEffect ==
  ASSUME ChanTypeOK, NEW s \in Sides, Finish(s)
  PROVE  end[s].pc = "forward" /\ Left(s) /\ Sending(s, <<Signal("disconnect")>>)
  BY LeaveEnds, SetEndEffect DEF Finish, Left, ChanTypeOK

LEMMA SocksCancelledEffect ==
  ASSUME ChanTypeOK, SocksCancelled
  PROVE  /\ end["socks"].pc # "closed" /\ Left("socks")
         /\ IF end["socks"].pc = "forward" THEN Sending("socks", <<Signal("disconnect")>>)
                                           ELSE wire' = wire
<1>1. "socks" \in Sides
  BY DEF Sides
<1> QED
  BY <1>1, LeaveEnds, SetEndEffect DEF SocksCancelled, Left, ChanTypeOK

LEMMA NetCancelledEffect ==
  ASSUME ChanTypeOK, NetCancelled
  PROVE  end["net"].pc \in {"waiting", "forward"} /\ Left("net") /\ wire' = wire
<1>1. "net" \in Sides
  BY DEF Sides
<1> QED
  BY <1>1, LeaveEnds, SetEndEffect DEF NetCancelled, Left, ChanTypeOK

LEMMA ConnectFailsEffect ==
  ASSUME ChanTypeOK, ConnectFails
  PROVE  /\ end["net"].pc = "waiting" /\ Left("net") /\ wire'["net"] = wire["net"]
         /\ ws # "up" => wire' = wire
         /\ ws = "up" => wire'["socks"]
                           = wire["socks"] \o <<Signal("refused"), Signal("disconnect")>>
<1>1. "net" \in Sides /\ "socks" \in Sides /\ Other("net") = "socks"
  BY OtherSide DEF Sides
<1>2. DisconnectChannel(Closing(end["net"])) = Leave("net")
  BY DEF Leave
<1>3. Left("net")
  BY <1>1, <1>2, LeaveEnds, SetEndEffect DEF ConnectFails, Left, ChanTypeOK
<1>4. wire' = [wire EXCEPT !["socks"] =
                IF ws = "up" THEN @ \o <<Signal("refused"), Signal("disconnect")>> ELSE @]
  BY <1>1 DEF ConnectFails, Sending
<1> QED
  BY <1>1, <1>3, <1>4 DEF ConnectFails, ChanTypeOK

(* A handler that goes on to forward, or leaves.                           *)
Started(s) ==
    /\ end'[s].pc = "forward" /\ end'[s].rd = "on" /\ end'[s].wr = "on"
    /\ end'[s].hold = end[s].hold /\ end'[s].late = end[s].late
    /\ \A o \in Sides : o # s => end'[o] = end[o]
    /\ peer' = peer /\ ws' = ws

LEMMA ConnectedEffect ==
  ASSUME ChanTypeOK, Connected
  PROVE  /\ end["net"].pc = "waiting" /\ Sending("net", <<Signal("accepted")>>)
         /\ IF ws = "up"
              THEN Started("net") /\ end'["net"].keyed = end["net"].keyed
                     /\ end'["net"].queue = end["net"].queue
              ELSE Left("net")
<1>1. "net" \in Sides /\ end["net"] \in Ends
  BY DEF Sides, ChanTypeOK
<1>2. DisconnectChannel(Closing(end["net"])) = Leave("net")
  BY DEF Leave
<1>3. LET e == Forwarding(end["net"])
      IN  /\ e.pc = "forward" /\ e.rd = "on" /\ e.wr = "on" /\ e.queue = end["net"].queue
          /\ e.keyed = end["net"].keyed /\ e.late = end["net"].late /\ e.hold = end["net"].hold
  BY <1>1 DEF Forwarding, Ends
<1>4. CASE ws = "up"
  BY <1>1, <1>3, <1>4, SetEndEffect DEF Connected, Started
<1>5. CASE ws # "up"
  BY <1>1, <1>2, <1>5, LeaveEnds, SetEndEffect DEF Connected, Left
<1> QED
  BY <1>4, <1>5 DEF Connected

LEMMA AnsweredEffect ==
  ASSUME ChanTypeOK, Answered \/ Timeout
  PROVE  /\ end["socks"].pc = "waiting" /\ wire' = wire /\ end'["socks"].queue = <<>>
         /\ \/ Started("socks") /\ end'["socks"].keyed /\ end["socks"].queue # <<>>
            \/ /\ end'["socks"].pc = "closed" /\ end'["socks"].rd = end["socks"].rd
               /\ end'["socks"].wr = end["socks"].wr
               /\ end'["net"] = end["net"] /\ peer' = peer /\ ws' = ws
<1>1. "net" \in Sides /\ "socks" \in Sides /\ end["socks"] \in Ends
  BY DEF Sides, ChanTypeOK
<1>2. LET e == StartSocks(end["socks"])
      IN  /\ e.pc = "forward" /\ e.rd = "on" /\ e.wr = "on" /\ e.queue = <<>> /\ e.keyed
          /\ e.late = end["socks"].late /\ e.hold = end["socks"].hold
  BY <1>1 DEF StartSocks, Forwarding, Ends
<1>3. LET e == Refused(end["socks"])
      IN  /\ e.pc = "closed" /\ e.queue = <<>> /\ e.rd = end["socks"].rd /\ e.wr = end["socks"].wr
  BY <1>1 DEF Refused, Ends
<1>4. CASE SetEnd("socks", StartSocks(end["socks"])) /\ Answered
  BY <1>1, <1>2, <1>4, SetEndEffect DEF Answered, Started
<1>5. CASE SetEnd("socks", Refused(end["socks"]))
  BY <1>1, <1>3, <1>5, SetEndEffect DEF Answered, Timeout
<1> QED
  BY <1>4, <1>5 DEF Answered, Timeout

LEMMA RequestEffect ==
  ASSUME ChanTypeOK, Request
  PROVE  /\ end["socks"].pc = "idle" /\ Sending("socks", <<Signal("connect")>>)
         /\ IF ws = "up" THEN end'["socks"].pc = "waiting" /\ end'["socks"].keyed
                         ELSE end'["socks"].pc = "closed"
         /\ end'["socks"].queue = end["socks"].queue /\ end'["socks"].late = end["socks"].late
         /\ end'["socks"].rd = end["socks"].rd /\ end'["socks"].wr = end["socks"].wr
         /\ end'["socks"].hold = end["socks"].hold
         /\ end'["net"] = end["net"] /\ peer' = peer /\ ws' = ws
<1>1. "net" \in Sides /\ "socks" \in Sides /\ end["socks"] \in Ends
  BY DEF Sides, ChanTypeOK
<1>2. CASE ws = "up"
  <2> DEFINE e == [end["socks"] EXCEPT !.pc = "waiting", !.keyed = TRUE]
  <2>1. /\ e.pc = "waiting" /\ e.keyed /\ e.queue = end["socks"].queue
        /\ e.late = end["socks"].late /\ e.rd = end["socks"].rd /\ e.wr = end["socks"].wr
        /\ e.hold = end["socks"].hold
    BY <1>1 DEF Ends
  <2>2. SetEnd("socks", e)
    BY <1>2 DEF Request
  <2> HIDE DEF e
  <2> QED
    BY <1>1, <1>2, <2>1, <2>2, SetEndEffect DEF Request
<1>3. CASE ws # "up"
  BY <1>1, <1>3, SetEndEffect DEF Request, Ends
<1> QED
  BY <1>2, <1>3

LEMMA ReceivedEffect ==
  ASSUME NEW s \in Sides, NEW m \in Messages, end[s] \in Ends
  PROVE  LET e == Received(s, m)
         IN  /\ e.wr = end[s].wr /\ e.hold = end[s].hold /\ e.rd \in {end[s].rd, "done"}
             /\ m.kind = "connect" =>
                   e.pc = "waiting" /\ e.keyed /\ e.queue = end[s].queue /\ e.late = end[s].late
             /\ m.kind # "connect" => e.pc = end[s].pc /\ e.keyed = end[s].keyed
             /\ m.kind = "disconnect" => e.queue = end[s].queue
             /\ m.kind \notin {"connect", "disconnect"} =>
                   /\ e.late = end[s].late
                   /\ e.queue = IF end[s].keyed /\ end[s].pc # "closed"
                                  THEN Append(end[s].queue, m) ELSE end[s].queue
<1>1. CASE m.kind = "connect"
  <2> DEFINE e == [end[s] EXCEPT !.pc = "waiting", !.keyed = TRUE]
  <2>1. /\ e.wr = end[s].wr /\ e.hold = end[s].hold /\ e.rd = end[s].rd
        /\ e.pc = "waiting" /\ e.keyed /\ e.queue = end[s].queue /\ e.late = end[s].late
    BY DEF Ends
  <2> QED
    BY <1>1, <2>1 DEF Received
<1>2. CASE m.kind = "disconnect"
  <2>1. LET e == DisconnectChannel(end[s])
        IN  /\ e.wr = end[s].wr /\ e.hold = end[s].hold /\ e.rd \in {end[s].rd, "done"}
            /\ e.pc = end[s].pc /\ e.keyed = end[s].keyed /\ e.queue = end[s].queue
    BY DEF DisconnectChannel, Ends
  <2> QED
    BY <1>2, <2>1 DEF Received
<1>3. CASE m.kind \notin {"connect", "disconnect"}
  BY <1>3 DEF Received, Queued, Ends
<1> QED
  BY <1>1, <1>2, <1>3

-----------------------------------------------------------------------------
(***************************************************************************)
(* The parts of the invariant, one after the other.                        *)
(***************************************************************************)

(* Handshake looks at phases, the queue of the socks side, what was read   *)
(* there, and the wires.                                                   *)
SameHandshake ==
    /\ \A s \in Sides : end'[s].pc = end[s].pc /\ wire'[s] = wire[s]
    /\ end'["socks"].queue = end["socks"].queue /\ peer'["socks"].read = peer["socks"].read

LEMMA HandshakeFrame == Handshake /\ SameHandshake => Handshake'
  BY DEF Handshake, SameHandshake, Unanswered, Sides

(* An end that leaves: the net side has answered, or leaves without a      *)
(* message.                                                                *)
LEMMA HandshakeNext ==
  ASSUME ChanTypeOK, Handshake, Pumps, [ChanNext]_chanVars
  PROVE  Handshake'
<1>t. \A s \in Sides : /\ end[s] \in Ends /\ wire[s] \in Seq(Messages) /\ peer[s] \in Peers
                       /\ DOMAIN wire[s] = 1..Len(wire[s])
  BY DEF ChanTypeOK
<1>o. "socks" \in Sides /\ "net" \in Sides /\ Other("socks") = "net" /\ Other("net") = "socks"
  BY OtherSide DEF Sides
<1>k. \A k \in {"connect", "accepted", "disconnect"} :
        Signal(k) \in Messages /\ Signal(k).kind = k
  BY MessageTypes
<1>1. CASE Request
  <2>1. wire["net"] = <<>> /\ end["net"].pc = "idle" /\ end["socks"].pc = "idle"
    BY <1>1 DEF Request, Handshake
  <2>2. /\ wire'["socks"] = wire["socks"]
        /\ \A i \in DOMAIN wire'["net"] : i = 1 /\ wire'["net"][i].kind = "connect"
    BY <1>1, <1>o, <1>k, <2>1, SendingEffect, RequestEffect
  <2> QED
    BY <1>1, <2>1, <2>2, RequestEffect DEF Handshake, Unanswered
<1>2. CASE Answered \/ Timeout
  <2>1. /\ end'["socks"].pc \in {"forward", "closed"} /\ end'["socks"].queue = <<>>
        /\ end'["net"] = end["net"] /\ peer' = peer /\ wire' = wire
        /\ end'["socks"].pc = "forward" => end["socks"].queue # <<>>
    BY <1>2, <1>o, AnsweredEffect DEF Started
  <2> QED
    BY <2>1 DEF Handshake, Unanswered
<1>3. end["net"].pc = "waiting" =>
        /\ wire["net"] = <<>> /\ wire["socks"] = <<>> /\ end["socks"].queue = <<>>
        /\ end["socks"].pc \notin {"forward", "idle"}
  BY <1>t, <1>o DEF Handshake, Unanswered
<1>4. CASE Connected
  <2>1. /\ end'["net"].pc \in {"forward", "closed"} /\ end'["socks"] = end["socks"]
        /\ peer' = peer /\ end["net"].pc = "waiting"
    BY <1>4, <1>o, ConnectedEffect DEF Started, Left
  <2>2. /\ wire'["net"] = wire["net"]
        /\ \A i \in DOMAIN wire'["socks"] : i = 1 /\ wire'["socks"][i].kind = "accepted"
    BY <1>3, <1>4, <1>o, <1>k, <2>1, SendingEffect, ConnectedEffect
  <2> QED
    BY <1>3, <2>1, <2>2 DEF Handshake, Unanswered
<1>5. CASE ConnectFails
  <2>1. /\ end'["net"].pc = "closed" /\ end'["socks"] = end["socks"] /\ peer' = peer
        /\ end["net"].pc = "waiting"
    BY <1>5, <1>o, ConnectFailsEffect DEF Left
  <2>2. /\ wire'["net"] = <<>>
        /\ wire'["socks"] \in {<<>>, <<Signal("refused"), Signal("disconnect")>>}
    <3>1. <<>> \o <<Signal("refused"), Signal("disconnect")>>
            = <<Signal("refused"), Signal("disconnect")>>
      OBVIOUS
    <3> QED
      BY <1>3, <1>5, <2>1, <3>1, ConnectFailsEffect
  <2> QED
    BY <1>3, <2>1, <2>2 DEF Handshake, Unanswered, Signal
<1>6. ASSUME NEW s \in Sides, NEW m \in Messages, m.kind \in {"data", "disconnect"},
             end[s].pc = "forward", end'[s].pc \in {"forward", "closed"},
             s = "socks" => end'[s].queue \in {<<>>, end[s].queue},
             end'[Other(s)] = end[Other(s)], Sending(s, <<m>>),
             s = "net" => peer'["socks"].read = peer["socks"].read
      PROVE  Handshake'
  <2>1. ~Unanswered /\ ~Unanswered'
    BY <1>o, <1>6 DEF Handshake, Unanswered, Sides
  <2>2. wire'[s] = wire[s]
        /\ \A i \in DOMAIN wire'[Other(s)] :
             \/ i \in DOMAIN wire[Other(s)] /\ wire'[Other(s)][i] = wire[Other(s)][i]
             \/ wire'[Other(s)][i] = m
    <3>1. wire'[s] = wire[s] /\ (ws # "up" => wire'[Other(s)] = wire[Other(s)])
      BY <1>6, SendingEffect
    <3>2. Other(s) \in Sides /\ DOMAIN wire[Other(s)] = 1..Len(wire[Other(s)])
          /\ Len(wire[Other(s)]) \in Nat
      BY <1>t, OtherSide, LenProperties
    <3>3. ws = "up" => /\ DOMAIN wire'[Other(s)] = 1..(Len(wire[Other(s)]) + 1)
                       /\ wire'[Other(s)][Len(wire[Other(s)]) + 1] = m
                       /\ \A i \in 1..Len(wire[Other(s)]) : wire'[Other(s)][i] = wire[Other(s)][i]
      BY <1>6, SendingEffect
    <3> QED
      BY <3>1, <3>2, <3>3
  <2>3. CASE s = "socks"
    BY <1>6, <1>o, <2>1, <2>2, <2>3 DEF Handshake, Unanswered
  <2>4. CASE s = "net"
    BY <1>6, <1>o, <2>1, <2>2, <2>4 DEF Handshake, Unanswered
  <2> QED
    BY <2>3, <2>4 DEF Sides
<1>7. ASSUME NEW s \in Sides, Finish(s) \/ (SocksCancelled /\ s = "socks" /\ end[s].pc = "forward")
      PROVE  Handshake'
  BY <1>6, <1>7, <1>k, FinishEffect, SocksCancelledEffect, OtherSide DEF Left
<1>8. CASE SocksCancelled /\ end["socks"].pc # "forward"
  <2>1. /\ end'["socks"].pc = "closed" /\ end'["socks"].queue = <<>> /\ end'["net"] = end["net"]
        /\ wire' = wire /\ peer' = peer
    BY <1>8, <1>o, SocksCancelledEffect DEF Left
  <2> QED
    BY <2>1 DEF Handshake, Unanswered
<1>9. CASE NetCancelled
  <2>1. /\ end'["net"].pc = "closed" /\ end'["socks"] = end["socks"] /\ wire' = wire /\ peer' = peer
        /\ end["net"].pc \in {"waiting", "forward"}
    BY <1>9, <1>o, NetCancelledEffect DEF Left
  <2> QED
    BY <2>1 DEF Handshake, Unanswered
<1>10. ASSUME NEW s \in Sides, ReadSocket(s)
       PROVE  Handshake'
  <2> DEFINE m == Chunk(peer[s].read + 1)
  <2>1. end[s].pc = "forward"
    BY <1>10, ReadSocketEffect DEF Pumps
  <2>2. m \in Messages /\ m.kind = "data"
    BY <1>10, ReadSocketEffect, MessageTypes
  <2>3. /\ end'[s].pc = "forward" /\ end'[s].queue = end[s].queue
        /\ end'[Other(s)] = end[Other(s)] /\ Sending(s, <<m>>)
        /\ s = "net" => peer'["socks"].read = peer["socks"].read
    <3>1. /\ SameButPumps(s) /\ Sending(s, <<m>>)
          /\ \A o \in Sides : o # s => end'[o] = end[o] /\ peer'[o] = peer[o]
      BY <1>10, ReadSocketEffect
    <3> HIDE DEF m
    <3> QED
      BY <1>o, <2>1, <3>1, OtherSide DEF SameButPumps
  <2> HIDE DEF m
  <2> QED
    BY <1>6, <2>1, <2>2, <2>3
<1>11. ASSUME NEW s \in Sides, TakeChunk(s)
       PROVE  Handshake'
  <2>1. /\ end[s].pc = "forward" /\ end'[s].pc = "forward" /\ end'[Other(s)] = end[Other(s)]
        /\ wire' = wire /\ peer' = peer
    BY <1>11, <1>t, OtherSide, TakeChunkEffect DEF Pumps
  <2>2. CASE s = "socks"
    BY <1>o, <2>1, <2>2 DEF Handshake, Unanswered
  <2>3. CASE s = "net"
    BY <1>o, <2>1, <2>3 DEF Handshake, Unanswered
  <2> QED
    BY <2>2, <2>3 DEF Sides
<1>12. ASSUME NEW s \in Sides, ReadEnds(s) \/ WriteSocket(s) \/ DelayedCleanup(s)
       PROVE  Handshake'
  <2>1. /\ \A p \in Sides : end'[p].pc = end[p].pc /\ end'[p].queue = end[p].queue
                            /\ peer'[p].read = peer[p].read
        /\ wire' = wire
    BY <1>12, ReadEndsEffect, WriteSocketEffect, DelayedCleanupEffect DEF SameButPumps
  <2> QED
    BY <1>o, <2>1, HandshakeFrame DEF SameHandshake
<1>13. ASSUME NEW s \in Sides, PeerSends(s) \/ PeerEnds(s) \/ PeerGone(s)
       PROVE  Handshake'
  BY <1>13, <1>o, PeerEffect, HandshakeFrame DEF SameHandshake
<1>14. CASE WsLost
  BY <1>14, <1>o DEF WsLost, Handshake, Unanswered
<1>15. CASE UNCHANGED chanVars
  BY <1>15, HandshakeFrame DEF chanVars, SameHandshake
<1>16. CASE Dispatch("net")
  <2> DEFINE m == wire["net"][1]
  <2>1. /\ 1 \in DOMAIN wire["net"] /\ m \in Messages /\ wire["net"] # <<>> /\ peer' = peer
        /\ \A i \in DOMAIN wire'["net"] : /\ i \in Nat \ {0} /\ i + 1 \in DOMAIN wire["net"]
                                          /\ wire'["net"][i] = wire["net"][i + 1]
        /\ wire'["socks"] = wire["socks"] /\ end'["socks"] = end["socks"]
        /\ end'["net"] = Received("net", m)
    BY <1>16, <1>t, <1>o, DispatchEffect
  <2>2. \A i \in DOMAIN wire'["net"] : wire'["net"][i].kind \in {"data", "disconnect"}
    BY <2>1 DEF Handshake
  <2>3. CASE m.kind = "connect"
    <3>1. end["net"].pc = "idle" /\ end'["net"].pc = "waiting"
      BY <1>t, <1>o, <2>1, <2>3, ReceivedEffect DEF Handshake
    <3>2. \A i \in DOMAIN wire'["net"] : FALSE
      BY <2>1, <2>2, <3>1 DEF Handshake, Unanswered
    <3> QED
      BY <2>1, <2>2, <3>1, <3>2 DEF Handshake, Unanswered
  <2>4. CASE m.kind # "connect"
    <3>1. ~Unanswered /\ end'["net"].pc = end["net"].pc
      BY <1>t, <1>o, <2>1, <2>4, ReceivedEffect DEF Handshake
    <3> QED
      BY <2>1, <2>2, <3>1 DEF Handshake, Unanswered
  <2> QED
    BY <2>3, <2>4
<1>17. CASE Dispatch("socks")
  <2> DEFINE m == wire["socks"][1]
  <2>1. /\ 1 \in DOMAIN wire["socks"] /\ m \in Messages /\ wire["socks"] # <<>> /\ peer' = peer
        /\ \A i \in DOMAIN wire'["socks"] : /\ i \in Nat \ {0} /\ i + 1 \in DOMAIN wire["socks"]
                                            /\ wire'["socks"][i] = wire["socks"][i + 1]
        /\ wire'["net"] = wire["net"] /\ end'["net"] = end["net"]
        /\ end'["socks"] = Received("socks", m)
    BY <1>17, <1>t, <1>o, DispatchEffect
  <2>2. \A i \in DOMAIN wire'["socks"] : wire'["socks"][i].kind \in {"data", "disconnect"}
    BY <2>1 DEF Handshake
  <2>3. ~Unanswered /\ m.kind # "connect"
    BY <2>1 DEF Handshake
  <2>4. end'["socks"].pc = end["socks"].pc
    BY <1>t, <1>o, <2>1, <2>3, ReceivedEffect
  <2> QED
    BY <2>1, <2>2, <2>3, <2>4 DEF Handshake, Unanswered
<1> QED
  BY <1>1, <1>2, <1>4, <1>5, <1>7, <1>8, <1>9, <1>10, <1>11, <1>12, <1>13, <1>14, <1>15, <1>16,
     <1>17, <1>o
  DEF ChanNext, HandlerNext, PumpNext, Environment, Sides

LEMMA PumpsNext ==
  ASSUME ChanTypeOK, Handshake, Pumps, [ChanNext]_chanVars
  PROVE  Pumps'
<1>t. \A s \in Sides : end[s] \in Ends /\ peer[s] \in Peers /\ peer[s].read \in Nat /\ peer[s].sent \in Nat
  BY ChannelAssumption DEF ChanTypeOK, Peers
<1>o. "socks" \in Sides /\ "net" \in Sides /\ Other("socks") = "net" /\ Other("net") = "socks"
  BY OtherSide DEF Sides
<1>l. ASSUME NEW s \in Sides, Left(s)
      PROVE  Pumps'
  BY <1>o, <1>l DEF Left, Pumps, Unanswered
<1>1. CASE Request
  BY <1>1, <1>o, RequestEffect DEF Pumps, Unanswered, Sides
<1>2. CASE Answered \/ Timeout
  <2>1. /\ end'["socks"].pc \in {"forward", "closed"} /\ end'["net"] = end["net"] /\ peer' = peer
        /\ end'["socks"].pc = "closed" => /\ end'["socks"].rd = end["socks"].rd
                                          /\ end'["socks"].wr = end["socks"].wr
        /\ end["socks"].pc = "waiting"
    BY <1>2, <1>o, AnsweredEffect DEF Started
  <2> QED
    BY <1>o, <2>1 DEF Pumps, Unanswered, Sides
<1>3. CASE Connected
  <2>1. CASE Started("net")
    BY <1>o, <2>1 DEF Started, Pumps, Unanswered, Sides
  <2> QED
    BY <1>3, <1>o, <1>l, <2>1, ConnectedEffect
<1>4. CASE ConnectFails \/ NetCancelled \/ SocksCancelled \/ \E s \in Sides : Finish(s)
  BY <1>4, <1>o, <1>l, ConnectFailsEffect, NetCancelledEffect, SocksCancelledEffect, FinishEffect
<1>5. ASSUME NEW s \in Sides, ReadSocket(s)
      PROVE  Pumps'
  <2>1. \A o \in Sides : /\ SameButPumps(o) /\ end'[o].wr = end[o].wr /\ end'[o].hold = end[o].hold
                         /\ end'[o].rd = "on" => end[o].rd = "on"
                         /\ peer'[o].got = peer[o].got
                         /\ peer'[o].read <= peer'[o].sent
    <3>1. /\ SameButPumps(s) /\ end'[s].wr = end[s].wr /\ end'[s].hold = end[s].hold
          /\ end[s].rd = "on" /\ peer'[s].got = peer[s].got
      BY <1>5, ReadSocketEffect
    <3>2. peer'[s].read <= peer'[s].sent
      <4>1. peer[s].read \in Nat /\ peer[s].sent \in Nat
        BY <1>t
      <4>2. /\ peer[s].read < peer[s].sent /\ peer'[s].sent = peer[s].sent
            /\ peer'[s].read = peer[s].read + 1
        BY <1>5, ReadSocketEffect
      <4> QED
        BY <4>1, <4>2
    <3>3. \A o \in Sides : o # s => end'[o] = end[o] /\ peer'[o] = peer[o]
      BY <1>5, ReadSocketEffect
    <3> QED
      BY <3>1, <3>2, <3>3 DEF SameButPumps, Pumps
  <2> QED
    BY <1>o, <2>1 DEF Pumps, Unanswered, SameButPumps
<1>6. ASSUME NEW s \in Sides, ReadEnds(s) \/ DelayedCleanup(s)
      PROVE  Pumps'
  <2>1. /\ \A o \in Sides : /\ end'[o].pc = end[o].pc /\ end'[o].queue = end[o].queue
                            /\ end'[o].wr = end[o].wr /\ end'[o].hold = end[o].hold
                            /\ end'[o].rd = "on" => end[o].rd = "on"
        /\ peer' = peer
    BY <1>6, <1>t, ReadEndsEffect, DelayedCleanupEffect DEF SameButPumps
  <2> QED
    BY <1>o, <2>1 DEF Pumps, Unanswered
<1>7. ASSUME NEW s \in Sides, TakeChunk(s)
      PROVE  Pumps'
  <2>1. /\ end[s].pc = "forward" /\ end'[s].pc = "forward"
        /\ \A o \in Sides : o # s => end'[o] = end[o]
        /\ peer' = peer
    BY <1>7, TakeChunkEffect DEF Pumps
  <2> QED
    BY <1>o, <2>1 DEF Pumps, Unanswered
<1>8. ASSUME NEW s \in Sides, WriteSocket(s)
      PROVE  Pumps'
  <2>1. end[s].pc = "forward"
    BY <1>8, WriteSocketEffect DEF Pumps
  <2>2. /\ end'[s].pc = "forward" /\ end'[s].queue = end[s].queue
        /\ peer'[s].read = peer[s].read /\ peer'[s].sent = peer[s].sent
        /\ \A o \in Sides : o # s => end'[o] = end[o] /\ peer'[o] = peer[o]
    BY <1>8, <2>1, WriteSocketEffect DEF SameButPumps
  <2> QED
    BY <1>o, <2>1, <2>2 DEF Pumps, Unanswered
<1>9. ASSUME NEW s \in Sides, PeerSends(s) \/ PeerEnds(s) \/ PeerGone(s)
      PROVE  Pumps'
  <2>1. /\ end' = end
        /\ \A p \in Sides : /\ peer'[p].read = peer[p].read /\ peer'[p].got = peer[p].got
                            /\ peer'[p].sent \in {peer[p].sent, peer[p].sent + 1}
    BY <1>9, PeerEffect
  <2>2. \A p \in Sides : peer'[p].read <= peer'[p].sent
    BY <1>t, <2>1 DEF Pumps
  <2> QED
    BY <2>1, <2>2 DEF Pumps, Unanswered
<1>10. CASE WsLost \/ UNCHANGED chanVars
  BY <1>10 DEF WsLost, chanVars, Pumps, Unanswered
<1>11. ASSUME NEW s \in Sides, Dispatch(s)
       PROVE  Pumps'
  <2> DEFINE m == wire[s][1]
  <2>1. /\ m \in Messages /\ 1 \in DOMAIN wire[s] /\ wire[s] # <<>> /\ peer' = peer
        /\ end'[s] = Received(s, m) /\ \A o \in Sides : o # s => end'[o] = end[o]
    BY <1>11, DispatchEffect, OtherSide DEF Sides
  <2>2. m.kind = "connect" => s = "net" /\ end[s].pc = "idle"
    BY <1>o, <2>1 DEF Handshake, Sides
  <2>3. s = "net" /\ m.kind # "connect" => ~Unanswered
    BY <1>o, <2>1 DEF Handshake
  <2> HIDE DEF m
  <2>4. /\ end'[s].wr = end[s].wr /\ end'[s].hold = end[s].hold
        /\ end'[s].rd = "on" => end[s].rd = "on"
        /\ IF m.kind = "connect" THEN end'[s].pc = "waiting" /\ end'[s].queue = end[s].queue
                                 ELSE end'[s].pc = end[s].pc
    BY <1>t, <2>1, ReceivedEffect
  <2> QED
    BY <1>o, <2>1, <2>2, <2>3, <2>4 DEF Pumps, Unanswered
<1> QED
  BY <1>1, <1>2, <1>3, <1>4, <1>5, <1>6, <1>7, <1>8, <1>9, <1>10, <1>11
  DEF ChanNext, HandlerNext, PumpNext, Environment

(* An end that has closed stays closed.                                    *)
LEMMA ClosedStays ==
  ASSUME ChanTypeOK, Handshake, Pumps, [ChanNext]_chanVars
  PROVE  \A s \in Sides : end[s].pc = "closed" => end'[s].pc = "closed"
<1>o. "socks" \in Sides /\ "net" \in Sides /\ Other("socks") = "net" /\ Other("net") = "socks"
  BY OtherSide DEF Sides
<1>1. CASE Request \/ Answered \/ Timeout
  BY <1>1, <1>o, RequestEffect, AnsweredEffect DEF Started, Sides
<1>2. CASE Connected \/ ConnectFails
  BY <1>2, <1>o, ConnectedEffect, ConnectFailsEffect DEF Started, Left
<1>3. CASE NetCancelled \/ SocksCancelled \/ \E s \in Sides : Finish(s)
  BY <1>3, <1>o, NetCancelledEffect, SocksCancelledEffect, FinishEffect DEF Left
<1>4. ASSUME NEW s \in Sides, ReadSocket(s) \/ ReadEnds(s) \/ DelayedCleanup(s) \/ TakeChunk(s)
                               \/ WriteSocket(s)
      PROVE  \A o \in Sides : end'[o].pc = end[o].pc
  BY <1>4, ReadSocketEffect, ReadEndsEffect, DelayedCleanupEffect, TakeChunkEffect,
     WriteSocketEffect DEF SameButPumps
<1>5. ASSUME NEW s \in Sides, PeerSends(s) \/ PeerEnds(s) \/ PeerGone(s)
      PROVE  end' = end
  BY <1>5, PeerEffect
<1>6. CASE WsLost \/ UNCHANGED chanVars
  BY <1>6 DEF WsLost, chanVars
<1>7. ASSUME NEW s \in Sides, Dispatch(s)
      PROVE  \A o \in Sides : end[o].pc = "closed" => end'[o].pc = "closed"
  <2> DEFINE m == wire[s][1]
  <2>1. /\ m \in Messages /\ 1 \in DOMAIN wire[s] /\ end[s] \in Ends
        /\ end'[s] = Received(s, m) /\ \A o \in Sides : o # s => end'[o] = end[o]
    BY <1>7, DispatchEffect, OtherSide DEF Sides, ChanTypeOK
  <2>2. m.kind = "connect" => end[s].pc = "idle"
    BY <1>o, <2>1 DEF Handshake, Sides
  <2> HIDE DEF m
  <2>3. m.kind # "connect" => end'[s].pc = end[s].pc
    BY <2>1, ReceivedEffect
  <2> QED
    BY <2>1, <2>2, <2>3
<1> QED
  BY <1>1, <1>2, <1>3, <1>4, <1>5, <1>6, <1>7
  DEF ChanNext, HandlerNext, PumpNext, Environment

(***************************************************************************)
(* How the messages on their way to a side change: one arrives, all are    *)
(* lost, or an end that was open sends, and closes when it sends           *)
(* Disconnect.                                                             *)
(***************************************************************************)
Arrived(s) ==
    /\ Len(wire'[s]) = Len(wire[s]) - 1
    /\ \A i \in DOMAIN wire'[s] : /\ i \in Nat \ {0} /\ i + 1 \in DOMAIN wire[s]
                                 /\ wire'[s][i] = wire[s][i + 1]

Added(s, m) ==
    /\ DOMAIN wire'[s] = 1..(Len(wire[s]) + 1) /\ Len(wire'[s]) = Len(wire[s]) + 1
    /\ wire'[s][Len(wire[s]) + 1] = m
    /\ \A i \in 1..Len(wire[s]) : wire'[s][i] = wire[s][i]

WireStep(s) ==
    \/ wire'[s] \in {wire[s], <<>>}
    \/ Arrived(s)
    \/ \E m \in Messages : /\ Added(s, m) /\ end[Other(s)].pc # "closed"
                           /\ m.kind = "disconnect" => end'[Other(s)].pc = "closed"
    \/ /\ wire'[s] = <<Signal("refused"), Signal("disconnect")>>
       /\ end[Other(s)].pc # "closed" /\ end'[Other(s)].pc = "closed"

LEMMA SendingStep ==
  ASSUME ChanTypeOK, NEW o \in Sides, NEW m \in Messages, Sending(o, <<m>>),
         end[o].pc # "closed", m.kind = "disconnect" => end'[o].pc = "closed"
  PROVE  \A s \in Sides : WireStep(s)
<1>1. wire'[o] = wire[o]
  BY SendingEffect
<1>2. ws # "up" => wire'[Other(o)] = wire[Other(o)]
  BY SendingEffect
<1>3. ws = "up" => Added(Other(o), m)
  BY SendingEffect DEF Added
<1>4. WireStep(Other(o))
  BY <1>2, <1>3, OtherSide DEF WireStep
<1> QED
  BY <1>1, <1>4 DEF WireStep, Sides, Other

LEMMA WireNext ==
  ASSUME ChanTypeOK, Handshake, Pumps, [ChanNext]_chanVars
  PROVE  \A s \in Sides : WireStep(s)
<1>o. "socks" \in Sides /\ "net" \in Sides /\ Other("socks") = "net" /\ Other("net") = "socks"
  BY OtherSide DEF Sides
<1>k. \A k \in {"connect", "accepted", "disconnect"} :
        Signal(k) \in Messages /\ Signal(k).kind = k
  BY MessageTypes
<1>s. wire' = wire => \A s \in Sides : WireStep(s)
  BY DEF WireStep
<1>1. CASE Request
  <2>1. end["socks"].pc # "closed" /\ Sending("socks", <<Signal("connect")>>)
    BY <1>1, RequestEffect
  <2> QED
    BY <1>o, <1>k, <2>1, SendingStep
<1>2. CASE Answered \/ Timeout \/ NetCancelled
  BY <1>2, <1>s, AnsweredEffect, NetCancelledEffect
<1>3. CASE Connected
  <2>1. end["net"].pc # "closed" /\ Sending("net", <<Signal("accepted")>>)
    BY <1>3, ConnectedEffect
  <2> QED
    BY <1>o, <1>k, <2>1, SendingStep
<1>4. CASE ConnectFails
  <2>1. wire["socks"] = <<>>
    BY <1>4, <1>o, ConnectFailsEffect DEF Handshake, Unanswered
  <2>2. <<>> \o <<Signal("refused"), Signal("disconnect")>>
          = <<Signal("refused"), Signal("disconnect")>>
    OBVIOUS
  <2>3. /\ wire'["net"] = wire["net"] /\ end'["net"].pc = "closed"
        /\ end["net"].pc # "closed"
        /\ wire'["socks"] \in {<<>>, <<Signal("refused"), Signal("disconnect")>>}
    BY <1>4, <2>1, <2>2, ConnectFailsEffect DEF Left
  <2> QED
    BY <1>o, <2>3 DEF WireStep, Sides
<1>5. ASSUME NEW s \in Sides, Finish(s)
      PROVE  \A o \in Sides : WireStep(o)
  <2>1. end[s].pc = "forward" /\ end'[s].pc = "closed" /\ Sending(s, <<Signal("disconnect")>>)
    BY <1>5, FinishEffect DEF Left
  <2> QED
    BY <1>k, <2>1, SendingStep
<1>6. CASE SocksCancelled
  <2>1. CASE end["socks"].pc = "forward"
    <3>1. end'["socks"].pc = "closed" /\ Sending("socks", <<Signal("disconnect")>>)
      BY <1>6, <2>1, SocksCancelledEffect DEF Left
    <3> QED
      BY <1>k, <1>o, <2>1, <3>1, SendingStep
  <2> QED
    BY <1>6, <1>s, <2>1, SocksCancelledEffect
<1>7. ASSUME NEW s \in Sides, ReadSocket(s)
      PROVE  \A o \in Sides : WireStep(o)
  <2> DEFINE m == Chunk(peer[s].read + 1)
  <2>1. end[s].pc = "forward" /\ Sending(s, <<m>>)
    BY <1>7, ReadSocketEffect DEF Pumps
  <2>2. m \in Messages /\ m.kind = "data"
    BY <1>7, ReadSocketEffect, MessageTypes
  <2> HIDE DEF m
  <2> QED
    BY <2>1, <2>2, SendingStep
<1>8. ASSUME NEW s \in Sides, ReadEnds(s) \/ DelayedCleanup(s) \/ TakeChunk(s) \/ WriteSocket(s)
                               \/ PeerSends(s) \/ PeerEnds(s) \/ PeerGone(s)
      PROVE  wire' = wire
  BY <1>8, ReadEndsEffect, DelayedCleanupEffect, TakeChunkEffect, WriteSocketEffect, PeerEffect
<1>9. CASE WsLost \/ UNCHANGED chanVars
  BY <1>9 DEF WsLost, chanVars, WireStep
<1>10. ASSUME NEW s \in Sides, Dispatch(s)
       PROVE  \A o \in Sides : WireStep(o)
  <2>1. Arrived(s) /\ wire'[Other(s)] = wire[Other(s)]
    BY <1>10, DispatchEffect DEF Arrived
  <2> QED
    BY <1>o, <2>1 DEF WireStep, Sides
<1> QED
  BY <1>1, <1>2, <1>3, <1>4, <1>5, <1>6, <1>7, <1>8, <1>9, <1>10, <1>s
  DEF ChanNext, HandlerNext, PumpNext, Environment

LEMMA SilentNext ==
  ASSUME ChanTypeOK, ClosedIsSilent, NEW s \in Sides, WireStep(s),
         \A o \in Sides : end[o].pc = "closed" => end'[o].pc = "closed"
  PROVE  \A i \in DOMAIN wire'[s] :
            wire'[s][i].kind = "disconnect" => i = Len(wire'[s]) /\ end'[Other(s)].pc = "closed"
<1>1. wire[s] \in Seq(Messages) /\ Other(s) \in Sides /\ Len(wire[s]) \in Nat
      /\ DOMAIN wire[s] = 1..Len(wire[s])
  BY OtherSide, LenProperties DEF ChanTypeOK
<1>2. CASE wire'[s] \in {wire[s], <<>>}
  BY <1>1, <1>2 DEF ClosedIsSilent
<1>3. CASE Arrived(s)
  <2> SUFFICES ASSUME NEW i \in DOMAIN wire'[s], wire'[s][i].kind = "disconnect"
               PROVE  i = Len(wire'[s]) /\ end'[Other(s)].pc = "closed"
    OBVIOUS
  <2>1. i + 1 \in DOMAIN wire[s] /\ wire[s][i + 1].kind = "disconnect"
    BY <1>3 DEF Arrived
  <2>2. i + 1 = Len(wire[s]) /\ end[Other(s)].pc = "closed"
    BY <2>1 DEF ClosedIsSilent
  <2>3. i \in Int
    BY <1>3 DEF Arrived
  <2> QED
    BY <1>1, <1>3, <2>2, <2>3 DEF Arrived
<1>4. ASSUME NEW m \in Messages, Added(s, m), end[Other(s)].pc # "closed",
             m.kind = "disconnect" => end'[Other(s)].pc = "closed"
      PROVE  \A i \in DOMAIN wire'[s] :
               wire'[s][i].kind = "disconnect" =>
                 i = Len(wire'[s]) /\ end'[Other(s)].pc = "closed"
  <2>1. \A i \in 1..Len(wire[s]) : wire'[s][i].kind # "disconnect"
    BY <1>1, <1>4 DEF Added, ClosedIsSilent
  <2> QED
    BY <1>1, <1>4, <2>1 DEF Added
<1>5. CASE /\ wire'[s] = <<Signal("refused"), Signal("disconnect")>>
           /\ end[Other(s)].pc # "closed" /\ end'[Other(s)].pc = "closed"
  BY <1>5 DEF Signal
<1> QED
  BY <1>2, <1>3, <1>4, <1>5 DEF WireStep

LEMMA SilentStays ==
  ASSUME ChanTypeOK, ChanTypeOK', NEW s \in Sides, WireStep(s), Silent(s), ws = "lost" => ws' = "lost",
         \A o \in Sides : end[o].pc = "closed" => end'[o].pc = "closed"
  PROVE  Silent(s)'
<1>1. /\ wire[s] \in Seq(Messages) /\ wire'[s] \in Seq(Messages) /\ Other(s) \in Sides
      /\ Len(wire'[s]) \in Nat
  BY OtherSide DEF ChanTypeOK
<1>2. CASE wire[s] = <<>> /\ end[Other(s)].pc = "closed"
  <2>1. ~Arrived(s)
    BY <1>1, <1>2 DEF Arrived
  <2>2. wire'[s] = <<>>
    BY <1>2, <2>1 DEF WireStep
  <2> QED
    BY <1>1, <1>2, <2>2 DEF Silent
<1> QED
  BY <1>2 DEF Silent

(* How a step changes the keys of an end that stays open.                  *)
KeyStep(s) ==
    \/ end'[s].pc = "closed"
    \/ Silent(s)'
    \/ /\ end[s].pc # "closed"
       /\ end'[s].late => end[s].late
       /\ end'[s].pc \in {"waiting", "forward"} /\ ~end'[s].keyed =>
             end[s].late \/ (end[s].pc \in {"waiting", "forward"} /\ ~end[s].keyed)

LEMMA KeyFrame ==
  ASSUME NEW s \in Sides, end'[s].pc = end[s].pc, end'[s].late = end[s].late,
         end'[s].keyed = end[s].keyed
  PROVE  KeyStep(s)
  BY DEF KeyStep

LEMMA KeyNext ==
  ASSUME ChanTypeOK, ChanTypeOK', Handshake, Pumps, ClosedIsSilent, [ChanNext]_chanVars
  PROVE  \A s \in Sides : KeyStep(s)
<1>o. "socks" \in Sides /\ "net" \in Sides /\ Other("socks") = "net" /\ Other("net") = "socks"
  BY OtherSide DEF Sides
<1>s. ASSUME NEW s \in Sides, KeyStep(s), \A o \in Sides : o # s => end'[o] = end[o]
      PROVE  \A o \in Sides : KeyStep(o)
  BY <1>s, KeyFrame
<1>1. CASE Request
  <2>1. KeyStep("socks")
    BY <1>1, RequestEffect DEF KeyStep
  <2> QED
    BY <1>1, <1>o, <1>s, <2>1, RequestEffect DEF Sides
<1>2. CASE Answered \/ Timeout
  <2>1. KeyStep("socks")
    BY <1>2, AnsweredEffect DEF KeyStep, Started
  <2> QED
    BY <1>2, <1>o, <1>s, <2>1, AnsweredEffect DEF Sides, Started
<1>3. CASE Connected
  <2>1. KeyStep("net")
    BY <1>3, ConnectedEffect DEF KeyStep, Started, Left
  <2> QED
    BY <1>3, <1>o, <1>s, <2>1, ConnectedEffect DEF Started, Left
<1>4. ASSUME NEW s \in Sides, Left(s)
      PROVE  \A o \in Sides : KeyStep(o)
  <2>1. KeyStep(s)
    BY <1>4 DEF KeyStep, Left
  <2> QED
    BY <1>4, <1>s, <2>1 DEF Left
<1>5. CASE ConnectFails \/ NetCancelled \/ SocksCancelled \/ \E s \in Sides : Finish(s)
  BY <1>4, <1>5, <1>o, ConnectFailsEffect, NetCancelledEffect, SocksCancelledEffect, FinishEffect
<1>6. ASSUME NEW s \in Sides, ReadSocket(s) \/ ReadEnds(s) \/ TakeChunk(s) \/ WriteSocket(s)
      PROVE  \A o \in Sides : KeyStep(o)
  <2>1. \A o \in Sides : /\ end'[o].pc = end[o].pc /\ end'[o].late = end[o].late
                         /\ end'[o].keyed = end[o].keyed
    BY <1>6, ReadSocketEffect, ReadEndsEffect, TakeChunkEffect, WriteSocketEffect DEF SameButPumps
  <2> QED
    BY <2>1, KeyFrame
<1>7. ASSUME NEW s \in Sides, DelayedCleanup(s)
      PROVE  \A o \in Sides : KeyStep(o)
  <2>1. KeyStep(s)
    BY <1>7, DelayedCleanupEffect DEF KeyStep
  <2> QED
    BY <1>7, <1>s, <2>1, DelayedCleanupEffect
<1>8. ASSUME NEW s \in Sides, PeerSends(s) \/ PeerEnds(s) \/ PeerGone(s)
      PROVE  \A o \in Sides : KeyStep(o)
  BY <1>8, PeerEffect, KeyFrame
<1>9. CASE WsLost \/ UNCHANGED chanVars
  BY <1>9, KeyFrame DEF WsLost, chanVars
<1>10. ASSUME NEW s \in Sides, Dispatch(s)
       PROVE  \A o \in Sides : KeyStep(o)
  <2> DEFINE m == wire[s][1]
  <2>1. /\ m \in Messages /\ 1 \in DOMAIN wire[s] /\ end[s] \in Ends /\ Other(s) \in Sides
        /\ Other(s) # s /\ end'[s] = Received(s, m) /\ end'[Other(s)] = end[Other(s)]
        /\ Len(wire'[s]) = Len(wire[s]) - 1 /\ wire'[s] \in Seq(Messages)
    BY <1>10, DispatchEffect, OtherSide DEF ChanTypeOK
  <2>2. m.kind = "connect" => end[s].pc = "idle"
    BY <1>o, <2>1 DEF Handshake, Sides
  <2>3. m.kind = "disconnect" => Silent(s)'
    <3>1. ASSUME m.kind = "disconnect"
          PROVE  Len(wire[s]) = 1 /\ end[Other(s)].pc = "closed"
      BY <2>1, <3>1 DEF ClosedIsSilent
    <3>2. Len(wire[s]) = 1 => wire'[s] = <<>>
      BY <2>1, EmptySeq
    <3> QED
      BY <2>1, <3>1, <3>2 DEF Silent
  <2>4. KeyStep(s)
    <3> HIDE DEF m
    <3>1. CASE m.kind = "connect"
      BY <2>1, <2>2, <3>1, ReceivedEffect DEF KeyStep
    <3>2. CASE m.kind \notin {"connect", "disconnect"}
      BY <2>1, <3>2, ReceivedEffect DEF KeyStep
    <3>3. CASE m.kind = "disconnect"
      BY <2>3, <3>3 DEF KeyStep
    <3> QED
      BY <3>1, <3>2, <3>3
  <2> QED
    BY <1>s, <2>1, <2>4, KeyFrame DEF Sides
<1> QED
  BY <1>1, <1>2, <1>3, <1>5, <1>6, <1>7, <1>8, <1>9, <1>10
  DEF ChanNext, HandlerNext, PumpNext, Environment

LEMMA KeysNext ==
  ASSUME ChanTypeOK, ChanTypeOK', Handshake, Pumps, ClosedIsSilent, Keys, [ChanNext]_chanVars
  PROVE  Keys'
<1>1. \A s \in Sides : end[s].pc = "closed" => end'[s].pc = "closed"
  BY ClosedStays
<1>2. \A s \in Sides : WireStep(s)
  BY WireNext
<1>3. ws = "lost" => ws' = "lost"
  BY DEF ChanNext, HandlerNext, PumpNext, Environment, Request, Answered, Timeout, Connected,
         ConnectFails, Finish, SocksCancelled, NetCancelled, ReadSocket, ReadEnds, TakeChunk,
         WriteSocket, DelayedCleanup, Dispatch, PeerSends, PeerEnds, PeerGone, WsLost, chanVars
<1>4. \A s \in Sides : Silent(s) => Silent(s)'
  BY <1>1, <1>2, <1>3, SilentStays
<1>5. \A s \in Sides : KeyStep(s)
  BY KeyNext
<1> QED
  BY <1>4, <1>5 DEF Keys, KeyStep
-----------------------------------------------------------------------------
(***************************************************************************)
(* The numbers of the chunks.                                              *)
(***************************************************************************)
LEMMA InFlightBounds ==
  ASSUME NEW q \in Seq(Messages)
  PROVE  /\ InFlight(q) \in 0..Len(q) /\ Len(q) - 1 <= InFlight(q) /\ Len(q) \in Nat
         /\ DOMAIN q = 1..Len(q)
         /\ (\A i \in DOMAIN q : q[i].kind # "disconnect") => InFlight(q) = Len(q)
<1>1. Len(q) \in Nat /\ DOMAIN q = 1..Len(q) /\ (q # <<>> => Len(q) \in DOMAIN q)
  BY LenProperties, EmptySeq
<1>2. CASE q = <<>> \/ Last(q).kind # "disconnect"
  <2>1. InFlight(q) = Len(q)
    BY <1>2 DEF InFlight
  <2> QED
    BY <1>1, <2>1
<1>3. CASE q # <<>> /\ Last(q).kind = "disconnect"
  <2>1. InFlight(q) = Len(q) - 1
    BY <1>3 DEF InFlight
  <2>2. Len(q) \in DOMAIN q /\ q[Len(q)].kind = "disconnect" /\ Len(q) >= 1
    BY <1>1, <1>3 DEF Last
  <2>3. ~(\A i \in DOMAIN q : q[i].kind # "disconnect")
    BY <2>2
  <2>4. InFlight(q) \in 0..Len(q) /\ Len(q) - 1 <= InFlight(q)
    BY <1>1, <2>1, <2>2
  <2> QED
    BY <1>1, <2>3, <2>4
<1> QED
  BY <1>2, <1>3

LEMMA NumbersAdded ==
  ASSUME NEW q \in Seq(Messages), NEW r \in Seq(Messages), NEW m \in Messages, NEW n \in Nat,
         \A i \in DOMAIN q : q[i].kind # "disconnect",
         Len(r) = Len(q) + 1, r[Len(q) + 1] = m, \A i \in 1..Len(q) : r[i] = q[i],
         WireNumbered(q, n)
  PROVE  /\ m.kind = "disconnect" => WireNumbered(r, n) /\ InFlight(r) = InFlight(q)
         /\ m.kind = "data" /\ m.n = n + 1 =>
               WireNumbered(r, n + 1) /\ InFlight(r) = InFlight(q) + 1
<1>1. /\ InFlight(q) = Len(q) /\ Len(q) \in Nat /\ r # <<>>
  BY InFlightBounds, EmptySeq
<1>2. ASSUME m.kind = "disconnect"
      PROVE  WireNumbered(r, n) /\ InFlight(r) = InFlight(q)
  <2>1. InFlight(r) = Len(q)
    BY <1>1, <1>2 DEF InFlight, Last
  <2> QED
    BY <1>1, <2>1 DEF WireNumbered
<1>3. ASSUME m.kind = "data", m.n = n + 1
      PROVE  WireNumbered(r, n + 1) /\ InFlight(r) = InFlight(q) + 1
  <2>1. InFlight(r) = Len(q) + 1
    BY <1>1, <1>3 DEF InFlight, Last
  <2>2. ASSUME NEW i \in 1..(Len(q) + 1), r[i].kind = "data"
        PROVE  r[i].n = n + 1 - (Len(q) + 1 - i)
    <3>1. CASE i = Len(q) + 1
      BY <1>1, <1>3, <3>1
    <3>2. CASE i # Len(q) + 1
      <4>1. i \in 1..Len(q) /\ r[i] = q[i]
        BY <1>1, <3>2
      <4>2. q[i].n = n - (Len(q) - i)
        BY <1>1, <2>2, <4>1 DEF WireNumbered
      <4> QED
        BY <1>1, <4>1, <4>2
    <3> QED
      BY <3>1, <3>2
  <2> QED
    BY <1>1, <2>1, <2>2 DEF WireNumbered
<1> QED
  BY <1>2, <1>3

LEMMA NumbersShifted ==
  ASSUME NEW q \in Seq(Messages), NEW r \in Seq(Messages), NEW n \in Nat, q # <<>>,
         q[1].kind # "disconnect", Len(r) = Len(q) - 1,
         \A i \in DOMAIN r : r[i] = q[i + 1], WireNumbered(q, n)
  PROVE  /\ WireNumbered(r, n) /\ InFlight(r) = InFlight(q) - 1
         /\ q[1].kind = "data" => q[1].n = n - InFlight(r)
<1>1. /\ Len(q) \in Nat /\ Len(q) >= 1 /\ Len(r) \in Nat /\ DOMAIN r = 1..Len(r)
      /\ InFlight(q) \in 0..Len(q)
  BY InFlightBounds, EmptySeq
<1>2. CASE Len(q) = 1
  <2>1. InFlight(q) = 1 /\ InFlight(r) = 0
    BY <1>1, <1>2, EmptySeq DEF InFlight, Last
  <2> QED
    BY <2>1 DEF WireNumbered
<1>3. CASE Len(q) # 1
  <2>1. r[Len(r)] = q[Len(q)] /\ r # <<>>
    BY <1>1, <1>3, EmptySeq
  <2>2. InFlight(r) = InFlight(q) - 1 /\ InFlight(q) >= 1
    BY <1>1, <1>3, <2>1 DEF InFlight, Last
  <2>3. InFlight(r) \in 0..Len(r)
    BY InFlightBounds
  <2>4. ASSUME NEW i \in 1..InFlight(r), r[i].kind = "data"
        PROVE  r[i].n = n - (InFlight(r) - i)
    <3>1. r[i] = q[i + 1] /\ i + 1 \in 1..InFlight(q)
      BY <1>1, <2>2, <2>3
    <3>2. q[i + 1].n = n - (InFlight(q) - (i + 1))
      BY <2>4, <3>1 DEF WireNumbered
    <3> QED
      BY <1>1, <2>2, <3>1, <3>2
  <2>5. q[1].kind = "data" => q[1].n = n - (InFlight(q) - 1)
    BY <1>1, <2>2 DEF WireNumbered
  <2> QED
    BY <2>2, <2>4, <2>5 DEF WireNumbered
<1> QED
  BY <1>2, <1>3

(* A chunk that arrives is put behind those in the queue.                  *)
LEMMA QueueAdded ==
  ASSUME NEW q \in Seq(Messages), NEW m \in Messages, NEW seen \in Nat,
         QueueNumbered(q, seen), m.kind = "data", m.n = seen + 1
  PROVE  QueueNumbered(Append(q, m), seen + 1) /\ Len(Append(q, m)) = Len(q) + 1
<1>1. /\ Len(q) \in Nat /\ Len(Append(q, m)) = Len(q) + 1 /\ Append(q, m)[Len(q) + 1] = m
      /\ \A i \in 1..Len(q) : Append(q, m)[i] = q[i]
  BY AppendProperties, LenProperties
<1>2. ASSUME NEW i \in 1..(Len(q) + 1)
      PROVE  /\ Append(q, m)[i].kind = "data"
             /\ Append(q, m)[i].n = seen + 1 - (Len(q) + 1 - i)
  <2>1. CASE i = Len(q) + 1
    BY <1>1, <2>1
  <2>2. CASE i # Len(q) + 1
    <3>1. i \in 1..Len(q) /\ Append(q, m)[i] = q[i]
      BY <1>1, <2>2
    <3>2. q[i].kind = "data" /\ q[i].n = seen - (Len(q) - i)
      BY <3>1 DEF QueueNumbered
    <3> QED
      BY <1>1, <3>1, <3>2
  <2> QED
    BY <2>1, <2>2
<1> QED
  BY <1>1, <1>2 DEF QueueNumbered

(***************************************************************************)
(* A step leaves the numbers in order on every side.                       *)
(***************************************************************************)
SameArrivals(s) ==
    /\ wire'[s] = wire[s] /\ ws' = ws /\ peer'[Other(s)].read = peer[Other(s)].read

SameQueue(s) ==
    /\ end'[s].queue = end[s].queue /\ end'[s].hold = end[s].hold
    /\ peer'[s].got = peer[s].got

LEMMA FlowFrame ==
  ASSUME NEW s \in Sides, Flow(s), SameArrivals(s),
         end'[s].wr = "on" => end[s].wr = "on" /\ SameQueue(s)
  PROVE  Flow(s)'
<1>1. \A seen : SameQueue(s) /\ Arrivals(s, seen) => Arrivals(s, seen)'
  BY DEF SameQueue, SameArrivals, Arrivals, Numbered, GotUpTo, Written
<1> QED
  BY <1>1 DEF Flow, SameArrivals

(* The wire changes, the queue does not.                                   *)
LEMMA FlowArrivals ==
  ASSUME NEW s \in Sides, Flow(s), end'[s].wr = "on" => end[s].wr = "on" /\ SameQueue(s),
         WireNumbered(wire'[s], peer'[Other(s)].read),
         peer[Other(s)].read \in Nat, peer'[Other(s)].read \in Nat,
         peer[Other(s)].read <= peer'[Other(s)].read,
         ws' = "up" => /\ ws = "up"
                       /\ peer'[Other(s)].read - InFlight(wire'[s])
                            = peer[Other(s)].read - InFlight(wire[s])
  PROVE  Flow(s)'
<1>1. \A seen : SameQueue(s) /\ Arrivals(s, seen) => Arrivals(s, seen)'
  BY DEF SameQueue, Arrivals, Numbered, GotUpTo, Written
<1>2. \A seen \in 0..peer[Other(s)].read : seen \in 0..peer'[Other(s)].read
  OBVIOUS
<1> QED
  BY <1>1, <1>2 DEF Flow

LEMMA FlowTake ==
  ASSUME ChanTypeOK, Pumps, NEW s \in Sides, TakeChunk(s), Flow(s)
  PROVE  Flow(s)'
<1>1. /\ end[s].queue \in Seq(Messages) /\ Len(end[s].queue) \in Nat
      /\ Len(end[s].queue) >= 1 /\ end[s].queue[1] \in Messages
  BY TakeChunkEffect, EmptySeq DEF ChanTypeOK, Ends
<1>2. PICK seen \in 0..peer[Other(s)].read : Arrivals(s, seen)
  BY TakeChunkEffect DEF Flow
<1>3. SameArrivals(s) /\ peer' = peer
  BY TakeChunkEffect DEF SameArrivals
<1>4. seen \in Int /\ Len(end[s].queue) \in Int
  BY <1>1, <1>2 DEF ChanTypeOK, Peers
<1>5. /\ end[s].queue[1].kind = "data" /\ end[s].queue[1].n = seen - (Len(end[s].queue) - 1)
      /\ end[s].queue[1].n # 0
  <2>1. 1 \in 1..Len(end[s].queue)
    BY <1>1
  <2>2. QueueNumbered(end[s].queue, seen)
    BY <1>2 DEF Arrivals, Numbered
  <2>3. /\ end[s].queue[1].kind = "data"
        /\ end[s].queue[1].n = seen - (Len(end[s].queue) - 1)
    BY <2>1, <2>2 DEF QueueNumbered
  <2> QED
    BY <1>1, <2>3, MessageTypes
<1>6. /\ end'[s].hold = end[s].queue[1].n /\ Len(end'[s].queue) = Len(end[s].queue) - 1
      /\ \A i \in 1..(Len(end[s].queue) - 1) : end'[s].queue[i] = end[s].queue[i + 1]
      /\ end[s].hold = 0
  BY TakeChunkEffect
<1>7. QueueNumbered(end'[s].queue, seen)
  <2> SUFFICES ASSUME NEW i \in 1..Len(end'[s].queue)
               PROVE  /\ end'[s].queue[i].kind = "data"
                      /\ end'[s].queue[i].n = seen - (Len(end'[s].queue) - i)
    BY DEF QueueNumbered
  <2>1. i + 1 \in 1..Len(end[s].queue) /\ end'[s].queue[i] = end[s].queue[i + 1]
    BY <1>1, <1>6
  <2>2. /\ end[s].queue[i + 1].kind = "data"
        /\ end[s].queue[i + 1].n = seen - (Len(end[s].queue) - (i + 1))
    BY <1>2, <2>1 DEF Arrivals, Numbered, QueueNumbered
  <2>3. Len(end'[s].queue) - i = Len(end[s].queue) - (i + 1)
    BY <1>4, <1>6
  <2> QED
    BY <2>1, <2>2, <2>3
<1>8. end'[s].hold # 0 /\ end'[s].hold = seen - Len(end'[s].queue)
  BY <1>4, <1>5, <1>6
<1>9. Written(end'[s], seen) = Written(end[s], seen)
  BY <1>4, <1>6, <1>8 DEF Written
<1>10. Arrivals(s, seen)'
  BY <1>2, <1>3, <1>7, <1>8, <1>9 DEF Arrivals, Numbered, GotUpTo, SameArrivals
<1> QED
  BY <1>2, <1>3, <1>10 DEF Flow, SameArrivals

LEMMA FlowWrite ==
  ASSUME ChanTypeOK, Pumps, NEW s \in Sides, WriteSocket(s), Flow(s)
  PROVE  Flow(s)'
<1>1. SameArrivals(s)
  <2>1. wire' = wire /\ ws' = ws /\ (\A o \in Sides : o # s => peer'[o] = peer[o])
    BY WriteSocketEffect
  <2> QED
    BY <2>1, OtherSide DEF SameArrivals
<1>2. CASE end'[s].wr # "on"
  BY <1>1, <1>2, FlowFrame
<1>3. CASE end'[s].wr = "on"
  <2>1. PICK seen \in 0..peer[Other(s)].read : Arrivals(s, seen)
    BY WriteSocketEffect DEF Flow
  <2>2. /\ end'[s].queue = end[s].queue /\ end'[s].hold = 0 /\ end[s].hold # 0
        /\ peer'[s].got = Append(peer[s].got, end[s].hold)
    BY <1>3, WriteSocketEffect DEF SameButPumps
  <2>3. end[s].hold \in 1..MaxChunks /\ peer[s].got \in Seq(1..MaxChunks)
    BY <2>2, ChannelAssumption DEF ChanTypeOK, Ends, Peers
  <2>4. peer'[s].got # <<>> /\ Last(peer'[s].got) = end[s].hold
    BY <2>2, <2>3, AppendProperties DEF Last
  <2>5. Written(end'[s], seen) = end[s].hold
    BY <2>1, <2>2 DEF Arrivals, Numbered, Written
  <2>6. Arrivals(s, seen)'
    BY <1>1, <2>1, <2>2, <2>4, <2>5 DEF Arrivals, Numbered, GotUpTo, SameArrivals
  <2> QED
    BY <1>1, <2>1, <2>6 DEF Flow, SameArrivals
<1> QED
  BY <1>2, <1>3

(* The pumps of a side start: nothing has been written there.              *)
LEMMA FlowStart ==
  ASSUME NEW s \in Sides, Flow(s), SameArrivals(s), end'[s].queue = <<>>, end'[s].hold = 0,
         peer'[s].got = <<>>, peer[Other(s)].read \in Nat,
         ws = "up" => InFlight(wire[s]) \in 0..peer[Other(s)].read,
         s = "net" => peer[Other(s)].read = 0
  PROVE  Flow(s)'
<1>1. PICK first \in 0..peer[Other(s)].read :
        /\ ws = "up" => first = peer[Other(s)].read - InFlight(wire[s])
        /\ s = "net" => first = 0
  <2>1. CASE ws = "up"
    <3>1. /\ peer[Other(s)].read - InFlight(wire[s]) \in 0..peer[Other(s)].read
          /\ s = "net" => peer[Other(s)].read - InFlight(wire[s]) = 0
      BY <2>1
    <3> QED
      BY <3>1
  <2>2. CASE ws # "up"
    BY <2>2
  <2> QED
    BY <2>1, <2>2
<1>3. Len(<<>>) = 0 /\ first \in Int /\ first - 0 = first
  BY <1>1, EmptySeq
<1>4. Written(end'[s], first) = first
  BY <1>3 DEF Written
<1>5. Numbered(end'[s], first)
  BY <1>3 DEF Numbered, QueueNumbered
<1>6. Arrivals(s, first)'
  <2>1. ws' = "up" => first = peer'[Other(s)].read - InFlight(wire'[s])
    BY <1>1 DEF SameArrivals
  <2>2. GotUpTo(s, Written(end[s], first))'
    BY <1>1, <1>4 DEF GotUpTo
  <2> QED
    BY <1>5, <2>1, <2>2 DEF Arrivals
<1> QED
  BY <1>1, <1>6 DEF Flow, SameArrivals

(* A chunk arrives where the pump that writes runs.                        *)
LEMMA FlowQueued ==
  ASSUME NEW s \in Sides, NEW seen \in Nat, NEW m \in Messages, end[s] \in Ends,
         ws = "up", Arrivals(s, seen), m.kind = "data", m.n = seen + 1,
         end'[s].queue = Append(end[s].queue, m), end'[s].hold = end[s].hold, peer' = peer,
         InFlight(wire[s]) \in Nat, InFlight(wire'[s]) = InFlight(wire[s]) - 1,
         peer[Other(s)].read \in Nat
  PROVE  Arrivals(s, seen + 1)'
<1>1. end[s].queue \in Seq(Messages) /\ Len(end[s].queue) \in Nat
  BY LenProperties DEF Ends
<1>2. QueueNumbered(end[s].queue, seen)
  BY DEF Arrivals, Numbered
<1>3. QueueNumbered(end'[s].queue, seen + 1) /\ Len(end'[s].queue) = Len(end[s].queue) + 1
  BY <1>1, <1>2, QueueAdded
<1>4. seen - Len(end[s].queue) = (seen + 1) - Len(end'[s].queue)
  BY <1>1, <1>3
<1>5. Numbered(end'[s], seen + 1) /\ Written(end'[s], seen + 1) = Written(end[s], seen)
  BY <1>3, <1>4 DEF Arrivals, Numbered, Written
<1>6. seen + 1 = peer'[Other(s)].read - InFlight(wire'[s])
  <2>1. seen = peer[Other(s)].read - InFlight(wire[s])
    BY DEF Arrivals
  <2> QED
    BY <2>1
<1> QED
  BY <1>5, <1>6 DEF Arrivals, GotUpTo

LEMMA FlowDispatch ==
  ASSUME ChanTypeOK, ChanTypeOK', Handshake, Pumps, Keys, ClosedIsSilent, NEW s \in Sides,
         Dispatch(s), Flow(s)
  PROVE  Flow(s)'
<1> DEFINE m == wire[s][1]
           n == peer[Other(s)].read
<1>1. /\ m \in Messages /\ 1 \in DOMAIN wire[s] /\ wire[s] # <<>> /\ end[s] \in Ends
      /\ Len(wire'[s]) = Len(wire[s]) - 1 /\ end'[s] = Received(s, m)
      /\ \A i \in DOMAIN wire'[s] : wire'[s][i] = wire[s][i + 1]
      /\ peer' = peer /\ ws = "up" /\ ws' = "up"
  BY DispatchEffect DEF ChanTypeOK
<1>2. /\ wire[s] \in Seq(Messages) /\ wire'[s] \in Seq(Messages) /\ n \in Nat
      /\ end[s].queue \in Seq(Messages)
  BY OtherSide, ChannelAssumption DEF ChanTypeOK, Peers, Ends
<1>3. /\ InFlight(wire[s]) \in Nat /\ InFlight(wire'[s]) \in Nat
      /\ Len(wire[s]) \in Nat /\ Len(wire'[s]) \in Nat
  BY <1>2, InFlightBounds
<1>4. WireNumbered(wire[s], n)
  BY DEF Flow
<1>5. m.kind # "disconnect" =>
        /\ WireNumbered(wire'[s], n) /\ InFlight(wire'[s]) = InFlight(wire[s]) - 1
        /\ m.kind = "data" => m.n = n - InFlight(wire'[s])
  <2> SUFFICES ASSUME wire[s][1].kind # "disconnect"
               PROVE  /\ WireNumbered(wire'[s], n) /\ InFlight(wire'[s]) = InFlight(wire[s]) - 1
                      /\ m.kind = "data" => m.n = n - InFlight(wire'[s])
    OBVIOUS
  <2> HIDE DEF n
  <2> QED
    BY <1>1, <1>2, <1>4, NumbersShifted
<1>6. CASE m.kind = "disconnect"
  <2>1. Len(wire[s]) = 1
    BY <1>1, <1>6 DEF ClosedIsSilent
  <2>2. wire'[s] = <<>>
    BY <1>1, <1>2, <2>1, EmptySeq
  <2>3. InFlight(wire[s]) = 0 /\ InFlight(wire'[s]) = 0
    BY <1>1, <1>6, <2>1, <2>2, EmptySeq DEF InFlight, Last
  <2>4. WireNumbered(wire'[s], n)
    BY <2>3 DEF WireNumbered
  <2>5. end'[s].wr = end[s].wr /\ SameQueue(s)
    BY <1>1, <1>6, ReceivedEffect DEF SameQueue
  <2> QED
    BY <1>1, <1>2, <2>3, <2>4, <2>5, FlowArrivals
<1>7. CASE m.kind # "disconnect" /\ end[s].wr # "on"
  <2>1. end'[s].wr # "on"
    BY <1>1, <1>7, ReceivedEffect
  <2> QED
    BY <1>1, <1>5, <1>7, <2>1 DEF Flow
<1>8. CASE m.kind # "disconnect" /\ end[s].wr = "on"
  <2>1. end[s].pc = "forward"
    BY <1>8 DEF Pumps
  <2>2. end[s].keyed
    BY <1>1, <2>1 DEF Keys, Silent
  <2>3. m.kind = "data"
    BY <1>1, <1>8, <2>1 DEF Handshake, Sides
  <2>4. PICK seen \in 0..n : Arrivals(s, seen)
    BY <1>8 DEF Flow
  <2>5. seen = n - InFlight(wire[s]) /\ seen \in Nat
    BY <1>1, <1>2, <2>4 DEF Arrivals
  <2>6. m.n = seen + 1 /\ seen + 1 \in 0..n
    BY <1>2, <1>3, <1>5, <1>8, <2>3, <2>5
  <2>7. end'[s].queue = Append(end[s].queue, m) /\ end'[s].hold = end[s].hold
    <3>1. "data" \notin {"connect", "disconnect"} /\ "forward" # "closed"
      OBVIOUS
    <3> HIDE DEF m
    <3> QED
      BY <1>1, <2>1, <2>2, <2>3, <3>1, ReceivedEffect
  <2> HIDE DEF m
  <2>8. Arrivals(s, seen + 1)'
    BY <1>1, <1>2, <1>3, <1>5, <1>8, <2>3, <2>4, <2>5, <2>6, <2>7, FlowQueued
  <2> QED
    BY <1>1, <1>5, <1>8, <2>6, <2>8 DEF Flow
<1> QED
  BY <1>6, <1>7, <1>8

LEMMA SameDifference ==
  ASSUME NEW k \in Int, NEW j \in Int, NEW x, NEW y, x = k + 1, y = j + 1
  PROVE  x - y = k - j
  OBVIOUS

(* A side that is open sends a message to the other one.                   *)
LEMMA FlowSent ==
  ASSUME ChanTypeOK, ChanTypeOK', ClosedIsSilent, LostIsEmpty, NEW o \in Sides, NEW m \in Messages,
         Sending(o, <<m>>), end[o].pc # "closed", ws' = ws, Flow(Other(o)),
         \/ m.kind = "disconnect" /\ peer'[o].read = peer[o].read
         \/ m.kind = "data" /\ m.n = peer[o].read + 1 /\ peer'[o].read = peer[o].read + 1,
         end'[Other(o)].wr = "on" => end[Other(o)].wr = "on" /\ SameQueue(Other(o))
  PROVE  Flow(Other(o))'
<1> DEFINE s == Other(o)
           n == peer[o].read
<1>1. /\ wire[s] \in Seq(Messages) /\ wire'[s] \in Seq(Messages) /\ n \in Nat
      /\ s \in Sides /\ Other(s) = o
  BY OtherSide, ChannelAssumption DEF ChanTypeOK, Peers
<1>2. WireNumbered(wire[s], n) /\ Flow(s)
  BY <1>1 DEF Flow
<1>3. \A i \in DOMAIN wire[s] : wire[s][i].kind # "disconnect"
  BY <1>1 DEF ClosedIsSilent
<1>4. InFlight(wire[s]) \in Nat
  BY <1>1, InFlightBounds
<1>5. n <= peer'[o].read /\ peer'[o].read \in Nat
  BY <1>1
<1>6. CASE ws = "up"
  <2>1. /\ Len(wire'[s]) = Len(wire[s]) + 1 /\ wire'[s][Len(wire[s]) + 1] = m
        /\ \A i \in 1..Len(wire[s]) : wire'[s][i] = wire[s][i]
    BY <1>6, SendingEffect
  <2>2. /\ m.kind = "disconnect" =>
              WireNumbered(wire'[s], n) /\ InFlight(wire'[s]) = InFlight(wire[s])
        /\ m.kind = "data" /\ m.n = n + 1 =>
              WireNumbered(wire'[s], n + 1) /\ InFlight(wire'[s]) = InFlight(wire[s]) + 1
    <3> HIDE DEF n, s
    <3>1. WireNumbered(wire[s], n) /\ wire[s] \in Seq(Messages) /\ wire'[s] \in Seq(Messages)
          /\ n \in Nat
      BY <1>1, <1>2
    <3> QED
      BY <1>3, <2>1, <3>1, NumbersAdded, SMTT(30)
  <2>3. /\ WireNumbered(wire'[s], peer'[o].read)
        /\ peer'[o].read - InFlight(wire'[s]) = n - InFlight(wire[s])
    <3>1. CASE m.kind = "disconnect" /\ peer'[o].read = n
      BY <2>2, <3>1
    <3>2. CASE m.kind = "data" /\ m.n = n + 1 /\ peer'[o].read = n + 1
      <4>1. /\ WireNumbered(wire'[s], n + 1)
            /\ InFlight(wire'[s]) = InFlight(wire[s]) + 1
        BY <2>2, <3>2
      <4>3. peer'[o].read - InFlight(wire'[s]) = n - InFlight(wire[s])
        <5> HIDE DEF n, s
        <5>1. n \in Int /\ InFlight(wire[s]) \in Int
          BY <1>1, <1>4
        <5> QED
          BY <3>2, <4>1, <5>1, SameDifference
      <4>4. WireNumbered(wire'[s], peer'[o].read)
        BY <3>2, <4>1
      <4> QED
        BY <4>3, <4>4
    <3> QED
      BY <3>1, <3>2
  <2> HIDE DEF s
  <2> QED
    BY <1>1, <1>2, <1>5, <1>6, <2>3, FlowArrivals DEF s
<1>7. CASE ws # "up"
  <2>1. wire[s] = <<>> /\ wire'[s] = <<>>
    BY <1>1, <1>7, SendingEffect DEF LostIsEmpty, ChanTypeOK
  <2>2. WireNumbered(wire'[s], peer'[o].read)
    BY <2>1, EmptySeq DEF WireNumbered, InFlight
  <2> QED
    BY <1>1, <1>2, <1>5, <1>7, <2>2, FlowArrivals
<1> QED
  BY <1>6, <1>7

(* Nothing but signals is on the way to a side that does not write.        *)
LEMMA FlowOff ==
  ASSUME ChanTypeOK', NEW s \in Sides, end'[s].wr # "on",
         \A i \in DOMAIN wire'[s] : wire'[s][i].kind # "data"
  PROVE  Flow(s)'
<1>1. wire'[s] \in Seq(Messages)
  BY DEF ChanTypeOK
<1>2. \A i \in 1..InFlight(wire'[s]) : i \in DOMAIN wire'[s]
  BY <1>1, InFlightBounds
<1>3. WireNumbered(wire'[s], peer'[Other(s)].read)
  BY <1>2 DEF WireNumbered
<1> QED
  BY <1>3 DEF Flow

(* The chunks under way to a side that waits for its answer are among those*)
(* that were read: its answer has arrived.                                 *)
LEMMA WaitingNumbers ==
  ASSUME ChanTypeOK, Handshake, ClosedIsSilent, Flow("socks"), end["socks"].queue # <<>>
  PROVE  InFlight(wire["socks"]) \in 0..peer["net"].read
<1> DEFINE q == wire["socks"]
           k == InFlight(q)
           n == peer["net"].read
<1>1. q \in Seq(Messages) /\ n \in Nat /\ "socks" \in Sides /\ Other("socks") = "net"
  BY OtherSide, ChannelAssumption DEF ChanTypeOK, Peers, Sides
<1>2. k \in 0..Len(q) /\ Len(q) \in Nat /\ DOMAIN q = 1..Len(q)
  BY <1>1, InFlightBounds
<1>3. CASE k # 0
  <2>1. 1 \in 1..k /\ 1 \in DOMAIN q
    BY <1>2, <1>3
  <2>2. q[1].kind \in {"data", "disconnect"}
    BY <2>1 DEF Handshake
  <2>3. q[1].kind # "disconnect"
    <3>1. ASSUME q[1].kind = "disconnect"
          PROVE  k = 0
      <4>1. Len(q) = 1
        BY <1>1, <2>1, <3>1 DEF ClosedIsSilent
      <4> QED
        BY <3>1, <4>1, <2>1 DEF InFlight, Last
    <3> QED
      BY <1>3, <3>1
  <2>4. q[1].n = n - (k - 1)
    BY <1>1, <2>1, <2>2, <2>3 DEF Flow, WireNumbered
  <2>5. q[1] \in Messages
    BY <1>1, <2>1
  <2>6. q[1].n \in Nat \ {0}
    BY <2>2, <2>3, <2>5, MessageTypes, ChannelAssumption
  <2> QED
    BY <1>1, <1>2, <2>4, <2>6
<1> QED
  BY <1>1, <1>3

LEMMA SameSides ==
  ASSUME NEW s \in Sides, wire'[s] = wire[s], peer' = peer, ws' = ws
  PROVE  SameArrivals(s) /\ (end'[s] = end[s] => SameQueue(s))
  BY DEF SameArrivals, SameQueue

(* The steps that send nothing and let no pump run that did not.           *)
LEMMA FlowQuiet ==
  ASSUME ChanTypeOK, \A s \in Sides : Flow(s), wire' = wire, ws' = ws,
         \A s \in Sides : /\ peer'[s].read = peer[s].read /\ peer'[s].got = peer[s].got
                          /\ end'[s].wr = "on" => /\ end[s].wr = "on"
                                                  /\ end'[s].queue = end[s].queue
                                                  /\ end'[s].hold = end[s].hold
  PROVE  \A s \in Sides : Flow(s)'
<1>1. \A s \in Sides : SameArrivals(s) /\ (end'[s].wr = "on" => end[s].wr = "on" /\ SameQueue(s))
  BY OtherSide DEF SameArrivals, SameQueue
<1> QED
  BY <1>1, FlowFrame

LEMMA FlowHandler ==
  ASSUME ChanTypeOK, ChanTypeOK', Handshake, Pumps, ClosedIsSilent, \A s \in Sides : Flow(s),
         Request \/ Answered \/ Timeout \/ Connected \/ ConnectFails
  PROVE  \A s \in Sides : Flow(s)'
<1>o. "socks" \in Sides /\ "net" \in Sides /\ Other("socks") = "net" /\ Other("net") = "socks"
  BY OtherSide DEF Sides
<1>k. \A k \in {"connect", "accepted", "refused", "disconnect"} :
        Signal(k) \in Messages /\ Signal(k).kind = k
  BY MessageTypes
<1>t. \A s \in Sides : peer[s].read \in Nat /\ wire[s] \in Seq(Messages)
  BY ChannelAssumption DEF ChanTypeOK, Peers
<1>1. CASE Request
  <2>1. end["socks"].pc = "idle" /\ end["net"].pc = "idle" /\ wire["net"] = <<>>
    BY <1>1, RequestEffect DEF Handshake
  <2>2. end["socks"].wr # "on" /\ end["net"].wr # "on"
    BY <1>o, <2>1 DEF Pumps
  <2>3. /\ wire'["socks"] = wire["socks"] /\ peer' = peer /\ ws' = ws
        /\ end'["socks"].wr = end["socks"].wr /\ end'["net"] = end["net"]
        /\ \A i \in DOMAIN wire'["net"] : wire'["net"][i].kind = "connect"
    BY <1>1, <1>o, <1>k, <2>1, RequestEffect, SendingEffect
  <2>4. Flow("socks")'
    BY <1>o, <2>2, <2>3, SameSides, FlowFrame
  <2>5. Flow("net")'
    BY <1>o, <2>2, <2>3, FlowOff
  <2> QED
    BY <2>4, <2>5 DEF Sides
<1>2. CASE Answered \/ Timeout
  <2>1. /\ end["socks"].pc = "waiting" /\ wire' = wire /\ end'["socks"].queue = <<>>
        /\ end'["net"] = end["net"] /\ peer' = peer /\ ws' = ws
    BY <1>2, <1>o, AnsweredEffect DEF Started
  <2>2. Flow("net")'
    BY <1>o, <2>1, SameSides, FlowFrame
  <2>3. end["socks"].wr # "on" /\ end["socks"].hold = 0 /\ peer["socks"].got = <<>>
    BY <1>o, <2>1 DEF Pumps
  <2>4. CASE Started("socks") /\ end["socks"].queue # <<>>
    <3>1. end'["socks"].hold = 0 /\ InFlight(wire["socks"]) \in 0..peer["net"].read
      BY <1>o, <2>3, <2>4, WaitingNumbers DEF Started
    <3>2. SameArrivals("socks")
      BY <1>o, <2>1, SameSides
    <3> QED
      BY <1>o, <1>t, <2>1, <2>2, <2>3, <3>1, <3>2, FlowStart DEF Sides
  <2>5. CASE end'["socks"].wr = end["socks"].wr
    BY <1>o, <2>1, <2>2, <2>3, <2>5, SameSides, FlowFrame DEF Sides
  <2> QED
    BY <1>2, <2>4, <2>5, AnsweredEffect
<1>3. end["net"].pc = "waiting" =>
        /\ wire["net"] = <<>> /\ wire["socks"] = <<>> /\ peer["socks"].read = 0
        /\ end["socks"].wr # "on" /\ end["net"].queue = <<>> /\ end["net"].hold = 0
        /\ peer["net"].got = <<>>
  <2> SUFFICES ASSUME end["net"].pc = "waiting"
               PROVE  /\ wire["net"] = <<>> /\ wire["socks"] = <<>> /\ peer["socks"].read = 0
                      /\ end["socks"].wr # "on" /\ end["net"].queue = <<>>
                      /\ end["net"].hold = 0 /\ peer["net"].got = <<>>
    OBVIOUS
  <2>1. Unanswered /\ wire["socks"] = <<>> /\ peer["socks"].read = 0 /\ end["socks"].pc # "forward"
    BY DEF Handshake, Unanswered
  <2>2. \A i \in DOMAIN wire["net"] : FALSE
    BY <2>1 DEF Handshake
  <2>3. wire["net"] = <<>>
    <3>1. /\ wire["net"] \in Seq(Messages) /\ DOMAIN wire["net"] = 1..Len(wire["net"])
          /\ Len(wire["net"]) \in Nat
      BY <1>o, <1>t, LenProperties
    <3>2. Len(wire["net"]) = 0
      <4>1. Len(wire["net"]) # 0 => 1 \in DOMAIN wire["net"]
        BY <3>1
      <4> QED
        BY <2>2, <4>1
    <3> QED
      BY <3>1, <3>2, EmptySeq
  <2> QED
    BY <1>o, <2>1, <2>3 DEF Pumps
<1>4. CASE Connected
  <2>1. /\ end["net"].pc = "waiting" /\ end'["socks"] = end["socks"] /\ peer' = peer /\ ws' = ws
        /\ Sending("net", <<Signal("accepted")>>)
    BY <1>4, <1>o, ConnectedEffect DEF Started, Left
  <2>2. /\ wire'["net"] = wire["net"]
        /\ \A i \in DOMAIN wire'["socks"] : wire'["socks"][i].kind = "accepted"
    BY <1>o, <1>k, <1>3, <2>1, SendingEffect
  <2>3. Flow("socks")'
    BY <1>o, <1>3, <2>1, <2>2, FlowOff
  <2>4. SameArrivals("net")
    BY <1>o, <2>1, <2>2, SameSides
  <2>5. CASE ws = "up"
    <3>1. end'["net"].queue = <<>> /\ end'["net"].hold = 0 /\ peer'["net"].got = <<>>
      BY <1>4, <1>3, <2>1, <2>5, ConnectedEffect DEF Started
    <3>2. InFlight(wire["net"]) \in 0..peer["socks"].read
      BY <1>3, <2>1, EmptySeq DEF InFlight
    <3>3. Flow("net")'
      BY <1>o, <1>t, <1>3, <2>1, <2>4, <3>1, <3>2, FlowStart
    <3> QED
      BY <2>3, <3>3 DEF Sides
  <2>6. CASE ws # "up"
    <3>1. end'["net"].wr # "on"
      BY <1>4, <2>6, ConnectedEffect DEF Left
    <3> QED
      BY <1>o, <2>3, <2>4, <3>1, FlowFrame DEF Sides
  <2> QED
    BY <2>5, <2>6
<1>5. CASE ConnectFails
  <2>1. /\ end["net"].pc = "waiting" /\ end'["socks"] = end["socks"] /\ peer' = peer /\ ws' = ws
        /\ end'["net"].wr # "on" /\ wire'["net"] = wire["net"]
    BY <1>5, <1>o, ConnectFailsEffect DEF Left
  <2>2. wire'["socks"] \in {<<>>, <<Signal("refused"), Signal("disconnect")>>}
    <3>1. <<>> \o <<Signal("refused"), Signal("disconnect")>>
            = <<Signal("refused"), Signal("disconnect")>>
      OBVIOUS
    <3> QED
      BY <1>3, <1>5, <2>1, <3>1, ConnectFailsEffect
  <2>3. \A i \in DOMAIN wire'["socks"] : wire'["socks"][i].kind # "data"
    BY <2>2 DEF Signal
  <2>4. Flow("socks")'
    BY <1>o, <1>3, <2>1, <2>3, FlowOff
  <2>5. Flow("net")'
    BY <1>o, <2>1, SameSides, FlowFrame
  <2> QED
    BY <2>4, <2>5 DEF Sides
<1> QED
  BY <1>1, <1>2, <1>4, <1>5

LEMMA FlowNext ==
  ASSUME ChanTypeOK, ChanTypeOK', Handshake, Pumps, ClosedIsSilent, Keys, LostIsEmpty,
         \A s \in Sides : Flow(s), [ChanNext]_chanVars
  PROVE  \A s \in Sides : Flow(s)'
<1>o. "socks" \in Sides /\ "net" \in Sides /\ \A s \in Sides : Other(s) \in Sides /\ Other(s) # s
                                                            /\ Other(Other(s)) = s
  BY OtherSide DEF Sides
<1>b. \A s, o \in Sides : o = s \/ o = Other(s)
  BY OtherSide DEF Sides
<1>k. Signal("disconnect") \in Messages /\ Signal("disconnect").kind = "disconnect"
  BY MessageTypes
<1>1. CASE Request \/ Answered \/ Timeout \/ Connected \/ ConnectFails
  BY <1>1, FlowHandler
<1>2. ASSUME NEW o \in Sides, Left(o), wire' = wire
      PROVE  \A s \in Sides : Flow(s)'
  BY <1>2, FlowQuiet DEF Left
<1>3. ASSUME NEW o \in Sides, Left(o), end[o].pc = "forward", Sending(o, <<Signal("disconnect")>>)
      PROVE  \A s \in Sides : Flow(s)'
  <2>1. peer' = peer /\ ws' = ws /\ end'[o].wr # "on" /\ end'[Other(o)] = end[Other(o)]
    BY <1>3, <1>o DEF Left
  <2>2. wire'[o] = wire[o]
    BY <1>3, <1>k, SendingEffect
  <2>3. Flow(o)'
    BY <2>1, <2>2, SameSides, FlowFrame
  <2>4. SameQueue(Other(o))
    BY <2>1 DEF SameQueue
  <2>5. Flow(Other(o))'
    BY <1>3, <1>k, <1>o, <2>1, <2>4, FlowSent
  <2> QED
    BY <1>b, <2>3, <2>5
<1>4. CASE NetCancelled \/ SocksCancelled \/ \E s \in Sides : Finish(s)
  BY <1>2, <1>3, <1>4, <1>o, NetCancelledEffect, SocksCancelledEffect, FinishEffect
<1>5. ASSUME NEW o \in Sides, ReadSocket(o)
      PROVE  \A s \in Sides : Flow(s)'
  <2> DEFINE m == Chunk(peer[o].read + 1)
  <2>1. /\ end[o].pc = "forward" /\ Sending(o, <<m>>) /\ ws' = ws
        /\ peer'[o].read = peer[o].read + 1
    BY <1>5, ReadSocketEffect DEF Pumps
  <2>2. m \in Messages /\ m.kind = "data" /\ m.n = peer[o].read + 1
    BY <1>5, ReadSocketEffect, MessageTypes
  <2>3. \A s \in Sides : end'[s].wr = end[s].wr /\ SameQueue(s)
    BY <1>5, ReadSocketEffect DEF SameQueue, SameButPumps
  <2> HIDE DEF m
  <2>4. Flow(Other(o))'
    BY <1>o, <2>1, <2>2, <2>3, FlowSent
  <2>5. wire'[o] = wire[o] /\ peer'[Other(o)] = peer[Other(o)]
    <3>1. wire'[o] = wire[o]
      BY <2>1, <2>2, SendingEffect
    <3>2. peer'[Other(o)] = peer[Other(o)]
      <4>1. \A s \in Sides : s # o => peer'[s] = peer[s]
        BY <1>5, ReadSocketEffect
      <4> QED
        BY <1>o, <4>1
    <3> QED
      BY <3>1, <3>2
  <2>6. Flow(o)'
    BY <2>1, <2>3, <2>5, FlowFrame DEF SameArrivals
  <2> QED
    BY <1>b, <2>4, <2>6
<1>6. ASSUME NEW o \in Sides, ReadEnds(o) \/ DelayedCleanup(o)
      PROVE  \A s \in Sides : Flow(s)'
  <2>1. /\ wire' = wire /\ peer' = peer /\ ws' = ws
        /\ \A s \in Sides : /\ end'[s].wr = end[s].wr /\ end'[s].queue = end[s].queue
                            /\ end'[s].hold = end[s].hold
    BY <1>6, ReadEndsEffect, DelayedCleanupEffect DEF SameButPumps
  <2> QED
    BY <2>1, FlowQuiet
<1>7. ASSUME NEW o \in Sides, PeerSends(o) \/ PeerEnds(o) \/ PeerGone(o)
      PROVE  \A s \in Sides : Flow(s)'
  <2>1. /\ wire' = wire /\ ws' = ws /\ end' = end
        /\ \A s \in Sides : peer'[s].read = peer[s].read /\ peer'[s].got = peer[s].got
    BY <1>7, PeerEffect
  <2> QED
    BY <2>1, FlowQuiet
<1>8. ASSUME NEW o \in Sides, TakeChunk(o)
      PROVE  \A s \in Sides : Flow(s)'
  <2>1. Flow(o)'
    BY <1>8, FlowTake
  <2>2. wire' = wire /\ peer' = peer /\ ws' = ws /\ end'[Other(o)] = end[Other(o)]
    BY <1>8, <1>o, TakeChunkEffect
  <2>3. Flow(Other(o))'
    BY <1>o, <2>2, SameSides, FlowFrame
  <2> QED
    BY <1>b, <2>1, <2>3
<1>9. ASSUME NEW o \in Sides, WriteSocket(o)
      PROVE  \A s \in Sides : Flow(s)'
  <2>1. Flow(o)'
    BY <1>9, FlowWrite
  <2>2. /\ wire' = wire /\ peer'[o].read = peer[o].read /\ ws' = ws
        /\ end'[Other(o)] = end[Other(o)] /\ peer'[Other(o)] = peer[Other(o)]
    BY <1>9, <1>o, WriteSocketEffect
  <2>3. SameArrivals(Other(o)) /\ SameQueue(Other(o))
    BY <1>o, <2>2 DEF SameArrivals, SameQueue
  <2>4. Flow(Other(o))'
    BY <1>o, <2>2, <2>3, FlowFrame
  <2> QED
    BY <1>b, <2>1, <2>4
<1>10. ASSUME NEW o \in Sides, Dispatch(o)
       PROVE  \A s \in Sides : Flow(s)'
  <2>1. Flow(o)'
    BY <1>10, FlowDispatch
  <2>2. /\ peer' = peer /\ ws' = ws /\ wire'[Other(o)] = wire[Other(o)]
        /\ end'[Other(o)] = end[Other(o)]
    BY <1>10, DispatchEffect
  <2>3. Flow(Other(o))'
    BY <1>o, <2>2, SameSides, FlowFrame
  <2> QED
    BY <1>b, <2>1, <2>3
<1>11. ASSUME WsLost, NEW s \in Sides
       PROVE  Flow(s)'
  <2>1. /\ ws' = "lost" /\ wire'[s] = <<>> /\ end' = end /\ peer' = peer
        /\ peer[Other(s)].read \in Nat
    BY <1>11, <1>o, ChannelAssumption DEF WsLost, ChanTypeOK, Peers
  <2>2. WireNumbered(wire'[s], peer'[Other(s)].read) /\ SameQueue(s)
    BY <2>1, EmptySeq DEF WireNumbered, InFlight, SameQueue
  <2> QED
    BY <2>1, <2>2, FlowArrivals
<1>12. CASE UNCHANGED chanVars
  BY <1>12, FlowQuiet DEF chanVars
<1> QED
  BY <1>1, <1>4, <1>5, <1>6, <1>7, <1>8, <1>9, <1>10, <1>11, <1>12
  DEF ChanNext, HandlerNext, PumpNext, Environment

(* Nothing is under way on a connection that is lost.                      *)
LEMMA LostNext ==
  ASSUME ChanTypeOK, LostIsEmpty, [ChanNext]_chanVars
  PROVE  LostIsEmpty'
<1>1. ASSUME ws # "up", NEW s \in Sides, NEW ms, Sending(s, ms)
      PROVE  wire' = wire
  BY <1>1 DEF Sending, ChanTypeOK
<1>2. "socks" \in Sides /\ "net" \in Sides
  BY DEF Sides
<1>3. CASE ws = "lost"
  <2>1. wire' = wire \/ WsLost
    BY <1>1, <1>2, <1>3
    DEF ChanNext, HandlerNext, PumpNext, Environment, Request, Answered, Timeout, Connected,
        ConnectFails, Finish, SocksCancelled, NetCancelled, ReadSocket, ReadEnds, TakeChunk,
        WriteSocket, DelayedCleanup, Dispatch, PeerSends, PeerEnds, PeerGone, chanVars
  <2> QED
    BY <1>3, <2>1 DEF LostIsEmpty, WsLost
<1>4. CASE ws # "lost"
  <2>1. ws' = ws \/ WsLost
    BY DEF ChanNext, HandlerNext, PumpNext, Environment, Request, Answered, Timeout, Connected,
           ConnectFails, Finish, SocksCancelled, NetCancelled, ReadSocket, ReadEnds, TakeChunk,
           WriteSocket, DelayedCleanup, Dispatch, PeerSends, PeerEnds, PeerGone, chanVars
  <2> QED
    BY <1>4, <2>1 DEF LostIsEmpty, WsLost
<1> QED
  BY <1>3, <1>4

LEMMA InvInit == ChanInit => ChanInv
<1> SUFFICES ASSUME ChanInit PROVE ChanInv
  OBVIOUS
<1>1. ChanTypeOK
  BY TypeInit
<1>2. /\ \A s \in Sides : /\ end[s].pc = "idle" /\ end[s].queue = <<>> /\ end[s].rd = "off"
                          /\ end[s].wr = "off" /\ end[s].hold = 0 /\ ~end[s].late
                          /\ peer[s].sent = 0 /\ peer[s].read = 0 /\ peer[s].got = <<>>
                          /\ wire[s] = <<>>
      /\ ws = "up" /\ "socks" \in Sides /\ "net" \in Sides
  BY DEF ChanInit, Sides
<1>3. DOMAIN <<>> = {} /\ 1..0 = {} /\ Len(<<>>) = 0
  BY EmptySeq
<1>4. Handshake /\ Pumps /\ ClosedIsSilent /\ Keys /\ LostIsEmpty
  BY <1>2, <1>3 DEF Handshake, Unanswered, Pumps, ClosedIsSilent, Keys, LostIsEmpty
<1>5. \A s \in Sides : Flow(s)
  BY <1>2, <1>3 DEF Flow, WireNumbered, InFlight
<1> QED
  BY <1>1, <1>4, <1>5 DEF ChanInv

LEMMA InvNext == ChanInv /\ [ChanNext]_chanVars => ChanInv'
<1> SUFFICES ASSUME ChanInv, [ChanNext]_chanVars PROVE ChanInv'
  OBVIOUS
<1> USE DEF ChanInv
<1>1. ChanTypeOK'
  BY TypeNext
<1>2. Handshake' /\ Pumps' /\ LostIsEmpty'
  BY HandshakeNext, PumpsNext, LostNext
<1>3. ClosedIsSilent'
  <2>1. \A s \in Sides : WireStep(s) /\ (end[s].pc = "closed" => end'[s].pc = "closed")
    BY WireNext, ClosedStays
  <2> QED
    BY <2>1, SilentNext DEF ClosedIsSilent
<1>4. Keys'
  BY <1>1, KeysNext
<1>5. \A s \in Sides : Flow(s)'
  BY <1>1, FlowNext
<1> QED
  BY <1>1, <1>2, <1>3, <1>4, <1>5

LEMMA InvTheorem == ChanSpec => []ChanInv
  BY InvInit, InvNext, PTL DEF ChanSpec
-----------------------------------------------------------------------------
(* A side that closed the channel sends nothing for it: its pumps are      *)
(* cancelled and awaited before it sends Disconnect (relay.py:723-726,     *)
(* 763-773, 535-538).                                                      *)
THEOREM LastTheorem == ChanSpec => []DisconnectIsLast
<1>1. ChanInv => DisconnectIsLast
  BY LenProperties DEF ChanInv, ClosedIsSilent, DisconnectIsLast, ChanTypeOK
<1> QED
  BY <1>1, InvTheorem, PTL

(* A pump writes the chunk that follows the last one it wrote.             *)
LEMMA WriteFollows ==
  ASSUME ChanInv, NEW s \in Sides, end[s].wr = "on", end[s].hold # 0
  PROVE  /\ end[s].hold \in 1..peer[Other(s)].sent
         /\ IF peer[s].got = <<>> THEN s = "net" => end[s].hold = 1
                                  ELSE end[s].hold = Last(peer[s].got) + 1
<1>1. /\ end[s].hold \in Nat \ {0} /\ Len(end[s].queue) \in Nat
      /\ peer[Other(s)].read \in Nat /\ peer[Other(s)].sent \in Nat
      /\ peer[Other(s)].read <= peer[Other(s)].sent
  <2>1. end[s] \in Ends /\ peer[Other(s)] \in Peers /\ Other(s) \in Sides
    BY OtherSide DEF ChanInv, ChanTypeOK
  <2>2. Len(end[s].queue) \in Nat
    BY <2>1, LenProperties DEF Ends
  <2>3. end[s].hold \in Nat \ {0} /\ peer[Other(s)].read \in Nat /\ peer[Other(s)].sent \in Nat
    BY <2>1, ChannelAssumption DEF Ends, Peers
  <2> QED
    BY <2>1, <2>2, <2>3 DEF ChanInv, Pumps
<1>2. PICK seen \in 0..peer[Other(s)].read : Arrivals(s, seen)
  BY DEF ChanInv, Flow
<1>3. end[s].hold = seen - Len(end[s].queue)
  BY <1>2 DEF Arrivals, Numbered
<1>4. end[s].hold \in 1..peer[Other(s)].sent
  BY <1>1, <1>3
<1>5. GotUpTo(s, end[s].hold - 1)
  BY <1>2 DEF Arrivals, Written
<1>6. IF peer[s].got = <<>> THEN s = "net" => end[s].hold = 1
                            ELSE end[s].hold = Last(peer[s].got) + 1
  BY <1>1, <1>5 DEF GotUpTo
<1> QED
  BY <1>4, <1>6

Dirs == {"up", "down"}
Sent == [d \in Dirs |-> peer[IF d = "up" THEN "socks" ELSE "net"].sent]
Got == [d \in Dirs |-> peer[IF d = "up" THEN "net" ELSE "socks"].got]

(* What a program writes is a Send of its direction, what it is given a    *)
(* Deliver of the other.                                                   *)
LEMMA SendStep ==
  ASSUME ChanTypeOK, NEW s \in Sides, PeerSends(s)
  PROVE  Stream!StreamNext
<1> DEFINE d == IF s = "socks" THEN "up" ELSE "down"
<1>1. /\ peer[s].sent < MaxChunks /\ peer' = [peer EXCEPT ![s].sent = @ + 1]
      /\ peer \in [Sides -> Peers] /\ peer[s] \in Peers
  BY DEF PeerSends, ChanTypeOK
<1>2. peer'[s].sent = peer[s].sent + 1 /\ peer'[s].got = peer[s].got
  BY <1>1 DEF Peers
<1>3. \A o \in Sides : o # s => peer'[o] = peer[o]
  BY <1>1
<1>4. Sent' = [Sent EXCEPT ![d] = @ + 1] /\ Sent[d] < MaxChunks /\ d \in Dirs
  BY <1>1, <1>2, <1>3 DEF Sent, Dirs, Sides
<1>5. Got' = Got
  BY <1>2, <1>3 DEF Got, Dirs, Sides
<1> HIDE DEF d
<1>6. Stream!Send(d)
  BY <1>4, <1>5 DEF Stream!Send, Sent, Got, Dirs
<1> QED
  BY <1>4, <1>6 DEF Stream!StreamNext, Dirs

LEMMA DeliverStep ==
  ASSUME ChanInv, NEW s \in Sides, WriteSocket(s), peer' # peer
  PROVE  Stream!StreamNext
<1> DEFINE d == IF s = "net" THEN "up" ELSE "down"
           n == end[s].hold
<1>1. /\ end[s].wr = "on" /\ n # 0
      /\ peer'[s].sent = peer[s].sent /\ peer'[s].got = Append(peer[s].got, n)
      /\ \A o \in Sides : o # s => peer'[o] = peer[o]
  BY WriteSocketEffect DEF ChanInv
<1>2. /\ n \in 1..peer[Other(s)].sent
      /\ IF peer[s].got = <<>> THEN s = "net" => n = 1 ELSE n = Last(peer[s].got) + 1
  BY <1>1, WriteFollows
<1>3. d \in Dirs /\ Got[d] = peer[s].got /\ Sent[d] = peer[Other(s)].sent
  BY OtherSide DEF Got, Sent, Dirs, Sides
<1>4. Got' = [Got EXCEPT ![d] = Append(@, n)]
  BY <1>1 DEF Got, Dirs, Sides
<1>5. Sent' = Sent
  BY <1>1 DEF Sent, Dirs, Sides
<1>6. IF Got[d] # <<>> THEN n = Got[d][Len(Got[d])] + 1 ELSE n = 1 \/ d \in {"down"}
  BY <1>2, <1>3 DEF Last, Sides
<1> HIDE DEF d, n
<1>7. Stream!Follows(d, n)
  BY <1>6 DEF Stream!Follows, Got, Dirs
<1>8. Stream!Deliver(d)
  BY <1>2, <1>3, <1>4, <1>5, <1>7 DEF Stream!Deliver, Sent, Got, Dirs
<1> QED
  BY <1>3, <1>8 DEF Stream!StreamNext, Dirs

LEMMA StreamStep == ChanInv /\ [ChanNext]_chanVars => [Stream!StreamNext]_(Stream!streamVars)
<1> SUFFICES ASSUME ChanInv, [ChanNext]_chanVars
             PROVE  [Stream!StreamNext]_(Stream!streamVars)
  OBVIOUS
<1>1. (\A s \in Sides : peer'[s].sent = peer[s].sent /\ peer'[s].got = peer[s].got)
        => UNCHANGED Stream!streamVars
  <2> SUFFICES ASSUME \A s \in Sides : peer'[s].sent = peer[s].sent /\ peer'[s].got = peer[s].got
               PROVE  UNCHANGED Stream!streamVars
    OBVIOUS
  <2>1. Sent' = Sent /\ Got' = Got
    BY DEF Sent, Got, Sides
  <2> QED
    BY <2>1 DEF Stream!streamVars, Sent, Got, Dirs
<1>2. peer' = peer => UNCHANGED Stream!streamVars
  BY <1>1
<1>3. ASSUME NEW s \in Sides, ReadSocket(s)
      PROVE  UNCHANGED Stream!streamVars
  BY <1>1, <1>3, ReadSocketEffect DEF ChanInv
<1>4. ASSUME NEW s \in Sides, PeerEnds(s) \/ PeerGone(s)
      PROVE  UNCHANGED Stream!streamVars
  <2>1. peer \in [Sides -> Peers] /\ peer[s] \in Peers
    BY DEF ChanInv, ChanTypeOK
  <2>2. \E l \in {"eof", "gone"} : peer' = [peer EXCEPT ![s].link = l]
    BY <1>4 DEF PeerEnds, PeerGone
  <2>3. \A o \in Sides : peer'[o].sent = peer[o].sent /\ peer'[o].got = peer[o].got
    BY <2>1, <2>2 DEF Peers
  <2> QED
    BY <1>1, <2>3
<1>5. ASSUME NEW s \in Sides, PeerSends(s)
      PROVE  Stream!StreamNext
  BY <1>5, SendStep DEF ChanInv
<1>6. ASSUME NEW s \in Sides, WriteSocket(s)
      PROVE  [Stream!StreamNext]_(Stream!streamVars)
  BY <1>2, <1>6, DeliverStep
<1>7. peer' = peer \/ \E s \in Sides : ReadSocket(s) \/ PeerEnds(s) \/ PeerGone(s) \/ PeerSends(s)
                                       \/ WriteSocket(s)
  BY DEF ChanNext, HandlerNext, PumpNext, Environment, Request, Answered, Timeout, Connected,
         ConnectFails, Finish, SocksCancelled, NetCancelled, ReadEnds, TakeChunk, DelayedCleanup,
         Dispatch, WsLost, chanVars
<1> QED
  BY <1>2, <1>3, <1>4, <1>5, <1>6, <1>7

(* The relay gives each program the chunks of the other in order, each     *)
(* once and without a gap, whatever is cancelled, lost or timed out        *)
(* (relay.py:662-692).                                                     *)
THEOREM StreamTheorem == ChanSpec => ImplementsStream
<1>1. ChanInit => Stream!StreamInit
  <2> SUFFICES ASSUME ChanInit PROVE Stream!StreamInit
    OBVIOUS
  <2>1. \A s \in Sides : peer[s].sent = 0 /\ peer[s].got = <<>>
    BY DEF ChanInit
  <2> QED
    BY <2>1 DEF Stream!StreamInit, Sides
<1> QED
  BY <1>1, StreamStep, InvTheorem, PTL DEF ChanSpec, ImplementsStream, Stream!StreamSpec
=============================================================================
