--------------------------- MODULE UdpAssociation ---------------------------
(***************************************************************************)
(* One UDP association of the relay (relay.py), from the accepted request  *)
(* to its end.  The program behind the SOCKS side sends datagrams from any *)
(* of its UDP sockets and keeps a TCP connection open as long as it wants  *)
(* the association; the net side has one UDP socket that sends to every    *)
(* target and takes datagrams from anybody.                                *)
(*                                                                         *)
(* A step is what a coroutine does between two awaits that can suspend it; *)
(* as in TcpChannel the answer of the net side and the registration of its *)
(* forwarder are one step.                                                 *)
(***************************************************************************)
EXTENDS Integers, Sequences

CONSTANTS Sockets,       \* UDP sockets of the program
          Targets,       \* whom it talks to
          MaxUp,         \* bound: datagrams of the program
          MaxDown,       \* bound: datagrams of all targets
          None

ASSUME UdpAssumption == MaxUp \in Nat /\ MaxDown \in Nat /\ None \notin Sockets

VARIABLES end,      \* the relay's end of the association on each side
          server,   \* the side that runs in the server
          tcp,      \* the program's TCP connection: "open" or "gone"
          ups,      \* the datagrams the program has sent
          downs,    \* the targets that have sent datagrams, one each
          got,      \* what arrived at the targets and at the program
          wire,     \* messages under way to each side
          ws        \* "up" or "lost"

udpVars == <<end, server, tcp, ups, downs, got, wire, ws>>

Sides == {"socks", "net"}
Numbers == 1..(MaxUp + MaxDown)

(***************************************************************************)
(* "ignored": shorter than a header, or IPv6; "broken": an IPv4 or domain  *)
(* header that ends too early; "unresolvable": for a name sendto cannot    *)
(* resolve.                                                                *)
(***************************************************************************)
Headers == {"good", "ignored", "broken", "unresolvable"}
Datagrams == [from : Sockets, to : Targets, header : Headers]

Signal(kind) == [kind |-> kind, n |-> 0]
Datagram(n) == [kind |-> "data", n |-> n]
Messages == {Signal("accepted"), Signal("disconnect")} \cup {Datagram(n) : n \in Numbers}

(***************************************************************************)
(* rd: UDP to WebSocket; wr: queue to UDP; task: rd is in _udp_tasks;      *)
(* keyed: the channel is in _message_queues; inbox: datagrams received but *)
(* not forwarded; addr: _udp_client_addrs; late: a queue cleanup sleeps.   *)
(***************************************************************************)
Ends ==
    [pc : {"waiting", "forward", "closed"}, rd : {"off", "on", "done"},
     wr : {"off", "on", "done"}, task : BOOLEAN, keyed : BOOLEAN, late : BOOLEAN,
     inbox : Seq(Numbers), queue : Seq(Messages), addr : Sockets \cup {None}]

UdpTypeOK ==
    /\ end \in [Sides -> Ends]
    /\ server \in Sides
    /\ tcp \in {"open", "gone"} /\ ws \in {"up", "lost"}
    /\ ups \in Seq(Datagrams) /\ downs \in Seq(Targets)
    /\ got \in [up : Seq(Numbers \X Targets), down : Seq(Numbers \X Targets \X Sockets)]
    /\ wire \in [Sides -> Seq(Messages)]

(* The request has reached the net side, the SOCKS side waits.             *)
UdpInit ==
    /\ end = [s \in Sides |-> [pc |-> "waiting", rd |-> "off", wr |-> "off", task |-> FALSE,
                               keyed |-> TRUE, late |-> FALSE, inbox |-> <<>>, queue |-> <<>>,
                               addr |-> None]]
    /\ server \in Sides
    /\ tcp = "open" /\ ws = "up"
    /\ ups = <<>> /\ downs = <<>>
    /\ got = [up |-> <<>>, down |-> <<>>]
    /\ wire = [s \in Sides |-> <<>>]
-----------------------------------------------------------------------------
Other(s) == CHOOSE o \in Sides : o # s
Send(s, m) == wire' = [wire EXCEPT ![Other(s)] = IF ws = "up" THEN Append(@, m) ELSE @]
SetEnd(s, e) == end' = [end EXCEPT ![s] = e]

Forwarding(e) == [e EXCEPT !.pc = "forward", !.task = TRUE, !.rd = "on", !.wr = "on"]
Closed(e) == [e EXCEPT !.pc = "closed", !.rd = "off", !.wr = "off", !.inbox = <<>>, !.queue = <<>>]

MutKeepReading(e) ==
    [e EXCEPT !.task = FALSE, !.addr = None, !.late = @ \/ e.keyed]

DisconnectChannel(e) ==
    [e EXCEPT !.task = FALSE, !.rd = IF e.task /\ @ = "on" THEN "done" ELSE @,
              !.addr = None, !.late = @ \/ e.keyed]

(* _handle_udp_connection: the socket is bound and success is answered.    *)
NetAnswers ==
    /\ end["net"].pc = "waiting"
    /\ SetEnd("net", IF ws = "up" THEN Forwarding(end["net"])
                                  ELSE DisconnectChannel(Closed(end["net"])))
    /\ Send("net", Signal("accepted"))
    /\ UNCHANGED <<server, tcp, ups, downs, got, ws>>

(* The program is told the port; a new queue replaces the one the answer   *)
(* came through.                                                           *)
SocksStarts ==
    LET e == end["socks"]
    IN  /\ e.pc = "waiting" /\ e.queue # <<>>
        /\ SetEnd("socks", IF tcp = "open" THEN [Forwarding(e) EXCEPT !.queue = <<>>]
                                           ELSE [Closed(e) EXCEPT !.keyed = FALSE])
        /\ UNCHANGED <<server, tcp, ups, downs, got, wire, ws>>

(* Ten seconds without an answer.                                          *)
SocksGivesUp ==
    LET e == end["socks"]
    IN  /\ e.pc = "waiting" /\ e.queue = <<>>
        /\ SetEnd("socks", [Closed(e) EXCEPT !.keyed = FALSE])
        /\ UNCHANGED <<server, tcp, ups, downs, got, wire, ws>>
-----------------------------------------------------------------------------
(***************************************************************************)
(* The forwarders.  One that raises ends the association.                  *)
(***************************************************************************)
FromProgram ==
    LET e == end["socks"]
        n == Head(e.inbox)
        taken == [e EXCEPT !.inbox = Tail(@), !.addr = ups[n].from]
    IN  /\ e.rd = "on" /\ e.inbox # <<>>
        /\ \/ /\ ups[n].header \in {"good", "unresolvable"}
              /\ SetEnd("socks", IF ws = "up" THEN taken ELSE [taken EXCEPT !.rd = "done"])
              /\ Send("socks", Datagram(n))
           \/ ups[n].header = "ignored" /\ SetEnd("socks", taken) /\ UNCHANGED wire
           \/ /\ ups[n].header = "broken"
              /\ SetEnd("socks", [taken EXCEPT !.rd = "done"])
              /\ UNCHANGED wire
        /\ UNCHANGED <<server, tcp, ups, downs, got, ws>>

ToTarget ==
    LET e == end["net"]
        d == ups[Head(e.queue).n]
        taken == [e EXCEPT !.queue = Tail(@)]
    IN  /\ e.wr = "on" /\ e.queue # <<>>
        /\ IF d.header = "good"
             THEN /\ SetEnd("net", taken)
                  /\ got' = [got EXCEPT !.up = Append(@, <<Head(e.queue).n, d.to>>)]
             ELSE SetEnd("net", [taken EXCEPT !.wr = "done"]) /\ UNCHANGED got
        /\ UNCHANGED <<server, tcp, ups, downs, wire, ws>>

FromTarget ==
    LET e == end["net"]
        taken == [e EXCEPT !.inbox = Tail(@)]
    IN  /\ e.rd = "on" /\ e.inbox # <<>>
        /\ SetEnd("net", IF ws = "up" THEN taken ELSE [taken EXCEPT !.rd = "done"])
        /\ Send("net", Datagram(Head(e.inbox)))
        /\ UNCHANGED <<server, tcp, ups, downs, got, ws>>

(* Without an address to send to, a datagram is dropped.                   *)
ToProgram ==
    LET e == end["socks"]
        n == Head(e.queue).n
    IN  /\ e.wr = "on" /\ e.queue # <<>>
        /\ SetEnd("socks", [e EXCEPT !.queue = Tail(@)])
        /\ got' = IF e.addr = None THEN got
                  ELSE [got EXCEPT !.down = Append(@, <<n, downs[n], e.addr>>)]
        /\ UNCHANGED <<server, tcp, ups, downs, wire, ws>>

(* _monitor_socks_tcp.                                                     *)
TcpEnds(s) == s = "socks" /\ tcp = "gone"

MutLeaveSilently(s) ==
    /\ SetEnd(s, IF s = "socks" THEN [Closed(end[s]) EXCEPT !.keyed = FALSE, !.addr = None]
                                ELSE DisconnectChannel(Closed(end[s])))
    /\ UNCHANGED <<server, tcp, ups, downs, got, wire, ws>>

(* One of the tasks is done: the others are cancelled, Disconnect is sent. *)
Leave(s) ==
    /\ SetEnd(s, IF s = "socks" THEN [Closed(end[s]) EXCEPT !.keyed = FALSE, !.addr = None]
                                ELSE DisconnectChannel(Closed(end[s])))
    /\ Send(s, Signal("disconnect"))
    /\ UNCHANGED <<server, tcp, ups, downs, got, ws>>

Finish(s) ==
    /\ end[s].pc = "forward"
    /\ end[s].rd = "done" \/ end[s].wr = "done" \/ TcpEnds(s)
    /\ Leave(s)

(* The server cancels the handlers of a connection that was lost; those of *)
(* a client go on.                                                         *)
NetCancelled ==
    /\ server = "net" /\ ws = "lost" /\ end["net"].pc # "closed"
    /\ Leave("net")

MutKeepKey(s) ==
    /\ end[s].late /\ end[s].pc # "waiting"
    /\ SetEnd(s, [end[s] EXCEPT !.late = FALSE])
    /\ UNCHANGED <<server, tcp, ups, downs, got, wire, ws>>

DelayedCleanup(s) ==
    /\ end[s].late /\ end[s].pc # "waiting"
    /\ SetEnd(s, [end[s] EXCEPT !.late = FALSE, !.keyed = FALSE])
    /\ UNCHANGED <<server, tcp, ups, downs, got, wire, ws>>

(* The dispatcher of a side; a queue nobody reads any more is as good as   *)
(* none.                                                                   *)
Dispatch(s) ==
    LET m == Head(wire[s])
        e == end[s]
    IN  /\ ws = "up" /\ wire[s] # <<>>
        /\ wire' = [wire EXCEPT ![s] = Tail(@)]
        /\ \/ m.kind = "disconnect" /\ SetEnd(s, DisconnectChannel(e))
           \/ /\ m.kind # "disconnect"
              /\ SetEnd(s, IF e.keyed /\ e.pc # "closed" THEN [e EXCEPT !.queue = Append(@, m)]
                                                          ELSE e)
        /\ UNCHANGED <<server, tcp, ups, downs, got, ws>>
-----------------------------------------------------------------------------
(***************************************************************************)
(* The program, its targets, and the WebSocket.                            *)
(***************************************************************************)
Deliver(s, n) == end' = [end EXCEPT ![s].inbox = Append(@, n)]

ProgramSends ==
    /\ end["socks"].pc = "forward" /\ tcp = "open" /\ Len(ups) < MaxUp
    /\ \E d \in Datagrams : ups' = Append(ups, d)
    /\ Deliver("socks", Len(ups) + 1)
    /\ UNCHANGED <<server, tcp, downs, got, wire, ws>>

TargetSends ==
    /\ end["net"].pc = "forward" /\ Len(downs) < MaxDown
    /\ \E t \in Targets : downs' = Append(downs, t)
    /\ Deliver("net", Len(downs) + 1)
    /\ UNCHANGED <<server, tcp, ups, got, wire, ws>>

ProgramLeaves ==
    /\ tcp = "open"
    /\ tcp' = "gone"
    /\ UNCHANGED <<end, server, ups, downs, got, wire, ws>>

WsLost ==
    /\ ws = "up"
    /\ ws' = "lost" /\ wire' = [s \in Sides |-> <<>>]
    /\ UNCHANGED <<end, server, tcp, ups, downs, got>>
-----------------------------------------------------------------------------
Forward == FromProgram \/ ToTarget \/ FromTarget \/ ToProgram
Handle == NetAnswers \/ SocksStarts \/ NetCancelled

UdpNext ==
    \/ Handle \/ SocksGivesUp \/ Forward
    \/ \E s \in Sides : Finish(s) \/ Dispatch(s) \/ DelayedCleanup(s)
    \/ ProgramSends \/ TargetSends \/ ProgramLeaves \/ WsLost

UdpSpec == UdpInit /\ [][UdpNext]_udpVars

(* The event loops run what is ready and sleeps end; nobody has to send.   *)
UdpFairSpec ==
    /\ UdpSpec
    /\ WF_udpVars(NetAnswers) /\ WF_udpVars(SocksStarts) /\ WF_udpVars(NetCancelled)
    /\ WF_udpVars(FromProgram) /\ WF_udpVars(ToTarget)
    /\ WF_udpVars(FromTarget) /\ WF_udpVars(ToProgram)
    /\ \A s \in Sides : /\ WF_udpVars(Finish(s)) /\ WF_udpVars(Dispatch(s))
                        /\ WF_udpVars(DelayedCleanup(s))
-----------------------------------------------------------------------------
Increasing(q) == \A i, j \in DOMAIN q : i < j => q[i][1] < q[j][1]

(* Datagrams are delivered in their order and never twice, in both         *)
(* directions (relay.py:602-612, 851-889, 903-939).                        *)
DatagramsInOrder == Increasing(got.up) /\ Increasing(got.down)

(* Once the association delivers, it loses none in between: a target gets  *)
(* every datagram before the last one it got, but those with a header that *)
(* is ignored; the program gets a stretch without a hole, which begins     *)
(* once the association knows where to send (relay.py:930-936).  Replaced  *)
(* queues, an address that is forgotten, crossing Disconnects and lost     *)
(* connections only cut the two ends off (relay.py:120-138, 787).          *)
DatagramsKeepOrder ==
    /\ DatagramsInOrder
    /\ \A i \in DOMAIN got.up : \A n \in 1..(got.up[i][1] - 1) :
         ups[n].header = "ignored" \/ \E j \in DOMAIN got.up : got.up[j][1] = n
    /\ \A i \in 1..(Len(got.down) - 1) : got.down[i + 1][1] = got.down[i][1] + 1

(* Liveness: an association that forwards ends on both sides when the      *)
(* program closes its TCP connection, when a forwarder of either side      *)
(* raises or when the server loses the WebSocket                           *)
(* (relay.py:804-828, 578-589, 646-660).                                   *)
EndsTogether ==
    /\ (tcp = "gone" /\ end["socks"].pc = "forward")
         ~> (end["net"].pc = "closed" \/ ws = "lost")
    /\ end["net"].pc = "closed" ~> (end["socks"].pc = "closed" \/ ws = "lost")
    /\ (ws = "lost" /\ server = "net") ~> end["net"].pc = "closed"

(* Liveness: when both sides have closed the association no entry stays in *)
(* _message_queues, _udp_tasks or _udp_client_addrs (relay.py:132-148,     *)
(* 433, 829-830), unless the WebSocket is lost.                            *)
AssociationForgotten ==
    (\A s \in Sides : end[s].pc = "closed")
        ~> (ws = "lost" \/ \A s \in Sides :
                ~end[s].keyed /\ ~end[s].task /\ end[s].addr = None)
=============================================================================
