----------------------------- MODULE TcpChannel -----------------------------
(***************************************************************************)
(* One TCP channel of the relay (relay.py) from the request of a SOCKS     *)
(* client to the end of the connection to its target.  The program that    *)
(* uses the proxy talks to the "socks" side, the target to the "net" side; *)
(* the sides are the two ends of one WebSocket connection.                 *)
(*                                                                         *)
(* Both sides run the same code once connected: a pump from the socket to  *)
(* the WebSocket, a pump from a queue to the socket, and the dispatcher    *)
(* that fills the queue.  A step is what one of these coroutines does      *)
(* between two awaits that can suspend it.                                 *)
(***************************************************************************)
EXTENDS Integers, Sequences

CONSTANTS MaxChunks,       \* how many chunks each program sends: bounds the run
          Faults           \* which of the events named below may happen

Sides == {"socks", "net"}
Other(s) == CHOOSE o \in Sides : o # s

ASSUME ChannelAssumption ==
    /\ MaxChunks \in Nat
    /\ Faults \subseteq {"timeout", "wsLost", "cancel", "appGone", "targetEnds", "refused"}

VARIABLES end,    \* the relay's end of the channel on each side
          peer,   \* the program on each side, seen through its TCP socket
          wire,   \* wire[s]: the messages on their way to side s
          ws      \* whether the WebSocket connection is "up" or "lost"

chanVars == <<end, peer, wire, ws>>

Chunk(n) == [kind |-> "data", n |-> n]
Signal(kind) == [kind |-> kind, n |-> 0]
Messages == {Chunk(n) : n \in 1..MaxChunks}
              \cup {Signal(k) : k \in {"connect", "accepted", "refused", "disconnect"}}

(***************************************************************************)
(* pc: the request handler: "idle", "waiting" (for the connection or its   *)
(*   answer), "forward" or "closed".                                       *)
(* keyed: the channel is a key of _message_queues; queue: the queue that   *)
(*   the handler reads.                                                    *)
(* task: the channel is a key of _tcp_tasks.                               *)
(* rd, wr: the pumps; hold: the chunk wr is writing, 0 when there is none. *)
(* late: a _delayed_queue_cleanup task sleeps.                             *)
(* server: the side is the server: the net side is in a forward proxy, the *)
(*   socks side in a reverse proxy.                                        *)
(***************************************************************************)
Ends ==
    [pc : {"idle", "waiting", "forward", "closed"}, keyed : BOOLEAN, queue : Seq(Messages),
     task : BOOLEAN, rd : {"off", "on", "done"}, wr : {"off", "on", "done"},
     hold : 0..MaxChunks, late : BOOLEAN, server : BOOLEAN]

(***************************************************************************)
(* sent and read: how many chunks the program wrote and the relay read;    *)
(* link: "eof" after it stopped writing, "gone" after it closed; got: the  *)
(* chunks it was given.                                                    *)
(***************************************************************************)
Peers ==
    [sent : 0..MaxChunks, read : 0..MaxChunks, link : {"open", "eof", "gone"},
     got : Seq(1..MaxChunks)]

ChanTypeOK ==
    /\ end \in [Sides -> Ends]
    /\ peer \in [Sides -> Peers]
    /\ wire \in [Sides -> Seq(Messages)]
    /\ ws \in {"up", "lost"}

ChanInit ==
    /\ \E srv \in Sides :
         end = [s \in Sides |->
                  [pc |-> "idle", keyed |-> FALSE, queue |-> <<>>, task |-> FALSE,
                   rd |-> "off", wr |-> "off", hold |-> 0, late |-> FALSE,
                   server |-> s = srv]]
    /\ peer = [s \in Sides |-> [sent |-> 0, read |-> 0, link |-> "open", got |-> <<>>]]
    /\ wire = [s \in Sides |-> <<>>]
    /\ ws = "up"

(* A send on a lost connection raises ConnectionClosed.                    *)
Sending(s, ms) == wire' = [wire EXCEPT ![Other(s)] = IF ws = "up" THEN @ \o ms ELSE @]
SetEnd(s, e) == end' = [end EXCEPT ![s] = e]
-----------------------------------------------------------------------------
(***************************************************************************)
(* _handle_socks_request: the request is read, a queue for the answer is   *)
(* registered and Connect is sent.                                         *)
(***************************************************************************)
Request ==
    /\ end["socks"].pc = "idle"
    /\ SetEnd("socks", IF ws = "up"
                         THEN [end["socks"] EXCEPT !.pc = "waiting", !.keyed = TRUE]
                         ELSE [end["socks"] EXCEPT !.pc = "closed"])
    /\ Sending("socks", <<Signal("connect")>>)
    /\ UNCHANGED <<peer, ws>>

Refused(e) == [e EXCEPT !.pc = "closed", !.keyed = FALSE, !.queue = <<>>]

(* The answer is success: the client is told so, a new queue replaces the  *)
(* one the answer came through, and the pumps start.                       *)
Forwarding(e) == [e EXCEPT !.pc = "forward", !.task = TRUE, !.rd = "on", !.wr = "on"]

StartSocks(e) == [Forwarding(e) EXCEPT !.keyed = TRUE, !.queue = <<>>]

Answered ==
    LET e == end["socks"]
    IN  /\ e.pc = "waiting" /\ e.queue # <<>>
        /\ IF Head(e.queue).kind = "accepted" /\ peer["socks"].link # "gone"
             THEN SetEnd("socks", StartSocks(e))
             ELSE SetEnd("socks", Refused(e))
        /\ UNCHANGED <<peer, wire, ws>>

(* Ten seconds without an answer.                                          *)
Timeout ==
    /\ "timeout" \in Faults
    /\ end["socks"].pc = "waiting" /\ end["socks"].queue = <<>>
    /\ SetEnd("socks", Refused(end["socks"]))
    /\ UNCHANGED <<peer, wire, ws>>
-----------------------------------------------------------------------------
(***************************************************************************)
(* _handle_tcp_connection.  The answer is sent and the pump is registered  *)
(* in one step: when the send has to wait for the transport, it has been   *)
(* resumed before the other side can react to the answer.                  *)
(***************************************************************************)
Closing(e) == [e EXCEPT !.pc = "closed", !.rd = "off", !.wr = "off", !.hold = 0,
                        !.queue = <<>>]

(* disconnect_channel: the registered pump is cancelled, the queue stays   *)
(* registered until a delayed task removes it.                             *)
DisconnectChannel(e) ==
    [e EXCEPT !.task = FALSE, !.rd = IF e.task /\ @ = "on" THEN "done" ELSE @,
              !.late = @ \/ e.keyed]

Connected ==
    /\ end["net"].pc = "waiting"
    /\ SetEnd("net", IF ws = "up" THEN Forwarding(end["net"])
                                  ELSE DisconnectChannel(Closing(end["net"])))
    /\ Sending("net", <<Signal("accepted")>>)
    /\ UNCHANGED <<peer, ws>>

ConnectFails ==
    /\ "refused" \in Faults
    /\ end["net"].pc = "waiting"
    /\ SetEnd("net", DisconnectChannel(Closing(end["net"])))
    /\ Sending("net", <<Signal("refused"), Signal("disconnect")>>)
    /\ UNCHANGED <<peer, ws>>
-----------------------------------------------------------------------------
(***************************************************************************)
(* The pumps.  The one that reads ends at the end of the stream, on an     *)
(* error of the socket and when the WebSocket is closed.                   *)
(***************************************************************************)
ReadSocket(s) ==
    /\ end[s].rd = "on"
    /\ peer[s].link # "gone" /\ peer[s].read < peer[s].sent
    /\ peer' = [peer EXCEPT ![s].read = @ + 1]
    /\ Sending(s, <<Chunk(peer[s].read + 1)>>)
    /\ end' = [end EXCEPT ![s].rd = IF ws = "up" THEN @ ELSE "done"]
    /\ UNCHANGED ws

ReadEnds(s) ==
    /\ end[s].rd = "on"
    /\ \/ peer[s].link = "gone"
       \/ peer[s].link = "eof" /\ peer[s].read = peer[s].sent
    /\ end' = [end EXCEPT ![s].rd = "done"]
    /\ UNCHANGED <<peer, wire, ws>>

(* The one that writes takes a chunk off its queue, ...                    *)
TakeChunk(s) ==
    /\ end[s].wr = "on" /\ end[s].hold = 0
    /\ end[s].queue # <<>>
    /\ end' = [end EXCEPT ![s].hold = Head(end[s].queue).n, ![s].queue = Tail(@)]
    /\ UNCHANGED <<peer, wire, ws>>

(* ... and writes it when the program makes room.                          *)
MutWriteAgain(s) ==
    /\ end[s].wr = "on" /\ end[s].hold # 0
    /\ Len(peer[s].got) < MaxChunks
    /\ peer' = [peer EXCEPT ![s].got = Append(@, end[s].hold)]
    /\ UNCHANGED <<end, wire, ws>>

WriteSocket(s) ==
    /\ end[s].wr = "on" /\ end[s].hold # 0
    /\ IF peer[s].link = "gone"
         THEN /\ end' = [end EXCEPT ![s].wr = "done", ![s].hold = 0]
              /\ UNCHANGED peer
         ELSE /\ end' = [end EXCEPT ![s].hold = 0]
              /\ peer' = [peer EXCEPT ![s].got = Append(@, end[s].hold)]
    /\ UNCHANGED <<wire, ws>>

(***************************************************************************)
(* One pump is done: the handler cancels the other, sends Disconnect and   *)
(* closes the socket.  The socks side drops its queue at once, the net     *)
(* side through disconnect_channel.                                        *)
(***************************************************************************)
Leave(s) == IF s = "socks" THEN [Closing(end[s]) EXCEPT !.keyed = FALSE]
                           ELSE DisconnectChannel(Closing(end[s]))

MutFinishUnawaited(s) ==
    /\ end[s].pc = "forward"
    /\ end[s].rd = "done" \/ end[s].wr = "done"
    /\ SetEnd(s, [Leave(s) EXCEPT !.rd = "on"])
    /\ Sending(s, <<Signal("disconnect")>>)
    /\ UNCHANGED <<peer, ws>>

MutFinishSilently(s) ==
    /\ end[s].pc = "forward"
    /\ end[s].rd = "done" \/ end[s].wr = "done"
    /\ SetEnd(s, Leave(s))
    /\ UNCHANGED <<peer, wire, ws>>

Finish(s) ==
    /\ end[s].pc = "forward"
    /\ end[s].rd = "done" \/ end[s].wr = "done"
    /\ SetEnd(s, Leave(s))
    /\ Sending(s, <<Signal("disconnect")>>)
    /\ UNCHANGED <<peer, ws>>

(* remove_token cancels the handler of the request: only in the forwarding *)
(* phase does a finally block send Disconnect.                             *)
SocksCancelled ==
    /\ "cancel" \in Faults /\ end["socks"].server
    /\ end["socks"].pc \in {"idle", "waiting", "forward"}
    /\ SetEnd("socks", Leave("socks"))
    /\ IF end["socks"].pc = "forward" THEN Sending("socks", <<Signal("disconnect")>>)
                                      ELSE UNCHANGED wire
    /\ UNCHANGED <<peer, ws>>

(* The server's dispatcher cancels its network handlers when the           *)
(* connection ends; a client leaves them running.                          *)
MutCancelUnconnected ==
    /\ end["net"].server /\ ws = "lost"
    /\ end["net"].pc = "waiting"
    /\ SetEnd("net", Leave("net"))
    /\ UNCHANGED <<peer, wire, ws>>

NetCancelled ==
    /\ end["net"].server /\ ws = "lost"
    /\ end["net"].pc \in {"waiting", "forward"}
    /\ SetEnd("net", Leave("net"))
    /\ UNCHANGED <<peer, wire, ws>>

(* Five seconds after disconnect_channel; a handler that has its answer    *)
(* has run by then.                                                        *)
MutCleanupKeepsKey(s) ==
    /\ end[s].late
    /\ end' = [end EXCEPT ![s].late = FALSE]
    /\ UNCHANGED <<peer, wire, ws>>

DelayedCleanup(s) ==
    /\ end[s].late
    /\ ~(end[s].pc = "waiting" /\ end[s].queue # <<>>)
    /\ end' = [end EXCEPT ![s].late = FALSE, ![s].keyed = FALSE]
    /\ UNCHANGED <<peer, wire, ws>>
-----------------------------------------------------------------------------
(***************************************************************************)
(* The dispatchers take messages in the order they arrive.                 *)
(***************************************************************************)
(* A message for a channel that is no key of _message_queues is dropped;   *)
(* one for a queue that nobody reads any more is as good as dropped.       *)
Queued(e, m) == IF e.keyed /\ e.pc # "closed" THEN [e EXCEPT !.queue = Append(@, m)] ELSE e

Received(s, m) ==
    CASE m.kind = "connect" -> [end[s] EXCEPT !.pc = "waiting", !.keyed = TRUE]
      [] m.kind = "disconnect" -> DisconnectChannel(end[s])
      [] OTHER -> Queued(end[s], m)

Dispatch(s) ==
    /\ ws = "up" /\ wire[s] # <<>>
    /\ SetEnd(s, Received(s, Head(wire[s])))
    /\ wire' = [wire EXCEPT ![s] = Tail(@)]
    /\ UNCHANGED <<peer, ws>>

(***************************************************************************)
(* The programs on both sides, and the loss of the connection between the  *)
(* sides.  The target exists once it is connected to.                      *)
(***************************************************************************)
Present(s) == IF s = "net" THEN end[s].pc = "forward" ELSE end[s].pc # "closed"

PeerSends(s) ==
    /\ Present(s)
    /\ peer[s].link = "open" /\ peer[s].sent < MaxChunks
    /\ peer' = [peer EXCEPT ![s].sent = @ + 1]
    /\ UNCHANGED <<end, wire, ws>>

PeerEnds(s) ==
    /\ Present(s) /\ peer[s].link = "open"
    /\ s = "net" => "targetEnds" \in Faults
    /\ peer' = [peer EXCEPT ![s].link = "eof"]
    /\ UNCHANGED <<end, wire, ws>>

PeerGone(s) ==
    /\ Present(s) /\ peer[s].link # "gone"
    /\ (IF s = "net" THEN "targetEnds" ELSE "appGone") \in Faults
    /\ peer' = [peer EXCEPT ![s].link = "gone"]
    /\ UNCHANGED <<end, wire, ws>>

WsLost ==
    /\ "wsLost" \in Faults /\ ws = "up"
    /\ ws' = "lost"
    /\ wire' = [s \in Sides |-> <<>>]
    /\ UNCHANGED <<end, peer>>
-----------------------------------------------------------------------------
HandlerNext ==
    Request \/ Answered \/ Connected \/ NetCancelled \/ (\E s \in Sides : Finish(s))

PumpNext(s) == ReadSocket(s) \/ ReadEnds(s) \/ TakeChunk(s)

Environment ==
    \/ Timeout \/ ConnectFails \/ SocksCancelled \/ WsLost
    \/ \E s \in Sides : WriteSocket(s) \/ PeerSends(s) \/ PeerEnds(s) \/ PeerGone(s)

ChanNext ==
    \/ HandlerNext
    \/ \E s \in Sides : PumpNext(s) \/ Dispatch(s) \/ DelayedCleanup(s)
    \/ Environment

ChanSpec == ChanInit /\ [][ChanNext]_chanVars

(***************************************************************************)
(* The event loops run what is ready and the target answers a connection   *)
(* attempt.  The programs need not read, write or close.                   *)
(***************************************************************************)
ChanFairSpec ==
    /\ ChanSpec
    /\ WF_chanVars(Request) /\ WF_chanVars(Answered) /\ WF_chanVars(Connected \/ ConnectFails)
    /\ WF_chanVars(NetCancelled)
    /\ \A s \in Sides :
         /\ WF_chanVars(Finish(s)) /\ WF_chanVars(PumpNext(s))
         /\ WF_chanVars(Dispatch(s)) /\ WF_chanVars(DelayedCleanup(s))
-----------------------------------------------------------------------------
Stream == INSTANCE RelayedStream
            WITH Directions <- {"up", "down"}, MayMissStart <- {"down"},
                 sent <- [d \in {"up", "down"} |->
                            peer[IF d = "up" THEN "socks" ELSE "net"].sent],
                 got <- [d \in {"up", "down"} |->
                           peer[IF d = "up" THEN "net" ELSE "socks"].got]

(* What the two programs see of the channel: each stream in order, without *)
(* duplicates and without gaps, whatever is cancelled, lost or timed out   *)
(* on the way (relay.py:662-692).                                          *)
ImplementsStream == Stream!StreamSpec

(* Nothing follows a Disconnect: a side that closed the channel sends no   *)
(* data for it, the pumps are cancelled and awaited before (relay.py:      *)
(* 723-726, 763-773, 535-538).                                             *)
DisconnectIsLast ==
    \A s \in Sides : \A i \in 1..Len(wire[s]) :
        wire[s][i].kind = "disconnect" => i = Len(wire[s])

(* Liveness: a program that closes its connection while the channel        *)
(* forwards brings the connection to the target to an end (relay.py:       *)
(* 769-773, 126-130, 531-542).                                             *)
AppCloseReachesTarget ==
    (peer["socks"].link # "open" /\ end["socks"].pc = "forward")
        ~> (end["net"].pc = "closed" \/ ws = "lost")

(* Liveness: when both sides have closed the channel, both forget it: no   *)
(* entry stays in _message_queues or _tcp_tasks (relay.py:126-149,         *)
(* 431-434).  _tcp_tasks of the socks side is only cleared by a Disconnect *)
(* of the net side that arrives in time, hence the premise on the target   *)
(* and the exception for a lost WebSocket.                                 *)
ClosedIsForgotten ==
    (peer["net"].link = "open" /\ \A s \in Sides : end[s].pc = "closed")
        ~> ((\A s \in Sides : ~end[s].keyed /\ ~end[s].task) \/ ws = "lost")

(* Liveness: the server closes its connections to targets when the         *)
(* WebSocket they serve is lost (server.py:1222-1226).                     *)
ServerDropsTargets ==
    (ws = "lost" /\ end["net"].server) ~> end["net"].pc \in {"idle", "closed"}

(* "Read from websocket and send to socks socket" (relay.py:731): what the *)
(* program is given starts at the beginning of what the target sent.       *)
NothingSkipped ==
    \A i \in 1..Len(peer["socks"].got) : peer["socks"].got[i] = i

(* "Delay cleanup of message queue to handle late-arriving packets"        *)
(* (relay.py:146, 541): a side whose program is still connected does not   *)
(* close the connection while it is writing a chunk that arrived before    *)
(* the Disconnect.                                                         *)
NothingDropped ==
    [][\A s \in Sides :
         /\ end[s].pc = "forward" /\ end'[s].pc = "closed"
         /\ peer[s].link = "open" /\ ws = "up"
         => end[s].hold = 0]_chanVars

(* "Send disconnect message to notify the other side" (relay.py:534): a    *)
(* target that ends the connection ends it for the program too.            *)
TargetCloseReachesApp ==
    end["net"].pc = "closed" ~> (end["socks"].pc = "closed" \/ ws = "lost")
=============================================================================
