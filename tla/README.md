# pywssocks in TLA+

pywssocks tunnels SOCKS5 traffic through a WebSocket. A *server*
(`src/pywssocks/server.py`) and *clients* (`src/pywssocks/client.py`) share the
relay code of `src/pywssocks/relay.py`. In a forward proxy the SOCKS port is on
the client and the server connects to the targets; in a reverse proxy the server
opens one SOCKS port per token and the clients connect to the targets; a
*connector* is a client whose traffic the server forwards to a reverse client.

All code runs on asyncio: one thread, and a coroutine runs undisturbed from one
suspending `await` to the next. That is the grain of the models: an action is
what a coroutine or a plain function does up to an `await` that can suspend it.
An `await` that cannot suspend (an uncontended lock, `queue.put` on an unbounded
queue) does not split an action.

## Inventory

| Part | State | Operations | Hard because of |
|---|---|---|---|
| `SocketManager` (server.py 103-235) | `_sockets`: port -> (socket, timestamp, refs); `_cleanup_tasks`; a lock | get, release, cleanup task, close | cleanup tasks of old releases that wake during a reuse; release by a task that is being cancelled |
| `PortPool` (common.py) | ports in use | get, put | shared by all tokens |
| Token registry (server.py 285-601) | eleven dicts and sets keyed by token, client and port | add and remove reverse, connector and forward tokens | tables must agree after any sequence; handlers hold names of removed tokens |
| Sessions (server.py 724-1010) | one `_handle_websocket` per connection | authenticate, wait for the SOCKS server, broadcast, dispatch, heartbeat, clean up | the token is removed while the handler waits |
| SOCKS server tasks (server.py 708-722, 1228-1277) | `_socks_tasks`: port -> task | start, bind, accept, cancel, release | cancelled before the first step, in the accept loop, and in the finally block |
| Partners broadcasts (server.py 1313-1351) | none | send counts | iterate over live dicts with awaits |
| TCP channel (relay.py 116-163, 237-542, 662-775) | queue and pump task per channel id on both sides | connect, answer, timeout, two pumps, disconnect, delayed queue removal | messages of the other side arrive in every phase |
| UDP associate (relay.py 544-660, 777-942) | sockets, queue and program address per channel | forward datagrams both ways, watch the TCP connection | the address is learnt from datagrams; six tasks end one another |
| SOCKS handshake (relay.py 204-345) | none | greeting, authentication, request | short reads |
| Upstream proxies (relay.py 953-1154) | none | connect through a SOCKS5 or HTTP proxy | the reply and the first data share a stream |
| Connector routing (server.py 48-100, 648-706, 1012-1093, 1121-1146) | `ConnectorCache`, `_token_indexes` | route by channel id, round robin | a dispatcher sends on connections of other sessions |
| Client session (client.py) | WebSocket, tasks, two events, the local SOCKS server | connect, log in, run, close, reconnect, heartbeat | requests and events of one connection seen by the next |
| Connector RPC (client.py 630-724) | a queue per request | add and remove connector tokens | a late answer |
| Codec (message.py) | none | pack, parse | widths of length fields, optional fields |
| CLI, logging, HTTP page | none | | |

The parts interact by direct calls on one event loop (registry and sessions with
`SocketManager` and `PortPool`), by tasks one part creates and another cancels
(`_socks_tasks`, `_tcp_tasks`), by queues filled by a dispatcher and read by a
channel, and by messages on the WebSocket. What makes each part correct is the
list of properties below; `PROJECT.json` lists the hazards each is for.

## Modules

| Module | Role |
|---|---|
| `SocketLease` | abstract: users hold leases on ports, an idle port may be retired |
| `SocketManager` | the manager; `Lease` and `ImplementsLease` are its refinement |
| `SocketManager_proofs` | its theorems |
| `TokenRegistry` | port pool, token tables, sessions, SOCKS server tasks |
| `TokenRegistry_proofs` | its theorems: types and ports, sessions and the tables that list them, tokens and server tasks |
| `ReverseServer` | `TokenRegistry` composed with an instance of `SocketManager`: the tasks are the users |
| `ReverseServer_proofs` | its theorems |
| `RelayedStream` | abstract: two ordered streams between two programs |
| `TcpChannel` | one TCP channel, both ends; `Stream` and `ImplementsStream` are its refinement |
| `TcpChannel_proofs` | its theorems |
| `RoutedChannel` | abstract: one channel belongs to one connector and one reverse client |
| `ConnectorRouting` | the server between connectors and reverse clients; `Channel` and `ImplementsRoute` are its refinement |
| `ConnectorRouting_proofs` | its theorems |
| `ClientSession` | the client: connection loop, local SOCKS server, connector requests |
| `ClientSession_proofs` | its theorems |
| `UdpAssociation` | one UDP association, both ends |
| `UdpAssociation_proofs` | its theorem |
| `MessageCodec` | `pack_message` and `parse_message` as operators |
| `SocksRequest` | a request from the first byte to the connected target, over `MessageCodec` |
| `SocksRequest_proofs` | theorems about both |
| `MC...` | the instances for TLC: symmetry, inputs |

Operators named `Mut...` are variants of the definition they stand before, as a
plausible mistake would leave it; the run of each property is expected to fail
when the variant takes its place. No specification uses them.

### SocketManager

`sockets[p]` is the triple in `_sockets`; a timestamp is its age, capped at the
grace period, or `Unstamped` for 0. `timers` are the sleeping or lock-waiting
`_cleanup_socket` tasks with the time each has left; `Tick` lets one unit of time
pass for all. A task whose time is over need not run at once, so it may take the
lock long after. `GetSocket` is the reuse or the bind branch, `ReleaseSocket` the
three branches of `release_socket`, `CleanupSocket` what `_cleanup_socket` does
with the lock. `BeginClose` and `EndClose` are `close()` around its gather, with
the lock held in between. `held` is what the callers of `get_socket` were given
and `open` the sockets the operating system has open: the two sides the
reference count must agree with. `phase` ends the promises at `close()`.

Not modelled: callers that wait for the lock while `close()` runs and bind
afterwards; a failing `bind` (in `ReverseServer`, where the caller matters).

### TokenRegistry

The variables are the tables of `WSSocksServer`, one each, plus `session` (the
point each `_handle_websocket` has reached, the state of its connection and the
first message sent on it) and `task` (each `_run_socks_server`). `add_*` and
`remove_token` are plain functions and hence single actions over all the tables.
`remove_token` of a forward token closes every forward client, as the code does.

`AuthFirstReverseClient` / `ServerAwaited` are the two halves of a login around
`wait_for(ready_event.wait(), 3)`: the second is enabled once the task listens
(the event is set) or has ended (the three seconds pass). `Confirmed` /
`BroadcastEnds` are the two halves around the sends of
`_broadcast_partners_to_connectors`: the dict of connector tokens is iterated
with awaits in between, so a change of its size raises `RuntimeError`, which
ends the session. A task cancelled in its accept loop goes through `draining`
(the `gather` over the request handlers in the finally block); cancelled again
there, it never reaches `release_socket`. A task cancelled before its first step
runs no line of its body.

Simplifications: client authentication uses names of reverse tokens added
through the API, not internal ones; reverse, connector, forward and internal
names are disjoint; `ConnectorMessage` "remove" names connector tokens; the sends
in a connector's login do not suspend; tokens added before `serve()` start no
task; `_token_indexes` and the connector cache are in `ConnectorRouting`.

### ReverseServer

Each step of a server task that calls the manager is the conjunction of the
registry's step and the manager's: `Listen` with `GetSocket`, `Release` with
`ReleaseSocket`. `CannotBind` is a `bind` that fails, which the code only tries
for a port that has no socket; `accept` errors are in `registry_live` and
`server_ref_leak`, because with them a reference can be lost. `EndUnreleased` is a task that ends without
calling the manager.

### TcpChannel

`end[s]` is the relay's state on side `s` ("socks": the side with the SOCKS
program, "net": the side that connects to the target), `peer[s]` the program at
its TCP socket, `wire[s]` the messages on the way to `s`. `Request`, `Answered`,
`Timeout` are `_handle_socks_request`; `Connected`, `ConnectFails`
`_handle_tcp_connection`; `ReadSocket`, `ReadEnds` the pump from the socket;
`TakeChunk`, `WriteSocket` the pump to it, in two steps because `sock_sendall`
waits for the program; `Finish` the `FIRST_COMPLETED` wait with its finally
blocks; `Dispatch` what a dispatcher does with one message; `DelayedCleanup` the
task that removes the queue later. Data is abstracted to numbered chunks.

Simplifications: the answer and the registration of the pump are one step on the
net side; the loss of the WebSocket drops everything in flight; one channel, as
channels share nothing but the connection. The field `server` says which side is
the server, chosen initially: a server cancels its network handlers when the
WebSocket ends, and `remove_token` cancels its SOCKS handlers; a client does
neither.

### ConnectorRouting

The variables are the list of `_token_clients` for one reverse token, its entry
in `_token_indexes`, the three dicts of `ConnectorCache`, and for every connection
its state, what the server has sent on it (`out`) and the send its dispatcher is
suspended in (`task`). A dispatcher step takes one message and ends with
`ws.send`, which the WebSocket library splits: the message enters the buffer at
once, then the dispatcher waits while the buffer is above the high water mark
(`Drained`), or gets `ConnectionClosed` (`Send` on a connection that is not open,
`SendRaises` for one that closes meanwhile), which ends the session *of the
dispatcher*. `RouteDisconnect` forgets the channel only after its send, so a
suspended one remembers what to drop. `RouteConnect`, `RouteData`,
`RouteDisconnect` are the branches of `_connector_message_dispatcher`,
`RouteAnswer`, `RouteClientData`, `ClientDisconnect` those of
`_message_dispatcher` for channels of connectors. `opener`, `route`, `said`,
`told` and `heard` record what each channel should carry; no guard of the server
reads them (the guards of peers do: a peer that follows the protocol sends data
after an answer only).

Simplifications: connectors exist from the start with a token each; channel ids
never repeat (UUIDs); reverse clients never open channels; the closing of other
sessions and the tables of tokens are in `TokenRegistry`.

### ClientSession

`loop` is the position in `_start_forward` or `_start_reverse`: "starting" is the
wait for the SOCKS server, "closing" the `async with` leaving the WebSocket after
the tasks have stopped, "sleeping" the five seconds before a retry. The order of
the code is kept: `_websocket` is set when the connection opens, before the
login, and reset in the finally block, which after an exception runs only when the
sleep is over. `config` is what the constructor was given. `request[r]` says whether a SOCKS
request waits for `_websocket`, uses the connection of this attempt or that of an
earlier one. `CallSends`, `CallReturns`, `CallTimesOut` are
`add_connector` and `remove_connector`; `Dispatch` is the dispatcher handing an answer to a
queue; `ServerHandles` is the server's side, whose full tables are in
`TokenRegistry`.

Simplifications: one queue entry per call is enough as UUIDs do not repeat; the
reply of a login is one step (that it may be preceded by a `Partners` message is
in `LoginFails`); a caller who cancels the task of `connect()` ends everything, which
is not followed further.

### UdpAssociation

As `TcpChannel`, for UDP: `end[s]` holds the forwarders (`rd` from UDP to the
WebSocket, `wr` from the queue to UDP), `addr` the entry of `_udp_client_addrs`,
`keyed`, `task` and `late` the entry of `_message_queues`, of `_udp_tasks` and the
delayed cleanup. `FromProgram`, `ToTarget`, `FromTarget`, `ToProgram` are the four
loops; `Finish` the `FIRST_COMPLETED` wait with the finally blocks (`TcpEnds` is
`_monitor_socks_tcp`); `Dispatch`, `DelayedCleanup`, `NetCancelled` as for TCP. A
datagram is a number with the addresses it has at its source; its header is one
of four kinds, by what the code does with it.

Simplifications: UDP between the relay and its neighbours keeps order and loses
nothing (what the relay itself drops is in the model); the request and the
timeout of the SOCKS side start from the accepted request.

### MessageCodec and SocksRequest

`Pack` and `Parse` are `pack_message` and `parse_message`, byte for byte and
for all ten messages, with the length fields at their width and every way to
raise; a UUID has `IdLen` bytes and a byte `Base` values, eight for TLC, so that a length of one
or two bytes overflows at 8 or 64. UTF-8 is scaled with it (a character is one or
two bytes), as are JSON escapes, gzip (a header and a length) and IP addresses.

`SocksRequest` reads the handshake with `sock_recv(n)`, which returns any prefix
of at most `n` bytes of what has arrived: `req.pc` is the `sock_recv` at which
`_handle_socks_request` waits and `req.need` its argument, and an index out of
range is the exception the code runs into. The Connect message and its answer
cross the WebSocket as packed bytes. `net.pc` is the same for
`_handle_tcp_connection`, `_connect_via_socks5` and `_connect_via_http`; the
proxies are modelled from their protocols (external), with a proxy that closes in the middle
of its reply (`ProxyCloses`). Other messages are sent alone, for the codec.

Host and port change their form on the way: bytes in the request, text in the
Connect, and text or bytes again for a proxy. For a SOCKS5 proxy
`UpstreamHost` is what the relay writes and `ProxyHost` what the proxy reads. For
an HTTP proxy `Authority` is the text `host:port` of the CONNECT line, whose IPv6
host has no brackets, and `Readings` what a proxy may take it for: it splits at
any colon that is followed by nothing but a port, or refuses. Addresses are written
with a colon and digits as `inet_ntop` does, two digits for a byte, so a reading is
not unique by its form: that it is the right one is what `ConnectsAsAsked` says.

Simplifications: the SOCKS program follows the protocol for the methods and
credentials it was configured with (its values may be wrong); UDP requests end
at the answer.

## Runs

| Run | Instance | Shows |
|---|---|---|
| `socket_manager` | 2 ports, 3 users, 3 sockets, 3 cleanup tasks | the count is the number of holders, nobody's socket is closed, no socket is lost; `ImplementsLease`; an idle socket is closed |
| `registry` | 2 reverse tokens, plain or managing, 1 internal, 1 connector and 1 forward token, 2 connections, 2 server tasks, 2 ports of which 1 in the pool | the tables agree in every interleaving of API calls, logins and server steps; removal closes its own clients only; when sockets do not fail, a reverse client is confirmed on a server of its token, which accepts if the client waited for it |
| `registry_live` | 1 reverse token, plain or managing, 1 connector token; `socks_wait_client=False`, failing bind and accept | closed connections are forgotten, waiting clients answered, removed servers end |
| `server` | 2 tokens that take one port from each other, failing bind | a server that has ended holds no reference; who accepts has its socket; `RemovedPortCloses` |
| `channel` | 2 chunks each way, every fault, forward and reverse | `DisconnectIsLast`, `ImplementsStream`; both ends close and leave no entry |
| `routing` | 2 reverse clients, 2 connectors with a channel each, a buffer of one message, one connection lost | `RoundRobin`; every channel relays between its two ends only, in order; every Connect is answered |
| `client` | 2 SOCKS requests, 2 connector calls on 1 token, forward and reverse, with and without reconnection | events and `_websocket` follow the loop; a running forward client listens or could not; answers match calls; a client gives up for cause, and always after its token was removed |
| `udp` | 2 sockets of the program, 1 target, 2 datagrams up, 3 down, every header | datagrams arrive in order, at most once and without an inner gap; both ends end together and leave no entry |
| `request` | every ask of `MCSocksRequest` with every split of the stream, 3 kinds of upstream that may close in mid-reply; every other message with short, empty, non-ASCII and too long texts | messages arrive as sent, the right target is connected, the stream starts at its first byte, success is earned, every request ends |

`CHECK_DEADLOCK FALSE` stands in the runs of systems that may really stop: a
channel, an association or a request that is over, a client that has exited, a
server all of whose peers have left.

Runs in which the code and its own comments disagree (`findings` in
`PROJECT.json` has the lines):

| Run | What TLC finds |
|---|---|
| `server_ref_leak` | a server cancelled in its finally block never releases its socket |
| `channel_lost_disconnect` | a `Disconnect` before the pump is registered is ignored |
| `routing_wrong_end` | a dispatcher that forwards to a closed connection ends the healthy session it serves |

More such disagreements are kept as formulas of the modules, each under the
comment it quotes; TLC finds each violated when it is put in a configuration:

| Formula | What happens |
|---|---|
| `SocketManager!FullGracePeriod` | a cleanup task of an earlier release closes the socket before the grace period of the latest is over |
| `TokenRegistry!SocketBeforeConfirm` | a second client of a token is confirmed while its SOCKS server is only created (server.py:835), against the comment of line 832 |
| `TokenRegistry!AuthResponseFirst` | a `Partners` message before the `AuthResponse` |
| `TokenRegistry!BroadcastCompletes` | a connector token added during a broadcast ends the session that logged in |
| `TcpChannel!NothingSkipped` | data before the start of the forwarder is lost |
| `TcpChannel!NothingDropped` | a `Disconnect` drops chunks that are still queued |
| `ConnectorRouting!DisconnectForwarded` | a reverse client's `Disconnect` is not forwarded to the connector (server.py:1158) |
| `ConnectorRouting!CacheIsCleaned` | `remove_connector_token` cleans an index that is kept under the reverse token, so nothing is removed |
| `ClientSession!NoReconnect` | without `reconnect` a client whose connection is lost after the login connects again |

Other deviations the models contain, as the code has them, and that no formula
singles out:

- removing one forward token closes the clients of all (server.py:585), and a
  forward client that left stays in `_forward_clients` until then; so
  `RemovalClosesOwnClients` leaves forward clients out;
- connector tokens that clients add for an internal token survive the managing
  token (server.py:533); so `ConnectorTargetExists` leaves them out;
- with failing sockets a client is confirmed without a SOCKS server
  (server.py:844), so `ServerRunsBeforeConfirm` is checked without failures;
- a client that finds an entry in `_socks_tasks` does not wait for that server
  (server.py:835), so the property asks of it only that the entry is an
  uncancelled server of the client's own token;
- `CONNECT` to an IPv6 host has no brackets around it (relay.py:1114-1115); a
  strict proxy refuses it, which is among the outcomes of `DialHttp`;
- a proxy that closes after the head of its SOCKS5 reply counts as connected, as the
  read of the bound address ignores what it gets (relay.py:1065-1070);
- `_handle_pending_token` starts a server for port -1 (server.py:713);
- a request that timed out leaves the connection to its target open
  (relay.py:354);
- `_token_cache` and a channel whose reverse client disconnects stay for ever;
- after a short read the handshake goes on with the bytes it has, so a stream
  cut inside a field is misread or waits for bytes already read; hence `short`
  in the properties. A request that is refused is read by `recv(1024)`, which takes
  it along with the greeting if the program sends both at once, and the next
  read waits until the program leaves (relay.py:224-231);
  `short` is set only when it took everything. So does the reply of an upstream proxy (`cut`);
- `_connect_via_http` drops what the target sends in the same segment as the
  proxy's blank line; hence the exception in `StreamStartsAfterReply`;
- an error text that cannot be packed means no answer at all, and the program
  waits ten seconds (`GiveUp`);
- lengths of non-ASCII texts count characters, not bytes; hence `Sendable`;
- after the WebSocket is lost the ends of a client keep forwarding until a send
  raises or their program leaves; `EndsTogether` promises the server's side only.

### Bounds

Two connections, two tasks and two tokens are enough for each pairwise race: two
owners of a port, two clients of a token, a client and a connector, an old server
and a new one. A third user in `SocketManager` distinguishes a count of two from
"some". `Timers` bounds the cleanup tasks that exist at once: with three, two
stale tasks accompany the current one; when none is free the release that would
start one is not taken. `Tasks` and `Socks` bound identities in the same way.
`MaxChunks` 2 is the least number for which order, duplicates and gaps differ.
Symmetry is used only in `registry`, a run without liveness, on connections and
tasks.

In `routing` two connectors meet in one reverse client and one connector
alternates between two; `HighWater` 1 makes a dispatcher wait behind the other
channel's message; `MaxData` 1 on one channel and 0 on the other puts data of one between
connects of the other; `MaxLosses` 1 lets any connection go at any point. In
`client` a second call meets the answer of the first, late or after a
reconnection; nothing else is bounded, the loop reconnects for ever. `MaxUp` 2 is
what order and a change of the program's socket need. `MaxDown` 3 is the least
number for a gap inside what the program gets: one before the gap, the one that is lost
and one after it. Targets do not matter to an association, so one is enough. In `request`, hosts and
texts reach every branch on a length: empty, one below, at and above what a
length byte can say. A byte has `Base` values, eight in the run, which leaves
three digits and a colon among the ASCII characters, and any even number from eight
in the proofs.

### Fairness

Weak fairness of what the event loop does by itself: a ready coroutine runs, a
sleep ends, a target answers a connection attempt. Nothing is assumed of users,
callers of the API, peers, or programs: they need not read, write, close, release
or log in. `RegFairSpec` excludes the failure of `accept` from a server's
fairness, as nothing makes it happen. `RoutingFairSpec` adds that the library
reads what arrives on a connection and that the relay of a reverse client
answers a Connect. For a direct connection the time limit of the operating system sees to
that; through an upstream proxy that accepts and never replies nothing in the
code does, so there it is an assumption about the client's environment. `ClientFairSpec` has two
strong conditions: a server that can be reached again and again is reached and
refuses an invalid token, although the connection may fail any finite number of
times in between. In `RequestFairSpec` the net side and the proxies may stall: the
timeout ends the request.

## Proofs

`SocketManager_proofs` proves for any sets of ports, users, sockets and timers
and any grace period, from `SMAssumption` alone:

- `RefsTheorem`: the type invariant and `RefsMatchHolders`;
- `NoUseAfterCloseTheorem`; `NoLeakTheorem` (`NoSocketLeak`; `IdleHasTimer`, that an idle
  entry has a task that will close it, comes with it);
- `LeaseTheorem`: `SMSpec => ImplementsLease`.

The inductive invariant `SMInv` conjoins the four properties and the type
invariant. None is inductive alone. A cleanup task decides on `refs = 0`; that
no user is harmed needs `RefsMatchHolders`; that the count is preserved needs
`NoUseAfterClose`, since a holder of a port must find the entry it took; and
binding a fresh socket keeps the table injective only if every open socket is
listed (`NoSocketLeak`). One lemma per action shows that the action keeps
`SMInv`, over four lemmas about how get and release change the set of holders.
`StepIsLeaseStep` then maps each action to a step of `SocketLease` or a stutter.

The theorems about `TokenRegistry` hold for any sets of names, connections,
tasks and ports, from `RegistryAssumption`: the kinds of names are disjoint (a
name generated twice is outside the model), `None` is none of them, and there are
finitely many connector tokens (so that they can be counted). Each comes from an
invariant of its own over the type invariant, which is inductive by itself
(`RegTypeTheorem`):

- `PortsTheorem`, from `PortsInv`: `PortsAreOwned` is inductive once internal
  tokens are known to have no port. Otherwise the removal of a managing token,
  which drops internal tokens and returns one port, could lose some.
- `ForgottenTheorem`, `UnlistedTheorem`, `RemovalTheorem`, from `SessInv`: a
  client is listed under the name its handler remembers and nowhere else
  (`ListedAreLive`), so the cleanup, which knows only that name, forgets it
  everywhere; an open connection is listed (`OpenIsListed`), and only names that
  are tokens list anybody (`ListsAreTokens`), so a removal reaches the handlers
  that wait. `ForwardNamed` keeps the forward clients, who are in a table of their
  own, apart. That no step except a removal asks for a connection to be closed is
  the second half of `RemovalTheorem`.
- `OwnedTokensTheorem` and `TargetTheorem`: `InternalIsOwned` and
  `ConnectorTargetExists` are inductive as they stand over the types.
- `ServersTheorem`, from `ServInv`: `ServersAreOwned` is inductive once servers are
  known to be started for reverse tokens only, since internal tokens vanish
  without their port being looked up. It covers failing `bind` and `accept`.

The theorems about `TcpChannel` hold for any number of chunks and any set of
faults (`ChannelAssumption`). `LastTheorem` and `StreamTheorem` (`DisconnectIsLast`,
`ImplementsStream`) share the invariant `ChanInv`, over the types:

- `Handshake`: the answer of the net side comes once and first, and nothing
  flows back before it; so the messages the SOCKS side takes while it waits
  cannot be data of a stream.
- `Pumps` and `ClosedIsSilent`: pumps run in the forwarding phase only, and an
  end that has closed sends nothing after its `Disconnect`.
- `Keys`: an open end loses its queue only when the other end has closed and all
  it sent has arrived. Without this a late delayed cleanup could take the queue
  of an end that is still reading.
- `Flow`: the chunks on the wire end with the last one read, those in the queue
  follow the ones written. How far the numbers in the queue reach (`seen`) is
  not a variable of the model, so the invariant says that such a number exists,
  and each action says how it moves.

`DatagramsTheorem` (`DatagramsInOrder`) is the same idea for UDP, from
`UdpAssumption`: there are levels `a <= b <= c` such that what was delivered is
numbered up to `a`, what is queued up to `b`, what is on the wire up to `c`, and
what waits in the socket comes after (`InOrder`). Datagrams are dropped at each
place, so there are no exact counts. `Answer` keeps apart the one message that is
no datagram. The run's `DatagramsKeepOrder` says besides that nothing is lost
*between* two datagrams that arrive; that half is only model-checked.

The theorems about `ClientSession` hold for any requests and calls.
`EventsTheorem` needs, besides the property itself, that an attempt past its
connection has `_websocket` set. `ListensTheorem` follows from what every login
leaves behind: a server task, a listener or an error (`AwaitedServer`).
`CauseTheorem` is about the few actions that end the loop. `AnswersTheorem` is
inductive once a request is known to be in one place: on its way and not handled,
or handled with its result recorded, which every answer under way equals
(`RequestsArePending`, `AnswersAreResults`).

The theorems about `ConnectorRouting` hold for any connections, channels, buffer
sizes and losses, from `RoutingAssumption`: a connection is not of both kinds and
a channel belongs to one connector. `RoundRobinTheorem` says what a round is: the
part of the list that ends at the index, perhaps over the end of the list
(`RoundInv`); the list names nobody twice, as only one who was never there joins
(`Listed`). `RouteTheorem` (`ImplementsRoute`) needs `ChannelInv` of each channel:

- `Parties`: the cache, if it knows a channel, has the client it was given to
  and the connector that opened it;
- `Confined`: its messages are in the buffers of these two connections only;
- `ClientFed` and `ConnectorFed`: a buffer holds the next messages in order
  (`Carries`, with a function that counts them along the buffer); and it holds
  *all* that are left while the cache has the connection and the connection is
  open. This is what lets the next message be appended: a cache entry never
  comes back once it is dropped, nor does a closed connection, so a gap is never
  followed by another message. The exception is the disconnect of a client,
  which is told and not sent (`Ended`); a client tells nothing after it.

The theorems about `ReverseServer` take those about its two parts over:

- `RegistryTheorem`: `ServerSpec => RegSpec`. The composition only restricts what
  the registry's tasks do, so every invariant of the registry holds in it.
- `ManagerTheorem`: the manager inside the server is a `SocketManager`
  (`Lent!SMSpec`). This is not by the shape of the module: `ReleaseSocket` has a
  user who holds the port, and that the server releases what it holds and nothing
  else is the invariant `HoldInv`: the manager is open, and a task that accepts or
  drains holds the socket of its own port.
- `AcceptorsTheorem` (`AcceptorsListen`) is `HoldInv` with `NoUseAfterClose` and
  `RefsMatchHolders` of the manager. It covers failing `bind` and `accept`.
- `EndedServersTheorem` (`EndedServersHoldNothing`) assumes that `accept` does not
  raise. Then no other task holds a socket, and a server that drains is no longer in the
  task table (`TidyInv`), so nobody cancels it a second time. With an `accept` that raises the property is
  false, as the run `server_ref_leak` shows.

`ServerAssumption` says what the manager assumes of its constants: finitely many
tasks, so that the holders of a port can be counted, a grace period, and no socket called `None`.

`ConfirmTheorem` (`ServerRunsBeforeConfirm`, in `TokenRegistry_proofs`) assumes that no
socket call raises, as the run of the property does: a client is confirmed after
three seconds without a server too (server.py:844). It is about every reverse client
of a token with a port. For one that waits, `AwaitedInv`: the handler knows the task
it waits for, and this task, if it has not started, is not cancelled while the
token is there. For one that does not wait, `TableServes`: whatever the table
has under the port of a token is a server of that token, created or accepting. So
an ended or cancelled entry never stays behind for a later login, nor one of an earlier
owner of the port.

The theorems of `SocksRequest_proofs` hold for any set of requests, any
credentials, error texts and data of the target, and for every even `Base` from
eight (`CodecAssumption`), 256 included, so for the widths of the code and not only
for the scaled ones of TLC. `CodecAssumption` also says that
an exception is not a value. `RequestAssumption` gives the constants their
types: a program that names an address type sends an address of that length.

- `RoundTripTheorem` (`RoundTrip`): `PackKinds`, that `Parse` undoes `Pack` for
  every kind of message. Each kind has a lemma (`AuthRoundTrip`, ...,
  `DocumentRoundTrip`) that reads the payload field by field; each field has one
  that says that it is read from the front *of anything that follows*
  (`TextIsRead`, `EndpointIsRead`, ...), which is what makes them chain. No length
  is bounded but by what `Pack` refuses. Below them are `FlattenTyped` and
  `FlattenSingletons` about the library's `FlattenSeq`: a recursive
  function, shown to exist by `Induction`, which is derived from the fact that a set
  of numbers has a least element, as the library's induction theorem has an
  operator for a parameter.
- `RequestInvariant`: the inductive invariant `RequestInv`. Its parts:
  `HandshakeInv`, at each point of the handshake the bytes not read yet are
  those of the fields not read yet, unless a field was cut; `WireInv`, what is on the wire was
  packed from what was sent, and what was heard was parsed from it; `TurnsInv`,
  the program's side, the wire and the net side take turns, so there is one
  message at a time and the net side has ended when its answer is on the way;
  `CredentialsInv`, past the password the credentials were right; `AddressInv`, the
  host and port in the Connect, in what the net side heard, and in the connection it made;
  `ReplyInv`, what is left of the proxy's reply. None is inductive alone: what is sent
  depends on the bytes left, what is heard on what was packed, and that a Connect
  arrives unchanged on the round trip.
- `AddressTheorem`, `StreamTheorem`, `SuccessTheorem` (`ConnectsAsAsked`,
  `StreamStartsAfterReply`, `SuccessIsEarned`) follow from it. `ProxyReadsHost` is the
  step from the text of a host through `_connect_via_socks5` to what the proxy
  makes of it. `AuthorityIsRead` is the one for `_connect_via_http`: a port has no
  colon in it (`PortHasNoColon`), and what follows any other colon of an address is no
  port, so there is one reading and it is the host and port of the Connect.
  `AddressTheorem` leaves out handshakes in which a field was cut in two (`short`).

Every safety property of the passing runs is proved, under the two hypotheses named
above, but for the second half of `DatagramsKeepOrder`. Besides that half, only
liveness is model-checked and not proved, as the prover cannot do it: the property of every
run that says that something happens in the end, with the fairness it needs.

## Not modelled

- `_process_request` (the HTTP page), logging and the command line: no state.
- `Relay.set_connection_success`: nothing calls it.
- Credentials in the query of the WebSocket URL, which take the place of the
  `Auth` message and lead to the same handler.
- The numbers inside `Partners` messages.
- gzip, JSON, UTF-8 and IP text formats beyond what the codec's branches see of
  them, and `src/utils`, a measuring tool.

## Plan

In this order:

1. SOCKS requests on the server's port composed with the removal of their token:
   a request that waits for a client looks the token up again
   (server.py:654), and is a user of `TokenRegistry`'s tables;
2. `get_socket` callers that wait for the lock while `close()` runs
   (server.py:220), which needs the shutdown of the whole server;
3. several channels on one WebSocket in `TcpChannel`, for the buffer of the
   connection they share;
4. the steps from which liveness follows, as action properties with proofs: the
   ranking of a cleanup task, of a server that drains, of a request.
