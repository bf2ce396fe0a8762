# A TLA+ model of nng-core

nng-core is a Rust implementation of the Scalability Protocols (SP) of nanomsg/NNG:
REQ/REP, PUB/SUB, PUSH/PULL, SURVEYOR/RESPONDENT, BUS and PAIR sockets over byte
streams (TCP, IPC, TLS, QUIC, KCP, VSOCK), WebSocket and UDP. This directory holds
TLA+ modules that model its messages, its transports, its handshake and its sockets, TLC
configurations that check them on small instances, and proofs checked by TLAPS.
Paths such as `socket/bus0.rs` are relative to the crate's `src/` directory.
`PROJECT.json` lists the components, the runs, which lines each definition models,
the hazards, the findings and the theorems.

## 1. Inventory

| Component | State | Operations | Interacts with | What is hard |
|---|---|---|---|---|
| `transport.rs` FramedTransport | `RecvBuf` (phase, header bytes, body, fill counts) | `connect`, `send`, `recv`, `recv_pooled` | a byte stream below, a socket above | every await may be the last: `recv` must resume, `send` does not |
| `transport.rs` BufferPool | a stack of buffers, two limits | `take`, `recycle` | `recv_pooled` | a buffer with old contents, larger or smaller than the frame |
| `codec.rs` | none | handshake and frame encoding, `expected_peer`, `ws_subprotocol` | `connect`, WebSocket upgrade | both ends decide alone and have to agree |
| `transport/ws.rs` | a WebSocket | `connect`, `accept`, `send`, `recv` | tungstenite | another table of names decides who may talk |
| `socket.rs` Socket | transport, address, ReconnectOptions | `send_raw`, `recv_raw`, `do_reconnect` | `reconnect_transport`, all one-peer sockets | a retry of one half of an exchange; attempts and back-off |
| `socket.rs` listeners | an OS listener | `accept_raw`, `into_transport`, `accept_as_transport` | the multi-peer sockets | accept and handshake are two awaits |
| `socket.rs` listen and dial functions | none | `listen*`, `dial*`, `bind_listener*`, `connect_stream`, `connect_transport` | the streams below, the handshake above | nine schemes that come up differently, and may meet on one address |
| `reqrep0.rs`, `protocols/reqrep.rs` | id counter, resend time | `request`, `receive`, `reply` | Socket | resends, stale replies, id arithmetic |
| `tower_svc.rs` Req0Service | a mutex around Req0 | `call` | callers that come, wait and are dropped | a socket left in the middle of something |
| `survey0.rs`, `protocols/survey.rs` | respondents, next and current id | `survey`, accept operations; `receive`, `respond` | listener, many transports | a deadline, late answers, redials |
| `pipeline0.rs` Pull0Fan | mpsc channel, watch channel, one task per pusher | `add_pusher`, `pull_any`, drop | tokio tasks | interleaving, back-pressure, shutdown |
| `pipeline0.rs` Push0Fan | workers, next index | `push` | many transports | a dead worker stays in the rotation |
| `pubsub0.rs` Pub0, `bus0.rs` Bus0 | a Vec of transports, a listener | `publish`/`broadcast`, `recv_any`, accept operations | many transports | removal inside loops, slow, silent and broken peers |
| `pubsub0.rs` Sub0, `protocols/pubsub.rs` | subscription set | `subscribe_to`, `unsubscribe_from`, `next` | `reconnect_transport` | a range query instead of a scan |
| `protocols/pair.rs` | the TTL to send | `attach_ttl`, `process_incoming` | MessageBuf | the field is put into a header and taken off a body |
| `message.rs` | header and body, or one array with offsets | push, trim, prepend | everything | offset arithmetic |
| `transport/udp.rs` | the peer last heard of | `bind`, `connect`, `send`, `recv` | Socket | no connection: one peer field for all clients, and nothing arrives for sure |
| TLS, QUIC, KCP, VSOCK adapters | a library's stream, and what keeps it alive | read, write, flush | FramedTransport | who hears of a connection when; streams that need their endpoint or listener |

What makes each of them correct: a transport delivers whole messages in order or
fails; two ends accept each other only if both do and their protocols fit; a
request returns its own reply; a survey returns its own answers and ends; a
pipeline loses nothing and stops when told to; a fan-out reaches every live peer
once; a filter lets through what was subscribed to; a redial keeps to its limits;
the two message buffers are interchangeable; two ends that fit get a connection over
every scheme; a datagram server answers the one that asked.

## 2. Modules

    SPChannel            what a direction of a connection promises
       ^ implemented by
    FramedTransport      MCFramedTransport instantiates it
       ^ relied on by (a connection is a queue of messages)
    ReqRep   Survey   Pipeline   Fanout (MCFanout)   Sub0 (MCSub0)
    Handshake            the two ends of a handshake or a WebSocket upgrade
       ^ extended by
    Connect              from two URLs to a connection (its result is what
                         Fanout calls a good or a bad hello)
    MessageBuf           what a message buffer promises
       ^ implemented by
    Message              MCMessage instantiates it
    BigEndian            lengths as bytes, extended by FramedTransport and Message
    Datagram             REQ/REP over UDP, where there is no connection

`XProofs` extends module `X` with theorems about it, for X = FramedTransport, ReqRep,
Survey, Pipeline, Fanout, Message and BigEndian; LinkProofs is about Connect (with Handshake),
Sub0 and Datagram together, which is why the specifications of the latter two have names of
their own (`SubSpec`, `UdpSpec`) (section 5).

**FramedTransport** models one direction of a connection byte by byte. `frame`,
`written` are the running `send`; `wire`, `rpos` the stream; `rx` is the `RecvBuf`;
`bufs` the `BufferPool`. A read or write moves any number of bytes, and a running
send or receive may be dropped between any two (`AbandonSend`, `CancelRecv`).
Lengths are really encoded and decoded, in digits of `Base` (**BigEndian**: `ToBe`, `FromBe`), so
what the receiver makes of misplaced bytes is computed, and a length is cut to a `usize` of
`UsizeLimit` values where the code casts it (`AsUsize`). `damaged` and `intact` are history: whether
something went on the wire that cannot be framed (half a frame, an oversized
frame), and how many sends completed before.

**SPChannel** is the abstract channel: `sent`, `delivered`, `delivered` a prefix of
`sent`. `FramedTransport!ChannelSpec` states the refinement, up to the first damage.

**Handshake** has the two ends of `FramedTransport::connect`, writing and reading
`HsLen` bytes through buffers of `StreamCap`, with foreign programs at one end, a
first frame following the handshake, dropped ends and broken connections; on a
connection whose `scheme` is `"ws"` the WebSocket upgrade takes its place, between two SP
sockets or with a program that upgrades without a subprotocol or not at all (`Forms`).

**Connect** puts in front of it what `socket.rs` and `transport/*.rs` do to get a
stream: a listener and a dialer call one of the `listen` and `dial` functions (`op`)
with a URL (`url`; only the scheme is kept, both mean one address). `Bind` and `Dial`
refuse what those functions refuse, and fail if an address, a certificate or the root
store is not `usable`; an `ipc` listener finds the socket file of a dead process
(`stale`); TLS ends with a certificate that is `trusted` or not; a QUIC stream and a KCP
connection show up at the listener with the first bytes (`ShowsWithData`); a KCP
stream receives through its listener (`Live`). Ends with different schemes on one TCP
port get as far as each one's layers take it; where they stand at one layer in different
languages (`Crossed`), an end that is spoken to finds no TLS record, no SP magic or no HTTP, and
one that is not waits until the other is gone (`Misread`).

**Message** has one `Message` (two sequences) and one `ZeroCopyMessage` (an array and
three offsets) that go through the same operations of the trait, by hand, by PAIR1's
`attach_ttl` and `process_incoming`, and by being sent and received (`Transfer`, through
`encode_frame` and `decode_frame`, in arithmetic of `UsizeLimit`). An operation that panics ends the ZeroCopyMessage
(`live`); so do the operations that only Message has. **MessageBuf** is the abstract
specification, a header and a body that change at their ends; `MessageSpec` states that
Message, with its resizing and moving of bytes, implements it.

**Datagram** has several `Req0`, each with a connected `UdpTransport`, and one `Rep0` with
a bound one. `net` is a set of datagrams that may be received in any order, lost, or
received again; a stranger sends to the server, short datagrams included; a port without a
server answers with an ICMP error that a later call meets (`err`). Each client counts from 1,
so ids do not tell clients apart.

**ReqRep** has callers (`queue`, `cur`: the mutex of `Req0Service`), `Req0` with
its `Socket` (`pc` is the await `request` is suspended at: `send`, `recv`, their
second attempts `send2`, `recv2` after a redial, and the redials `rc_send`,
`rc_recv`), a connection of two queues, and a `Rep0` server that accepts one
connection, handles one request at a time and may die and come back. `torn` has the
directions of the connection in which a `send` was dropped halfway, by a caller or by the server
in the middle of a `reply`; what comes out of such a direction is `Garbage` under an arbitrary id,
too short for an id, or no frame at all (`RecvGarbage`, `RepRecvGarbage`), as FramedTransport
shows.

**Survey** has a surveyor (`pc`, `idx`, `pending`, `still`: the loops of
`survey_with_timeout`, one action per poll) and respondents that dial, receive,
answer or skip, and redial; each connection has a number and two queues.

**Pipeline** has pushers, one reader task per pusher (`recv`, `sendOk`, `sendErr`,
`done`: its awaits), the bounded channel, `pull_any`, and the fan's end.

**Fanout** is, as `kind` says, Pub0, Push0Fan (`"PushFan"`), or Bus0 made by
`listen_and_accept` (`"Bus0"`), by `bind` with an AcceptStream in a task of its own
(`"BusStream"`) or by `dial` (`"BusDial"`). `pc`, `op`, `i` are the loop the hub is in, `next`
is Push0Fan's turn. Peers connect, shake hands late, wrongly or never, read, talk and
break at any moment. `sentTo` keeps the order of the messages per connection. Two calls that
return `NoPeers` and change nothing are left out: `push` on a fan made for no workers
(`pipeline0.rs:123`) and `recv_from` with an index out of range (`bus0.rs:138`).

**Sub0** is the SUB0 socket with the filter (`matches` translates the range query on
the ordered set of prefixes) and the loop of `reconnect_transport`: its sleep, its connect, and
the wait for the publisher's handshake (`"hello"`), which ends when the publisher shakes hands or
breaks off. What a socket was given as ReconnectOptions is chosen in the initial state.

Definitions marked `Mutant:` are not part of the models: each is a plausible bug of
the definition that follows it, and a property has to fail when it is put in.

## 3. Runs

Passing runs (bounds in the .cfg files; everything they check that is not liveness is
also proved, for all bounds, see section 5):

| Run | Checks | Bounds and why they suffice |
|---|---|---|
| `framed` | TypeOK, PrefixIntact, OversizeRejected, refinement of SPChannel, SentIsDelivered | three sends of four messages (empty, one byte, header and body, oversized), stream of 2 bytes: smaller than any frame, so every split of header and body happens; one pooled buffer; IPC framing (TCP framing is the same without the type byte) |
| `reqrep` | TypeOK, ReplyIsOwn, IdsConsistent, CorrectReplyReturned, AtMostOnceWithoutResend, EveryCallReturnsOrStuck | two calls (late and doubled replies to the first meet the second), queues of one, so that client and server do wait for each other to read (`Wedged`), three faults of four kinds. A call that was resent is exempt from AtMostOnceWithoutResend (`resent`) |
| `survey` | TypeOK, ResponsesCurrent, SurveyReturns | two respondents, three connections (one redial), three surveys through streams of one message, so that the send loop does wait; at the third survey the id counter wraps |
| `pipeline` | TypeOK, NothingLost, PushedIsPulled, DropEndsTasks | two pushers of three messages, channel of one: always contended |
| `fanout` | TypeOK, LivePeersKept, ClosedOnlyByDrop, ReachesAll, InTurn, PublishReturns, OnlyFrontStarves | one scenario per kind of hub and question (`MCScenarios`): three connections and one message, where a removal happens in front of, at and behind the loop index; two connections and two messages with a peer that is refused and a dropped future; five pushes over up to three workers, a round and a half |
| `handshake` (module Connect) | TypeOK, Agreement, MatchedPairs, Decides, FittingEndsConnect | all eleven protocols and two unknown ids on both ends, over tcp and ws; two of them (`Few`) over every pair of schemes that can meet, with every function, fault and order; two bytes of handshake, one of frame: every split happens; foreign programs of each form |
| `message` | TypeOK, SameView, CodecExact, Pair1Delivers, refinement of MessageBuf | an array of 8 (header 2, body 6), byte strings of one and two bytes: each region is filled exactly, overfilled, trimmed and refilled; lengths of two digits in base 8 and a usize of 16 values: messages fit, but bytes read as a length may be cut, and adding the field to it may overflow; TTLs 1 to 3 |
| `datagram` | ReplyIsOwn, CallsEnd | two clients, one with two calls (an old reply meets the next call), one with one (the same id from another address), two faults of any kind |
| `sub` (MCSub0) | NextFilters, RedialWithinLimits, RedialEnds | every set of prefixes of at most two bytes out of two values, every body of that kind; no options, at most three attempts, none, and no maximum, with delays 2, 4, 7 |

Runs that end in a violation show where the code does not do what its documentation
says (the findings of `PROJECT.json` quote both):

| Run | Counterexample |
|---|---|
| `reqrep_wrap` | from id 2^31 on every reply is discarded as stale |
| `survey_late` | a late answer uses up its respondent's turn, the survey returns early without it |
| `pipeline_stream_end` | the fan's own `tx` keeps the channel open for ever |

The passing properties are stated with the exceptions the code really has. They are
worth knowing:

* A `send` dropped halfway leaves half a frame, and the next frame is taken for the
  rest of it (`damaged` in FramedTransport, `torn` in ReqRep, in either direction). Nothing in the library
  repairs such a connection.
* Without `resend_time`, a call whose connection is lost after the request was sent waits
  for ever: `recv_raw` redials, but the new connection never carries the request
  (`EveryCallReturnsOrStuck` is therefore checked with `Resend = TRUE`).
* A resend and a reply that are both larger than the stream buffers block each other
  (`Wedged`; the run reaches it).
* When the redial attempts run out, `send_raw` and `recv_raw` return the error that
  started the redial; only Sub0 and Respondent0 report `ReconnectExhausted`.
* `survey` sends to its respondents in sequence and outside the deadline: one that stays
  connected and does not read holds it up for ever. `publish`, `broadcast` and `push` likewise,
  and `publish` also waits for the handshake of whoever has connected. `SurveyReturns` and
  `PublishReturns` say that this (`HeldUp`) is the only way not to return; they assume nothing of
  the peers.
* A redial awaits the handshake without a timeout (`socket.rs:855`). A publisher that accepts
  connections but stays silent (a `Pub0` outside `publish` and `wait_for_subscribers` does)
  holds up `next` whatever `max_attempts` says: the exception in `RedialEnds`.
* `publish` drains the accept queue until it is empty. In the model connections are bounded, so
  the draining ends; peers that connect without end could keep it busy.
* Push0Fan never drops a worker: after a break every turn of that worker fails, and the
  message of that turn is lost unless the caller pushes it again.
* A dialer that comes before its listener is refused (`TooEarly`), over every scheme but KCP.
  A KCP dialer is told nothing: without a listener, or after it is gone, it waits (`Waits`).
* `ipc://` and `ipc2://` on one path shake hands and then frame differently.
* A UDP listener's peer is set by every datagram, not only by the first, as some of its
  comments say (`udp.rs:15`, `udp.rs:65`). `ReplyIsOwn` of Datagram needs it to be every one.
* A UDP call can fail on account of an earlier one's ICMP error, and without `resend_time` one
  lost datagram leaves a call waiting for ever (CallsEnd is about Req0 with a resend time).
* A PAIR1 message that is sent a second time still has its first TTL field, and arrives with
  it in front of its body (the hypothesis of `Pair1Delivers`).
* PAIR0 and PAIR1 accept each other over WebSocket, against `codec.rs:65`. An id that is in no
  pair expects itself; its peer is checked, where the comment at `codec.rs:80` says "skip peer
  check". Both are the exceptions in `MatchedPairs`.
* `RedialWithinLimits` has two exceptions: `Some(0)` makes one attempt (the maximum is looked at
  after it, `socket.rs:863`), and with a `min_backoff` above `max_backoff` the first delay is the
  longer one.
* Every `recv_any` starts with the first peer (`bus0.rs:113`); its doc (`bus0.rs:106`) says
  "round-robin order". A peer in front that always has a message starves those behind it, and
  `OnlyFrontStarves` says that nothing else does.
* An `accept` that is dropped during the handshake closes a connection the kernel had accepted;
  its doc (`bus0.rs:213`) says that it never does. `ClosedOnlyByDrop` says that it costs that one
  connection, and that nothing else closes one whose peer keeps to the handshake.
* The length of a frame is cast to `usize` before it is compared with the limit
  (`transport.rs:306`, `transport.rs:314`). With a `usize` narrower than the field a length above
  the limit may be taken for a small one. `OversizeRejected` is checked and proved for a `usize`
  that holds every length; with a smaller `UsizeLimit` TLC finds a counterexample.

Deadlock checking is off where the system may really stop: callers that make no more
calls, connections that are all broken, a fan that was dropped.

## 4. Fairness

* A future whose stream, timer or mutex is ready is polled again: weak fairness of
  the socket's own steps. This is what the tokio runtime provides.
* Strong fairness is used where an environment step can disable the ready one and
  enable it again: reads of a receiver whose calls are cancelled and reissued
  (`FramedTransport`: not every call is dropped before its first poll), reader tasks
  waiting for room in the channel and `pull_any` (`Pipeline`: tokio's semaphore is
  first come, first served), and sends on a connection that is down
  (`ReqRep`: the kernel does not swallow writes for ever).
* Nothing is assumed of the peers in `Survey`, `Fanout` and `Sub0`: they may stop reading, never
  shake hands and never come back. In `Fanout` the user of a bus calls `recv_any` again and again.
  In `Sub0` the kernel's connect succeeds or fails in the end (a TCP connect times out); the
  handshake behind it need not.
* In `Datagram`, strong fairness for the server's receives from each client and for a
  client's receive of its reply: no sender's datagrams fill the socket buffer for ever, and the
  resend timer does not always fire just before the answer. Losses are bounded by `MaxFaults`,
  so they end; with endless loss nothing could be said.
* In `Connect` both futures are polled; the network's failures are not fair. A KCP stream that
  notices its peer's end is a possibility (`KcpErr`), not a promise.
* In `ReqRep` and `Datagram` the server application binds again after it lost its connection, and
  handles what it receives.

## 5. Proofs

Every theorem but `LengthField` is about a specification without fairness (`Spec`, `SubSpec`,
`UdpSpec`), and all are for every value of the constants that the named assumptions of the module
admit: all bounds of section 3 are gone. `PROJECT.json` lists the theorems. Each names the
property of the run that checks the same on a small instance, except `LengthField`, a fact about
two operators, and `PipelineStreamNeverEnds`, which generalises the counterexample of a run. (The
type invariants of Sub0 and Datagram, `SubTypes` and `DatagramTypes`, are proved and in no run.) Most properties are not inductive. What had to be added to make them so, below, is
what really carries the code; TLC finds each inductive invariant to hold on the run's
instance as well.

**ReqRepProofs**: `TypeCorrect`; under `MaxCalls < Half` (fewer calls than 2^31)
`IdsAreConsistent`, `RepliesAreOwn` and `CorrectRepliesAreReturned`; `HandledOnceWithoutResend`.
`reqrep_wrap` has `MaxCalls = Half` and a violation: the hypothesis is needed.

    IInv == TypeOK /\ QueueFresh /\ IdsUnique /\ MessagesStamped /\ ReplyIsOwn

That a matching id means the own reply needs to know which ids are under way.
`QueueFresh`: calls waiting for the mutex have no id yet, and the counter never
overtakes the number of calls, so ids stay below `Half` (lemma `IdRoom`) and adding
and stripping the high bit are inverse (`StripWireId`). `IdsUnique`: no two calls share
an id, and the call in progress has the one in `sent_id`. `MessagesStamped`: every
message in a queue or in the server's hands carries the id of its call, or is garbage
from a torn direction. Then a reply whose stripped id is `sent_id` has the body of the
current call (`MatchIsOwn`).

    OnceInv == TypeOK /\ MutexOrder /\ PendingUnsent /\ (single calls)

has nothing to do with ids and needs no hypothesis. `Pending` are the calls that have yet to
send; the call that holds the mutex belongs to it through `send`, `rc_send` and `send2`, because
a failed send has completed no frame. A pending call has left no trace (`PendingUnsent`), no step
makes a call pending again (`PendingStep`, which needs `MutexOrder`: a call that has the mutex
is not in the queue as well), and a call that is not resent is under way once or was handled
once (`Single`).

**FramedTransportProofs**: `FramedTypes`, `FramingNeverSlips` (`PrefixIntact`),
`OversizeIsRejected` (under `LenLimit <= UsizeLimit`) and `ImplementsChannel`, the refinement of
SPChannel.

    IInv == Types /\ Sending /\ Handed /\ \E st : Framed(st)

`st` is the list of the offsets at which the frames start on the wire; that it exists is what
framing means. `Laid(st)`: the intact frames lie one behind the other, and each announces the
length of its payload. `Underway(st)`: without damage, what follows them is the beginning of the
frame being sent. `Received(st)`: as long as the receiver is in a frame sent before any damage
(`InSync`), its read position is that frame's start plus what the RecvBuf holds, and the RecvBuf
holds the frame's own bytes. A dropped `recv` changes neither position nor buffer, which is why
it can be dropped anywhere; a dropped `send` cuts `written` loose from the wire, which is
damage. The refinement maps `delivered` and `sent` to their parts before the damage.
`OversizeIsRejected` adds `Announces`: while a body is read, its header is one that was accepted.

**MessageProofs**: `MessageTypes`, `BuffersAgree` (`SameView`), `MessageImplementsMessageBuf`
(the refinement of MessageBuf), `FramesAreExact` (`CodecExact`), `Pair1DeliversAlways`.

    IInv == Vecs /\ Regions /\ HeaderShown /\ BodyShown

is `TypeOK` (`Vecs`, `Regions`) and `SameView` byte by byte: each operation is shown to do to
`buf` between the offsets what the Vec's does to its sequence. The last two theorems need no
induction: they are about what the codec computes on any message.

**BigEndianProofs**: `LengthField`, a length below `LenLimit` written with `ToBe` and read with
`FromBe` is the same length, and any bytes in its place are some length below `LenLimit`, for every
base and every number of bytes. Both proofs above rest on it. It takes an induction over the digits: after k bytes the reader has `n \div Power[LenBytes - k]`
(`DigitsGiveBack`). The library's induction rule has an operator as a parameter, which the provers
cannot instantiate; `SetInduction` is the same rule about a set of numbers, derived from the
theorem that a well-founded relation has minimal elements (`WFMin`). That the recursive functions
exist (`PowerDef`, `ValueDef`) and that quotients compose (`DivDiv`) is proved along the way.

**LinkProofs**, on Connect: `ConnectTypes`, `EndsAgree` (`Agreement`), `OnlyPairsConnect`
(`MatchedPairs`). `SpDecided` and `WsDecided` tie each end's result to the two protocols:
on a byte stream an end accepts only after the other's whole handshake, and only if it is the
expected one; in an upgrade between SP sockets the listener decides by the name it was asked for
and the dialer checks the name it was answered with, which no foreign program gives. That both sides then
come to the same result is a fact about `expected_peer` and `ws_subprotocol`.

On Sub0: `SubTypes`, `SubRedialsWithinLimits` (`RedialWithinLimits`), `SubFilters` (the action
property `NextFilters`). `Redialling`: while the loop of `reconnect_transport` runs, another attempt
is due and the delay it waits is within its limits; that is what holds between two attempts,
for every ReconnectOptions.
That the range query of `matches` finds what a scan of all prefixes would find (`QueryIsScan`)
comes down to one fact about the byte order: a prefix never sorts behind the body it begins
(`PrefixLeq`), so the range up to the body leaves out no match.

On Datagram: `DatagramTypes`, `DatagramRepliesAreOwn`. The invariant `NetOK /\ ReqOK` says
that a datagram's body names the client and the call it belongs to and is addressed to or from
that client, and that a request in the server's hands is one of the peer in `peer`: true only
because every datagram sets `peer`. `CallMade`: a client that waits has made a call.

**PipelineProofs**: `PipelineTypes`, `PipelineLosesNothing`, `PipelineStreamNeverEnds`. `Ordered` is `NothingLost` for a fan
that is alive: of each pusher the first c messages are pulled or in the channel, in order, and
the rest with its task or in its stream. `Ending`, `ErrLast` and `Unaccepted` say
in which order a pusher's end, its task's end and the error entry come. The last theorem is the
finding of `pipeline_stream_end` for every number of pushers and every capacity: the stream never
yields `None`, because whoever polls it holds the fan, and with it a sender (`Borrowed`).

**SurveyProofs**: `SurveyTypes`; under `MaxSurveys <= IdMax` (fewer than 2^32 surveys)
`SurveyAnswersAreCurrent` (`ResponsesCurrent`). Beyond, an answer delayed by a whole round of
ids could be taken for a new one. `ConnOK`: a connection is accepted once and has one
respondent. `Ids`, `Labelled`: the id of a survey is its number, and messages bear it. `Once`:
per respondent the running survey is under way, in its hands, answered or collected, one
of them at a time; `Ahead`: the send loop has not been where it is going.

**FanoutProofs**: `FanoutTypes`, `FanoutKeepsLivePeers`, `FanoutInTurn`, and the action properties
`FanoutReachesAll` and `FanoutClosedOnlyByDrop`.

    IInv == TypeOK /\ Control /\ Where /\ Sent /\ Served /\ Rotation

`Control` says which operation each kind of hub can be in. `Where`: every connection that is up
is a peer, in the backlog, being shaken hands with, or with the AcceptStream, and in one of these
places only; this is what swap_remove and dropped futures could disturb. `Sent`: whoever is
ahead of the send loop has not had the message. `Served`: whoever the loop started with is
ahead of it, has had the message or is down; so at the end nobody was skipped. `Rotation`: message m
of a Push0Fan is that of worker `Turn(m)`.

Assumptions. All modules: types of the constants, and what the code takes for granted
(`mpsc::channel` has a capacity, the header region holds a TTL field, a message is not longer
than its length field can say, `usize` holds `MAX_FRAME_BYTES` and any frame in memory, a stream
buffers at least a handshake). No property of the code is assumed.

Checked by TLC only: liveness (SentIsDelivered, EveryCallReturnsOrStuck, SurveyReturns,
PushedIsPulled, DropEndsTasks, PublishReturns, OnlyFrontStarves, Decides, FittingEndsConnect,
CallsEnd, RedialEnds). This prover does not reason about fairness and ENABLED.

## 6. What is not modelled

* What TLS, QUIC, KCP and VSOCK do on the wire, and when a TLS stream passes on what it has
  buffered (FramedTransport does not flush): other libraries' business.
* WebSocket messages once the connection is up: one message, one binary message of
  tungstenite's; the loop in `recv` that skips control frames keeps no state.
* Host names, ports and paths in URLs, PEM files, error conversion; examples, benchmarks,
  fuzz targets.
* `Pull0::pull`, `Pair0::send` and `recv`, and the Stream and Sink adapters other than
  Pull0Fan's: `send_raw` and `recv_raw` with nothing added.
* A Socket with reconnect over `udp://`: `dial_with_reconnect` refuses the scheme.
* Time is a deadline that passes or a timer that fires at any moment; durations are
  not compared, except the back-off.
* In Survey and Fanout a dropped send leaves the connection usable: what it does to
  the frames behind it is FramedTransport's and ReqRep's subject.
* Which peer an index means to the caller of `Bus0::recv_from`: the index is checked when it is
  used, but `swap_remove` in an earlier call may have given it to another peer
  (`bus0.rs:135`).
* `Pull0Fan::listen_and_accept(addr, 0)`: the capacity of the channel is four times the number of
  pushers, and `mpsc::channel` panics on 0 (`pipeline0.rs:164`, excluded by `PipelineAssumption`).

## 7. Plan

Done, in this order: FramedTransport with SPChannel, ReqRep with its proofs, Survey,
Pipeline, Fanout, Handshake, Sub0; then Push0Fan and the missing Bus0 operations in Fanout,
Message with MessageBuf, Datagram, Connect. What is left of the code is listed above: it is
either state of other libraries or has none.

Then theorems: ReqRep; Datagram, Connect, Pipeline, Survey, Fanout; Message and FramedTransport
with their refinements; Sub0 and BigEndian. Every invariant and every action property that a
passing run checks is now proved; liveness stays with TLC.
