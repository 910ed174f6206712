# Verification of rheomesh

TLA+ models of [rheomesh](../src), an SFU (selective forwarding unit) library
in Rust with a browser client, the TLC runs that check them on small instances,
and theorems about them that TLAPS has checked for every instance.  Paths below
are relative to `src/sfu/src` unless they start with `src/`.

| File | What it is |
|---|---|
| `Negotiation.tla`, `MCNegotiation*.cfg` | (re)negotiation of a SubscribeTransport |
| `NegotiationProofs.tla` | its safety, proved |
| `Registry.tla`, `MCRegistry.tla`, `MCRegistry*.cfg` | Worker, Router, Publisher, DataPublisher: who is published where |
| `Directory.tla` | what routers promise about who is published, which Registry implements |
| `RegistryProofs.tla` | its safety, and that it implements Directory, proved |
| `Relay.tla`, `MCRelay.tla`, `MCRelay*.cfg` | relaying publishers to the routers of another server |
| `RelayProofs.tla` | its safety, proved |
| `Subscriber.tla`, `MCSubscriber.cfg` | the tasks of a Subscriber |
| `SubscriberProofs.tla` | their types and which encoding is forwarded, proved |
| `LayerFilter.tla`, `MCLayerFilter.cfg` | what those tasks do to packets |
| `Forwarding.tla` | what a client is promised about packets, which LayerFilter implements |
| `LayerFilterProofs.tla` | that it does, proved |
| `PublishWait.tla`, `MCPublishWait.cfg` | `publish()` and the cleanup of a PublishTransport |
| `PublishWaitProofs.tla` | its safety, proved |
| `Datagrams.tla` | the datagrams of the relay |
| `DataRelay.tla`, `MCDataRelay.tla`, `MCDataRelay.cfg` | data channels relayed between servers, and who hears what |
| `DataRelayProofs.tla` | its safety, and that decoding a datagram undoes encoding it, proved |
| `Whip.tla`, `MCWhip.tla`, `MCWhip.cfg` | WHIP and WHEP requests, their ETags and the transports' offers and candidates |
| `WhipProofs.tla` | its safety, proved |
| `PROJECT.json` | runs, mutants, the map from definitions to source lines, hazards, findings, theorems |

Run one with `tlc -config MCRelay.cfg MCRelay.tla`, prove one with
`tlapm SubscriberProofs.tla`.

## The system

A **Worker** owns **Routers**; a Router connects one browser's
**PublishTransport** to others' **SubscribeTransports**.  Almost everything is
a tokio task with an unbounded queue, or an `Arc<Mutex<..>>` that several tasks
lock; few operations wait for what they set in motion.

| Component | State | Operations | Talks to | What is hard | What makes it correct |
|---|---|---|---|---|---|
| Worker (`worker.rs`) | routers by id, the relay server | `new_router`, `close`, event loop | routers (queue), relay server | a router closing while it is looked up | a closed router is forgotten |
| Router (`router.rs`) | lists of publishers, data publishers and relayed ones | event loop, lookups, `close` | everything, by one queue | registrations and removals from two places; requests queued behind `Closed` | its lists follow the publishers; lookups end |
| Publisher (`publisher.rs`) | local tracks by ssrc, rid to ssrc, relay targets, input senders | poll loop, event loop, `relay_to`, `close` | router, subscribers, relay | tracks opening while it closes or is relayed | announced once, with a track, and taken off the list |
| LocalTrack (`local_track.rs`) | three tasks, last timestamp | RTP loop, PLI loop, RTCP writer | subscribers (broadcast) | a close before a task has subscribed | tasks end; timestamps become steps |
| PublishTransport, ReplayChannel (`publish_transport.rs`, `replay_channel.rs`) | history and channel of publishers, pending candidates | `on_track`, `publish`, `get_answer`, cleanup | router | calls sharing one receiver, locked across a wait | `publish` returns what was announced; cleanup ends |
| SubscribeTransport, Signaling (`subscribe_transport.rs`) | phase, attempt, generation, deferred flag; cached states | `subscribe`, `negotiate`, `set_answer`, timers, WHEP, `close` | application, client | calls, answers, timers and errors race for one state machine | every round ends, no added track is forgotten |
| Subscriber (`subscriber.rs`) | two locks, counters kept between loops, layers | RTP and RTCP loops, event loop, `set_preferred_layer`, `close` | local tracks, client | a signal sent while its addressee waits for a lock | the layer asked for last, no gap in sequence numbers, every loop ends |
| Relay (`relay/*`, `publisher.rs`) | per router: relayed publishers, one UDP server | TCP requests, UDP datagrams | another server | failure half-way, order of events, locks held across a request | both sides agree on who is relayed |
| Data channels (`data_publisher.rs`, `data_subscriber.rs`, `relay/relayed_data_publisher.rs`) | broadcast senders, targets | poll loop, `relay_to` | router, relay | the same, with locks held across TCP | as above |
| Relay datagrams (`relay/data.rs`), AV1 descriptor (`rtp/dependency_descriptor.rs`) | none | encode, decode | | lengths | decode is the inverse of encode |
| WHIP/WHEP (`signaling/*`) | ETag counters, sessions | HTTP requests | transports | a restart of the counter | an old ETag is refused |
| Recording (`recording/*`) | one forwarding loop per track | start, stop | publishers | as Subscriber | loops end |
| Client (`src/client/rheomesh/src`) | signaling lock, queue of candidates | `setOffer`, `publish`, ... | application | answers early, late or never | |
| Probes, configuration, errors, ports, examples, e2e | | | | none | |

## Negotiation

**Code.** Adding a track raises a negotiation-needed event; its handler spawns
`while handler.negotiate() {}`.  `negotiate` takes the callback lock, skips when
there is nothing to do, defers to a round in progress
(`renegotiation_required`) or acquires a new one, makes an offer, hands it to
the application and spawns a timer.  `set_answer` releases the round and
renegotiates if somebody deferred.  The timer retries, with a new generation, up
to `negotiation_max_attempts`, then gives up.

**Model.** `phase, attempt, renego, generation` are `Signaling`; `owner[g]` is
the task of generation `g`, first its `negotiate()` call and then its timer;
`guard` is the generation that holds the callback lock; `events`, `waiting` and
`releasing` count calls on their way.  `acquired[g]`
is the generation with which that task's round began.  The peer connection is
external and reduced to its signaling state, its local offer and the number of
tracks that offer covers (`asked`, for an offer of the client).  `Acquire`/`Defer`/`Skip` are the outcomes of one `negotiate`,
`SetLocal`/`Emit`/`NegotiateFails`/`RetryFails` its second half,
`TimeoutStale`/`TimeoutRetry`/`TimeoutGiveUp` the timer's, and
`DirectOffer` (data_subscribe, restart_ice), `RemoteOffer`/`LocalAnswer`
(get_answer), `UseWhep`, `StateCallbacks`, `Close` and `Drop` the rest.

**Checked.** `negotiation`: a round has a task that ends it (`RoundHasOwner`),
nobody defers to a round whose error path might drop or loop on the deferral
(`NoDeferralWhileCreating`), an added track is negotiated, deferred or in hand
(`NeedIsTracked`), a round is given up only by its own timers and after all its
attempts (`GivenUpInFull`), and every round ends, whatever the client does
(`RoundEnds`).  `negotiation_calm`: with a client that answers and nothing
failing, all of three tracks are negotiated (`AllNegotiated`), also around an
offer that `data_subscribe` makes outside Signaling.

Some steps of the code lose a renegotiation, and so do those of the model; each
records in `excused` how many tracks there were, and `NeedIsTracked` speaks again
as soon as there is another:

* `NegotiateFails`, `RetryFails`: an offer fails, of a `negotiate()` or of a
  timer;
* `TimeoutGiveUp`: the round is given up, with what was deferred to it;
* `SetAnswer`: an answer to an older offer releases a newer round (`release`
  compares no generation);
* `Skip`: a call finds the cached signaling state to be HaveRemoteOffer, which
  may be over by then, or the cached connection state to be Closed, and drops
  its need (`subscribe_transport.rs:664-675`).

Apart from that it says nothing of a transport that is closed, dropped or WHEP,
where the server makes no offers.  An answer to the client's own offer covers
the tracks that offer had a place for (`asked`), not those added meanwhile.

## Registry

**Code and model.** `routers`, `publishers`, `localTracks`, `inputs`,
`published` are the fields of the same names; `routerQueue`, `queue` and
`workerQueue` are the unbounded queues, in order, and `HandleX` is the arm of
the event loop for event `X`, everything it does included.  `Ask`,
`HandleGetPublisher` and `GetLocalTrack` are the three steps of
`find_local_track`: the request, the router's reply, the publisher's lock.  That
lock may wait for another server: `BeginRelay`, `HandleTrackAdded` and
`HandleClose` take the mutex of a publisher (`BeginRelay` that of a data publisher
too) for a request over TCP, `EndRelay` and `Leave` let it go, and no answer is
bound to come.  What is relayed is in modules Relay and DataRelay.
`publishers[r]`, a vector in the code, is a set of `<<n, p>>`, in the order of n;
a lookup finds the one with the least n.

**Checked.** `registry`: one router, a publisher with two encodings, a data
channel and a lookup, each closing when it likes.  Registry implements
`Directory` (`KeepsDirectory`); a publisher or data channel that closed is
listed no longer than until the router reads its removal (`NoGhosts`); a
publisher that can be found has a track (`ListedHasTrack`; all three proved as
well); a lookup ends, also at a router that closes, unless the publisher it found,
or the data publisher its router is about to list, waits for another server for
ever (`LookupsEnd`).  `registry_stop`: `Worker::close` "stops all routers" but a
router that runs when it is called never hears of it, and goes on
(`CloseStopsRouters`, violated).

**Refinement.** `Directory` has no queues and no tracks.  A publisher is new,
announced, listed or gone, and goes through these once; what is listed goes when
a publisher of its id has closed, what is announced only when its router stops;
a lookup is answered from the list, and finds a track unless the publisher has
closed.  The mapping reads the router's queue: a publisher is announced while its
announcement is queued, a lookup has asked while its request is.

A data channel that closes before `on_data_channel` announces it stays listed;
the model marks those (`endedEarly`, `overtaken`) and `NoGhosts` is about
the others.  Track ids are chosen by browsers; the run gives each publisher its
own.  Two that share one (a MediaStreamTrack published again over a new peer
connection) are both removed from the list when one of them closes, and Directory
says so (`Remove`); the proof is about ids that are shared as well.

## Relay

**Code and model.** `job[p]` is who holds the publisher's mutex, and the
request it waits for: `RelayTo`, `HandleTrackAdded` and `HandleClose` start
one, `Ask` ... `Finish` carry it out.  `RelayNothing` is a `relay_to` that finds no
track, as of a publisher that has closed: it succeeds and the target is
remembered.  `entries`, `served`, `rtp` are
`RelayServer.publishers` and its UDP servers, `listed` the router's relayed
publishers, `inbox` and `relayed` the RelayedPublisher's queue and tracks.
`ServeFirst`/`ServeTrack`/`ServeAnother`/`NoPublisher`/`RouterUnknown` are the
branches of `handle_track_message` for a track, `ServeRemoval` the one for a
removal.  `Refuse` is a connection to a server that is gone.

`ServeAnother` depends on the edition of the language.  The crate is edition
2021, in which the guard in `if let Some(..) = router_publisher.lock().await
.get(..)` lives to the end of the `else` branch, where the same mutex is locked
again.

**Checked.** `relay`: two publishers and two `relay_to` calls with closes,
failing UDP servers and a stopped relay server.  The router's list and the
relay server's agree (`OneView`), a sender loop has a receiver
(`ForwardedIsReceived`), a closed publisher leaves every router it was relayed to,
whether `relay_to` succeeded, failed half-way or came again later, but for one
whose UDP server found no port (`ClosedIsForgotten`; all three proved as well).  `relay_live`: requests are answered and a removed
RelayedPublisher lets its tracks go.  `relay_two` (violated): a second publisher
relayed to the same router gets no answer, and nobody does afterwards.

`senders` counts the sender loops of a track until the track is closed; in the
code they end when the last packet in the broadcast has been read.  Two loops to
one target, after a `relay_to` and the `TrackAdded` of the same track, are counted
and not forbidden.  A connection fails only when the server is gone.

Not checked but worth knowing: when `relay_to` has its port, the target may
have no track to subscribe to yet, because the RelayedPublisher handles
`TrackAdded` in a loop of its own (`relay/relayed_publisher.rs:171`).

`relay_live` has one publisher, so that `relay_two`'s deadlock cannot occur in
it: it says what holds until a second publisher comes.

## Subscriber

**Code.** A Subscriber starts an RTP loop and an RTCP loop, and another pair at
each change of encoding.  Each loop first waits for its lock, then subscribes to
`replaced`; `change_rid` spawns the new pair and sends `replaced`, `close` sends
`closed` and `replaced`.  An RTP loop also ends with its track, when the
publisher's RTCP writer is gone, or with the transport.

**Model.** `rtp[k]` and `poll[k]` are the loops of pair `k`, `waiting` for the
lock and then `active`; `rtpTold`, `pollTold` those with an unread `replaced`.
`track[r]` and `writer` are the LocalTracks and the RTCP writer of the first
one; `ChannelOpen` says whether somebody still holds a sender of a track's
packets, loops that wait included.

**Checked.** `subscriber`: a loop that was not told to end forwards the encoding
asked for last and belongs to an open Subscriber (`LatestLayer`, proved as
well); a loop that was switched to gets its turn (`SwitchHappens`); closing the
transport or the Subscriber (`CloseEndsLoops`) or the publisher
(`PublisherEndsSubscriber`) ends the loops.

What the event loop waits for when the preferred layer is set (the Subscriber, the
router and the publisher, `subscriber.rs:543-548`) is taken to come.

Three weaknesses of the code are in the model and excluded by name:

* `hurried`: a second request that finds a loop still waiting for its lock.  The
  `replaced` it sends goes to the loop that was told already.  After two quick
  switches the loop in the middle forwards the wrong encoding until the
  transport closes; after a quick `close` the waiting loop goes on forwarding.
  The same flag covers a switch after `close`, and a `close` before the event
  loop has subscribed.
* `writer = "stuck"`: the RTCP writer missed the close of its LocalTrack, and
  the subscriber does not notice that its publisher is gone.
* A SubscribeTransport that is dropped without `close` or a Failed connection
  sends no closed signal at all; `CloseTransport` is the signal.

## LayerFilter

**Code and model.** `Step` is the timestamp arithmetic of
`LocalTrack::rtp_event_loop`; `DropPacket`, `ForwardPacket` and
`ForwardNothing` are the outcomes for one packet in `Subscriber::rtp_event_loop`
with its one packet of delay (`pending`); `Begin` and `End` hand the counters
from loop to loop (`stored`, `storedTime`).  Sequence numbers and timestamps
wrap at `Numbers` and `Clock` instead of 2^16 and 2^32.  Sums wrap as in a
release build; in a debug build `current_timestamp += ..` (`subscriber.rs:387`)
panics instead.  A frame is one packet for each spatial layer.  Loss between
the two loops (a broadcast receiver that lags) is left out.

**Checked.** `layer_filter`: LayerFilter implements `Forwarding` (`Forwards`,
proved as well); the client's clock advances as the source's while nothing is
filtered and the source's clock does not wrap (`TimestampsFollow`, proved as
well).  With filtering it does not: a frame that is dropped takes its step along, so the
client's clock falls behind with each one, for good.

**Refinement.** `Forwarding` has two variables, the last packet written and
whether forwarding has begun anew, and two actions: `Write`, which numbers the
packet one more than the last and begins another frame only after a marker, and
`BeginAnew`.  The mapping takes `out` for itself and `fresh` for a loop that
has written nothing; the packet that is kept back, the counters, the layers
and the hand-over from loop to loop are behind it.

## PublishWait

**Code and model.** `Push` and `Send` are the halves of `ReplayChannel::send`;
`Publish` copies the history and `Search` locks its publishers in turn;
`LockReceiver`, `Receive`, `LookAt` and `ReceiveNothing` are the wait, whose guard
spans `recv` and the comparison, with the publisher's lock; `Look`,
`ClosePublisher`, `Clear`, `Drain` are `cleanup`, run by `close()` and by a Closed
or Failed connection.  `Relay` and `Answer` are what else takes a publisher's mutex
for long: `relay_to` and the publisher's event loop, with a request to another
server that may never be answered (`held`).

**Checked.** `publish_wait`: an announced publisher is found or told to close
(`FoundOrClosed`, proved as well), and a call returns its publisher unless it is
at a mutex that is held (`PublishReturns`).  A cleanup ends unless one of the two
things it waits for is never let go, the mutex of a publisher or the receiver;
after one that ended no call is left but at such a mutex, and no `on_track` is
blocked (`CleanupEnds`).

Excluded by name: two calls that wait at once (`crowded`) may take, and drop,
each other's publisher; a publisher pushed between a cleanup's look and its
clear (`late`) is neither closed nor found; a `publish` that waits for something
that never comes, or a server that never answers, blocks `close()` for ever
(`~ReceiverFree` and `CleanerIsHeld` in `CleanupEnds`).

## DataRelay

**Code.** A DataPublisher on one server is relayed to a router of another:
`relay_to` sends a request over TCP and, with the port it gets, starts a loop
that sends every message as a UDP datagram.  The target enters the data
publisher, lists it in the router, and starts one UDP server for the router,
whose datagrams go to the RelayedDataPublisher of the id they carry.
`data_subscribe` asks the router for a published one, then for a relayed one.

**Model.** Both ends and both servers.  `job[d]` is the `relay_to` that holds
`d`'s mutex and waits for a reply, `loops[d][s]` the sender loops it started;
`queue`, `listed` and `relayed` are the routers', `locked[s]` says that the
router's loop holds the router and waits for a DataPublisher
(`router.rs:164`); `entries`, `udp`, `serving` are the relay server's, the last
one the request it holds the worker's mutex for.  `sub[q]` is a call of
`data_subscribe` and then its DataSubscriber.  `Relay` composes the sender's
loop, the datagram (`MarshalMessage`, `Received`, `UnmarshalMessage` of
Datagrams) and the UDP server in one step: a datagram that is lost is no step,
and one that does not decode ends the server (`UdpFails`).

**Checked.** `data_relay`: a sender loop has its receiver
(`SenderHasReceiver`); whoever asks for a relayed data publisher after
`relay_to` has returned finds it (`EstablishedIsFound`); what is heard was said
by the data publisher that was asked for, if cut then cut at the end
(`HeardIsSaid`; all three proved as well); calls return (`CallsReturn`) and
DataSubscribers end (`SubscribersEnd`).

Excluded by name:

* `Crossed`: two servers relay to each other while each router handles the
  announcement of what the other waits for.  Each relay server then waits for
  its router, each router's loop for a data publisher, and each data publisher
  for the other server's reply: nobody goes on.  TLC reaches it in 11 steps.
* `early`: a channel that closes before it is announced stays listed, and its
  subscribers do not end.
* A DataSubscriber on a relayed data publisher does not hear that the channel
  has closed: no code sends the request with `closed = true` that the relay
  server understands, so that what is relayed stays until the process ends.
* `panicked`: a call whose router closes before it answers panics (it unwraps the
  reply).  The task ends with it, which the properties count as a return.

## Datagrams

`MarshalMessage` / `UnmarshalMessage` and `MarshalPacket` / `UnmarshalPacket`
are `relay/data.rs` on sequences of bytes, with the layer of `rtp/layer.rs`.
The length of an id is one byte (`% 256`), and a receiver reads `Buffer` bytes
of a datagram.  No run of its own: it is exercised by `data_relay`, and what
matters is proved for all lengths in DataRelayProofs.

## Whip

**Code.** An HTTP request for a session id is a task: it asks the application's
provider for the transport, then sets an offer and answers it (POST; PATCH with
`If-Match: *`), adds candidates (PATCH with an ETag), or closes it (DELETE).
An ETag is the value of the session's counter, which POST and restart increment
last and DELETE removes first.

**Model.** `req[r]` is a request and its step, `transport[t]` a transport's
remote description, signaling state and pending candidates with their lock,
`counter` the store's entry, `given` every ETag a client was told.  WHIP goes to
a PublishTransport, whose `get_answer` flushes the pending candidates with
their lock held to the end (`Lock` ... `SetLocal`); WHEP to a
SubscribeTransport, which never flushes them there.  A session may get a
second transport.

**Checked.** `whip`: a candidate reaches the description its ETag was given for
(`CandidateIsMeant`), a deleted session has no valid ETag (`DeletedHasNoETag`),
and a candidate that came before the offer is not forgotten, in WHIP
(`NoneIsForgotten`; all three proved as well).  Excluded by name: another offer set meanwhile
(`crossed`), a description whose own ETag is not given yet or was removed by a
DELETE (`unsure`), a DELETE that meets an offer (`met`), and a session whose
transport was replaced (`on`).  In each of those a candidate, or an ETag, may be
taken for another's; the code compares nothing but the number.

Three facts met on the way, which are texts and not in the model:
`parse_media_blocks` returns a block only at `a=end-of-candidates`, and only
after `a=mid:`, while the client writes `a=mid=`
(`src/client/rheomesh/src/publishTransport.ts:276`), so that a client's
trickled candidates are answered with 204 and not added; `get_current_ice` reads
session-level attributes only; and pending candidates are never cleared.

## Bounds

| Run | Bounds | Why they are enough |
|---|---|---|
| `negotiation` | 2 attempts, 4 generations, 2 tracks | a retry, a give-up, and a round after it with timers of the old ones alive; one deferral |
| `negotiation_calm` | 3 tracks, 5 generations, 1 direct offer | two tracks that defer to the round of the first, and an offer outside Signaling |
| `registry` | 1 router, 1 publisher with 2 encodings, 1 data channel, 1 lookup; `Few`: encodings open in turn and again only when nothing is queued, one `relay_to` at a time and one target, one `Close` queued | all races are between one publisher, its router, a reader and a server that may not answer; `Few` only stops the application and the browser, of whom nothing is assumed, from repeating themselves |
| `registry_stop` | 1 router, 1 publisher | `close` after the router was made |
| `relay` | 2 publishers, 1 router, 1 ssrc, 2 `relay_to` | two publishers on one entry; relaying twice to one target |
| `relay_live` | 1 publisher, 2 ssrcs, 1 `relay_to` | simulcast against one target |
| `subscriber` | 2 encodings, 2 pairs of loops | a switch, and a second request at each moment of it; more switches are covered by the proof |
| `layer_filter` | 2 by 2 layers, numbers mod 3, clock mod 4 | wraps of both, drops at the start, middle and end of a frame; loops unbounded |
| `publish_wait` | 2 publishers, 2 calls, 1 cleanup, 1 request to another server, room for 1 | a full channel, a stolen publisher, a mutex that is never let go under a call and under the cleanup; more cleanups are covered by the proof |
| `data_relay` | 2 servers, `d1` and `d2` on the first and `d3` on the second, 1 subscriber of `d1` on either, 2 `relay_to`, 1 fault; only `d1` goes and only `s2` fails; 5 bytes of buffer; `Few`: after `d1` comes either `d3`, before `d1` has been relayed, or `d2`, once `d1` is heard on `s2` | two data publishers whose requests cross (`d1`, `d3`); two entries on one router, ids of which one is the other and the next byte (`d1`, `d2`); a message that fits, one that is cut |
| `whip` | 4 requests, 2 at a time, 2 transports | an offer, a restart, a candidate and a DELETE, each pair interleaved at every await, against a session that is replaced |

`MaxRounds`, `MaxTracks`, `MaxDirect`, `MaxCalls`, `MaxLoops`, `MaxActive` and
`MaxTransports`, and `Few` in two MC modules, only stop the environment from asking for more; `MaxFaults`,
`Passing` and `Frail` say how much may fail and where.  Publishers of `relay`
and requests of `whip` are symmetric; no run with a liveness property uses
symmetry.  Deadlock checking is off where all
requests may have been used up.

## Fairness

Weak fairness of the steps of tasks that have been spawned: tokio runs a task
that is ready.  Strong fairness where a step competes for a resource that is
given away in order: `Emit` (the callback lock), `Serve`, in DataRelay
`RelayGoesOn` and `SubscriberGoesOn`, and in Registry `RouterHandles` and
`GetLocalTrack` (connections that are accepted one by one, mutexes that queue).  Assumed of the outside: ICE gathering completes (so
that an offer is emitted), and a client sends RTCP while its connection is up
(`RtcpArrives`).  Nothing is assumed of applications, of clients' answers
(except in `CalmSpec`), of publishers, of networks, or of the servers that
Registry's and PublishWait's publishers are relayed to.  Whip and LayerFilter have
safety properties only.

## What is proved

`NegotiationProofs`, for every number of attempts, generations, tracks and
direct offers.  The inductive invariant `IInv` adds to the properties that the
generation of a running round leaves room for its remaining attempts and counts
them since the round was acquired (`RoundFits`), that generations are used in order (`OwnersInOrder`: a new round
never finds an old owner), and that the call that holds the callback lock is
still making its offer (`GuardIsCreating`).  `StepInv` preserves it action by
action.  `NothingForgotten` is proved on top of it with `OffersAreReal` (no
offer covers a track that was not added).

* `TypeCorrect`, `OwnedRounds`, `NoLoopOnFailure`, `NothingForgotten`,
  `FullAttempts`: the five properties of the run `negotiation`.

`SubscriberProofs`, for every set of encodings and any number of switches.
`LoopsOK` is inductive as it stands, with the clause that pairs are started
together; `LatestLayer` needs `NextIsLatest`: a loop that waits is, unless
`hurried`, for the target and for a Subscriber that is open.

* `TypeCorrect`, `LatestIsForwarded`.

`LayerFilterProofs`, for every number of layers and every width of numbers and
clocks.  `IInv` adds to the types that what was numbered is what was written
and, behind it, what is kept back (`Numbered`), that the rest of a frame without
its marker is still to come (`FrameGoesOn`), and that a frame this loop has
begun is not left without one (`FrameIsKept`): without the last two a dropped
packet could take the marker along.

* `TypeCorrect`; `ForwardsAlways`, the refinement: initial states map to initial
  states, every action to `Write`, `BeginAnew` or a stutter.
* `TimestampsAlwaysFollow`.  Its invariant, `Synced`, says that while nothing was
  filtered the packet kept back is the track's last, and as far from the packet
  written before it on the client's clock as on the source's; `Distance` is the
  arithmetic where the client's clock has wrapped in between.

`DataRelayProofs`, first the datagrams, for every length.  The library says what
concatenation and SubSeq do to single elements; the lemmas put that together into
where each part of a datagram lies (`MessageBytes`, `PacketBytes`).

* `MessageRoundTrip`, `PacketRoundTrip`: decode undoes encode, if the id has at
  most 255 bytes and the datagram fits the buffer.
* `MessageCut`: a longer message, if it decodes at all, is of the same id, and its
  data is the beginning of what was sent.

Then the relay, for any servers, data publishers, subscribers, calls and
faults.  `RInv` follows a relay from its request to its loop: no port is known
before the answer (`Requests`), a port is only answered where everything is in
place (`PortIsThere`), a server that works on a request has its sender waiting
(`ServesItsRequest`), and what has an entry is in the router's list
(`EntriesAreRelayed`).  `CInv` follows a call of `data_subscribe`: what a router
was asked is of a call that has begun at that router (`QInv`), and a call that
came after the relay finds its data publisher in the list (`Listed`).

* `SendersHaveReceivers`, `EstablishedRelaysAreFound`.
* `WhatIsHeardWasSaid`, by the theorems about datagrams, and ids that differ.
* `TypeCorrect`, from `TInv`: each sender loop is the work of one call of
  `relay_to`, counting the one whose reply is awaited (`Bounded`), and a router
  that keeps its mutex is at a data publisher's announcement (`AtPublished`).

`PublishWaitProofs`, for any publishers, calls, cleanups and capacity.  `IInv`
adds to the types what is in the channel and how much (`QueueOK`, `ChannelOK`),
that one call has the receiver (`OneReceiver`), what a call is at (`InHand`), and what a cleanup has still to
close of the history (`SeesAll`): all of it but for what came late, so
that nothing is cleared that was not told to close.

* `TypeCorrect`, `AnnouncedIsFoundOrClosed`.

`RelayProofs`, for any publishers, routers, tracks and calls of `relay_to`.  `RInv`
keeps apart the publisher's side (`AtSource`: a publisher that is over relays
nothing and has no sender loop), the target's (`AtTarget`: entries, lists and UDP
servers) and what each may expect of the other (`Between`): a port is only
answered where packets can be received (`PortIsThere`), a RelayedPublisher at an
open router is closed by its own publisher only (`ClosedByAReason`), and a router
that has the publisher is one it will still tell: it knows the router, or the
removal is to be asked or on its way, and a request that failed left nothing there
(`RemovalsGo`).  A step of the
publisher leaves the target alone (`SourceStep`); a step of the target keeps what
`TargetKeeps` says, with or without a reply (`ReplyStep`, `TargetStep`).

* `TypeCorrect`, `RouterAndServerAgree`, `SendersHaveReceivers`,
  `ClosedPublishersGo`.

`RegistryProofs`, for any routers, publishers, data channels, lookups and
encodings.  `RouterSide` is about the order of events in a router's queue: a
publisher is announced once, and is in the queue or the list but not in both
(`AnnouncedOnce`); the removal of what closed is behind its announcement
(`GhostsGo`); a removal names the id of a publisher that has closed
(`RemovedAreDone`), which is why the list misses nobody that lives when ids differ
(`LiveAreListed`).  `SendInv` and `HandledInv` say what an event at the end of the
queue, or one less at its head, does to all four; each action is one or the other.
`TracksOK` and `FoundArePublished` add that an announced publisher has a track.

* `TypeCorrect`, `NoGhostsRemain`, `ListedPublishersHaveTracks`.
* `DirectoryKept`, the refinement.  It adds that the requests in a queue are those
  of the lookups that wait for that router, one each (`RequestsOK`), and that
  who has closed has no track (`TracksGone`).  `View` says what Directory sees of
  a queue; `SentView` and `HandledView` when that stays the same, so that all
  steps but eight are stutters.
* `LivePublishersAreListed`, from the assumption that no two publishers of a
  router share a track id: the list misses nobody that lives.  Without it the
  code does lose one.

`WhipProofs`, for any requests and transports of a session.  `IInv` says what a
request of each kind may have come to (`Stages`), who has the pending candidates
locked and what waits among them (`Kept`), and on top of it:

* an offer that no other crossed is still the remote description (`Uncrossed`);
  an ETag was given for a request that is done, and while it is the last one
  given nobody who is done has set another offer (`Given`); so a candidate that
  comes with it finds the description it is meant for, and does not wait
  (`Meant`).  From these, `CandidatesAreMeant`.
* a candidate that waits at a PublishTransport is among the pending ones, and
  whoever has set an offer there has not locked them yet (`Waits`): the lock, kept
  until the answer is set, lets nobody slip in between.  From this,
  `NoneAreForgotten`.
* a DELETE meets every POST and restart under way, one that comes after it
  finds the transport closed or another, and only one that was met can have
  counted up again (`Deletes`).  From this, `DeletedHaveNoETag`.

`Counts` bounds the counter by the requests that are done, which is a fact about
cardinalities and needs finitely many requests; with it, `TypeCorrect`.
`OneMoves` and `AtTransport` say once what the step of one request cannot
disturb; each action then has only its own request to answer for.

But for `LivePublishersAreListed`, the theorems rest on the named assumptions of the constants
only, which TLC evaluates in the runs.

Only model-checked: every liveness property (fairness and ENABLED are beyond the
prover).  The safety properties of the passing runs are all proved.  None of the
modules has a RECURSIVE operator, so all of them can be proved about.

## What is not modelled

SDP texts, codecs and extensions, the SDP fragments of WHIP; RTCP contents and
the PLI timer; ICE candidates of a SubscribeTransport outside WHEP; recording;
the prober; the dependency descriptor, a bit-level parser behind a third-party
one; the request of the relay with `closed = true` for data, which no code
sends; requests that arrive in segments; configuration, errors and ports, which
keep no state.  PROJECT.json lists them with their reasons.

Subscriber and LayerFilter are not composed: LayerFilter takes the lock's
guarantee (one loop at a time, proved in SubscriberProofs) as its `active`.
Registry and DataRelay both have the router's loop: Registry closes publishers
in every order around it, DataRelay adds the mutexes it holds meanwhile.

## Plan

Done, in this order: Negotiation with its proofs, Registry, Relay, LayerFilter
and Subscriber with proofs of the latter, PublishWait; Datagrams with proofs,
DataRelay on top of it with proofs, Whip, Forwarding and the proof that
LayerFilter implements it, the proofs of PublishWait, Relay and Registry, those of
Whip, and the rest of the safety of LayerFilter and DataRelay; Directory, and the
proof that Registry implements it.

1. Prove more.  An abstraction of Relay and DataRelay in the way of Directory (who is
   relayed where, without requests and datagrams), and that they implement it.
2. Extend the model.  Recording, whose loop is a Subscriber's without its switches.
