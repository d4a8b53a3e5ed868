# minimosq in TLA+

Models of the minimosq MQTT 3.1.1 broker and its transports (`include/minimosq`),
the TLC runs that check them on small instances and the theorems TLAPS proves
about them for every size. `PROJECT.json` maps every definition to the lines it
stands for.

## The system

minimosq is a header-only, single-threaded broker without dynamic allocation. A
transport owns sockets and drives `Broker` through five entry points:
`conn_open`, `conn_data`, `conn_closed`, `tick` and (for the application)
`publish`. The broker calls back `send` and `close`. Everything has a fixed size:
connections, the session pool, each session's queue and tables, the retained
store, the transport's output ring per connection.

There are no threads, and yet the code is not atomic where it matters:

* dropping a connection only flags it `dead`; `flush_dead()` tears it down at the
  end of the call, which publishes its will, which may flag others;
* a CONNECT that takes over a session runs that teardown in its own middle;
* bursts (reconnect, retained replay, queue flush) stop when the ring is full and
  go on from a later `tick()`, after other packets have been handled;
* sessions outlive connections, so every flow can be cut between any two packets;
* a transport's pass works off the events of one `poll()` while the broker, from
  inside the callbacks, sends on and closes other connections of the same pass.

### Parts and modules

| Part | State | Hard behaviour | Module |
|---|---|---|---|
| Connections and sessions (`broker.hpp`, `session.hpp`) | `conns_`, `sessions_`, `disconnect_order_`, `auto_id_counter_` | takeover inside CONNECT, cascades of wills, eviction, wrapping tickets | `Lifecycle` |
| Outbound QoS 1/2 | `pending`, `last_packet_id` | lost connections, refused sends, id wrap, late acknowledgements | `Delivery` |
| Inbound QoS 2 | `inbound_qos2` | retransmission across connections, a full table | `InboundQos2` |
| Routing from one to the other | both | each side loses connections in its own time | `EndToEnd` |
| Retained messages (`retained.hpp`) | the store, `retain_pending`, `retain_cursor` | a replay that pauses while store and subscriptions change | `Retained` |
| Timers | `deadline_ms`, `disconnect_ms`, `now_ms_` | a clock that wraps, stamps that are old | `Timers` |
| Topics (`topic.hpp`) | none | empty levels, `#` on the parent level, `$` topics | `TopicLevels`, `TopicMatches`, `TopicCovers` |
| Table ACL (`table_acl.hpp`) | users, rules | a grant is used long after it was made | `TableAcl` |
| Transport contract (`transport.hpp`) | – | what a transport owes the broker | `Transport` |
| Output ring (`common.hpp`) | array, head, length | wrap, short writes | `OutRing` |
| Stream server (`stream_server.hpp`) | slots, rings, backoff, the polled set | stale events, slots reused in a pass, closes from three sides | `StreamServer` |
| Pipe transport (`pipe.hpp`) | two descriptors, a ring | who owns a descriptor, reopening | `Pipe` |
| TLS adapter (`tls_adapter.hpp`) | engines | records refused after they were made, engines that hold or fail | `TlsAdapter` |
| Frame parser (`frame.hpp`) | state, length, body | any chunking, overlong lengths | `Frame` |

How they meet: a transport (`StreamServer`, `Pipe`, `TlsAdapter` over either)
calls the broker (`Lifecycle` for connections and sessions, `Timers` for its
clock); the bytes of a connection go through `Frame`; a PUBLISH is checked
(`TableAcl`), entered (`InboundQos2`), kept (`Retained`) and routed by topic
(`TopicMatches`) into the queues of subscribers (`Delivery`), whose packets go
out through `send` and the `OutRing`.

## Modules

**Lifecycle.** One record per connection index and per pool slot, as `Conn` and
`Session` have them. `pc` is the place in the running call: a call's steps are
separate because `teardown` is (each may flag others), and other calls can start
only at `"idle"`. `Feeding` actions are the packets of one `conn_data` chunk.
What other components decide is chosen: `R` is the set of connections that
refuse a packet, `T` and `E` those whose time is up, `r` what the CONNECT says.
`auto` and `ticket` keep their wrap (`AutoRange`, `OrderRange` stand for 2^16
and 2^32). `fired`, `discarded`, `armed` and `age` are history. The record of a
session is cleared of `order` while it is connected, where the code never reads
it. A freed slot is `Free`.

**Delivery.** One persistent session, its queue and the packets under way in
both directions. `pump_session` and `resume_session` take a step per entry, so
the peer may read in between (`send` writes a full ring out before it refuses).
Packets have sizes: a PUBLISH may take more of the ring than anything else. The
client is a conforming one and external.

**InboundQos2.** One publishing client with up to `window` flows open and a
table of `capacity` ids, which evicts its oldest. `forgotten` records whose ids
were evicted.

**EndToEnd.** `InboundQos2` and an instance of `Delivery`, joined in
`handle_publish`: a message that is new to the table is enqueued for the
subscriber in the same step. The broker is one thread, so a packet of the
publisher is handled only when no send loop is running. `copyOf` remembers which
message each entry of the subscriber's queue is a copy of.

**Retained.** The store slot by slot, because the replay cursor counts used
slots in pool order, and one subscriber whose ring holds `RingSize` packets. A
filter is the set of the topics it matches. `owed` is what granted filters have
still to be sent.

**Timers.** One connection and one session on a counter of `Range` values.
`since`, `gone` and `sinceTick` are the true ages the counter only knows modulo
`Range`. The traits are chosen at the start among `Durations`. The
`static_assert`s keep them below half the range; the assumption is narrower by the
time between two ticks, because a deadline that runs out just before half the
range and is looked at after it compares as still ahead. A trait of 2^31-1 itself
builds, and is outside the model. A clock unit is half a second, so that one and a
half keep-alives are a number. `gone` counts from the call of `conn_closed`: how
long before that the peer had gone (the late notice of
`test_broker_lifecycle.cpp:194`) is the transport's, and not in the model.

**TopicLevels, TopicMatches, TopicCovers.** A topic is the sequence of its
levels; the two loops are stepped through level by level. `Matches` is the
definition of the MQTT standard, not the code.

**TableAcl.** `add_user`, `allow_anonymous`, `add_rule`, then a client:
`authenticate` and one question to `allowed()`, which walks the rules and runs
one of the two topic loops, composed here by INSTANCE on shared variables.

**Transport.** The abstract specification: a packet that `send` took joins the
queue of its connection whole; bytes leave from the front of the queue; closing
a connection drops what is left. Nothing else may reach a peer.

**OutRing.** The operations of the ring on an array, as operators. A cell outside
the window holds `Junk`, so that a byte read from the wrong place shows.

**StreamServer.** A step per system call and per call into the broker. `todo`
is what the pass polled and found ready, worked off in order while the peers and
the broker change everything else. While `pc = "broker"` the broker may send on
and close any connection it has.

**Pipe.** The pair of descriptors with `owner`, because a number that `open()`
closes may be someone else's a moment later; `stray` records a close of a
descriptor that is not the transport's. The application may call `open()` between
any two passes, also over a pair that is served. `open()` does not know the broker,
so the broker then has a connection 0 without its pair: `orphan` records that, and
`client` whom the connection was opened for. Until the next pass `publish()` and
`close()` work on the new pair (`Send`, `Close`); that pass is refused by
`conn_open` and closes it (`PassRefused`); from then on `send` is refused
(`SendNowhere`) until the broker gives the connection up.

**TlsAdapter.** Broker above, raw transport below, both by what they may call and
answer. Records have numbers: `records` is what the peer was written. With
`Paces` the broker goes on after a refused send, as it does in bursts.

**Frame.** `feed()` a byte at a time over streams cut anywhere, next to `Decode`,
the definition of what a whole stream contains. Digits of a length are in base
`Base` instead of 128.

MC modules hold what only TLC needs. `MCEdges` and `MCDelivery` put independent
instances into one state space: a variable picks the one that moves, so that
their states add up rather than multiply. The operators marked *Mutant* are
plausible mistakes in the definition below them; each one breaks the property it
is listed with in `PROJECT.json`.

## Runs

| Run | Checks | Instance | Outcome |
|---|---|---|---|
| `LifecycleWide` | links, unique ids, one fate per will, the transport's view, nothing flagged left behind, nobody refused, every call returns | 2 connections, 2 slots, 1 named client and generated ids, 2 wills | holds |
| `LifecycleNarrow` | who may lose a session, eviction order | 3 connections, 2 slots, 2 clients, 4 tickets | holds |
| `DeliverySafety` | ids, order of the queue, loss, QoS 2, DUP | 4 messages, queue 3, ids 1–4, ring of one PUBLISH and a bit, 1 lost connection | holds |
| `DeliveryWide` | order at the client, draining | a ring wider than the queue and 2 lost connections, or a narrow ring and none | holds |
| `DeliveryStrands` | draining | narrow ring, 1 lost connection | **violated** |
| `EndToEnd` | the table of ids, exactly once on the first hop and over both, everything arrives | publisher alone: window 1–3, table 2, 4 messages, 3 losses; with a subscriber of QoS 1 or 2: table 1–2, 2 messages, 1 loss each | holds |
| `Retained` | last value, replayed once, replay resumes | 3 topics for 2 slots, 2 overlapping filters, ring 2, 2 SUBSCRIBEs, 1 loss | holds |
| `RetainedCancels` | replay completes | two SUBSCRIBEs, ring 1 | **violated** |
| `TableAcl` | users and rules decide, grants hold at delivery, no needless refusal | one rule on any of the patterns of 3 levels, asked of every name and filter; tables of two rules or two users | holds |
| `StreamServer` | agreement with the broker, the contract, flushing, the tick, accepting | 2 slots, 2 peers, 2 packets in all of up to a ring of 2 | holds |
| `Edges` | pipe: descriptors, agreement, contract, flushing; TLS: agreement, contract, held records; frames; timers | 2 peers and 2 descriptors; 2 connections, 3 records; streams of 6 bytes; a clock of 12 values, 2 between ticks | holds |
| `TlsGap` | the record stream has no gap | 1 connection, 3 records, a broker that paces | **violated** |

### Bounds

`MaxWills`, `MaxPackets`, `MaxTotal`, `MaxMessages`, `MaxLosses`, `MaxRouted`,
`MaxParted`, `MaxVersions`, `MaxSubscribes`, `MaxRecords`, `MaxStream`,
`FewPatterns` and `FewSubjects` bound behaviours; all other constants are sizes
the code has too.
Two connections are enough for a takeover whose will drops the connection that
takes over; three make the pool smaller than the connections. A will that drops a
third party's connection, whose will drops a further one, takes three connections
with wills, which no run has: for such cascades `Linked`, `UniqueIds`,
`SlotAgreement`, `IdleClean`, `WillOnce`, `LiveSessionsKept` and
`GivenUpForReason` rest on the theorems of `LifecycleProofs`.
Four tickets and three generated ids wrap within a few steps. With four messages,
a queue of three and four ids the queue overflows, ids wrap and one is reused. A
ring of 3 with a PUBLISH of 2 takes a PUBLISH and a PUBREL, refusing each next to
the other. That is in `DeliverySafety`; in the runs of `Drains` no PUBREL is
refused. A ring that refuses one is too narrow for the burst of the reconnect that
follows: the packets that filled it are due again, with a CONNACK before them, and
a PUBLISH refused there is stranded (finding 1). For the same reason `InOrder` is
checked where the ring holds the burst. A window above the table evicts, with and without a subscriber. Three
topics overfill a store of two, and a ring of two holds less than a SUBACK and
their replay. One level more of names than of filters makes `#` match below. A
packet as wide as the ring fills it in one go, one of half its width wraps, and a
short write leaves the head in the middle. One descriptor may be both ends of a
pipe, so that two are enough to replace a pair that is served. Two peers on two slots let one be
closed while the event of the other, or of a slot just filled, is still to be
worked off. Streams of 6 bytes hold a length of four bytes and one too many. The
clock wraps several times over; the longest window is the longest the assumption
admits. The theorems have no such bounds.

### Fairness

* *A call goes on* (`WF` on the broker's steps): plain code. Where a call cannot
  block in the model at all, it is stated as a recurrence of states: the pipe
  transport and the TLS adapter are idle again and again, and poll, or tick,
  again and again; the stream server's loop moves again and again.
* *`tick()` and arrived packets are both served* (`SF` in `Delivery`,
  `EndToEnd` and `Retained`): `poll_once` calls `tick` in every pass and reads
  every readable connection. Strong, because sends in between disable them for a
  moment. In `EndToEnd` nothing is assumed of `tick`.
* *`poll()` and `accept()` are not interrupted or out of descriptors for ever*
  (`SF`), and the backoff ends: assumed of the system.
* *The client reads, answers and comes back* (`WF`): assumed of a live peer; the
  promise of delivery is to such a client. It says nothing about when
  connections are lost; `MaxLosses` makes their number finite.

`EndToEnd`, `Edges` and `TlsGap` do not check deadlock: clients that have sent
everything, an application that opens no more pairs and a stream that is at its
end leave nothing to do.

### What the violations show

1. **A reconnect wider than the ring strands messages** (`DeliveryStrands`).
   `resume_session()` returns when the ring refuses the retransmission of a
   message in flight (`broker.hpp:878`). A refused PUBREL is flagged for
   `pump_session()`, a refused PUBLISH is not: it stays unsent until the client
   reconnects again, and the queued messages behind it go first (`InOrder` fails
   in the same instance). `transport.hpp:16` and `docs/design.md:92` promise a
   resumption on a later pass, in original order.
2. **A second SUBSCRIBE cancels a paused replay** (`RetainedCancels`).
   `broker.hpp:1277` clears the flags the paused replay lives on. `ReplayResumes`
   is what is left of the promise.
3. **A paced burst over TLS leaves a gap** (`TlsGap`). `send()` of the adapter
   answers false when the raw transport refuses a record the engine has already
   made (`tls_adapter.hpp:226`). A broker that paces itself sends the packet again
   later, as a further record, and the peer is written records with one missing,
   which `tls_adapter.hpp:240` calls worse than a dropped packet. Without pacing
   (`Edges`) the connection ends at the refusal, and the contract holds.

Smaller things met on the way:

* `retain_cursor` stays non-zero when an UNSUBSCRIBE removes the subscription
  whose replay is paused, contrary to `session.hpp:83`; harmless, because a
  SUBSCRIBE with grants resets it.
* `topic_filter_covers` answers no for the cover `+/#` and the filter `#`, though
  both match the same names (`CoversComplete` has the exact exception); it errs on
  the refusing side.
* `conn_closed` has no time of its own, and a session's expiry runs from the last
  time the broker was given (`NeverEarly` has the exact allowance).
* The backoff of `accept()` is a signed difference that only the next accept
  disarms (`stream_server.hpp:137`): when nobody connects for 24.8 days after a
  failure, the listener is left out of the polled set for the other half of the
  clock's range.
* A pipe that is opened again over a pair that is served, as `pipe.hpp:67` allows,
  leaves the contract. `docs/transports.md:38` has `conn_closed` report a teardown
  the broker did not ask for, and `open()` reports nothing; the broker keeps
  connection 0, and what it sends before the next pass is queued for the new pair
  and is written to it when the ring fills or the broker closes. The pass then
  closes the new pair, because `conn_open` answers `Err::state`. `PipeImplements`
  has this as its one exception (`Misdirected`), and shows that it ends there: the
  new pair is never served, and a pair that is served is never written anything
  but its own. The example opens a new pair only after `run()` has returned.

## Refinement

`StreamServer`, `Pipe` and `TlsAdapter` each instantiate `Transport` with a
mapping of their state (what a ring or an engine holds is `queued`; a slot's
descriptor gives `phase`) and are checked to implement `Transport!Spec`. In the
first two the mapping goes through `Contents` of the ring, so that head and wrap
are part of what is checked. For the stream server, `StreamServerProofs` proves
the refinement for any sizes. `Transport!Flushed` is checked of the first two as
well, under their fairness. `Pipe` implements the steps of `Transport` but for
those on a connection whose pair `open()` replaced, for which `Misdirected` says
what may happen instead; the other two have no exception.

## Proofs

* `LifecycleProofs`: `LifecycleInvariant` for any number of connections, slots,
  clients, tickets and ids, from `SizesAssumption` and `IdsAssumption` (a
  reserved id prefix; more generated ids than sessions). `Linked` and
  `UniqueIds` alone are not inductive: `CallInv` adds what a CONNECT relies on
  between its checks and its binding – its own connection is alive and without a
  session, and whoever else is connected under its id is flagged – and
  `SlotAgreement`, `DisconnectedKept` that what is torn down was there and what
  is left is persistent. One lemma per action or group of actions. From it follow
  `TypeCorrect`, `LinkedAlways`, `UniqueIdsAlways`, `IdleCleanAlways`,
  `DisconnectedKeptAlways`, `SlotAgreementAlways`.
  On top of that invariant: `NeverUnavailableAlways` by counting (connected
  sessions map injectively to connections other than the one connecting);
  `WillOnceAlways`, by its own induction; and the action properties
  `LiveSessionsKeptAlways` and `GivenUpForReasonAlways`.
  `OldestIsLongestGoneAlways`, for a ticket counter of any range: a stamp and the
  number of tickets drawn since add up to the ticket, or to one range more
  (`Stamped`). So a signed difference of two stamps is the difference of their
  ages, and the loop over the slots, taken at the least index at which it would go
  wrong, finds the largest (`OldestFinds`).
* `DeliveryProofs`, in three parts; the theorems are at the end.
  * `DeliveryInvariant`, for any queue, ring and id range with more ids than queue
    entries. `IdsDistinct` needs that `alloc_packet_id` finds an unused id
    (pigeonhole, `UnusedExists`); `QueuedLast` needs `Sending`: a running loop has
    left nothing unsent behind it. Hence `DeliveryTypes`, `IdsDistinctAlways`,
    `QueuedLastAlways`.
  * `FlowInvariant`, for any number of lost connections. `ExactlyOnce` is about
    messages, and the client only knows ids; the invariant joins the two from both
    ends. A queue entry's state says what the client has (`EntriesOK`); a packet
    under way, either way, belongs to an entry that expects it (`DownOK`, `UpOK`);
    no flow has two (`OneEach`), and one that is to be sent again has none
    (`NoneYet`); the client remembers ids of open QoS 2 flows only (`ReceivedOK`).
    Without the last three an id used again could meet a late packet of its
    previous owner. Hence `NoneLostAlways`, `ExactlyOnceAlways` and the action
    property `DupIfSentBeforeAlways`.
  * `InOrderAlways`, under `RingHoldsQueue`: the ring has room for CONNACK and one
    PUBLISH for every queue entry, as in `DeliveryWide`. In a narrower ring the
    property is false (`DeliveryStrands`, finding 1 above), and the proof shows
    where the room is needed: `SentAgain`, that whatever the client has not seen is
    on its way to it once `resume_session` has passed its entry, holds because the
    ring refuses nothing during a resumption (`Room`).
* `EndToEndProofs`: first `InboundInvariant`, for any table, window and ids and any
  number of lost connections. `RoutedOnce` is about the past of a message, and the
  table only knows ids; what joins them is that a flow has at most one packet
  under way (`OneUnderWay`), that a packet says where its flow is (`OfOpenFlows`)
  and that a message that was routed and not released is still in the table, or
  was forgotten by it (`FlowsRouted`). That a client within the table's size is
  never forgotten is counting (`ShorterByOne`). Hence `TrackedOpenAlways` and
  `RoutedOnceAlways`, about `InboundQos2!Spec`.
  Then both hops. Every step of `EndToEnd` is a step of `InboundQos2` or leaves the
  publisher alone (`PublisherStep`), and the same of `Delivery` and the subscriber
  (`SubscriberStep`), so both halves keep the invariants proved of them alone; that
  of `Delivery` is taken from an instance of `DeliveryProofs`, whose assumption on
  the sizes `EndToEndAssumption` discharges. What the composition adds is one
  fact: with a subscriber, a message has exactly as many copies in its session's
  history as it was routed (`Copies`). `EndToEndInvariant` is the three together,
  and `OnceEndToEndAlways` reads the rest off: completed implies routed implies a
  copy, and a second copy implies forgotten.
* `RetainedProofs`: `RetainedInvariant`, for any topics, filters, store, ring and
  number of SUBSCRIBEs. `LastValue` needs that a topic has one entry (`OneEach`),
  or a `set()` could renew one and leave the other. `ReplayedOnce` is about a
  cursor that counts entries: what was replayed is behind the walk, or behind the
  place where it paused, while filters still wait (`ReplayedBehind`), and as long
  as the topics of the slots stay the same the count keeps its meaning (`SameNth`).
  Hence `LastValueAlways` and `ReplayedOnceAlways`.
* `TimersProofs`: `TimersInvariant` for a clock of any range and any traits the
  assumption admits. The properties speak of true ages, the code of a counter:
  the invariant says that the counter's distance from the deadline and from the
  stamp, taken modulo the range, is the true age plus what the broker had not
  been told of, and that neither can have grown by half the range before a tick
  looked. Modulo is used through one lemma (`WrapNear`) and hidden elsewhere.
  Hence `NeverLateAlways` and `NeverEarlyAlways`.
* `TableAclProofs`: the loop invariants of the two topic loops and from them
  `MatchCorrectAlways` and `CoversSoundAlways`, for any words and any length; then
  `AclInvariant` for tables of any length, which says at every turn of the walk
  that no rule passed so far allows what is asked, and carries the invariant of the
  topic loop that is running. Hence `DecidedByRulesAlways`, `GrantHoldsAlways` and
  `CoversCompleteAlways`. Completeness needs a witness for every refusal: the
  filter's own levels with one fresh word for its wildcards (`Sample`), which the
  filter matches and the cover does not. `WordsAssumption` says that there is such
  a word (a topic level is any string) and that names may be as long as filters.
  The scan of `authenticate` is a recursive function; that it finds the one user
  with the name is shown from a closed form and by the least index at which the
  two would differ (`ScanFinds`).
* `StreamServerProofs`: first the ring, `AppendIsEnqueue`, `ConsumeIsDequeue`,
  `FrontChunkIsFront` and `WrittenIsFront` for any capacity and bytes, from the
  lemma that a window no longer than the array visits no cell twice (`CellRight`).
  Then `ServerInvariant`, for any number of slots, peers, reads and bytes: while
  the broker runs it may have given up a connection it has not closed, so the
  agreement is stated as *a slot has a peer exactly when the broker has not let go
  of the connection* (`PairedOK`), which holds inside calls too; an event that is
  still to be served names a peer (`TodoOK`), so that a slot that was freed in the
  meantime is not taken for it; and a peer is held by at most one slot (`HeldOnce`,
  `HeldOK`). Hence `AgreementAlways`. `ImplementsContract` needs nothing more: every
  action is quiet, opens a connection, or writes to the peer of one slot that keeps
  it, is freed or takes a packet (`StepKinds`), and each kind is one step of
  `Transport` through the mapping. The bounds `MaxPackets` and `MaxTotal` are
  parameters here as well, and may be any number.

In the longer developments a leaf that names no prover goes to Zenon, and the
ones with arithmetic or sequences name the SMT solver.

Only model-checked: liveness and termination (fairness and ENABLED are outside
the prover); `EdgesAgree` and the refinements of `Pipe` and `TlsAdapter`; and
`FrameExact`, whose reference parser is recursive, which the prover cannot follow.

## Not modelled

* *Byte formats* (`packets.hpp`, `reader.hpp`, `writer.hpp`, `utf8.hpp`,
  `constants.hpp`) and the byte loops of the topic validity predicates. The models
  take packets as records and topics as levels; a layout has no behaviour beyond
  the function it computes, and a model of it would repeat it.
* *Several subscribers' queues at once*: `route_publish` serves one session after
  the other and they share nothing but the session pool, which is `Lifecycle`'s.
* *A client that publishes to itself*, whose two flows share a ring: `EndToEnd`
  gives publisher and subscriber a ring each.
* *Setting up sockets* (`tcp.hpp`, `unix_socket.hpp`, `close_listener`): calls to
  the operating system, once, before the loop.
* *Raw storage and object lifetime* in the containers, which TLA+ has no words
  for; `Pool`'s first-free allocation and `StaticVector`'s ordered removal are
  part of the actions that use them.
* *Observer events*, which change no state; configuration, version and error
  codes, which are constants.
* *Security policies and TLS engines of the user's*, beyond what they may answer.
