# umber_dds: TLA+ models and proofs

umber_dds is a Rust implementation of DDS over the RTPS 2.3 wire protocol. This
directory holds TLA+ models of its core, the TLC configurations that check them,
and TLAPS proofs of the results that matter most. Source paths are relative to the
repository (`src/` here is its crate `src/src/`).

## 1. The system

Three kinds of threads run in a participant:

* **application threads** call `DataWriter::write` / `assert_liveliness` and
  `DataReader::take`;
* the **event loop** (`dds/event_loop.rs`) polls sockets, timers and channels with
  mio and runs every `Writer` and `Reader` handler, one at a time;
* the **discovery thread** (`discovery.rs`) owns the built-in endpoints: it writes
  the SPDP announcement and reacts to what the event loop tells it.

| component | state | operations | interacts through |
|---|---|---|---|
| `rtps/cache.rs` HistoryCache | samples, three indexes on them, unprocessed / taken / ready marks, last-added times | add_change, remove_change(s), flush, get_unprocessed, get_taken, get_seq_num_min/max | shared by an application thread and the event loop behind an `RwLock` |
| `structure/proxy.rs` proxies | per-sample state for each matched remote endpoint | update, acked_changes_set, requested_changes_set, missing/lost/received updates | owned by Writer / Reader |
| `rtps/writer.rs` Writer | matched readers, proxies, ACKNACK state | WriteData command, heartbeat timer, ACKNACK, nack response, matching, liveliness | WriterCmd channel from the DataWriter, messages, timers |
| `rtps/reader.rs` Reader | matched / unmatched writers, proxies, ordering state per writer | DATA, GAP, HEARTBEAT, heartbeat response, matching, liveliness | messages, timers, cache |
| `dds/datawriter.rs`, `publisher.rs` | last sequence number | write, assert_liveliness | cache, WriterCmd channel (capacity 4) |
| `dds/datareader.rs`, `subscriber.rs` | – | take | cache |
| `message/message_receiver.rs` | source of the current message | dispatch of submessages; handling of the built-in topics | Writers, Readers, discovery database, channels |
| `dds/event_loop.rs` | registered endpoints, timers | poll loop, registration, timers | everything |
| `discovery.rs`, `discovery/discovery_db.rs` | remote participants, state and last assertion of local and remote writers | announcements, lease checks | channels to the event loop; the database is shared by both threads behind an `RwLock` |
| `dds/qos.rs` | policies | builders, offered/requested comparison | read by all |
| `dds/participant.rs` | configuration, wiring | creation | – |
| wire format (`message/**`, `discovery/structure/data.rs`, `ddsdata_derive`) | – | conversions | – |
| `network/*` | sockets | send, receive | UDP |

What is hard: the cache lock is released and taken again inside one handler; the
DataWriter waits for room that only remote acknowledgements make; heartbeats and
data use different sockets; a limit is tested with an off-by-one; timers requested
by handlers have to travel back to the event loop; the discovery database changes
under a handler that is using it; an SEDP announcement is dropped, or its loop left
early, and must be repeated; leases and liveliness are driven by timers that have
nothing to do with the durations they serve. `PROJECT.json` lists these hazards with
their lines.

What makes each component correct:

* the cache's indexes name the same samples, and no call drops a sample that the
  Writer has not seen;
* between DataWriter and event loop no sample is forgotten, dropped before every reader
  has acknowledged it, sent out of order or left out of a heartbeat;
* an acknowledgement is never early, what is missing can be repaired, and under finite
  loss every sample arrives and is released;
* compatible endpoints match on both sides; an acknowledged announcement was acted
  on; nothing of a dead participant stays;
* both sides of a match judge the QoS alike, and as the policies mean it;
* a Reader declares a Writer lost only after its lease, and then in time.

## 2. Modules

```
SequenceNumbers
  |-- HistoryCache ------ SharedCache ------ MCSharedCache
  |        |                  '-- SharedCacheProofs
  |        |-- HistoryCacheProofs (lemmas, those on Proxies too)
  '-- Proxies
       |   '-- StatefulWriter (HistoryCache + Proxies)
       |            |-- WriterPipeline ---- MCWriterPipeline -- MCWriterKinds
       |            |        |-- implements ReliableStore
       |            |        '-- WriterPipelineProofs
       |            '-- ReliableProtocol (+ SequenceNumberSets) -- MCReliableProtocol,
       |                                                       ReliableProtocolProofs
       '-- Discovery (Proxies + DiscoveryData) ------------------ MCDiscovery, DiscoveryProofs
SequenceNumberSets -- SequenceNumberSetProofs
Qos -- DiscoveryData -- QosProofs
            |-- Discovery
            '-- Liveliness ---------------- MCLiveliness, LivelinessProofs
```

**HistoryCache** translates every method of `cache.rs` that changes a cache into an
operator on a record with the fields of the struct. A method runs under one
acquisition of the lock, so it is atomic. A key determines its payload (the code
declares the other case unreachable), and times are reduced to "there is one".
`AddChangeResult` is what `add_change` answers, including the panic of `ts2key[0]`.

**SharedCache** is one cache and all the calls its two threads make, in any order and
for every QoS record in `QosChoices`: the sharpest environment the cache can meet.
Calls that in the code are always paired (add, then flush) are separate steps because
they are separate acquisitions of the lock.

**Proxies** gives the per-sample states; a BTreeMap is a total function with `None`.

**StatefulWriter** holds the decisions several Writer handlers share: who is to get a
change, what is acknowledged by all, what a heartbeat may announce.

**WriterPipeline** interleaves the DataWriter thread with the event loop *inside* the
Writer's handlers. `app` and `pc` say where each thread is; a step is the work under
one acquisition of the cache lock. `handle_write_data_cmd` is the steps
GetUnprocessedStep, AckedScan, AckedRemove, Collect, SendData, DropSent, SendGap and
WriteDataDone; `send_heart_beat` is HeartbeatBase, AckedScan, AckedRemove,
HeartbeatSend; `handle_acknack` is HandleAck, AckedScan, AckedRemove. Readers are the
environment: a reader answers a HEARTBEAT and acknowledges only what it was sent.
`sent` and `needs` are history variables.

**ReliableStore** is the abstract specification of a reliable writer, without threads,
locks, channels or proxies: the next number is accepted, all that is pending is assigned
to readers at once, readers join and settle, and a sample is dropped only when it is
neither pending nor needed. `WriterPipeline!ImplementsStore` maps the cache's numbers to
`held`, the unprocessed ones to `pending` and the history variable `needs` to itself.

**MCWriterKinds** chooses the reliability of the writer in the initial state, so that one
run has both: a reliable writer whose readers stay, or a best-effort writer whose readers
come and go.

**SequenceNumberSets** is `SequenceNumberSet` of `element.rs` as pure operators: `from_vec`,
`set` and `is_valid` over a base, a number of bits and a vector of 32-bit words. A word
is the set of its 1 bits. ACKNACKs carry these sets.

**ReliableProtocol** is the exchange with the remote readers. Handlers are atomic: the
interleaving inside them is WriterPipeline's subject. Readers live in hosts
(participants). A host has a unicast socket for DATA and GAP, shared by its readers, and
is in the multicast group to which HEARTBEATs go; it polls the two sockets apart
(`ApartHosts`) or happens to read them in the order of arrival. A datagram names the
readers its reader id stands for: `ReaderId` is `min_message_cover`, which writes one
message for all the readers behind a locator. Reliable and best-effort readers are the two
halves of `Reader::add_change`. An ACKNACK carries a SequenceNumberSet, and one whose set
spans too many numbers is refused. HandleHeartbeat is `handle_heartbeat` followed by
`handle_hb_response_timeout`, which the code calls directly when the delay is zero; a
nonzero delay asks for a timer that `handle_entity_submessage` drops, and the model does
the same. `due`, `got`, `acked` and `taken` are history variables.

**Qos** holds every policy of a DataWriter and a DataReader: the builders, how the QoS
of an endpoint is combined from Topic, Publisher or Subscriber and its own settings, and
the comparison `is_compatible`. A Duration keeps its two fields, with the units as
constants, because its order mixes them. `Honours` is the reference: what an offer must
keep.

**DiscoveryData** is how these policies travel in SEDP messages: each as a parameter with
an id, a declared 16-bit length and 32-bit words, written by `Encode` and read back by
`Decode`, which takes as many words as the value needs (`WordsRead`) and not as many as
are declared; a policy that is not sent gets the builder's default. `OnTheWire` is what the other
side ends up with, `WriterAccepts` and `ReaderAccepts` are the two sides' verdicts on it.

**Discovery** composes two threads per participant and a network that loses and
reorders. The event loop is `busy[p]` between reading the discovery database and acting
on it (ReceiveSpdp / ParticipantDiscovery, ReceiveSedp / MatchEndpoint); the discovery
thread (AnnounceEndpoint, CheckParticipantLiveliness, SendDeleteParticipant) runs in
between. SEDP runs over the proxies of module Proxies, with heartbeats, requests and
repairs; endpoints carry QoS computed by module Qos and announced through module
DiscoveryData, a topic and a topic kind. A lease
is a nondeterministic Silence: of a dead participant always, of a live one as often as
MaxFaults allows.

**Liveliness** is the Writer Liveliness Protocol in discrete time, between the Writers
of one participant and the Readers of another: assertions by DATA, by a HEARTBEAT with
the liveliness flag and by DATA(m), the automatic and the manual timer of the
Writers' event loop, the shared `remote_writer` entries and the `wlp_timer` of each
Reader. `Tick` waits until every timer that is due has fired and every datagram has
arrived or is lost, so delays below one tick are left out. Writers are reliable and
Volatile. `sent` keeps which Readers a Writer has sent a sample: `send_heart_beat` sends
nothing once every sample is acknowledged, so a HEARTBEAT needs a sample sent before it.
When a Reader acknowledges is the subject of ReliableProtocol; here it is a choice, so an
assertion by HEARTBEAT may also come to nothing. Ages are capped one above
the largest value any comparison tells apart. `asserted`, `heard` and `silent` are
history variables.

Mutants (definitions named in `PROJECT.json`, commented "Mutant of ...") stand next to
what they mutate: a plausible bug that makes the property fail.

## 3. Runs

Passing runs:

| run | checks | bounds, and why they are enough |
|---|---|---|
| `shared_cache` | TypeOK, InsertionIndexAgrees, LookupIndexesAgree, UnprocessedIsCached, KeepLastDepth, WithinMaxSamples, NoPanic | 2 writers, 3 numbers, 16 QoS records: KeepLast of depth 1 and 2 over two writers, limits of 3 reached by discarding and blocking |
| `pipeline_reliable` | TypeOK, NoLostWakeup, UnackedIsCached, NoPanic, SentInOrder, HeartbeatCoversUnacked, ImplementsStore | 2 readers that come and go, 3 writes, cache for 2, channel of 2: a full cache, a full channel, a batch of two, a late TransientLocal reader |
| `pipeline_live` | NoLostWakeup, NoPanic, WrittenIsSent, WriteReturns | 2 readers, channel of 1: a reliable writer with room for 2 whose readers stay and acknowledge (both kinds of blocking), or a best-effort KeepLast writer without a limit whose readers come and go |
| `reliable_safe` | TypeOK, AckedIsReceived, StillRepairable, NewestLast, OnceAcked | a reliable and a best-effort reader of one participant, which share sockets and messages, 3 samples, 1 loss, sets of fewer than 3 numbers: a reader that lags behind the other, a repair, a GAP for both, a refused ACKNACK, a late TransientLocal reader |
| `reliable_live` | Delivered, Released | 1 reader, 3 samples, 2 losses, sets of fewer than 4 numbers: a hole with received samples on both sides, a lost repair |
| `discovery` | TypeOK, NoZombieProxies, AckedIsMatched | 2 participants, 3 endpoints, one with another topic kind, 1 loss or expired lease, 1 process that may end |
| `discovery_live` | Forgotten, Matched | the same without the third endpoint |
| `liveliness` | TypeOK, DetectedInTime, ReportedInTime, LostOnlyAfterLease | an Automatic and a ManualByTopic Writer with leases of 2 ticks, timers of 1 (manual check), 2 (assert) and 3 (idle): periods shorter than, equal to and longer than the leases, any datagram lost, the process may end. Different leases and several Readers or manual Writers are left to the theorems |

Violation runs, each a disagreement between the code and a line of the repository
(quoted in `PROJECT.json` under findings):

| run | property | what happens |
|---|---|---|
| `pipeline_leave` | WriteReturns | the last reader leaves while the DataWriter waits for room: the heartbeat timer no longer reaches `remove_acked_changes`, and write never returns |
| `reliable_apart` | AcknowledgesReceived | HEARTBEAT (1,1) waits at the multicast socket, DATA 2 is lost and DATA 3 is read: nothing counts as missing, and the answer to the HEARTBEAT acknowledges all three |
| `discovery_late` | Matched | an endpoint created after its peer's announcement was acknowledged is announced to the peer, but never compared with what was received before |
| `liveliness_early` | NoPanic | a Writer that holds an unacknowledged sample sends, on `assert_liveliness`, a flagged HEARTBEAT to a Reader that has not received, or has refused, SEDP(w): `get_matched_writer_qos` panics. The trace starts with a write, since without a sample nothing is sent. The run has no loss: order alone suffices |

`discovery` and `discovery_live` therefore create endpoints before the first participant
is known (`LateEndpoints = FALSE`), and `liveliness` asserts only once the matched
Readers know the Writer (`EarlyAssertions = FALSE`).

`CHECK_DEADLOCK FALSE` for the cache, pipeline and protocol runs: the sequence numbers
of a run are bounded, so the run may stop when they are used up. Discovery and
Liveliness have periodic timers and are checked for deadlock.

**Fairness.** `WriterPipeline!FairSpec`: weak fairness for the application thread and
for the handlers of the event loop (the OS schedules both); strong fairness for
receiving a command, because the event loop serves every ready event of a poll before
it polls again; strong fairness for the periodic heartbeat timer; and readers that keep
getting heartbeats acknowledge in the end. `MCWriterKinds!KindsFairSpec`: the same for the
writer's kind; a best-effort writer has neither heartbeats nor acknowledgements.
`ReliableProtocol!FairSpec`: weak fairness
for every handler and for an application that polls `take`; strong fairness for the
heartbeat timer, which only the bound MaxHeartbeats disables. `Discovery!FairSpec`: weak
fairness for both threads, strong fairness for the periodic announcements and
heartbeats, which the bound MaxUnderWay and the rest of the event loop disable now and
then; a dead participant stays silent. Losses, ends of processes and the silence of a
live participant are never fair, and bounded. Liveliness has no fairness: its bounds on
time are invariants, because Tick waits for what is due.

## 4. What the models showed without a run of its own

Met while the models were built, and excluded from the passing runs by the constants
named:

* *KeepLast over several writers* (`cache.rs:306`): keys are ordered by sequence number
  first, so the newest sample of the writer with smaller numbers is deleted on arrival.
  KeepLastDepth holds; "the latest are kept" does not.
* *Limits* (`cache.rs:261`, `:279`): a best-effort writer may grow past max_samples;
  max_samples = 1 indexes an empty vector; a reliable writer blocks one sample early,
  and a TransientLocal one with max_samples = 2 never has room. `MCQosChoices` has the
  records for which the limit is respected.
* *Eviction* (`writer.rs:380`): a best-effort DataWriter at its limit evicts a sample the
  event loop has collected and not sent, which reaches `unreachable!`. The best-effort
  writer of `pipeline_live` has no limit.
* *Two sockets* (`reader.rs:721`): a multicast heartbeat that is read after later data also
  makes the reader request a number it has acknowledged. OnceAcked, AckedIsReceived and
  StillRepairable are about hosts that read in the order of arrival; `reliable_apart` is
  about the others.
* *Shared messages* (`writer.rs:844`): with three readers of a participant a GAP meant for
  two of them is addressed to all, and the third counts the sample as received. With two
  readers AckedIsReceived holds.
* *Overtaken HEARTBEATs in SEDP* (`reader.rs:721`): the base of an ACKNACK is one above the
  largest number received when nothing is missing. A participant with three Writers sends
  HEARTBEAT (1,1) after the first announcement; when DATA 1 and DATA 3 are read before it,
  nothing is missing and the answer acknowledges 2, which has not arrived, without any
  loss. The announcement is never repeated and AckedIsMatched fails. With two endpoints of
  a role it holds: `discovery` checks it and AckedKept proves it.
* *A KeepLast writer* of depth 1, Volatile, can make a reader give up a sample it is owed: a
  request for a number that is gone and was never due is answered by a HEARTBEAT that
  starts above it, and every older number the reader still misses becomes Lost. It takes
  three losses; AcknowledgedKept is about KeepAll.
* *Order of samples*: the repository's notes ask for ordered visibility. `take` of a
  reliable reader may return an older sample after a newer one when a repair is late,
  because `flush` makes everything in the cache visible (`reader.rs:205`). A best-effort
  reader answers heartbeats, although the notes call it passive, and may store an older
  sample after a newer one has been taken, because taken keys leave its WriterProxy
  (`reader.rs:237`). NewestLast is about what has not been taken.
* *Long gaps* (`element.rs:139`): `is_valid` wants fewer than 256 bits although the comment
  above it allows 256, and `from_vec` writes sets of any length: a reader that misses a
  longer range sends ACKNACKs that are all refused, and nothing is repaired. In
  `reliable_live` every set fits.
* *Duplicates* (`reader.rs:189`): a reliable reader stores a duplicate of a sample that was
  taken and delivers it twice. The network of the model does not duplicate.
* *A reliable reader at max_samples* (`cache.rs:284`) acknowledges a sample that its cache
  discards. The readers of the runs have no limit.
* *Delays* (`message_receiver.rs:214`): with a nonzero nack_response_delay or
  heartbeat_response_delay the timer a handler asks for is dropped and nothing is
  repaired. The runs use zero delays.
* *A KeepLast reader* counts a sample it never got as received once a later heartbeat
  starts above it.
* *Automatic liveliness* (`writer.rs:224`): DATA(m) is sent only if the last sample is
  older than the lease, so Readers always declare an idle Automatic Writer lost first;
  and DATA(m) refreshes the database without matching the Writer again.
  `docs/Entityの生存管理.md` asks for both.
* *The Writer's own check* (`writer.rs:963`) looks only at the last write: a manual
  Writer that calls `assert_liveliness` in time is still reported as lost.
* *Silent assertions* (`writer.rs:477`): `assert_liveliness` sends its HEARTBEAT only while
  a sample is held. Before the first write, or once all is acknowledged, a manual Writer
  that asserts in time sends nothing, and its Readers give it up after the lease.
  `docs/Entityの生存管理.md:107` says that `assert_liveliness` sends the HEARTBEAT.
* *Manual kinds* (`qos.rs:1158`): `read_from` exchanges ManualByParticipant and
  ManualByTopic. Two ManualByTopic endpoints never match on both sides
  (`QosProofs!ManualKindsNeverMatch`), and a Reader treats a ManualByParticipant Writer
  as one that speaks for itself alone.
* *Durations* (`duration.rs:100`): the order adds fractions of 2^-32 s to nanoseconds, and
  several places pass a fraction as nanoseconds to a timer. It is right for whole
  seconds (`QosProofs!AcceptedIsHonoured`), and the runs use those.
* *One-sided expiry*: when a lease runs out on one side only, the other side does not
  announce its acknowledged endpoints again. Matched excludes expired leases.
* *Parameters*: TopicData and GroupData are written with a 32-bit length and read with a
  16-bit one (no endpoint of this implementation sends them), PID_PAD is skipped as a lone
  16-bit word, and the length declared for a known parameter is ignored.
* *Deadlines*: the timers arm themselves again for ever, also for a Writer that has left.
* *Waiting for channels*: WriterCmd holds 4 commands, the channels of create_writer and
  create_reader 10, participant_msg_cmd 32; the others are unbounded. An application
  thread may wait for the discovery thread or the event loop and the discovery thread for
  the event loop, which drains every channel and waits for none of them: there is no
  cycle. This is an argument about the source; no run covers it.

## 5. Proofs

For every value of the constants, under the ASSUMEs of the modules (which TLC evaluates
on every run):

* `SharedCacheProofs`. The invariant `Inv` is TypeOK with "the lookup indexes name samples
  that are held", "an unprocessed sample is held" and "the insertion-order index lists the
  samples held, each once": `TypeCorrect`, `IndexesAgree`, `UnprocessedKept` and
  `InsertionOrderKept` follow at once. `HistoryCacheProofs` proves what every method
  preserves as lemmas, cited once per action. The limits follow from it by counting:
  `DepthKept` for every QoS; `LimitKept` unless a best-effort Writer has a limit, and
  `NeverPanics` unless a best-effort endpoint has max_samples = 1: the two cases of
  section 4 in which the code really fails, and nothing else is excluded.
* `WriterPipelineProofs!WakeupKept` and `UnackedKept`. Neither property is inductive.
  The invariant `Inv` adds: the cache is sound (unprocessed samples are held), all its
  keys are the writer's own (so that a sequence number determines a key), `Needs` (a
  number a reader needs is relevant and not acknowledged in its proxy), and
  `ScanAgrees` (a key `remove_acked_changes` has found and not yet removed is needed by
  no reader: matching and acknowledging happen only between handlers, and
  a write only adds new numbers). The last one is what the released lock puts in doubt.
* `WriterPipelineProofs!TypeCorrect`, `InOrder`, `HeartbeatCovers`, `NeverPanics`. `Flow` says
  which numbers each stage of a batch can hold (the unprocessed ones lie above everything
  sent or collected, and what is to be sent above what was sent), from which both action
  properties follow. `Held` says that what the event loop is going to send is in
  the cache; it needs `NeverEvicts` (the writer is reliable or has no limit), without which
  the DataWriter evicts a collected sample. HeartbeatCovers is about reliable writers: a
  best-effort one sends no heartbeats.
* `WriterPipelineProofs!StoreImplemented`: a reliable WriterPipeline implements
  ReliableStore, for any readers, QoS and channel capacity. Adding to the cache is Accept,
  collecting the unprocessed numbers is Assign, matching is Join, an acknowledgement or a
  leaving reader is Settle, each removal of an acknowledged key is Drop, and every other
  step stutters. The invariant is Inv with `StoreAux` (a reader that is not matched needs
  nothing), which makes "acknowledged by all matched" the same as "needed by nobody".
* `ReliableProtocolProofs!TypeCorrect`: `BaseInv` types the writer, the readers, both kinds
  of sockets and the acknowledgements, for any readers, hosts, QoS and numbers.
* `ReliableProtocolProofs!NewestKept`: NewestLast for every best-effort reader. `Fresh` adds
  that every sample held counts as Received and is not among the taken keys, so the
  largest available number, which falls when taken keys are forgotten, never falls below
  what is still held.
* `ReliableProtocolProofs!AcknowledgedKept` and `RepairableKept`: AckedIsReceived and
  StillRepairable, for any number of hosts, readers, samples and losses. They need each
  other. `Settled(r)` are the numbers below the writer's last that r has got or that the
  writer no longer holds or never owed it. `TrustInv` says that what a reader counts as
  received, what waits in its sockets to tell it so, and what its ACKNACKs under way
  acknowledge is settled; `OweInv` that what r was to get and has not got is held, is not
  acknowledged, and that so is everything above it: the reason why the first_sn of a HEARTBEAT
  can declare nothing Lost that is owed. Hypotheses: `KeepsAll` (KeepAll histories, and
  readers without a limit) and `ExactlyAddressed` (a message for some readers of a host is
  read by no other one there), which lemma `TwoPerHost` derives from "at most two readers in
  a host". Without either one the properties fail (section 4). Like the properties, the
  theorems are about hosts that read their sockets in the order of arrival.
* `SequenceNumberSetProofs!SetRoundTrip` and `ValidSpan`: for any base and any finite set of
  numbers from it on, `set` returns what `from_vec` was given, and the set is valid exactly
  when its base is positive and it spans fewer than MaxBits numbers from there.
* `DiscoveryProofs!ProxiesDeletable`: NoZombieProxies, for any participants and
  endpoints. The invariant adds that the peer of the message an event loop is in the
  middle of is in the database or on its way to deletion: a peer leaves the database
  only into `lost`, from there into `updates`, and the event loop that empties `updates`
  is not in the middle of a message.
* `DiscoveryProofs!TypeCorrect`: for any participants and endpoints; `TypeInv` adds the
  contents of the messages (an announcement under way is in the log, and a proxy has
  entries for written announcements only).
* `DiscoveryProofs!AckedKept`: AckedIsMatched. `MatchInv` adds that an endpoint is announced
  once, that a participant whose proxies are being deleted has expired, that what a
  detector has received it has acted on, and that what is acknowledged, at the announcer
  or in an ACKNACK under way, was received. The hypothesis `SmallParticipants` has two
  parts: endpoints are created before the first participant is known (`discovery_late`
  is the other case), and a participant has at most two of each role (section 4: with
  three, an overtaken HEARTBEAT breaks the property).
* `QosProofs`: `LastExplicitWins` (the effective value of every policy),
  `ParameterReadBack` (the words of a policy, wherever they stand, give its value back and
  are taken entirely, so that the next parameter starts where it should),
  `AnnouncedArrives` (the other side ends up with the announced policies, apart from the
  exchanged manual kinds, and defaults for the rest; walking the whole list would need
  induction over the list, so this composes the policies one by one),
  `SidesAgree`, `ManualKindsNeverMatch` and `AcceptedIsHonoured` (which pairs the two
  sides judge alike, and when as `Honours` says).
* `LivelinessProofs!LeaseRespected`: LostOnlyAfterLease for any Writers, Readers and
  leases, under the hypothesis NoneByParticipant (no ManualByParticipant Writer, because
  of the exchanged kinds). The invariant LeaseInv relates the database to history: an
  entry is never older than the last assertion heard, and an entry is LivelinessLost only
  if the Writer was silent for more than its lease.
* `LivelinessProofs!TypeCorrect`, `DetectedKept`, `ReportedKept`, for any Writers, Readers and
  leases. `WatchInv` says that a Reader that contains a Writer watches it: either the
  timer is about to be set and a datagram has just come, or the timer runs and its
  remaining time and the silence so far stay within every lease and the longest timeout;
  and that the shared entry is at least as old as the silence, so that a check that fires
  finds the lease over. `ReportInv` is the same argument for the Writers' own check: the
  time since the last assertion and what remains of the timer stay within the lease and
  one period.

Every invariant that a run checks is thus a theorem, and so are the action properties
SentInOrder, HeartbeatCoversUnacked and LostOnlyAfterLease and the refinement. The hypotheses above
hold in the configurations of the runs. Where a proof needs induction on numbers it takes
the least element of a set of numbers (`HistoryCacheProofs!LeastNat`).

Only model-checked: the liveness properties WrittenIsSent, WriteReturns, Delivered,
Released, Forgotten and Matched, which need fairness; and the action property OnceAcked
(below).

## 6. Not modelled, and the plan

In the order in which they matter:

1. **Deadlines**: the reader and writer deadline timers and their notifications.
2. **A reliable reader at its max_samples** and duplicated datagrams, where the
   acknowledgement properties are known to fail (section 4).
3. **Interpreter submessages**: INFO_DST, INFO_SRC and INFO_TS and the state the message
   receiver keeps between submessages (the destination prefix is stored and never compared
   with the participant's own).
4. **An abstract specification of matching** that Discovery implements.
5. **Participant wiring**: creation and the channels, argued in section 4.
6. Proofs: OnceAcked under `KeepsAll` and `ExactlyAddressed`. TrustInv is about what a reader
   was to get; OnceAcked is also about numbers that were never due. It needs that no
   number up to the last acknowledged one is Missing, or becomes so by a
   HEARTBEAT under way. Then the refinement of the matching of item 4.

Left out for good: strings, locators, GUIDs and headers on the wire, the derive macro,
sockets, ports and logging. They are conversions and I/O without state of their own.
