# SynapseIDS: models, checks and proofs

SynapseIDS watches network traffic, groups packets into flows, scores the flows with
small neural networks and shows verdicts and alerts. This directory models the part of
`synapsed` (the daemon, in Go) and of its sensors that a unit test reaches poorly: what
goroutines, channels, bounded tables, crashes and multi-step requests do to each other,
and what a reader makes of what a writer wrote. Each module is translated from the source
named in its header comment; `PROJECT.json` maps every definition to the lines it stands
for.

Contents

1. [How the daemon works](#1-how-the-daemon-works)
2. [Inventory of components](#2-inventory-of-components)
3. [Modules and how they correspond to the code](#3-modules-and-how-they-correspond-to-the-code)
4. [Runs, bounds and what they show](#4-runs-bounds-and-what-they-show)
5. [Fairness](#5-fairness)
6. [Theorems](#6-theorems)
7. [Where the code and its words disagree](#7-where-the-code-and-its-words-disagree)
8. [What is not modelled](#8-what-is-not-modelled)
9. [Plan](#9-plan)

To reproduce: `tlc -config FlowTable.cfg MCFlowTable` (likewise for the other pairs of
section 4) and `tlapm FlowTableProofs.tla` (and the seven other `Proofs` modules).

## 1. How the daemon works

```
 NIC, pcap, ssh tcpdump ──┐                       ┌─> storage.Mem ──> API, datasets, reviews
 dialled sensors ─────────┤ capture.Manager       │
 Collector (sensors dial) ┘   m.out ──> pipeline ─┼─> events.Bus ──> pump ──> wshub ──> browsers
     │                            (flow.Table,    ├─> insight.Index
     └── flow/feature records ──> inference)      └─> alert.Store ──> AlertCreated
                                      ▲
 operator ── REST API ── registry, inference.Runtime, audit, captures, reviews, datasets, training
```

- Every capture source has a goroutine that forwards its packets into one bounded
  channel, `m.out`. One pipeline goroutine drains it; that goroutine alone owns the flow
  table, so the table needs no lock.
- A flow that closes (FIN/RST, idle timeout, lifetime, eviction, end of capture), and a
  flow whose snapshot is due, becomes a record: stored, published, turned into features,
  scored, and handed to the alert store and the insight index over bounded queues with
  non-blocking sends.
- Sensors connect over TLS (SYNPOIP) and either stream packets, which enter through
  `capture.Manager` like a local interface, or run the flow table themselves and stream
  records, which enter the pipeline beside the packets.
- Operators act through HTTP handlers that run concurrently: they add and remove
  captures, activate models, review verdicts, build datasets. A handler that changes
  several stores does so one after the other, each under its own lock; a handler that
  reads several stores reads them one after the other too.
- SIGTERM cancels one context; sources, forwarders, collector, pipeline and HTTP server
  each notice by themselves. SIGHUP swaps the log level and the alert policy. Everything
  but `registry.json`, reviews, datasets, training runs and the audit log is in memory.

## 2. Inventory of components

What each part keeps, what it does, whom it touches, what is hard about it, and what makes
it correct. M: modelled, every operation that changes state is an action; P: partly
(section 8 says what is missing); X: left out (section 8).

| Component (source) | State | Operations | Interacts with | Hard behaviour | Correct when | |
|---|---|---|---|---|---|---|
| Flow table and pacer (`internal/flow`) | flows by 5-tuple, `recentDown`, counters, pacer count and clock | Observe, Tick, Flush, Due | called by the pipeline, emits records through a callback | capture time is not wall time: ties and steps back; cap eviction; torn-down flows linger; quiet links | a flow closes once, a packet is in one flow, cap holds, no phantom flow, timers fire in time | M |
| Capture manager (`internal/capture/manager.go`) | rows by name, a context per source, the merged channel, drop counters | Add, Remove, Packets, Close, forwarders, sampler | sources, pipeline, captures API, collector | failure of one source, removal while sending, shutdown with sends in flight | nothing lost uncounted, no send on a closed channel, rows are true, Close returns | M |
| Collector (`internal/capture/collector.go`) | peers by name, listener, one goroutine per connection | Run, serve, Sensors | manager, SYNPOIP session, sensors API | reconnect before the old session is gone, delete by an operator, capacity read without the lock held until use | bounded, no ghosts, Run returns | M |
| Model registry and activation (`internal/registry`, `internal/api/models.go`) | entries by id, `registry.json` | Open, Register, SetStatus, activate, deactivate | runtime, audit, bus, start-up sweep | failed writes, restart between two steps, three stores without a common lock | one active entry per role, file follows memory, status, runtime and audit agree | P |
| Inference runtime (`internal/inference`) | the live set per role | ActivateRole, DeactivateRole, Score | handlers, pipeline | the set changes while a flow is being scored | a verdict comes from one whole set | P |
| Alert store (`internal/alert`) | queue, ring, two indexes, policy, counters | Observe, SetPolicy, PurgeBefore, readers, Close | pipeline, reload, retention, API, bus | dedup across out-of-order timestamps, ring wrap after purges, policy swap under readers, full queue, closing | indexes agree with the ring, windows anchored, all counted, one event each, callers return | P |
| Flow store (`internal/storage/memstore.go`) | rings of versions and verdicts, history per flow | PutFlow, PutClassification, purges, lookups | pipeline, retention, API, datasets | bounded structures kept in step by sequence numbers | history is a suffix of the ring's versions, all counted | M |
| Pipeline and sequence windows (`internal/pipeline`) | counters, windows per conversation | packet and record arms, publish, drain, final flush | everything above | two inputs, cancel between two steps, prune by equal times | ids are one flow's, every record a row once, windows bounded and in order, the end comes | M |
| Insight index (`internal/insight`) | queue, hosts, keys, matrix, timeline rings | Observe, readers, Close | pipeline, API | four bounded structures fed from one lossy queue; prune while counting | views say what a scan of the store says, within caps | P |
| Event bus (`internal/events`) | subscriptions, sequence counter, drops | Subscribe, Publish, Close | every publisher, the API pump | number drawn and sent in two steps under a read lock, close while publishing | every event delivered, waiting or counted | M |
| WebSocket hub and pump (`internal/wshub`, `internal/api/api.go`) | clients, queues, write locks, drops; a batch | Broadcast, register, unregister, pump | bus, browsers | slow clients, two goroutines closing one socket, batch in hand at shutdown | no silent gap, a dead client leaves | M |
| Replay controller (`cmd/synapsed/replay.go`) | running replay, status | Start, Stop, Status, progress | pipeline, bus | a goroutine that outlives its replay, an end published without the lock | the last count stands, no end before its start | M |
| SYNPOIP (`internal/capture/pcapoverip`) | negotiated version and mode, batching writer, deadlines | hello, accept, frames, keepalive, goodbye | sensor, collector | half-open peers, refusal after hello, cancel on either side with frames buffered | a prefix arrives, once and in order; a clean end means all of it | M |
| Sensor aggregation (`pcapoverip/aggregate.go`) | a flow table | feed, emit, flush | frame writer | end of capture with flows open, cancel while the channel is full | every flow's record before the goodbye | M |
| synapse-sensor (`cmd/synapse-sensor`) | backoff delay | dial, serve, retry | collector | capture or link ends in any order, declined again and again | a session is followed by another | P |
| Dialled PCAP-over-IP source (`pcapoverip_client.go`, `pcapoverip_session.go`) | connection, stats | Packets, Close | manager | close while a packet is in hand, goodbye against the read loop | both sides wind down | M |
| Record path (`internal/capture/records.go`) | counters | deliver | session, pipeline | blocking send and cancel | at most the record in hand is lost | M |
| Capture sources (`afpacket_linux.go`, ring, `bpf_freebsd.go`, `livestream.go`, `subprocess.go`) | descriptors, ring blocks, child, counters | Packets, Close, Stats | manager, kernel, processes | descriptor numbers are reused, a block belongs to one side at a time, read-and-reset counters, a grandchild holds the pipe | each frame once, drops counted once, everything let go | P |
| Wire and file formats (`pcapoverip/protocol.go`, `records.go`, `sensor_identity.go`, `pcapfile.go`, `pcapng.go`, `pcapstream.go`, `bpfchunk.go`) | none | write, read | sensors, files, kernel buffers | both byte orders, truncation at every byte, lengths that lie, padding | what is read is what was written or an error | P |
| Review store (`internal/review`) | reviews by flow id, files | Put, Get, queue | classification store, bus, audit, datasets | prediction captured once, publication outside the lock, ids that restart | last decision with its whole history | M |
| Dataset manager (`internal/dataset`) | versions by id, directories | Create, Derive, Delete, Open | store, reviews, audit | deletes that fail half way, two cuts at once, restart | versions immutable, only deletes take away, human labels are human | M |
| Dataset statistics (`internal/dataset/stats.go`) | a cache by content hash | Stats | manager, API | shared cache entries, degenerate columns | every histogram and count adds up | P |
| Training store (`internal/training`) | runs by id, files | Start, AppendProgress, Finish, Fail | trainer, audit | repeated and late progress, restart | newest reports in order, terminal is last | M |
| Audit log (`internal/audit`) | a file | Log, Tail | handlers | torn appends, order against the writes it records | nothing but what was cut short is missing | M |
| Reading API (`internal/api/flows.go`, `flow_snapshots.go`, `hosts.go`, `reports.go`; `internal/report`) | none | snapshots, explain, filtered lists, reports | store, runtime, registry | the store changes between two reads of one request | what is paired belongs together, what is missing is said | P |
| Topology, drift, comparison, review queue (`internal/api`, `review/queue.go`) | none | folds | collector, store, registry | ties, empty windows, scans cut short, zero deviation | totals agree, the most urgent is on the page | M |
| Configuration, reload (`internal/config`, `cmd/synapsed/reload.go`) | running values, last configuration | Load, reload | alert store, logger | edits and signals during a reload, overlay on defaults | what runs is one whole valid file, what is reported is true | P |
| Network executor (`internal/nn`, `modelrun.go`) | a compiled graph | compile, order, resolve sizes, Run | runtime | graphs in any listing order, undeclared sizes, broadcasting | what compiles runs with the declared shapes | P |
| Daemon lifecycle, retention (`cmd/synapsed`) | tickers | sweep, shutdown | alert store, flow store, index | against the pipeline and Close | calls return, the flush is stored | P |
| Writing API (`internal/api`) | none | handlers | all stores | the multi-step ones are listed above | see those | P |
| Authorisation, capture wiring, packet decoding, features, schemas, bundles and ONNX bytes, HTML and metrics, diagnostics, CLI, trainer, web UI | none that changes, or not the daemon's | conversions, rendering | | numerics and I/O | unit tests | X |

`PROJECT.json` lists 40 hazards of this code at their lines, each with the property that
would catch it going wrong.

## 3. Modules and how they correspond to the code

One module per component; modules that share state extend one another. An `MC` module
gives them a small instance, a `Proofs` module their theorems: FlowTableProofs,
CaptureManagerProofs (also LiveCapture), ModelActivationProofs (also Scoring),
AlertStoreProofs, ServiceProofs (Collector, Reload, and Curation with what it extends),
LiveProofs (EventStream and ReplayControl), SourcesProofs (SensorSession and Subprocess) and
StoreProofs (Pipeline over MemStore and FlowLog). The modules share conventions. A goroutine is a variable that says where it is, one action per step another
goroutine can see. What a lock covers is one action. A channel is a sequence or, when its
elements are alike, a count, with its capacity as a constant. Bounds that the code does
not have are marked "bound" where the constant is declared. Operators marked "mutant:" are
variants of the operator below them, as a plausible bug would have it: they show that a
property can fail, and take no part in the specification.

| Component | Modules | composed in |
|---|---|---|
| flow table and pacer | FlowTable | (Pipeline and SensorSession take it for what it may emit) |
| capture manager | CaptureManager | |
| collector | Collector | |
| registry, activation, scoring | ModelActivation, Scoring (extends it) | MCModelActivation |
| alert store | AlertStore | |
| bus, pump, hub, replay | EventStream, ReplayControl (extends it) | MCLive |
| flow store, windows, index, pipeline | MemStore (refines FlowLog), Insight, Pipeline (extends them; has the windows) | MCPipeline |
| session, aggregation, sensor | SensorSession | MCSensor |
| capture sources | LiveCapture, Subprocess | MCSources |
| reviews, datasets, training, audit | AuditLog, ReviewStore, DatasetManager, TrainingRuns, Curation (extends them) | MCCuration |
| formats | Codec, Containers, Formats (extends both) | MCReading |
| read side | ReadViews, Summaries, Reload, Network | MCReading |

**FlowTable** - `flow/table.go` and `flow/pacer.go`, driven by the packet arm of
`pipeline.go`. `Deliver(p)` is one iteration: `Observe`, then `Tick` if `Due`. The table is
one record with the fields of the Go struct (`flows`, `recentDown`, `started`, `closed`,
`evicted`) plus `emitted`, what the callback received. `Observe` follows the code's order:
absorb a trailing packet of a torn-down flow, else open (insert, then evict the oldest when
over the cap), then fold, then close on RST or on FINs from both sides. `Opened` lets the
victim be any flow whose last-seen time no other precedes: Go's map order decides ties.
`CaptureEnd` is the end of the source followed by `Flush`. Byte counts, sizes and
inter-arrival times are abstracted to the set of packets folded in: what the accumulators
compute depends on nothing else the control reads. Timestamps come from `Deltas`, the
allowed distance of one packet from the one before, zero and negative ones included. Two
history variables serve the properties only: `astray`, the packets folded into an entry the
table no longer holds, and `downs`, the teardowns with the latest sweep since.

**CaptureManager** - `capture/manager.go`. `Add`, `Packets`, `RemoveRow`/`RemoveCancel`/
`RemoveReturn` (the row goes under the lock, then the source is cancelled and closed, then
Remove waits for the forwarder, or for its timeout), `CloseCancel`/`CloseSources`/
`CloseReturn`, and the forwarder's select loop split at each channel operation: receive,
hold, send or give up on cancel, drain after an error, look once more for an error that
arrived with the end of the channel (`PendingErr`). `SamplerWake`/`Closes`/`Residue`/`Done`
are `sampleLoop` at shutdown. `Produce`, `SourceFails` and `SourceEnds` are the contract of
`capture.Source`, and `Consume`/`PipelineStops` the pipeline; these are the environment.
Channels hold counts per source, which also identifies whose drop counter moves. A history
variable, `late`, names the sources added once `m.out` was closed.

**Collector** - `capture/collector.go`, Run and serve. Each connection has a program counter
over serve's steps: accepted under the slot count, handshake, registration with the manager
under the sensor's name or the suffixed one, enlisting as a peer, waiting for the end of its
session or of the context, removal of the row by name, forgetting the peer. `row` is the
manager's map seen through Add and Remove only (CaptureManager models the manager itself).
`DeleteCapture` is the operator's DELETE, which removes whichever session holds the name.

**ModelActivation** - `registry/registry.go`, `api/models.go`, the role swap of
`inference/inference.go`, the start-up of `cmd/synapsed/main.go`. `Open` loads the file and
demotes what was active, `AuditReconciled` records it, `Register` is the sweep, `Handler(p)`
is a request at one of its four steps (registry under its lock, runtime under its lock,
audit of the model it replaced, audit of itself). `written` says whether the temporary file
and rename succeeded; `Persist` rolls back memory when they did not, as the code does.
`Crash` stops the daemon, between any two steps: memory goes, `disk` and `lastAudit` stay.
Two history variables serve the properties only. `lead` says of each role which request's
status change the live model has still to follow, and how the role stands when it has;
`line` says of each model which request has still to audit its newest change, or that
nobody will.

**AlertStore** - `alert/alert.go` with the parts of `policy.go`, `suppress.go` and
`severity.go` that decide. `Observe` is the pipeline's non-blocking send. `Call`,
`CallSends`, `CallGivesUp`, `CallReturns` are SetPolicy and PurgeBefore, whose send blocks
until there is room or the store is closed. The aggregator takes one item at a time:
`TakeVerdict` (threshold, suppression rule, dedup, ring), then `Publish`, outside the lock;
`TakePolicy` and `ResetHits`, the two assignments of a swap that readers can see between;
`TakePurge`; `Stop`. A verdict is (key, timestamp, score, flow); keys stand for source,
destination and class; policies are a threshold and a list of rules.

**EventStream** and **ReplayControl** - `events/events.go`, the pump of `api/api.go`,
`wshub/hub.go`, and `cmd/synapsed/replay.go` publishing on it. `Draw` and `Send` are the
two steps of `Publish`: the number is drawn and the event enters the pump's queue in
separate steps under a shared lock, so publishers overtake one another. `PumpTake`,
`PumpTick` and `PumpStop` are the pump's select; a full batch or a tick broadcasts,
`CloseVictim` closes the clients whose queue refused it. A client has a writer
(`Dequeue`, `WriteStart`, `WriteEnd` or `WriteFail` under the connection's write lock),
and a reader whose end unregisters it; a close needs the same write lock, so it waits for
a stuck write's deadline. The replay controller publishes under its mutex (`Start`, `Release`),
the run's end (`RunReturns`, then `Finish` outside the lock) and the progress ticker run
beside it.

**MemStore** and **FlowLog** - `storage/memstore.go`: the flow ring and the verdict ring
with `head` and `full`, the histories, the counters. Every operation is under the store's
lock, so an action. `PurgeBefore` re-lays a ring oldest first and filters the histories by
the survivors. FlowLog is the abstract store: a set of numbered versions, each listed in its
flow's history or not, with two operations, Put and Purge. `ImplementsLog`, stated in
Pipeline, is the refinement `INSTANCE FlowLog WITH log <- AbstractLog, ...`: eviction by
sequence number, trimming at the history cap and purging out of the middle amount to
dropping the log's oldest, unlisting a flow's oldest and filtering by time.

**Insight** - `insight/*.go`: `Observe` is the non-blocking send, `Apply` one observation
through every structure (host profiles both ways, key counters, matrix, timeline rings)
with their evictions, `Quit` and `CloseIndex` the end. A map walk whose order decides ties
is a set of possible results.

**Pipeline** - `pipeline/pipeline.go`. `TakePacket` and `TakeRecord` are the arms of the
select, `StoreRow`, `ScoreRow` and `Notify` the steps of `publish` between which others
run; `LeaveLoop`, `DrainRecord`, `DrainEnds` and `Flush` are the end. Beside it the
retention sweep, a model change (which changes whether windows are kept), the cancel, the
aggregator and the Close of the index. The flow table appears as what it may emit after a
packet: nothing, a closed flow, or a snapshot. Its first part is `pipeline/seqwindow.go`: a
ring of vectors per conversation, reset when the shape changes, and the prune at the cap,
which removes what is strictly older than the entry at three quarters.

**Scoring** - `score` of `inference/inference.go` as the four steps between which an
activation can fall: is a sequence model live, the supervised models, the sequence models,
the anomaly model. It runs over ModelActivation: every step of a request is `Elsewhere`.

**SensorSession** - `pcapoverip/protocol.go` (the negotiation comes first), `server.go`, `framewriter.go`, `aggregate.go` on the sensor, `pcapoverip_client.go`,
`pcapoverip_session.go`, `records.go` on the daemon, `connect.go` around it. The sensor is
its packet source, Aggregate (`loop`, `emit`, `flush`) in the record modes, serveConn's
select with the batching writer, and the reader of the daemon's frames. The daemon is the
read loop, the goroutine that says goodbye and closes on cancel, the blocking send to the
pipeline, and an operator's Close in its two steps. The network is a bounded byte stream
each way that can be reset, which loses a suffix. A stuck write ends by its deadline, a
silent peer by the read-idle timeout. Around a session (`ConnectSpec`) is the loop of a sensor behind NAT: dial, backoff
doubled up to the ceiling, session, again.

**LiveCapture** - `afpacket_linux.go`, `afpacket_ring_linux.go`, `bpf_freebsd.go`,
`livestream.go`. A source is its read loop, whoever polls its statistics, whoever closes
it. Below is the kernel: descriptor numbers that are given out again, a drop counter that
`PACKET_STATISTICS` resets and `BIOCGSTATS` does not, and ring blocks that belong to one
side at a time. A program is built for Linux or for FreeBSD, so its captures are of one
platform. What an AF_PACKET socket dropped is added up over the polls; what a BPF device
reports is its own only while its number is no other capture's. **Subprocess** - `subprocess.go` with `pcapstream.go`: the child writes a
script of good and bad items into a bounded pipe, may leave a grandchild that holds it,
and is killed with its group; `Packets`, `Spawn`, `Header`, `Record`, `Send`, `Verdict`,
`Reap` are the goroutine, `CloseSwap` and `CloseCancel` the two steps of Close.

**AuditLog**, **ReviewStore**, **DatasetManager**, **TrainingRuns**, **Curation** - the
packages of those names with the handlers that call them. A change is made under its
store's lock, its audit line is owed and written in a later step, which may fail, be torn
in the middle or lose its newline (a torn line swallows the next one, as `O_APPEND` has
it); a stop in between loses the line, and `lost` remembers which. A line carries the place
of its change in the history of its subject, so that `EveryChangeHasItsLine` can match
decisions, starts and ends of runs, cuts and deletes with lines one by one. A dataset is cut in two steps (`Cut` reads the stores, `Install` renames the staged
directory under the lock), a delete may stop half way, a restart reads the files back. Flow
ids start from one again after a restart, reviews do not: `HumanReviewIsHuman` is
about what that leaves true.

**Codec** and **Containers** - the wire formats and the file formats on *cells*: a cell is
a byte or a small number of bytes that a field occupies, lengths count cells, and a
conversion that loses or checks something (widths, byte orders, the address forms, float
bits, padding, block lengths) does so on cells. **Formats** writes a message, record,
file, chunk or block with the program's writer, damages one cell or cuts the result at
every place, and reads it with the program's reader.

**ReadViews** - one request of the read API at a time (`flow_snapshots.go`, explain in
`flows.go`, the filtered lists of `hosts.go` and `api.go`, `report.go`), from its first
read to its answer, over a store that goes on changing: each read is a step.

**Summaries** - the folds of `topology.go`, `drift.go`, `model_comparison.go`,
`review/queue.go`, `dataset/build.go` and `dataset/stats.go` as operators on exact
fractions, beside independent definitions of what they mean; the statistics cache, which
is keyed by content, is state.

**Reload** - `config.Load` as an overlay of the environment on the file on the defaults
with one verdict on the result, and `reload.go`: one pending signal, load, level, policy,
the list of sections that need a restart. The file may be edited between any two steps.

**Network** - `internal/nn` on shapes. `Compile` follows `compile` and `newTensor`,
`PlaceReady` is one pass of `topoOrder`, `ResolveSizes` the two inference rules for undeclared sizes,
`BuildLive` the families' checks (`modelrun.go`, `inference/onnx_*.go`), `RunNode`
one node of `Run` with the broadcasting and error rules of each op. Values matter in one
place only, the constant operand of a Reshape, and are kept there.

Interaction between modules that are not composed goes through the same interface on both
sides: FlowTable's records are what Pipeline stores (a flow's last-seen time
does not decrease, a terminal record is its last), Collector uses the manager's Add and
Remove as CaptureManager specifies them, the manager relies on the contract of
`capture.Source` that LiveCapture, Subprocess and SensorSession show for the
implementations (`SourcesLetGo`, `SessionsTurnOver`), AlertStore's purge and swap are the
calls of retention and reload.

## 4. Runs, bounds and what they show

Passing runs; states are distinct states found. Several properties are conjunctions of
named parts (in parentheses), so that a reader can check a part alone.

| Run | Instance | States | Properties |
|---|---|---|---|
| `flowtable` | `MCFlowTable`, `FlowTable.cfg` | 697 143 | ClosesOnce, PacketsAccounted, ExpiryResponsive, RecordsAreReal (NoPhantomFlow, SnapshotsCumulative) |
| `manager` | `MCCaptureManager`, `Manager.cfg` | 138 642 | PacketsConserved, NoSendOnClosed, RowsTellTheTruth, Settles (EveryPacketSettles, CloseReturns) |
| `collector` | `MCCollector`, `Collector.cfg` | 56 911 | PlacesAreReal (TypeOK, ServedBound, NoGhosts), PeersSettle (RowlessPeersLeave, RunReturns) |
| `models` | `MCModelActivation`, `Models.cfg` | 527 712 | OneActivePerRole, FileFollowsMemory, StatusAndTrailAreTrue (StatusMatchesRuntime, AuditTellsWhatIsActive), NeverAMix |
| `alert` | `MCAlertStore`, `Alert.cfg` | 737 333 | ListsAgree (TypeOK, IndexesAgree, ReadersSeeAll, FlowListSound), WindowsAnchored, CountsAgree (EverythingCounted, OneEventPerDetection), CallsReturn |
| `live` | `MCLive`, `Live.cfg` | 476 685 | NothingMissingUnsaid (EventsAccounted, NoSilentGap), ReplayStory (FinalCountStands, FinishFollowsStart), VictimsLeave |
| `curation` | `MCCuration`, `Curation.cfg` | 437 343 | TrailsTellWhatHappened (ReviewTrail, RunTrail, EveryChangeHasItsLine, AuditReadable), OperatorWorkStands (OnlyDeletesDamage, HumanReviewIsHuman), VersionsImmutable |
| `sensor` | `MCSensor`, `Sensor.cfg` | 120 969 | RecordsArriveOnce (TypeOK, InOrderOnce, RecordsCounted), EndsTellTheTruth (EndOfCaptureIsComplete, EndsAgree), SessionsTurnOver (SessionWindsDown, Reconnects) |
| `pipeline` | `MCPipeline`, `Pipeline.cfg` | 115 158 | StoreIsTheRecord (HistoryIsRingSuffix, OneFlowPerId, RecordsSettle), ViewsTellTheSame (ViewsAgree, TimelineExact), ImplementsLog, WindowsRemember, PipelineStops |
| `sources` | `MCSources`, `Sources.cfg` | 40 229 | FramesAreItsOwn (FramesInOrderOnce, DropsCountedOnce, OwnDescriptor), CleanEndIsComplete, SourcesLetGo (SourceLetsGo, ChildReaped) |
| `reading` | `MCReading`, `Reading.cfg` | 690 805 | FormatsReadBack, ReadsHoldTogether, FoldsAreFair, ReloadKeepsItsWord, NetworksRunAsDeclared |

The parts of the last line: FormatsReadBack (StreamStaysAligned, RecordsSurvive,
IdentitySurvives, ContainersReadBack, ReadersAgree), ReadsHoldTogether (PairedVerdicts,
ExplainIsTheVerdict, ListedFlowsMatch, ReportComplete), FoldsAreFair (LocationScopesAgree,
SuggestionMeansDrift, ComparisonIsFair, QueueIsFair, CutIsHonest, StatsReadBack),
ReloadKeepsItsWord (OneValidFile, AskedIsHeard, DivergenceWasReported),
NetworksRunAsDeclared (OrderResolves, ListingIsIrrelevant, ShapesHold, InferredSizeIsReal).

Why the bounds are enough to meet the interesting cases:

- **flowtable**: three keys against a cap of two, so eviction happens while other flows
  live; five packets, the fewest for a teardown, a trailing packet, a reopening and an
  eviction in one behaviour; one TCP key, because only TCP flags tear down. Steps of 3, 0
  and -2 against a grace window of 3, an idle timeout of 4, a lifetime of 7 and snapshots
  every 3 put packets on both sides of each limit, and time stands still and steps back, so
  that the flow just opened can be the oldest of a full table. `TickEvery` is 4 packets (512
  in the code), so that sweeps come from the count as well as from the clock. The two UDP
  keys are alike: the symmetry is sound, there is no liveness.
- **manager**: two sources, since isolation is about one and another; channels of one slot,
  so that every send can meet a full channel; one packet each; one source can fail and be
  removed by its row while the other runs, and be added at any time, also after the cancel
  and after `m.out` was closed (`Late`).
- **collector**: capacity one with a slack of one, three connections: one served, one in
  handshake, one refused. Two share the session suffix, and one of the daemon's own captures
  has the sensor's name until an operator deletes it, so that registration can fail under
  both names.
- **models**: two classifiers that compete for the primary role, a sequence and an anomaly
  model; two requests at a time, for any models, any write may fail, the daemon may stop anywhere.
  Two bundles are on disk in one behaviour (`Shelves`): two are enough for two requests to
  cross in a role, and each pair of roles meets in a score. A score remembers two swaps
  and begins when a request is about to swap (`AnyTime` is FALSE; a score that meets no swap
  reads one set). The two requests, and the two classifiers, are alike: the symmetry is
  sound, there is no liveness.
- **alert**: four verdicts in any timestamp order, on a key that three flows hit and one
  that a single flow hits, through a queue of one into a ring of two, with flow lists of at
  most two: a list repeats a flow and overflows, the ring wraps, is purged with holes, and
  wraps again; one administrative call, a swap or a purge, which meets a full queue and
  Close.
- **live**: queues of one and batches of two, so that a queue is full whenever one event is
  waiting. One behaviour has two publishers of four events and a client that connects,
  stalls and leaves, or two replays with their tickers; the two meet in the bus only, which both
  exercise.
- **curation**: two requests at a time, two flows, two classes, one dataset with two
  versions, one run with a history of two, one restart, one failing append. A behaviour is
  about training and failing appends, or reviews and one cut, or cuts, derivations and
  deletes: the kinds share the audit log and the restarts only. `VIEW` leaves out the order
  of the lines already written in the latter two, where no append fails, and keeps which they
  are; a request that is cutting does nothing else until it has answered; operators
  and classes are interchangeable, and the one action property is about a single step.
- **sensor**: three packets, one of which does not decode; a channel of one everywhere, a
  buffer and a batch of two, two frames in the sockets. Every kind of disturbance (source
  error, SIGTERM, reset, slow peer, silent peer, idle timeout, operator's Close, pipeline's
  cancel) meets a session of each mode, one kind at a time; hellos of this daemon against
  every configuration, and hellos of versions 0 to 3 against each other.
- **pipeline**: rings of three, histories of two, an index of four hosts, two keys, two
  pairs, rings of two, windows for four conversations. `Mixed` orders three records of all
  conversations in and against time, `Crowded` sends six through everything bounded, `Tied`
  opens five windows at one moment, where four fit, hears four of them again and then a sixth, `Beside` runs packets and records while something else goes on.
- **sources**: two Recvfrom sources one after the other with a descriptor number that is
  given out again (the manager's polls meet both), a BPF device, a ring of two blocks of
  two frames; four streams of a child, with a grandchild or without, that may never end.
- **reading**: five machines that do not meet. Formats: both byte orders, every mode,
  versions on both sides of the limit, strings below, at and above their caps, absent and
  full payloads, both suffixes of a session id, unknown blocks and too many interfaces, the four forms of an address; every cut, and every cell replaced by six values. Views: a flow with two snapshots
  and, one packet later, a terminal record of the second one's last-seen time; two such versions
  as the oldest of a full ring, so that the one leaves before the other; filters that look at
  two rows (5000 in the code) of rings of three; a purge between any two reads. Folds:
  every fleet of three out of seven sensors, every window of two out of four rows, scans of
  two rows, queues of five, columns with a value on an inner edge of their histogram. Reload: two edits, two signals, a restart. Networks: every pair
  and many triples of 21 kinds of node, declared and undeclared shapes, and the malformed ones.

`CHECK_DEADLOCK FALSE` is set where the system may rest: after capture end, after
shutdown, after the answer, when the bounded calls are used up. `models` checks deadlock.
Where a stop would be a fault, a liveness property says so (Settles, PeersSettle,
CallsReturn, VictimsLeave, SessionsTurnOver, PipelineStops, SourcesLetGo).

What the less obvious properties say:

- *PacketsAccounted* (flow table) and *PacketsConserved* (manager) are the two halves of
  "no packet is lost uncounted": the manager accounts for a packet until the pipeline has
  it, the table from there to a record.
- *ClosesOnce*, *PacketsAccounted* hold for packets in any order of time, because they name
  what a full table does with a packet that is no later than any flow in it: the flow it opens
  may be evicted at birth, its record has no packet, and a RST closes it once more. Nothing
  else is lost or closed twice.
- *NoPhantomFlow*: within the grace window, what trails a torn-down flow does not open the
  key's next flow, unless a SYN does or a sweep was stamped past the window in between; a flow
  so opened under that key is the key's flow from then on.
- *ExpiryResponsive*: sweeps are paced by packets and by capture time together; on a slow
  link a flow still outlives its timers by less than a tick interval.
- *RowsTellTheTruth*: a source that fails and closes its channel at the same moment shows
  "error", whichever of the two the forwarder's select picked first.
- *NoGhosts*, *RowlessPeersLeave*: what an operator sees in the captures and the sensors
  lists ends with the connection, whatever the order of deletes and reconnects.
- *NeverAMix*: a score during which one role changes hands is the answer of the set before
  or of the set after, although the roles are read one by one.
- *WindowsAnchored* (alerts): a dedup window starts at the first verdict and never slides,
  also when verdicts come out of timestamp order.
- *NoSilentGap*: a client that misses a broadcast receives nothing after it.
- *OnlyDeletesDamage*: whatever requests race, fail half way or are cut off by a stop, a
  version nobody ran a delete on is listed and whole, and the next number is free unless a
  broken delete left something there.
- *EndOfCaptureIsComplete*: a daemon that is told "end of capture" has everything that was
  sent, whatever was cancelled, reset or full. It has the whole capture unless the source's
  error, or the session's cancel, lay ready beside the closed channel and the select took
  the close: that case is in the run, and without the exception (`FailurePassedBy`) TLC
  refutes the formula. The other way there is no exception: "source error" means an error.
- *PairedVerdicts*, *ExplainIsTheVerdict*: two versions of a flow may have one last-seen time
  and different counters. The verdict shown beside a version is its own as long as the first
  version of that time and its verdict are both retained; the record explained is the verdict's
  own, or said not to be, unless versions tie and one of them came while the request was
  answered. Without either exception TLC refutes the property.
- *ListedFlowsMatch*: a filtered list has every match among the newest rows it looks at; that
  it has every match in the store is refuted.
- *StatsReadBack*: a value on an inner edge of a histogram belongs to the lower bucket; with
  the half-open buckets of the comment TLC refutes the property.
- *HistoryIsRingSuffix*: looking up a flow by id and the flow list never contradict one
  another.
- *ViewsAgree*, *TimelineExact*: the index, fed by a lossy queue and pruned on its own,
  says what a scan of the stored verdicts says - exactly for what was never evicted or dropped.
- *WindowsRemember*: a window is the last vectors of its conversation since it was last
  dropped; what is dropped was idle for longer than everything that stays, is counted, and
  leaves the table at three quarters of its cap or more; and the table passes its cap only
  when more than a quarter of the cap is idle for equally long.
- *StreamStaysAligned*: an answer leaves the stream at the first frame, whatever versions
  the two ends have, and a session that is cut gives the frames before the cut.
- *ContainersReadBack*: every whole input is read back; a cut one gives the frames before the
  cut, and a cut inside a frame is no clean end; of a damaged one only the frames before the
  damage are promised, since a length that was changed gives whatever bytes stand there. The
  files hold unknown blocks of either kind (a type below and one above 2^24) and, in one
  of them, an interface more than the reader takes.
- *ReportComplete*, *ListedFlowsMatch*: an answer that was put together from several reads
  contains nothing that does not meet its filter and says so when something is missing.
- *ReloadKeepsItsWord*: what runs between reloads is one configuration the file validly
  stood for; when the daemon comes to rest after a signal it is the file's; what is named as
  needing a restart is what differs.
- *ListingIsIrrelevant*: a graph compiles in one order of its nodes exactly when it compiles
  in any other.

One run expects a violation, `reload_table` (`MCReading`, `Reload_table.cfg`), of
`TableReplacesDefault`: see section 7.

## 5. Fairness

Fairness is assumed of the programs' goroutines only: the Go scheduler runs a goroutine
that can run, a timer expires, a killed process dies. Nothing is assumed of operators,
sources, peers or the network, except where said.

- **CaptureManager**: weak fairness of forwarders, sampler, Close, Remove and the
  pipeline's reads; strong fairness of `FwdSend(s)`, because a forwarder blocked on a full
  `m.out` is enabled only when the pipeline has just read, and Go serves blocked senders
  first in, first out. A source that was cancelled, closed or failed closes its channel
  (the contract of `capture.Source`).
- **Collector**: weak fairness of each serve goroutine, the listener's closing and Run's
  return; a session ends if it was stopped or the context is cancelled, a handshake by its
  deadline.
- **AlertStore**: weak fairness of the aggregator and of callers; strong fairness of
  `CallSends` for the same reason as above, as the pipeline competes for the queue.
- **EventStream**: weak fairness of the pump, of publishers and of a write's end (its
  deadline); strong fairness of whoever waits for a connection's write lock (a writer, the
  pump closing a victim, the leaving writer), since the lock is freed and taken again between: `sync.Mutex`
  hands over to the longest waiter after a millisecond.
- **SensorSession**: weak fairness of the loops of both ends and of the
  pipeline's reads; a read on a closed or reset connection returns. Nothing makes the
  source end or the network fail. For Reconnects the collector can be reached again and again:
  strong fairness of `Dial`.
- **Pipeline**: weak fairness of the pipeline, the aggregator and the closing of the index.
- **LiveCapture**, **Subprocess**: weak fairness of the read goroutine, of Close's second
  step, of the kill and of `WaitDelay`. Nobody needs to read the channel. A child runs to
  its end only in an instance that says so (`Forever = FALSE`); the run has the other.

The other specifications state no liveness and need none: their steps are single requests.

## 6. Theorems

TLC checks the instances of section 4. The following hold for every value of the constants
that satisfies the named assumptions of the modules, for any number of flows, sources,
sensors, models, requests, clients, replays and records. The assumptions say what kind of
thing a constant is (sets of keys, captures and connections are finite, capacities and block
counts are positive) and, where the code knows more, that: no configuration file is without a
path (`FileAssumption`), the command line overrides only `--listen` (`FlagsAssumption` of
Reload), the replay controller and the data plane publish as different goroutines
(`ReplayAssumption`), sensors' records are numbered in the order they arrive
(`SetupsAssumption`), a daemon that takes no records says hello as this build does
(`SensorSessionAssumption`), a number that stands for "no descriptor" is not a descriptor
(`CaptureAssumption`). TLC evaluates them in every run.

All follow one scheme: an inductive invariant implies the property, holds initially and is
preserved by every action, one lemma per action or group of actions. The invariants are
named below.

**FlowTableProofs**

- `FlowTableTypeCorrect`: `Spec => []TypeOK`, for any timestamps, ties and steps back
  included.
- `FlowsCloseOnce`, `EveryPacketAccounted`, `EmittedRecordsAreReal`: `Spec => []ClosesOnce`,
  `[]PacketsAccounted`, `[]RecordsAreReal`, with no premise on timestamps. The invariant is
  `TableInv`: TypeOK and `Consistent`, which speaks of a table, the number of packets seen,
  what is gone, what went astray and the teardowns, so that it can be stated in the middle of
  a Deliver too. `Books` attaches ids to flows and closing records, `Accounts` packets to
  flows, `Lost` the packets astray to the flows evicted at birth; `Versions` numbers the
  records of a flow; `Quiet` says what the teardown memory rules out; `Outlived` that what was
  evicted leaves something no older. Every operation is the opening of one flow, the folding
  of one packet, a snapshot, the closing of a set of flows with one record each, or the
  opening in vain of a flow evicted at once (`Bears`), and each keeps Consistent.
- `ExpiryStaysResponsive`: `[]ExpiryResponsive`, whatever the timestamps. `PacedInv`: at the
  last time the pacer let the table sweep every live flow was within its timers (`Fresh`),
  and the clock is less than a tick interval from then.

**CaptureManagerProofs**

- `ManagerTypeCorrect`: type correctness.
- `NoSilentLoss`: `Spec => []PacketsConserved`. Inductive with `ForwardersStarted` (a
  forwarder exists only for a source that was added and after Packets was called): without
  it a source's first forwarder could start "holding" a packet that nobody produced.
- `ClosedAfterForwarders`: `Spec => []NoSendOnClosed`, whichever sources are added after the
  cancel. The strengthening `ClosedLast` says that the sampler leaves its loop only after
  the context is cancelled, that a closed `m.out` leaves the forwarders of late sources
  only, and that a panic is one of these at its send (*Late Add* in section 7).
- `DropsAlwaysAddUp`: `Spec => []DropsAddUp`, the lifetime counter against the sums over the
  sources. No run checks it: it supports what the manager reports of the rest. A sum over a
  finite set is shown to take one element out at a time by a least counterexample.
- `RowsAlwaysTrue`: `Spec => []RowsTellTheTruth`. Strengthened by `RegisteredOnce` (a
  source is under one name at most and is not registered again once Remove took it) and
  `EndedIsClosed` (a forwarder that saw the end saw a closed channel, hence no later error).

- `CapturesReadTheirOwn`: `CaptureSpec => []FramesAreItsOwn`, for any number of captures, of
  descriptor numbers and of ring blocks of any size. `CaptureInv` is types and three parts.
  `LinesOk`: for a capture that reads, what the reader has, what its channel and its hand hold
  and what lies in its buffer or ring are the *places* of one line on which every frame stands
  once, in order. For a ring, the places behind the reader's cursor are its blocks in ring order:
  so many of the program's, then the one the kernel fills, then empty ones; handing a
  block back, filling one and closing one move the borders of this picture and nothing else.
  `DescriptorsOk`: a number names the capture that opened it last, until it lets it go. `CountsOk`: the
  sums of what was read, what is still to be read and what was retired with a capture give
  the kernel's drops, each once; an AF_PACKET counter is emptied by the poll that reads it, a
  BPF device's is not, and is believed only while its number is no other's (*Stale
  descriptor* in section 7 is about the rest).

**ModelActivationProofs**

- `ModelsTypeCorrect`, `OneActiveAlways`, `FileAlwaysFollows`: for any overlap of requests,
  any failed write and a stop anywhere. The inductive invariant is the conjunction of the
  three: OneActivePerRole of the file after `Open` follows from that of memory only through
  FileFollowsMemory.
- `StatusAndTrailAlwaysTrue`: `Spec => []StatusAndTrailAreTrue`, with no premise: requests
  overlap, deactivate what is idle, and are cut by a stop. `TrailInv` adds to the above what a
  start still has to do (`Starting`) and, for a serving daemon, a part for each role and one
  for each model: the request that leads a role is about to swap what the registry has
  already (`Follows`), and the request that owes a model's line has its own model or the
  one it replaced in hand, with the status its line will tell (`Comes`). A status change by
  another request takes the lead, and the line, over; that is why overlap breaks neither.
- `ScoresNeverMix`: `ScoringSpec => []NeverAMix`, however activations and scores interleave.
  `ScoreInv` says at each of the score's steps which models may have spoken: of one change of the
  runtime since it began, in each role, what was live before or after (`Seen`).

**AlertStoreProofs**

- `ListsAlwaysAgree`, `WindowsAlwaysAnchored`, `CountsAlwaysAgree`: `[]ListsAgree`,
  `[]WindowsAnchored`, `[]CountsAgree`, without premises. `AlertInv` is `RingInv` (the slots
  a reader walks from the oldest on, purge's holes included, are the detections of the two
  maps, each once, with its flow list and its anchor), `QueueTypes`, `Tallies` (how counters,
  queue and ring add up) and `Announced` (one event per detection, the one in hand excepted).
  The step that matters is an insertion into a ring that has wrapped after a purge.

**ServiceProofs** (Collector, Reload, Curation with the stores it extends)

- `PlacesAlwaysReal`: `Spec => []PlacesAreReal`, with no premise on names or deletes.
  `PlacesInv` relates each connection's place in `serve` to the row and the peer entry it may
  own (`Places`, over `NamesKnown`), and counts the served ones (`ServedBound`): only accept
  adds to the set, below the bound.
- `ReloadAlwaysKeepsItsWord`: `ReloadSpec => []ReloadKeepsItsWord`. `ReloadInv`: what is in
  force stood in the file as a valid whole (`InForce`, `Stood`), a signal that was not yet
  answered is pending or being answered (`Heard`), and what differs from what runs was named
  (`Diverged`).
- `TrailsAlwaysTell`: `CurationSpec => []TrailsTellWhatHappened`. `LogInv` bounds what broken
  appends can cost: a fragment at the end of the file owes up to two lines (`Owing`), to be
  paid by the next append. `ReviewInv`: a review is what its decisions made it, and its
  prediction is the verdict of the first. `RunInv`: a run's history is the newest of its
  reports, in order, and its terminal status is the last (`Told`). `LinesInv`: a line is in one
  place (`LinesOnce`), and what has a line is exactly what was accepted, because the change
  and its line carry the same place in the history of their subject; for deletes that needs
  `Deleted`, which dates a delete by the cuts before it.
- `OperatorWorkAlwaysStands`: `CurationSpec => []OperatorWorkStands`. `VersionsInv`: as long as
  nobody ran a delete on a version, index, directory and the last cut of that number
  agree; `RowsInv`: a row that a cut took as labelled by a human, installed already or not, has
  its decision (`Vouched`), which stays as decisions are only added.
- `VersionsAreImmutable`: `CurationSpec => VersionsImmutable`, an action property, from the same
  invariant.

**LiveProofs** (EventStream and ReplayControl)

- `NothingEverMissingUnsaid`: `[]NothingMissingUnsaid` for any publishers, clients, queue
  sizes and batch sizes. EventsAccounted needs that a number is at one place (`BusInv`).
  NoSilentGap needs more than it says: `GapInv` states per client that what it was written, has
  in hand and has queued is a run of the broadcasts since it joined. Batching is what makes
  it hard: a broadcast carries several events, and two ways of cutting one stream into
  batches must be told from two streams (`SameStream`, `StreamCut`).
- `EveryReplayTellsItsStory`: `[]ReplayStory`. `StoryInv`: the controller's mutex orders the
  starts and the status writes (`CtlInv`), and the end of a replay is drawn only after
  its start was sent.

**SourcesProofs** (SensorSession and Subprocess)

- `RecordsAlwaysArriveOnce`, `EndsAlwaysTellTheTruth`: `ConnectSpec => []RecordsArriveOnce` and
  `[]EndsTellTheTruth`, for any capture, mode, capacity and disturbance. What was sent is a
  numbered list, and everything between the two ends is a walk along it: the daemon has read
  the first a frames (`Handed`), the wire goes on from a to b, and while nothing was lost the
  writer's buffer goes on from b to what it took (`Links`). A reset cuts the walk,
  after which nothing more arrives. `AggregateInv` says where each decoded packet
  is (in a flow, in hand, encoded), `EocInv` that an "end of capture" anywhere means that
  everything is before it. Beside it, `ReasonInv` says that an error is kept where it was
  found, that only an error or a cancel ends a source early, and that a goodbye which blames
  the source has such an error behind it.
- `CleanEndsAreComplete`: `SubSpec => []CleanEndIsComplete`. `NothingLost`: the pipe is a walk
  from the last record received to the last one written, until the decoder fails.

**StoreProofs** (Pipeline over MemStore and FlowLog)

- `RecordIsKept`: `Spec => []RecordInv`. The rows stored and the rows on their way are one
  stream (`Stream`), in which a flow's times rise and nothing follows its terminal row
  (`FlowsApart`); ring, histories and counters are in order and in step
  (`RingAndHistories`); verdicts follow their rows (`VerdictsFollow`), and a sensor's record
  is a row at most once (`RecordsOnce`). The histories stay in step under a purge out of the
  middle only because of the rising times: a purge takes the older versions of a flow first.
- `StoreIsAlwaysTheRecord`: `[]StoreIsTheRecord`. A history holds, with a version, every
  later one of its flow, which makes it a suffix.
- `WindowsAlwaysRemember`: `Spec => WindowsRemember`, an action property. A window is a ring
  whose slots from its cursor on are the newest vectors (`WindowTable`, `Contents`); what a
  prune drops is what lies before the element of rank three quarters, which a least-number
  argument over the finite table supplies.
- `StoreImplementsLog`: `Spec => ImplementsLog`, the refinement. `StoreRow` is a Put, `Sweep`
  a Purge or a stutter, every other step of the pipeline, the index and the environment a
  stutter; the step lemmas need RecordInv.

No run repeats the type theorems, `DropsAlwaysAddUp` and `RecordIsKept`; they support the others.

The provers take no induction over an operator. Where a proof needs one over a number or a
finite set (sums, ranks, positions in a ring) it is put as a least counterexample, from the
well-foundedness of the naturals, which is first-order.

Only model-checked:

- Settles, PeersSettle, CallsReturn, VictimsLeave, SessionsTurnOver, PipelineStops and
  SourcesLetGo: no liveness under fairness is proved here, the provers do not handle ENABLED.
- FormatsReadBack, FoldsAreFair, NetworksRunAsDeclared: Containers and Network declare
  recursive operators, and what a decoder or a fold computes for every input is an
  induction over data.
- ViewsTellTheSame, ReadsHoldTogether: within reach, see section 9.

## 7. Where the code and its words disagree

With a run whose counterexample TLC prints:

- **A table of thresholds** (`reload_table`, `config/config.go:425`). `Load` decodes the
  file into the value of `Default()`, whose table of thresholds by class is a non-nil map;
  `encoding/json` keeps the entries of a map it decodes into. A file with `{"scan": 0.9}`
  leaves `suspicious` at 0.85. Comment at :254 and the annotated configuration: a table in
  the file "REPLACES the default map rather than merging into it". The test names
  `suspicious` too, so the merge does not show.

Without a run of their own. Where a constant or property is named, TLC finds the
counterexample once the cfg is changed to it; the others need only the module's actions in
the order described. First those that lose or misattribute something:

- **Eviction on a tie** (`flow/table.go:91`, run `flowtable`). With a full table and a packet
  whose timestamp is no later than the others' last-seen time, the flow just opened may be the
  victim (strict comparison over Go's map order); its packet is folded into an entry the table
  no longer holds. :73 says that Observe "folds one packet into its flow". PacketsAccounted
  names such packets (`astray`); without that clause TLC refutes it.
- **Time going back** (`flow/table.go:155`, :257, `flow/pacer.go:48`, run `flowtable`). A flow
  evicted at birth gets a second closing record if its packet is a RST (`ClosedTwice`). A sweep
  at a later time than the next packet's purges `recentDown` early, and a trailing packet then
  opens a flow (the last clause of NoPhantomFlow). Due re-seeds its clock on a packet from the
  past.
- **A reopened connection's tail** (`flow/table.go:86`). `docs/architecture.md:192` has a torn-down key
  held for `graceWindow = 3s`. A SYN on it erases the teardown; if the
  flow so opened is evicted or times out within the window, a later trailing packet of that
  key does open a flow.
- **Late Add** (`capture/manager.go:177`, run `manager`). Add starts a forwarder when the
  manager was started, also once its context is cancelled; the sampler may already have
  closed `m.out`, and the send panics. Comment at :365. NoSendOnClosed names these sources
  (`late`); without them TLC refutes it.
- **Somebody else's row** (`capture/collector.go:410`). The row is removed by name; after a
  delete and a reconnect the name is another connection's. And between that removal and
  the peer's (:412) a reconnected sensor may lose its own peer entry: it streams, unlisted.
- **max_sensors** (`capture/collector.go:255`; ADR 0018, line 152). Capacity is compared
  when a connection is accepted, registration comes later: more than `max_sensors` can
  register, up to the handshake slack of 16; ServedBound is the bound that holds.
- **Idle deactivation** (`api/models.go:288`, run `models`). The runtime's role is reset even
  when the model was not the active one, which stays active in the registry. Comment: "a
  legal no-op". StatusMatchesRuntime names the case (`"idle"`).
- **Crossed activations** (`api/models.go:232`, run `models`). Registry and runtime are
  updated under separate locks, in an order another request can invert (`"crossed"`), the
  audit lines too; a model demoted by a request that had looked up another (:225, :239) gets
  no line (`"lost"`). registry.go:192 has the status "always" reflect the Runtime, models.go:236
  the log give "the right answer". Two activations during one score give a mix.
- **A stop before the audit line** (`cmd/synapsed/main.go:166`, run `models`). An activation
  taken back, or a deactivation, can be in the registry and its file but not in the log
  (`"lost"`), until the model's next change. For each of the three marks TLC refutes
  StatusAndTrailAreTrue once the mark is read as agreement.
- **Reload under a reader** (`alert/alert.go:394`). The policy and its hit counters are
  assigned without the lock Stats reads them under.
- **Observe after Close** (`alert/alert.go:303`; `insight/insight.go:219`, CountedAfterClose).
  What is queued after Close stays there, neither observed nor dropped; the index's comment
  says it "is a counted drop". What the index held at Close is lost uncounted too.
- **Reviews of another flow** (`review/review.go:471`, HumanLabelsAreForTheirFlow). Flow ids
  start from one after a restart, reviews do not: a new flow inherits an old decision, and
  a dataset its label. `dataset/reviewed.go:20`: the label "genuinely came from a human".
- **Audit lines** (`audit/read.go:81`, `api/datasets.go:252`, run `curation`). A torn append
  makes the next line unreadable with it. A stop between a change and its append leaves the
  change without a line (`lost` in EveryChangeHasItsLine; with `lost` left out of `Lines`, TLC
  refutes it). A racing delete may log another manifest's hash.
- **Interrupted delete** (`dataset/dataset.go:409`). The number of a version whose
  directory was removed half way is refused forever once a restart forgot it; the number
  of the highest version is given out again after its delete.
- **Statistics of another version** (`dataset/stats.go:243`, StatsNameTheirVersion). The
  cache is keyed by content: of two versions with the same rows the second is shown under
  the first one's reference.
- **Edges of a histogram** (`dataset/stats.go:425`, run `reading`). The comment at :420 has
  "half-open buckets [edges[i], edges[i+1])"; `SearchFloat64s(edges, v) - 1` puts a value that
  lies on an inner edge into the bucket below it. The comment holds for the minimum, the maximum and every value between edges.
- **Filters look at 5000 rows** (`api/hosts.go:27`, `api/api.go:498`, run `reading`). The store
  keeps up to 50 000 versions (`max_flows`, `config/config.go:343`); a filtered list of flows or verdicts
  looks at the newest 5000, and its answer does not say so.
- **Malformed stream** (`capture/subprocess.go:119`, MalformedReported). The decoder stops at a
  malformed stream, and `cmd.Wait` then waits for a child that nobody stops: one that goes on
  writing blocks on the full pipe, and the source neither ends nor reports the error :52
  promises until it is closed.
- **Stale descriptor** (`capture/afpacket_linux.go:338`, DropsAreItsOwn). Stats reads the
  descriptor's number, the read loop closes it, the next source is given it: the old
  source's poll takes the new one's drops. The BPF source counts them twice. Drops since
  the last poll are lost when a streamer's capture is untracked after its close.
- **Suggestion on an empty window** (`api/drift.go:183`, NoSuggestionWithoutState; ADR
  0038:45). With a baseline and no flow in the window the state is "no_baseline", yet there is a
  suggestion, computed from means of zero; the ADR has it absent in that state.
- **Sections nobody reports** (`cmd/synapsed/reload.go:17`, EverythingElseIsReported). A
  change of `auth` or `drift` is neither applied nor named as needing a restart. A second
  SIGHUP no longer names what the first did; flags make the first reload name sections the file
  did not change; a SIGHUP before `watch` listens ends the process.

Then statements that are true most of the time only:

- *Reading*: `flow_snapshots.go` calls a flow complete when the ring evicted its snapshots
  but kept its last record, and "not retained" what was not yet classified. `table.go:202`
  advances the last-seen time on later packets only, while the counters always grow: of two
  versions with one last-seen time the later is shown with the earlier's verdict once the earlier
  has left the ring and its verdict has not, or the other way round; explain may show the counters
  of the one beside the verdict of the other if they come while it reads. Explain says "no longer retained" of
  a version newer than the history it read. A report's Partial ignores what retention
  expired; its timeline may lag and a row's record is the newest version, not the scored
  one; its description leaves out the sensor scope. A time-filtered matrix has no verdicts.
  A list filtered by class joins every version to the newest verdict.
- *Index*: `matrix.go`'s "a false Partial" is untrue when observations were dropped; a key
  counter counts deletions twice; caps below four never evict; TimelineLate is the sum
  of three rings; the sequence windows exceed their cap when all last-seen times are equal.
- *Events*: `docs/architecture.md:97` has numbers rise for each subscriber: two publishers
  can enqueue in the opposite order. `ws.go:5` has no client delay another: the pump waits
  for the write lock of a client it closes.
- *Reviews*: two Puts may be announced in the opposite order of their effect.
- *Sensors*: a source's error may overtake packets that are still queued; where the source's
  error, or a cancel, is ready together with the closed channel, the select may take the
  close and the drain does (server.go:281-291, 354-364): the sensor then says "end of
  capture" of a capture cut short, and the daemon cannot tell; a collector that declines after TLS is redialled
  at the lowest delay forever; a session is ended by back pressure longer than the write
  timeout; flows open when the link breaks are not sent; a sensor that reports
  "unassigned" as its location joins those without one.
- *Formats*: a cut inside a classic record header, or between a frame's header and its
  payload, is a clean end; a simple packet block may hand out its padding; the session id
  of an unnamed sensor reads as a sensor's.
- *Networks*: with a name defined twice the result depends on the listing; the second
  output of a node satisfies the order and is never computed; a graph that loads may
  fail on every input, and the model then abstains with the class "normal".

## 8. What is not modelled

- *Numbers*: features, normalisers, the arithmetic of networks and explanations, severity,
  PCA and its Jacobi solver, logarithmic histogram edges, report scores. They have no
  control worth enumerating; unit tests and golden files cover them.
- *Byte decoders without state*: packet headers (Ethernet to TCP), ONNX protobuf, model
  bundles and their hashes, TLS, RFC 6455, YAML, Prometheus text. What follows from their
  verdict is modelled where it changes state.
- *Rendering*: HTML reports, JSON shapes, metrics, log lines.
- *Decisions made once*: authorisation (a table from route and token, stateless after
  start), capture wiring, flag parsing, certificates, BPF filters, promiscuous mode, ioctls.
- *Programs around the daemon*: the CLI, the Python trainer, the web UI, the diagnostics
  command, the OPNsense plugin, service files.
- Within modelled components: rate sampling and status getters of the manager; the lineage
  view and run-time imports of the registry; disabled policies, disagreement alerts and the
  Sync barrier of the alert store (used by tests only); search and sort of the index's
  listings; protocol counts and fingerprints of hosts; log-time filters of the audit
  log; keepalives of the dialled source; replay pacing (an arbitrary delay).

## 9. Plan

What could be proved next: ReadsHoldTogether, from the ring facts of StoreProofs put on the
reader's side (what a scan shows is the newest of what was put, but for what a sweep took);
ViewsTellTheSame, with the index's maps against the stored verdicts; FormatsReadBack, once
the readers are folds instead of recursive operators.

And models: Collector over CaptureManager with shared rows; Pipeline over FlowTable in
place of what the table may emit; the writing handlers of sensors and captures with their
audit lines in Curation.
