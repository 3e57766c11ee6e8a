# A TLA+ model of JTIMON

JTIMON collects streaming telemetry from network devices (Juniper OpenConfig, gNMI,
Cisco IOS-XR) over gRPC and passes it on to InfluxDB, Prometheus and Kafka.  This
directory models its goroutines and what they do to the data, checks them with TLC on
small instances and proves most of its safety properties with TLAPS for any instance.
`PROJECT.json` maps every definition to the lines it translates.

## 1. Inventory

| Part | Source | State | Operations | Talks to |
|---|---|---|---|---|
| Supervisor | `main.go`, `workers.go:34-208` | `ws.m`, `ws.wg`, `sigchan`, `statusChan` | AddWorkers, StartWorkers, Wait, signalHandler, handleConfigChanges, maxRunHandler | every worker: `signalch`, `statusChan` |
| Worker | `workers.go:211-368` | its `JCtx`, its select | SIGHUP, SIGINT, SIGCONT, statusch | supervisor; session: `jctx.control`, `statusch` |
| Session | `workers.go:370-815`, `multi_vendor.go` | `tryGnmi`, `tryPrePostGnmi`, vendor, host | getVendor, dial, login, subscribe, the switch on SubErrorCode; workTunnel | the device; the worker |
| Subscriptions | `subscribe_gnmi.go`, `subscribe_juniper_junos.go`, `subscribe_cisco_iosxr.go` | `rsp`, `receivedSyncRsp`, `datach` | Recv, per-packet goroutines, gnmiHandleResponse | sinks |
| Configuration | `config.go` | `jctx.config` | ConfigRead, HandleConfigChange | read by everyone, without a lock |
| Dial-out terminator | `dialout.go` | `s.devices`, `rpcInfoT` (`cfgChannel`, `config`), id space | consumePartition, populateAllConfig, DialOutSubscriber | Kafka, devices |
| InfluxDB sink | `influx.go` | `batchWMCh`, `batchWCh`, `accumulatorCh` | addIDB (rows, points), dbBatchWrite, dbBatchWriteM, pointAcculumator | InfluxDB |
| Prometheus exporter | `prometheus_exporter.go`, `subscribe_gnmi.go:30-99` | `exporter.m`, the labels of samples | addPrometheus, publishToPrometheus, processJTIMONMetric, Collect | packet goroutines: `exporter.ch`; scrapes |
| gNMI parsing | `gnmi_utils.go`, `alias.go` | the maps `kvpairs`, `xpaths`, `jXpaths` of a notification | xPathsTognmiSubscription, gnmiParseUpdates, gnmiParseDeletes, gnmiParseHeader | the handler and the goroutine of Prometheus share the maps |
| IOS-XR messages | `subscribe_cisco_iosxr.go` | schema, tags of the walk | subscribeXR, handleOnePath, walk | accumulator |
| Kafka publisher | `kafka-publish.go`, `workers.go:216-343` | the producer inside `jctx.config` | KafkaInit, addKafka, the publications of dial-out workers | Kafka |
| Kafka data consumer | `kafka_consumer.go` | `dbHandles`, one `JCtx` per database | Setup, ConsumeClaim per partition | Kafka, InfluxDB |
| Statistics and logs | `statshandler.go`, `logs.go`, `internal_jtimon.go` | four files and their loggers, `totalIn` | logInit, logStop, jLog, HandleRPC, periodicStats | worker (reload, end), packet goroutines |
| Simulator | `jtisim/` | the interface list, one channel per RPC | TelemetrySubscribe, Subscribe, streamInterfaces, gnmiStreamInterfaces | JTIMON, as a device |
| Generated code, `lpserver`, test helpers | see `PROJECT.json` | - | - | - |

What makes it hard: goroutines that hand signals along a chain of unbuffered channels
(signalHandler → worker → session) while the far end may be leaving; a configuration
that is replaced under its readers; subscriptions that outlive their connection; a
WaitGroup that is added to while it is waited for; a variable shared by per-packet
goroutines; a configuration that is both sent on a channel and stored; batches that are
cut at a limit; maps that one goroutine still changes while another ranges over them;
loggers and producers that live in the configuration a reload replaces; loops that carry
tags, rows and keys over from one item to the next.  `PROJECT.json` lists these as hazards, each at its line.

What makes each part correct:

* supervisor: the WaitGroup counts the running workers, the map names the reachable
  ones, a late status names the worker that posted it, SIGINT and `--max-run` end the
  program, SIGHUP reaches everyone;
* session: a stream runs what the configuration in force says, a signal that was handed
  over is taken, nothing runs for a device that was removed;
* subscriptions: each update once and in order, the initial sync is ignored, ONCE ends;
* dial-out: a device that dials back is served, with the latest configuration;
* InfluxDB: each point once, in order, none stuck, and each leaf in a point of its own
  keys;
* Prometheus: one sample per series in a scrape, none older than two minutes;
* parsing: the subscription is the one configured, and a notification or message keeps
  every leaf with its keys;
* Kafka: what a terminator publishes is the configuration it has, and a consumer handles a
  response with its own device's;
* logs: no file is leaked, none is used after it was closed;
* simulator: a sensor's packets are complete and in order.

## 2. Modules

| Module | Models |
|---|---|
| `Workers` | supervisor, worker goroutines and, coarsely, their sessions |
| `Fleet` | what the supervisor promises: workers start and finish once, a normal exit leaves none running |
| `Session` | one device in detail: worker goroutine, `work`, the subscriptions' select |
| `GnmiStream` | the connections of one gNMI subscription and the handling of responses |
| `DialOut` | the terminator and one device: topic, consumer, handlers |
| `Influx` | the senders and the batch writer of one device |
| `Accumulator` | the merging of IOS-XR metrics at every tick |
| `Rows` | the rows and points addIDB makes of one OpenConfig packet |
| `PromExporter` | the exporter's map, its expiry, scrapes, and the packets that feed it |
| `GnmiPaths` | from configured paths to gNMI subscriptions |
| `GnmiParse` | one notification from its updates to what is published |
| `IosXr` | one IOS-XR subscription: goroutines, schema, walk, metrics |
| `Logs` | the log files and statistics of one device |
| `KafkaPublisher` | the producer of one worker |
| `KafkaConsumer` | the claims of one consumer group member |
| `JtiSim` | one subscription at the simulator |
| `MC*` | constants of the runs; `MCInflux` and `MCPipeline` also choose the part a behaviour is about |
| `Maps` | Go's maps as functions, for `Rows`, `GnmiParse`, `PromExporter` and `JtiSim` |
| `WorkersProofs` | types, the inductive invariant of the supervisor, the WaitGroup, and the refinement of `Fleet` |
| `SessionProofs` | types and safety of `Session`; the files and loggers of `Logs` |
| `GnmiStreamProofs` | types and safety of `GnmiStream` |
| `DialOutProofs` | types of `DialOut`, and how far a stream lags |
| `KafkaProofs` | `KafkaConsumer` and `KafkaPublisher` |
| `OutputProofs` | `Influx`, `Accumulator` and `PromExporter` |
| `PacketProofs` | the loops of `GnmiPaths`, `GnmiParse` and `Rows` |
| `SimProofs` | `JtiSim` |

**Workers.**  One variable per goroutine's control state (`main`, `h`, `r`, `wst[w]`,
`kst[w]`), plus `ws.m` (`m`), the WaitGroup's counter (`wg`) and the channels.  A worker
is a file and the number of its incarnation, so that a worker started again for the same
file is told from its predecessor.  A send on an unbuffered channel is one action of both
sides; a goroutine that has committed to a send stays in its state until the other side
is there.  Loops over `ws.m` take one worker per step, in any order.  AddWorker, when
signalHandler calls it, is cut between the map entry and `wg.Add`, because main's `Wait`
can see the difference; when main calls it nobody else is there, and it is one step.
`MapRace` is the runtime's fatal error for unordered map accesses.  The session is reduced to the
states in which it does or does not listen on `jctx.control`.

**Session.**  `pc` walks through `work` read by read.  `ConfigRead`'s assignment
`jctx.config = config` is not atomic: `Sighup` copies any subset of the fields and
`Copied` the rest.  `subs` are the subscriptions of the connection, `waiting` those of them
whose call the device has not answered and which are not in their select yet, `orphans` the ones
that pre-post-gnmi left behind.  A call without a deadline is cut in two: what work does up to
it (`LoginCheck`, `Subscribe`) and the device's answer (`LoginAnswer`, `Opened`, `OpenFails`).
IOS-XR opens its streams in goroutines of their own and is at once in its select.

**GnmiStream.**  Every connection sends the same `Script`.  `rsp[c]` is the variable all
handlers of a connection read; `Begin` is that read, `Handle` the rest of
`gnmiHandleResponse`.

**DialOut.**  Deviceinfos and rpcinfos are numbered objects, since two actors may each make
one.  `removeRpcFromDevice` clears one place past the one that was filled, as the code
does.  `raced` is a history variable: handlers that read `rpc.config` while the consumer stood
between its send and its store.

**Influx.**  `perMeas` is the writer that was started, `wpm` what `jctx.config` says now.
`Write` is one call of the client, which may fail.  `Init` allows for the two clients of
`influxInit` of which only one can be made.

**Accumulator.**  A field of a point holds the number of the metric it came from, so that a
lost, doubled or overwritten one shows.  As in the code, a tick whose metrics all merge
into one point writes nothing (`influx.go:174`): `MergingKeepsFields` says that this is the
only loss.

**Rows.**  One action per round of the loop over `ocData.Kv`; `prefix`, `prefixTags` and the
last row are what one round leaves for the next.  Paths are sequences of elements with
their keys: the regular expressions of `spitTagsNPath` are modelled by what they find.
The reference, `FullPath`, looks up each leaf's prefix in the whole packet instead.

**PromExporter.**  Samples of addPrometheus own their labels; those of a gNMI packet point
to the packet's `labels`, which `publishToPrometheus` extends.  `Collect` copies samples
under the lock and reads their labels after it, so a scrape may show labels younger than
the key (`DuplicatesNeedGrowth`) or end the program (`CollectRace`).

**GnmiPaths.**  A path is rendered to tokens as a user writes it and parsed as the code does,
by cutting at "/", then brackets, "and" and "=".  Names and values are sequences of tokens, so
that "and" is also part of "bandwidth"; a key given twice has its last value.  `Plain` names
and values come back as they were meant; `uint64` arithmetic wraps at `Word`.

**GnmiParse.**  `kvpairs` and `xpaths` are one map each for all updates of a notification;
a field remembers its update.  Prometheus' goroutine ranges over both (`gProm`) while the
handler goes on; a write to the map it is at may end the program or go unnoticed.  An update
without a path is passed over.  `ShortPaths` are the Any headers whose Path, as it was read, has no third
part: `splits[2]` ends the program for a Juniper header as for any other message.

**IosXr.**  `walk` folds over the fields of a node the way the loop does: the node matched
last and the tags stay for the next field.  `LeavesUnder` is the reference: the leaves of
a message along the schema, each with the keys of the lists around it.  `walk` is a
RECURSIVE operator, and the module is for TLC only.

**Logs.**  A reload is a list of steps (`lgTodo`): stop four files, assign, open four files.
Packet and periodic goroutines check a logger in one step and use it in a later one.  The
model also shows that an OpenConfig packet counts twice in `totalIn` when there is a CSV
file (`statshandler.go` and `handleOnePacket`).

**KafkaPublisher, KafkaConsumer.**  The producer is part of the configuration, and
a reload that changes the file leaves none: the next publication of a dial-out worker ends
the program.  In the consumer every claim walks through lock, lookup, `influxInit`,
assignment and handling separately; the configuration is assigned outside the lock.

**JtiSim.**  Leaves are sequences of path elements, spelled as the code spells them: the gNMI
side differs from the OpenConfig side in several ("init-time", "addressesses",
"interface-red").  Over gNMI the header's number is taken once per interface and shared
by its units.

## 3. Runs

Each run takes at most a few minutes.  Every passing run allows deadlock: the system may stop
(JTIMON exits, a session ends), and with the bounds used up it has nothing left to do.

| Run | Checks | Bounds |
|---|---|---|
| `Workers` | TypeOK, WgCountsRunning, StatusNamesItsWorker, LiveWorkerIsInMap, ExitAfterAllWorkers, ImplementsFleet | 2 files, 2 incarnations, 2 signals, `sigchan` of 1 |
| `WorkersLive` | InterruptEndsProgram, MaxRunEndsProgram | 2 files, 1 incarnation, 2 signals |
| `WorkersSighup` | SighupIsPropagated: **violated** | 2 files, 1 signal |
| `WorkersWait` | WaitForAllWorkers: **violated** | 2 files |
| `Session` | TypeOK, SubscriptionFollowsConfig, PanicNeedsReload, EndedWorkerHasNoSession, SighupIsTaken, InterruptStopsWork | 10 configurations, 1 reload |
| `SessionConfig` | ConnectedAsConfigured: **violated** | as Session |
| `SessionFallback` | UnimplementedFallsBack: **violated** | as Session |
| `GnmiStream` | TypeOK, SequentialKeepsUpdates, NewestIsPublished, FirstSyncIsIgnored, OnceEnds | 5 responses, 2 connections (1 with per-packet goroutines) |
| `DialOut` | TypeOK, StreamLagsByTheRaceOnly, DialBackIsServed, FullChannelIsDrained | 3 dials, 4 messages, 1 replay, channel of 2, one handler at a time |
| `DialOutLatest` | StreamRunsLatestConfig: **violated** | as DialOut |
| `Influx` | TypeOK, EveryPointOnce, OrderIsKept, SentIsSettled, MergingKeepsFields | 4 packets of 0 to 9 points, batch of 8, 1 reload; or 6 metrics of 2 paths, channel of 3 |
| `Pipeline` | one or two properties for each of nine stages, see below | see below |

`Pipeline` runs one stage per behaviour (`part`), so that its states are the sum and not the
product of the stages':

| Stage | Checks | Instance |
|---|---|---|
| PromExporter | DuplicatesNeedGrowth, ScrapeIsFresh | 2 of 5 packets of the same series: 2 gNMI with a number and a string, 1 gNMI with a number only, 2 OpenConfig; 3 minutes, 1 scrape |
| Rows | PointsKeepEveryLeaf | any 4 of 9 pairs: two prefixes, relative and absolute leaves, keys inside a leaf, values InfluxDB refuses |
| GnmiPaths | SubscriptionIsFaithful | any 3 of 9 paths: two keys, one key twice, "and" in a key's name, "/" or "and" in a value, every mode, an interval that overflows |
| GnmiParse | NotificationKeepsUpdates | any 3 of 11 updates, one without a path, and 1 delete, 2 prefixes, 4 sets of options, every header |
| IosXr | MetricsHaveTheirKeys | 2 schemas, 8 messages, 2 paths |
| Logs | OpenFilesAreHeld, NilLoggerNeedsReload | 3 configurations, 2 packets, 1 reload, files that cannot be opened |
| KafkaConsumer | OneContextPerDb, HandledAsConfigured | 2 claims, 2 devices in the same or different databases, 3 messages, 2 sessions |
| KafkaPublisher | PublishedIsCurrent | 3 versions of the file |
| JtiSim | SensorsAreInOrder | 13 cases: both RPCs, two sensors at once, wraps of 4 to 6 packets, 7 packets |

Why the bounds are enough.  Two files and two incarnations give every pair of workers that
can meet: two of one file, two of different files, one in the map and one posting its end.
Two signals let a second one find the handler busy, and a `sigchan` of one place lets it be
dropped.  One reload meets every point of a connection attempt, since it may come at any
state; the ten configurations differ in every field the session reads.  The script of
GnmiStream has a response of each kind the filter tells apart, and two updates so that
they can be swapped; two connections are what it takes for a left-over receiver.  Three
dials let a stream be replaced twice; a topic with two configurations is what a stale one
takes.  The packets of Influx are smaller than, larger than, and not a multiple of a
batch, and the channel is full after two.  The metrics of the accumulator share tags, fields, both or
neither, and three in the channel let a tick take one, two or three.  In Pipeline, two
packets of one series are what it takes for a sample to be replaced or a label map to be
shared, and three minutes for one to expire; four pairs hold a prefix, a leaf, another
prefix and the same leaf; three updates hold a key that is overwritten and a leaf between;
two claims with one message each race for a context and the third message sees the
result; seven packets are more than any wrap.

Several of these properties hold with an exception that names what the code does not
promise, and no more than that:

* `DuplicatesNeedGrowth`: two samples of a scrape may coincide if the labels of at least one
  of them, which is of a gNMI packet, grew by a string leaf after it was handed over;
* `SubscriptionIsFaithful`: names and values of keys without "/", "and", "=" or brackets;
* `NotificationKeepsUpdates`: the last of several updates of the same names wins, and its
  keys; the program ends for a header whose Path has no third part, Juniper's or not, or in a
  race for a map;
* `MetricsHaveTheirKeys`: lists with one key, sent first;
* `NilLoggerNeedsReload`: a goroutine overtaken by a reload, by the end of its worker, or
  a file that could not be opened, may use a nil logger, which ends the program;
* `HandledAsConfigured`: no other device uses the same database;
* `PublishedIsCurrent`: until a reload replaces the configuration and its producer;
* `MergingKeepsFields`: but for a tick of a single point.

### What the violations show

* **WorkersSighup** (`workers.go:193`, against the comment at 187).  A worker whose session
  ended waits at `statusch`/`statusChan`; signalHandler sends to its `signalch`, which
  nobody will read.  The handler never comes back; later signals are lost.
* **WorkersWait** (`workers.go:125-126`, against 97).  `ws.m[file] = w` and the start of the
  worker precede `ws.wg.Add(1)`; the last counted worker may finish in between, `Wait`
  returns, and JTIMON exits with a worker running.
* **SessionConfig** (`workers.go:708`, against 686 and 717).  A SIGHUP taken at the "Check
  signals" select is used up, and the attempt goes on with the host and the vendor that
  were read before it.
* **SessionFallback** (`subscribe_gnmi.go:586`, against 592).  The status is taken from `err`,
  which is nil there, instead of `err1`; "Unimplemented" never falls back.
* **DialOutLatest** (`dialout.go:382-383`, against 221 and 269).  The device may dial back
  between the send on `cfgChannel` and the store of `rpc.config`.

### Fairness

Go schedules every goroutine that can run, so each goroutine's own steps are weakly fair,
in `Workers` per goroutine, and no step of the environment is: devices, signals, network
and timers need not do anything.  Three choices need a word:

* `Influx`: senders are strongly fair, because a channel serves blocked senders in the
  order they came; the writer's weak fairness includes the ticker.  The accumulator's part
  of the run has no liveness property.
* `GnmiStream`: receiving is weakly fair, which says that the device sends its script and
  closes the stream.  `OnceEnds` is about such a device; nothing makes `Control` happen.
* `Session`: only what the goroutines do by themselves is fair.  The device's steps
  (`LoginAnswer`, `Opened`, `OpenFails`, `SyncResponse`, `StreamEnds`) are not: the calls they
  answer have no deadline (`subscribe_juniper_junos.go:312` and 191, `subscribe_gnmi.go:547`),
  and a silent device leaves `jctx.control` without a listener for ever.  `SighupIsTaken` and
  `InterruptStopsWork` therefore say `DeviceAnswers` first.  `OrphanEnds` is fair, since
  the connection of an orphan is closed.

The liveness properties have antecedents for what the code cannot promise:
`AllSessionsListen` (a tunnel and an unknown vendor do not look at `jctx.control`, and a
worker that ends by itself is the case of WorkersSighup), `SessionGoesOn`, `DeviceAnswers`, and
`~cut`.

## 4. Proofs

Every theorem is about the module's specification for any value of its constants: any
files, lists and modes, any configurations, scripts, topics, packets, metrics and messages,
any bound.  What the constants must satisfy is stated next to them (`ConstAssumption`,
`InfluxAssumption`, ...): types, and that a special value such as `NoWorker`, `All` or
`DeviceTs` is none of the ordinary ones.

| Module | Theorem | Says |
|---|---|---|
| `WorkersProofs` | `TypeCorrect` | `Spec => []TypeOK` |
| | `StatusIsNeverStale` | `Spec => []StatusNamesItsWorker`, in every mode |
| | `LiveWorkerIsReachable` | `Spec => []LiveWorkerIsInMap`, in every mode |
| | `WaitGroupIsExact` | `Spec => []WgCountsRunning` |
| | `ExitIsClean` | `Spec => []ExitAfterAllWorkers` |
| | `SupervisorImplementsFleet` | if no mode has `--max-run`, `Spec => F!FleetSpec` |
| `SessionProofs` | `TypeCorrect` | `Spec => []TypeOK` |
| | `SubscriptionsFollow` | `Spec => []SubscriptionFollowsConfig` |
| | `PanicsNeedReload` | `Spec => []PanicNeedsReload` |
| | `EndedWorkersHaveNoSession` | `Spec => []EndedWorkerHasNoSession` |
| | `FilesAreHeld` | `LgSpec => []OpenFilesAreHeld` |
| | `NilLoggersNeedReload` | `LgSpec => []NilLoggerNeedsReload` |
| `GnmiStreamProofs` | `TypeCorrect` | `Spec => []TypeOK` |
| | `NewestUpdateIsPublished` | `Spec => []NewestIsPublished` |
| | `InitialSyncIsIgnored` | `Spec => []FirstSyncIsIgnored` |
| | `SequenceIsKept` | `Spec => []SequentialKeepsUpdates` |
| `DialOutProofs` | `TypeCorrect` | `Spec => []TypeOK`, with any number of streams open |
| | `LagIsTheRace` | if `MaxOpen = 1`, `Spec => []StreamLagsByTheRaceOnly` |
| `KafkaProofs` | `OneContext` | `KSpec => []OneContextPerDb` |
| | `ResponsesAreHandledAsConfigured` | `KSpec => []HandledAsConfigured` |
| | `PublishedConfigsAreCurrent` | `PbSpec => []PublishedIsCurrent` |
| `OutputProofs` | `TypeCorrect` | `Spec => []TypeOK`, of `Influx` |
| | `PointsAreKept` | `Spec => []EveryPointOnce` |
| | `MeasurementsAreInOrder` | `Spec => []OrderIsKept` |
| | `MergingLosesNothingElse` | `AccSpec => []MergingKeepsFields` |
| | `ScrapesAreFresh` | `PromSpec => ScrapeIsFresh`, an action property |
| | `DuplicatesHaveGrown` | `PromSpec => []DuplicatesNeedGrowth` |
| `PacketProofs` | `UpdatesAreKept` | `GnSpec => []NotificationKeepsUpdates` |
| | `LeavesAreKept` | `RowSpec => []PointsKeepEveryLeaf` |
| | `IntervalsAreLongEnough` | `SubSpec => []IntervalsAreKept`, a conjunct of `SubscriptionIsFaithful` |
| `SimProofs` | `SensorsKeepOrder` | `SimSpec => []SensorsAreInOrder` |

The inductive invariants are conjunctions of named parts, each with a comment in its module.
What they add to the properties, and why:

*Supervisor.*  `StatusNamesItsWorker` alone is not inductive: a worker posts
its file's name, and for the name to be its own, `ws.m` must still name it when it posts.
That is a fact about workers in state "post", which holds because every path that removes
a worker from `ws.m` first takes it out of its select (`DelSend` rendezvous with the
worker; `HandleStatus` follows its post), and because signalHandler only starts a new
worker for a file that has none.  `IInv` collects it: `BootInv` (while main starts workers nobody
else is there), `MapInv` (the map and the handler name workers that exist, under their
file), `LiveInv` (a live worker is the one in the map), `StatusInv` (at most one name is
in the channel, and it is right), `AddInv` (a worker not yet counted is idle).  A file
listed twice at the start breaks the map for its first worker; `LiveInv` is then claimed
only for workers with a session, which such a worker never has.

*The count.*  `WorkersProofs` also proves that every step without `--max-run` either leaves
`lifeBar` alone, or moves one worker from absent to running with `wg + 1`, or one from
running to finished with `wg - 1` (`Counts`).  Cardinality follows from that; so does the
refinement, once `main = "exited" => wg = 0` is added (`WgInv`).  In particular `wg` is
never negative, so `Done` does not panic.

*Session.*  A stream has the configuration in force because a worker that changes it goes
through "copy" and "ctlHup" and cannot come back to its select before the stream has taken
the SIGHUP (`StreamIsCurrent`); that nobody else takes it needs `SubsAreVendors`: without
pre-post-gnmi there is at most one subscription and no orphan.  `InterruptIsInCode` carries a
taken SIGINT from the subscription to the switch on SubErrorCode.

*gNMI stream.*  `NewestIsHandled`: while a connection is received from, `rsp` is its newest
response, so the newest response's handler, whenever it runs, reads itself; older
handlers may read anything.  `OneInHand` says what `--no-per-packet-goroutines` buys, and
`SequenceInv` what follows: all but the newest response of a connection are done with
(`OthersAreDone`), so a sync response among them has been seen and what came after it was
not dropped (`DoneIsSettled`); what is published is done with (`PublishedIsDone`), so the response
in hand goes after it (`PublishedInOrder`).

*Dial-out.*  The latest configuration a handler can know of is the last one sent on the
channel (`LastSent`): it is at the end of the channel, or the handler has it, or the handler read
`rpc.config` while it was outstanding and has the one before (`StreamHasLast`).  This holds
of the rpc that `s.devices` leads to; the first stream and the consumer may each make a
device, and the handler of the one that is overwritten waits for ever
(`HandlerHasCurrent`, `FirstStreamWaits`).  `LagIsTheRace` assumes one stream at a time,
`MaxOpen = 1`, which is what the comment at `dialout.go:32` says of the devices; of two handlers on
one channel, one takes what the other needs.  `LargestExists` (a nonempty finite set of numbers has a
maximum, from well-foundedness of the subset ordering) gives "the last configuration
among the first n messages" for a topic of any length.

*Logs.*  The steps of a reload are a script, and `Pos` the place in it: `ClosedMeanwhile` and
`TodoIsScript` say which files are closed at each place, `HeldOnce` and `OpenIsHeld` that no
file is leaked in between.  `FreshWriters` adds where the goroutines that log may stand
before the first reload.

*Kafka.*  `handler.m` is held by exactly the claim that makes a context
(`LockIsExclusive`), so a database without one still has none when it is assigned
(`HandleIsCurrent`), also for the claims that use a context outside the lock.
`SyncIsOwn` is why a device with a database of its own is not affected by the others.

*InfluxDB.*  `WriterInv` holds the types, and that what a tick counted is in the channel
(`CountedIsThere`) and a series holds only its own points (`SeriesIsItsOwn`).  `EveryPointOnce`
is then inductive; the work is in counting, with lemmas on how often a value
occurs in a concatenation, a tail and the two parts of a sequence (`CountConcat`, `CountTail`,
`CountSplit`).  `OrderInv` chains written, batch and channel: a packet starts when those
before it have ended (`InTurn`), the channel is increasing, everything taken is before everything in
the channel (`TakenIsPast`), and a series' written points are before its batch
(`BatchesInOrder`).  A failed write takes a piece out and keeps the order.

*Accumulator.*  `Held` is the points of a tick with `lastPoint` at the end.  `HeldIsTaken` and
`TakenIsHeld` say that the fields of the metrics taken and the fields held are the same,
each in one place; `OneWhileAllMerge` that a second point means two metrics that do not
merge; both need that a metric is taken once (`ChannelIsNew`) and that a point
started by a metric has its DeviceTs (`TickStartsEmpty`).

*Prometheus.*  `ClockInv` bounds the age of a sample by the next tick.  `SampleInv`: a sample in
the map is under the key of the labels it was made with (`SamplesAreWellMade`), the labels found on it
later are those or have a string leaf of its packet more (`MayGrow`, `Extends`), and a scrape
has at most one sample of each key (`OneOfEachKey`), also after the map has gone on.

*gNMI notifications.*  The loops over updates and deletes change two maps, and what a map holds
after any number of rounds is said of the rounds: a field comes from the last item with its
path (`FieldsAreItems`), every item has a field (`ItemsAreFields`), and its keys are
tags, with another value only if a later item gave it (`KeysAreTags`).  One round keeps this
whatever the path, the keys or the prefix.  The end of the program needs that only a field
made of a list can be replaced while the goroutine of Prometheus reads it
(`PanicHasReason`).

*OpenConfig packets.*  `PrefixIsCarried`: the three variables the loop carries are
those of the last prefix so far, or nothing.  `LeafXml` is the heart: the field name and the tags the
loop makes of the next leaf from them, by one of three branches, are those of the leaf's whole
path.  `FieldsAreLeaves` and `LeavesAreFields` relate rows and leaves in both directions;
the second one allows a leaf to be gone only if a later one has its name and tags, because rows are
only merged with the last one and only with equal tags.

*Subscriptions.*  The n-th subscription is made of the n-th path (`SubInv`); `IntervalIs`
does the arithmetic, from a product that is a multiple of 1000 and below 2^64
(`GnmiPathsAssumption`: 1000 divides `FreqUnits`, which is 10^9 in the code).

*Simulator.*  `SimInv` says of every goroutine how many packets the client has of it (`GosOk`):
an interface sensor is at place k of its wrap, and its number is a multiple of the wrap's length
plus k (`IfaceOk`); among the units of an interface the packet of that interface is
the one on offer or was received, with the in-octets they repeat.  The nested loops over FPCs, PICs,
ports and units are one counter in the model, and `Turn` is its inverse: `MixedRadix`,
`TurnIs` and `UnitsFollow` prove that for any dimensions, from the uniqueness of quotient and
remainder (`DivUnique`).

*Left to TLC.*  Liveness under fairness (InterruptEndsProgram, MaxRunEndsProgram,
SighupIsTaken, InterruptStopsWork, OnceEnds, DialBackIsServed, FullChannelIsDrained,
SentIsSettled) is out of the prover's reach.  Two safety properties are only model-checked, both
about what a recursion over data computes: `MetricsHaveTheirKeys` (IosXr walks trees with a
RECURSIVE operator), and the rest of `SubscriptionIsFaithful`, which splits a path that a fold
has put together.

## 5. Not modelled

* Generated protocol code (about half of the lines), `lpserver`, the
  helpers of the tests, the constants of `defaults.go`.
* Text: the layout of log lines, the summary and CSV columns, the characters `promName`
  replaces, `convertToString`.  Names are compared after such a conversion, and
  `PromAssumption` and `RowsAssumption` say where two of them may or may not meet.
* JSON parsing and defaults of the configuration, TLS credentials and gRPC options.
* In the simulator, RPCs that return nothing, `LoginCheck`, and what of
  `jtisim/gnmi_utils.go` it does not call.
* Within `Workers`, the grace of `printSummary`, log files and `--gtest-data`; within
  `DialOut`, more than one device and partition, so that a full `cfgChannel` blocks only
  its own device here, and the start of the gRPC server.
* Goroutines that outlive their handler: those of an IOS-XR path blocked on `datach` after
  subscribeXR has returned, and of a simulator's sensor blocked on its channel.  The models
  have them (states "datach" and "send"); no property is about them, since the code makes
  no promise.

## 6. Plan

Done: every part of the program proper has a module, and the safety properties the runs check
are proved, but for the two above.  Next:

1. A relational definition of rendering and splitting a path, without folds, from which the
   path part of `SubscriptionIsFaithful` could be proved.
2. `DialOut` with two handlers at once (`dialout.go:32`, "Only one such RPC per device is
   ensured") and a first dial that races the first configuration (167).
3. `Session` and `Workers` with a silent device, as a violation run of "continue waiting for
   signals" (`workers.go:187`) through `signalch` and `control`.
4. The cases outside today's bounds: `GnmiStream` after a reconnection (`receivedSyncRsp`
   is never reset, `subscribe_gnmi.go:348`), `Influx` with a batch below 4, the deadlock of
   `control` and `statusch` (`workers.go:330`).
