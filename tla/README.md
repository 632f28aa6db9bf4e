# Verification of CostOptimization (ura-agent / ura-analyzer)

TLA+ models of the utilisation agent and its analyzer, checked with TLC and, in
part, proved with TLAPS. The code is the reference: each definition is
translated from the lines `PROJECT.json` names under `map`.

## The system

`ura-agent` runs on a monitored server: it samples the host every 15 seconds,
detects spikes, takes process, SQL Server and scheduler telemetry, and keeps it
all in a local spool until a daily encrypted bundle carries it away.
`ura-analyzer` reads bundles from many hosts and recommends capacity changes.

| component | source | state | operations | interacts with |
|---|---|---|---|---|
| telemetry spool | `internal/store` | per kind: an active segment (memory buffer, file); directory of closed segments with sidecars; drop counter | Open/recover, Append, Flush, Rotate, ListClosed, Remove, EnforceRetention | the main loop and the export call it; the disk and crashes interfere |
| main loop | `internal/agent/agent.go` | `state.json` (last export day), counters, tickers | one `select` over ten tickers, maybeAutoExport, shutdown | everything below |
| bundle export | `internal/bundle` Export, `internal/crypt` | temporary files, the finished `.urab` | rotate, list, encrypt, rename, remove | spool, export directory |
| bundle import | `internal/bundle` Import | none | per-segment verification | analyzer |
| manual export | `cmd/ura-agent` | a second process on the same spool | New, Export | the running agent, through the disk only |
| spike detector | `internal/spike` | per series: baseline window, ring, open event, cooldown; count of open events | Offer/step | main loop asks CaptureActive |
| process telemetry, attribution | `internal/proctop`, `internal/agent/attribution.go` | previous counters per PID, ring of 30 snapshots | Snapshot, History, attribute | spike events |
| SQL manager and collectors | `internal/agent/sqlmanager.go`, `internal/sqlserver` | instances, connections, counter states, cached inventories | rescan, writeInventories, sample, spikeContext, pidToInstance | spool, attribution, health |
| health tracker | `internal/agent/health.go` | statuses, seen errors, recent errors | Issue, OK, Snapshot | every collector |
| sampler, minute aggregation | `internal/sampler` | previous counters, samples of the minute | Sample, Add, FlushPartial | spool, detector |
| analyzer data set | `internal/analyzer/dataset.go` | per host: records of all bundles | LoadBundles, decodeInto, normalize | import |
| recommendations | `internal/analyzer/recommend*.go`, `recurrence.go`, `stats` | none | a ladder of decisions over aggregates | data set |
| host identity | `internal/hostid`, `state.json` | `host.id`, first start | Load, loadState, saveState | both commands of `ura-agent` |
| configuration | `internal/config` | the file; the values of the running process | Load, Validate, Hash | inventory records, manifests |
| encryption, host inventory, reports, synthetic data, services | the remaining packages | none of their own | | |

What makes each correct, and what is hard about it:

* **Spool.** What was flushed is readable until it is deleted, whatever fails;
  memory is bounded; every loss is counted; sidecars tell the truth; retention
  deletes what is due and no more. Hard because each operation is a sequence of
  system calls that fail or are cut off one by one, and because recovery must
  cope with what every such sequence leaves.
* **Main loop and export.** Records leave the spool only expired or shipped;
  each is shipped, once; a stop loses nothing. Hard because the export spans
  many steps, is retried by a rule over days, and death or shutdown comes at
  any of them.
* **Manual export.** Two processes on one spool: not what the store's lock
  protects against.
* **Spike detector.** Every opened event is completed once, capture is active
  exactly while an event is open, sample lists stay bounded, cooldown holds.
* **Attribution.** The snapshots that overlap the event are still in the ring.
* **SQL manager.** PIDs, connections and inventories belong to the instances
  there are.
* **Health.** The reported status follows from what happened.
* **Import and data set.** One damaged segment costs that segment; no record
  counts twice; the newest inventory wins.
* **Minutes.** Every sample is in the record of its minute, once, whatever the
  clock does.
* **Recommendations.** The ladder's guards in the documented order; no reduction
  for a host under pressure; a proposed size that holds the load it was made for.
* **Recurrence, statistics.** Times of day are circular; greedy clusters neither
  miss a regular job nor lose a pattern when new days arrive.
* **Identity, configuration.** One identity and one first start per deployment;
  a record can be traced to the settings that produced it.

The hazards of each, at their lines, are in `PROJECT.json` under `hazards`.

## Modules

| module | models | proofs |
|---|---|---|
| `SegmentFile` | the segment format: members, tears, what a reader gets out of a file | `SpoolProofs`, first section |
| `Spool` (extends it) | `store.go` complete: one action per exported method, with the faults of its system calls, and the crashes inside it | `SpoolProofs`, `SpoolAccounts`, `SpoolRefinement` |
| `TelemetryLog` | the abstract specification of the spool: records are pending, durable, deleted or gone | |
| `Agent` (extends `Spool`) | the main loop, the daily export, shutdown, restart, `state.json` | `AgentProofs` |
| `SharedSpool` | a manual export beside the agent: two processes on one spool, file operation by file operation | `CommandsProofs` |
| `SpikeDetector` | `spike.go`: the event machine of each series | `CollectionProofs` |
| `SpikeCapture` (extends it) | the detector with the process ring and the handlers that join them | `CollectionProofs` |
| `Attribution` | what a process snapshot keeps and what is concluded from several | `CollectionProofs` |
| `Schedule` | the match of a spike with cron entries and timers | `CollectionProofs` |
| `HostSampler` | rates and shares from cumulative counters | `CollectionProofs` |
| `MinuteAgg` | the minute records, from the samples to the analyzer's `normalize` | `CollectionProofs` |
| `SqlManager` | detection, connections, cached inventories, samples, the PID map | `AnalyzerProofs` |
| `SqlCollect` (instantiates `Recommend`) | the three SQL collectors, and what the ladder makes of their holes | `AnalyzerProofs` |
| `Health` | the tracker and what feeds it, the manifest's health summary | `CollectionProofs` |
| `Identity` | `host.id` and `state.json` over starts, kills and power losses | `CommandsProofs` |
| `Settings` | the configuration file, its hash, and the records and manifests that carry it | `CommandsProofs` |
| `Dataset` | import and the analyzer's data set | `AnalyzerProofs` |
| `Recommend` | both ladders, the capacity ranges, the fleet totals | `AnalyzerProofs` |
| `Recurrence` | the clustering of spikes into patterns | `AnalyzerProofs` |
| `Stats` | quantiles, sustained runs, coverage | `AnalyzerProofs` |
| `Common` | the value `None`, shared by the modules | |
| `Lemmas` | no code: facts about least elements, sums, greatest elements, quotients, folds and recursions that the proofs share | itself |
| `MCSpool` | the spool's instance for TLC | |
| `MCCommands` | `SharedSpool`, `Identity` and `Settings` as one instance | |
| `MCCollection` | `SpikeCapture`, `Attribution`, `Schedule`, `HostSampler`, `MinuteAgg` and `Health` as one instance | |
| `MCAnalyzer` | `SqlCollect`, `Dataset`, `Recommend`, `Recurrence` and `Stats` as one instance | |

`MCCommands`, `MCCollection` and `MCAnalyzer` are sums: a behaviour picks a `part`
at the start and takes that part's steps only. The parts of a sum share no
variable, so an invariant or a step property of one part holds in every
interleaving with the others if it holds in the behaviours of that part, and
the sum checks exactly that. They also hold the values that a configuration
cannot write (records, functions). Where components do interact, the modules
compose
along the code's calls: `Agent` is the loop over `Spool`, `SpikeCapture` the
handlers over `SpikeDetector`, `SqlCollect` feeds `Recommend`, and `MinuteAgg`
ends in the analyzer. `onHostSample` is the one handler split over two modules:
what it does to the detector and the process ring is in `SpikeCapture`, what it
does to the pending minute in `MinuteAgg`; the two parts share nothing but the
sample, and what each appends to the spool is an `AppendTick` of `Agent`.

### Spool

`active[k]` is the `activeSeg` of kind `k` (memory). `disk[k]` is what the disk
holds for it: the active file, the closed segments with or without sidecar, and
stray sidecars without data. A closed segment's name is its kind, date and
sequence number. A record is a unique number and the UTC day of its timestamp;
sizes are counted in records, so `MaxSegment` and `MaxSpool` are the code's byte
limits in that unit. A member of a file is the records in it and whether it is
whole; reading stops at the first torn one, as `ReadSegment` does on a gzip
error.

All exported methods hold `Store.mu` or are called from the agent's one loop, so
an operation is one action; its effect on the disk is not atomic. Each helper
(`FlushLocked`, `CloseFile`, `RotateLocked`, ...) is the set of results it can
have: the complete one, and one for each system call that `Faults` lets fail,
with what the code leaves behind in memory and on disk and what it returns. The
`Crash...` actions leave the disk at any point in between and clear the memory.
`flushed`, `removed` and `lost` are history variables: no guard reads them.

Bounds: `MaxRecs` records are offered, the clock stops at `MaxDay`, and a file
that already has `MaxMembers` members meets no more failing writes (complete
ones it still takes).

### Agent

`phase` says where the running handler is; the loop serves one handler at a
time, so from "check" on only that handler's next step, the passing of time or
the process's death can happen. `FlushTick` ends in `maybeAutoExport`, which
skips, does the first-run step, or starts the export: `RotateForExport`,
`WriteBundle`, `RemoveExported` for each listed segment, `MarkExported`. Every
one can fail as the code lets it. `memLast` and `diskLast` are the last export
day in memory and in `state.json`; 0 is the empty string. `early` is the time
before ten past midnight. Collectors appear as `AppendTick` with any kind and a
timestamp of today or yesterday. `MaxBundles` bounds the completed bundles.

### SharedSpool

`ura-agent export` calls `agent.New`, whose `Open` takes the active file of the
running agent for a leftover. Files are numbered like inodes: the agent writes
through the file it opened, wherever its name is now. `pc[p]` says where each
process is: a flush, a rotation, a recovery and an export are cut at every file
operation between which the other process may act. `Windows` names three gaps
that are short in the code - between opening and writing in a flush ("flush"),
between the choice of a free name and the rename ("close"), and two exports in
one second ("second"). With a gap outside `Windows` the two operations are one
step. `Commands` leaves all three out and still interleaves everything else; with
"flush" `ClosedIsFinal` fails, with "close" `NothingLost`, with "second"
`BundleIsWhole`. `failures` and `taken` count
the agent's refused rotations and the active files taken from it.

### SpikeDetector, SpikeCapture

`series[k]` holds what `seriesState` holds: the ring, the baseline window with
its recompute counter, the phase, the open event, the cooldown. One step offers
a sample (`Readings`), in which any series may be missing and which may come late
by up to `MaxGap`. A series takes the values of its `Levels`, multiples of 4 up to
100, so that the two averages in a median and its deviation stay whole. `done` is
the set of completed events and `openCount` the counter behind CaptureActive. `SpikeCapture` adds the snapshot ring: a
process tick every `ProcEvery` samples, one snapshot per sample while an event
is open, at most `MaxFails` listings that fail; `HistCap` is the ring's 30.

### Attribution, Schedule

`Attribution` keeps processes that consume CPU time, exit and, where `Reuse`
says so, leave their number to another. A snapshot keeps the top `TopN` by CPU
and by memory. Sorting is unstable in the code and maps have no order: where
values tie, any choice is taken. `Schedule` is a function from moments and
schedule fields to matches, checked at every minute of a week that is small
(`Radix`) but has the digits of the real one; `Offset` is the host's distance
from UTC.

### SqlManager, SqlCollect

The environment of `SqlManager` starts, stops and restarts instances under any
process number and grants or revokes logins; the handlers are the scan and the two
inventory writers. What they leave to read is an operator: the instances that are
sampled (`Samples`), the instance that a process number is said to belong to
(`Said`) and what a spike is told of it (`SpikeContext`).
`SqlCollect` is one instance's collectors: each query of `MayFail` may fail at
any call, the engine may restart and its counters with it. An inventory with
holes is handed to the ladder of `Recommend`, so that a hole can be judged by
the advice it leads to.

### HostSampler, MinuteAgg

One device stands for disks, interfaces and paging counters: operations, and a
time field that the kernel keeps in `TimeWidth` bits while the agent subtracts
in `Width`. `work` is the history of what the device did since its counters were
read last, over failed probes too (`behind`), and `back` says that a counter went
back in between. `MinuteAgg` has the wall clock, which may be set back; `of` of a
record is a history field, the samples it was made from.

### Health

`statuses`, `errSeen`, `errs` and `permIssues` are the tracker's fields; `last`
is a history variable, what the last cycle of a collector was. The manifest's
minutes count over restarts of the process.

### Identity, Settings

`Identity` takes `Load`, `loadState` and the head of `Run` apart into their file
operations, because a kill may come between any two. `Faults` adds a read that
fails ("read"), a save that fails ("save"), a power loss ("power": neither file
is synced before its rename, so that the old content, the new one, or a name
with nothing in it is left) and two first starts at a time ("together"). `met`
keeps the faults a behaviour has met, and each property names those it does
without: all four are enabled in the run. A
random identity is a fresh number up to `MaxIds`.

In `Settings` a configuration is its recipient, whether the fields `Validate`
looks at are in range, whether the intervals it does not look at are positive,
and one setting more for the rest. The file is edited at any time; a process
reads it once. Records keep, as history, the configuration that produced them.

### Dataset, Recommend, Recurrence, Stats

`Dataset` follows a bundle from the disk it arrives on: entries are lost,
swapped, cut or replaced (`MaxFaults` of them), bundles are read in any order,
with any of the analyzer's key sets. A ciphertext's identity stands for its
SHA-256. `sort.Slice` is not stable, so `ByTime` is the set of all sorted orders, and
which of two records of one minute, or of one event, survives `Normalize` is open.
The properties therefore ask for a record or for one that `StandsFor` it: an
inventory that is no older, or after `normalize` the record of the same minute or
event. (Two records of one minute are two halves of it when the agent was
restarted within the minute: `NothingToDeduplicate` below.) `Recommend` evaluates the rungs in the code's order over summaries;
percentages and gigabytes are integers and the ceilings are computed on them.
`Recurrence` adds the events of a host in the order of their start and clusters
them greedily as the code does: `Bases` are the events no earlier cluster used, a
`Cluster` is what one of them takes. `Stats` adds minutes with gaps; quantiles are in
hundredths, and place `i` of a sorted series is the least value that `i` elements
do not exceed.

## Runs

Constants are small where a property needs to tell few things apart. The tables
give, per run, the bounds that matter and what they make happen.

Related statements are one property with named parts: each part has a definition
and a comment of its own in the module.

### Passing

| run | bounds that matter | shows |
|---|---|---|
| `SpoolCrash` | death anywhere, two kinds | `FlushedSurvive`, `TearsAreFinal`, `SidecarExact` |
| `SpoolErrors` | failing open, sync, sidecar, removal | `BufferBounded`, `FlushedSurvive`, `PromiseKept`, `LossExplained` |
| `SpoolLog` | death, also inside Remove; sidecars that cannot be removed | `ImplementsLog` (refinement of `TelemetryLog`), `RetentionIsRight` |
| `AgentExport` | death, failing export, failing `state.json` | `AgentTypeOK`, `ExportedBeforeRemoved`, `CleanStop` |
| `AgentLiveness` | failing disk and export, stops and starts | `ShippedOnce`, `EventuallyShipped` |
| `Commands` | see below | `BundlesHoldAll`, `ClosedIsFinal`, `OneFailurePerTake`, `DeploymentKept`, `InventoryIsProof` |
| `Collection` | see below | `EventsFollowRule`, `SpikesAreEvents`, `CooldownHolds`, `CaptureComplete`, `NamedForItsWork`, `TopKept`, `ScheduleMatches`, `RatesAreReal`, `MinutesAddUp`, `MinuteHoldsItsOwn`, `HealthIsHonest` |
| `SqlManager` | two instances, two process numbers | `ScanIsRecorded`, `TickSeesInstance`, `InstanceIsExported` |
| `Analyzer` | see below | `SamplesAreReal`, `SilenceIsNoEvidence`, `ImportIsHonest`, `OverlapIsHarmless`, `AdviceHolds`, `PatternsHold`, `FiguresHold` |

*Spool and agent.* Three or four records with an auto-flush threshold of two give
every shape of buffer and file: empty, partial, full, one and several members,
torn first and torn last. Two or three days give rotation by date, late records of
the day before, and expiry at `MaxAge = 1`; `MaxSegment = 1` or `2` gives rotation
by size; `MaxSpool = 2` (or 1) retention by size. Two kinds are used where an
operation treats one after the other. A system that reaches its bounds stops, so
deadlock is not checked.

*Commands.*

| part | bounds | why |
|---|---|---|
| shared spool | four records, two seconds, four files; manual exports, some of them killed, beside an agent that leaves exporting to them | a name becomes free and is taken again while an older listing still has it |
| identity | both commands, kills, all four faults, two identities, three days | a second identity can be made and shipped; a start can be a day later |
| settings | six files: two good, one for each way to be refused or to fail; four records | the file changes between two starts, with data before and after |

*Collection.*

| part | bounds | why |
|---|---|---|
| detector, static | one series, ten moments, lists of three and four, cooldown 2 | two events with the cooldown between them, lists thinned more than once |
| detector, baseline | three levels, seven moments, a window of four | the threshold moves and the window rolls over |
| detector, both | two series, five moments, each may be missing | events overlap, and end in one sample |
| capture | seven moments, a ring of six, one failed listing | the ring overflows during an event |
| attribution | three process numbers, two programs, one place per ranking | fewer places than processes |
| schedule | every minute of a week of 48; lists, ranges, steps | hour, day and week ends, steps that start at one |
| sampler | counters up to four, two operations per tick, twelve kinds of CPU interval, resets and failed probes | rates over a reset, a wrap and a gap |
| minutes | three minutes of two units, three samples, a clock set back by up to three, two stops | a minute is left and met again |
| health | two collectors, two errors each, for a list of one | the list is full while something is still to come |

*SqlManager.* Two instances are the least that can be mistaken for each other, and
two numbers let one take over the other's.

*Analyzer.*

| part | bounds | why |
|---|---|---|
| samples | three queries, two operations, one restart of the engine | a query fails between two samples, before or after the restart |
| inventory | ten queries in every pattern of failure, jobs that run or not | |
| data set | three bundles of two hosts, one segment shipped twice under two keys, two faults, all reading orders | entries are swapped, cut, lost and read twice |
| ladders | each test's values on both sides of its limit, in all combinations | |
| recurrence | up to five events on three days, five times around midnight and at the far side of the day | three events on three days are the least that make a pattern, two more join it, compete with it or make their own |
| statistics | up to five minutes, three values, gaps on both sides of the tolerance | runs end by a low minute, a gap and the end |

### Where the code and its documentation disagree

The constants of the passing runs are chosen so that the properties hold. Three
disagreements are runs that TLC ends with a violation, with the quoted claim in
`PROJECT.json` under `findings`:

| run | broken | what happens |
|---|---|---|
| `SpoolShortWrite` | `FlushedSurvive` | the retry appends behind a torn member (store.go:209) |
| `SpoolOrphan` | `ClosedIsListed` | segment without sidecar, never listed again (store.go:279) |
| `SharedDaily` | `NothingLost` | a removal by name hits a segment closed since (bundle.go:172) |

The others are stated in their modules, under "the code does not keep". TLC
refutes each when it is checked in the configuration of the run named here, with
the constant given:

| statement | module | run, constant | what happens |
|---|---|---|---|
| `LossCounted` | `Spool` | `SpoolErrors` | a record is refused when its rotation fails, uncounted (store.go:146) |
| `RetentionOldestFirst` | `Spool` | `SpoolCrash`, `Faults = {}` | deletion by file name, kind first (store.go:317) |
| `FlushedSurvive` | `Spool` | `SpoolErrors`, `Faults = {"rename", "open"}` | "nothing written": the file with flushed records is removed (store.go:251) |
| `PromiseKept` | `Spool` | `SpoolErrors`, `Faults = {"crash", "crashRemove"}` | a segment inherits the sidecar of a deleted one (store.go:329) |
| `OpenHasFile` | `SharedSpool` | `Commands` | a manual export recovers the file of a running agent (store.go:121) |
| `CountsAreExact` | `SharedSpool` | `Commands` | a file grows between its count and its rename (store.go:108) |
| `NothingLost` | `SharedSpool` | `Commands`, `Windows = {"close"}` | a rename replaces a segment that took the name (store.go:279) |
| `ClosedIsFinal` | `SharedSpool` | `Commands`, `Windows = {"flush"}` | the agent writes into a segment that is closed (store.go:209) |
| `BundleIsWhole` | `SharedSpool` | `SharedDaily`, `Windows = {"second"}` | two exports share one temporary file (bundle.go:91) |
| `NoOperatorNeeded` | `Identity` | `Commands` | an empty `host.id` after a power loss (hostid.go:40) |
| `ManifestProves` | `Settings` | `Commands` | one hash for records of two configurations (agent.go:276) |
| `AcceptedRuns` | `Settings` | `Commands` | an accepted interval of zero panics (config.go:153) |
| `RecipientParses` | `Settings` | `Commands` | a recipient no export can parse (agent.go:315) |
| `BaselineWithoutEvent` | `SpikeDetector` | `Collection` | the climb is learnt before the event opens (spike.go:147) |
| `LongEventsComplete` | `SpikeCapture` | `Collection` | the ring is shorter than the event (proctop.go:164) |
| `ChargedAtMostConsumed` | `Attribution` | `Collection`, `Reuse = TRUE` | a number given again joins two programs (attribution.go:105) |
| `SqlEvidenceCounts` | `Attribution` | `Collection` | SQL evidence adds no confidence (attribution.go:72) |
| `LocalFiringMatches` | `Schedule` | `Collection`, `Offset = 6` | local cron fields against UTC (attribution.go:161) |
| `LatencyIsAlwaysReal` | `HostSampler` | `Collection` | a field goes back or wraps (sampler.go:168) |
| `NothingToDeduplicate` | `MinuteAgg` | `Collection` | half a minute is dropped as a duplicate (dataset.go:174) |
| `GoodIsOk` | `Health` | `Collection` | degraded for ever (health.go:66) |
| `RecentIsRecent` | `Health` | `Collection` | a full list takes no newer error (health.go:57) |
| `DeletionsCounted` | `Health` | `Collection` | deletions are logged, not counted (agent.go:174) |
| `SummaryCounts` | `Health` | `Collection` | minutes of the process against minutes since the first start (agent.go:280) |
| `MissingStateIsProcessOnly` | `SqlManager` | `SqlManager` | no VIEW SERVER STATE, yet "deep" (collect.go:140) |
| `WrittenIsRefreshed` | `SqlManager` | `SqlManager` | inventories of instances that are gone (sqlmanager.go:111) |
| `SaidIsOwner` | `SqlManager` | `SqlManager` | a process number of the last scan (sqlmanager.go:168) |
| `SampleHasRows` | `SqlManager` | `SqlManager` | samples of zeros (sqlmanager.go:131) |
| `SecondaryIsKnown` | `SqlCollect` | `Analyzer` | a failed replica query makes a standalone instance (collect.go:242) |
| `DenialsReported` | `SqlCollect` | `Analyzer` | one query's error is reported nowhere (collect.go:391) |
| `PseudonymNamesOneJob` | `SqlCollect` | `Analyzer` | job-001 is whichever comes first (collect.go:442) |
| `FileRatesAreRates`, `WaitCountIsCount` | `SqlCollect` | `Analyzer` | negative after a restart of the engine (collect.go:370, 349) |
| `DamageIsIsolated` | `Dataset` | `Analyzer` | one cut segment rejects the bundle (dataset.go:63) |
| `UnknownKindsCounted` | `Dataset` | `Analyzer` | an unknown kind leaves no trace (dataset.go:113) |
| `AbsolutePeakFits` | `Recommend` | `Analyzer` | the P99 of the peaks for the absolute peak (recommend.go:380) |
| `SecondaryNotSized` | `Recommend` | `Analyzer` | the first role met decides (recommend.go:411) |
| `FleetCeiling` | `Recommend` | `Analyzer` | a ceiling that adds the smaller reductions (analyzer.go:109) |
| `ReductionReduces` | `Recommend` | `Analyzer` | a reduction that is an increase (recommend_sql.go:221) |
| `TimeIsNear` | `Recurrence` | `Analyzer` | a plain mean of circular times (recurrence.go:76) |

### Fairness

Only `AgentLiveness` and `SqlManager` assume any.

In `AgentLiveness`, weak: a handler that has started goes on (`Fairness`, second
conjunct), a shutdown in progress ends, the service manager starts the process
again, time passes. Strong: `FlushTick` (its ticker fires every 30 seconds and
Go's `select` chooses among ready channels at random, so it is served infinitely
often while the process keeps coming up long enough), and the success of
`RotateForExport` and `WriteBundle` (a disk that fails does not fail every
attempt for ever; if it does, nothing is shipped and nothing can be promised).
Nothing is assumed of retention, of appends, or of stopping.
`EventuallyShipped` asks for a saved first day because the code exports nothing
on the day of the first start (agent.go:249), and for a record that is there
before the last midnight because the clock of the model stops.

In `SqlManager` (`FairSpec`), weak on the inventory tick and on the sample tick:
their tickers fire for ever and the same `select` serves them. Nothing is assumed of
the instance: `InstanceIsExported` says what is exported if from some time on it
answers, or refuses.

## Proofs

All are for every value of the constants that the module's assumption allows.

### The spool

* `TypeCorrect`: `Spec => []TypeOK`, for every number of records and every fault;
* `BufferIsBounded`: `Spec => []BufferBounded` - between two calls the memory of
  a kind holds fewer records than the auto-flush threshold, and neither the
  record count nor the raw size estimate is below what is buffered.

Neither is inductive alone: the bound of the buffer needs the types of the
counters it is compared with, and `records` stays a natural number after a
dropped batch only because it is never below the buffer's length. The inductive
invariant is `IInv == TypeOK /\ BufferBounded`. The proof follows the helpers:
a lemma says that each returns a sound segment and a well-typed disk, whatever
fails; one lemma per action of `Next` lifts this to the step; `NextInv` puts
them together. The first section holds what the file operators return: types,
finite counts, what an appended member adds to what a reader gets.

For every choice of constants with `Gentle` (neither
"short" nor "rename" among the faults):

* `FlushedRecordsSurvive`: `Spec => []FlushedSurvive` - what Flush, Rotate or an
  automatic flush reported as written stays readable until its segment is
  deleted, over any number of crashes, recoveries, failed opens, syncs, sidecar
  writes and removals.

Both exclusions are needed: `SpoolShortWrite` violates the property with the first,
and the instance of the table above with the second. Its inductive invariant `DurInv` says why the code is
right otherwise. Of a running store: no active file has a tear (`Clean`), so what
is appended to it is read; a segment whose records are all in its buffer has a
file with no flushed record in it (`Unsaved`), so that the removal of a file
"without records" (store.go:251) and the subtraction of a dropped batch
(store.go:169) lose nothing flushed; no record is held by two kinds (`Apart`),
so that what one kind saves was not unsaved in another. Of any store: a file
that does not exist has no content (`Sealed`), and flushed records were offered.
`Durable` states this for one helper call and `DurableTwice` composes calls;
`StepKeeps` lifts it to a step of the running store, `SparedDur` to one that
leaves the store closed, `RemovalDur` to a deletion.

For every choice of constants with `Smooth` ("short" is not among the faults;
everything else may fail, and the process may die inside a write):

* `TearsStayFinal`: `Spec => []TearsAreFinal` - a torn member is the last of its
  file, so nothing is written that no reader reaches.

`TearsAreFinal` is not inductive: what may be appended to a file depends on the
whole of it. `TearInv` adds that the active files of a *running* store have no
tear at all (`Tidy`) - a death inside a write leaves one, and the next `Open` moves
the file into `closed/` before anything is appended - and that a file that does not
exist has no content. Without `Smooth` it is false: the store goes on appending
behind a short write, which is what `SpoolShortWrite` shows of its records.

In `SpoolRefinement`, for every choice of constants with `Quiet` (the process may
die anywhere and removals may fail; opens, writes, syncs, renames into `closed/`
and sidecar writes succeed):

* `SpoolIsALog`: `Spec => ImplementsLog` - the spool implements `TelemetryLog`
  under the mapping of `Spool`: pending is what is in memory and not on the disk,
  durable what some spool file yields.

`Quiet` is needed: with a failed write or close, Append returns an error or drops
a batch, and a record is gone that no crash cost; `LossesExplained` below is what
holds then. The argument has two halves. A deletion must take away exactly the
records of the segments deleted, so no record may be in two files: `Disjoint`, and
across kinds the last part of `LogInv`, kept because a record moves into memory
with a number never offered before (`Fresh`). And Append must never be refused, so
a rotation must never find its file missing: `Good` says that a segment with
records outside its buffer has a file, and that one without them has nothing in
it that its removal could lose (store.go:251). `Faithful` states both for one
helper call, `Left` for the disk a death inside one leaves; `RunningStep`,
`StoppedStep` and `RemovalLogs` map the three sorts of step to the log's.

In `SpoolAccounts`, what the spool says of its own content:

* `PromisesHold`: `Spec => []PromiseKept` if `Smooth` and `Unmixed` - a sidecar never
  promises more records than the file behind it decodes to;
* `SidecarsExact`: `Spec => []SidecarExact` if also `Precise` - it promises exactly
  what the file holds, with its size and the range of its times;
* `LossesExplained`: `Spec => []LossExplained` if `Gentle` - while the process runs, a
  record that is nowhere was refused, died with an earlier process, or is in the
  drop counter.

`Unmixed` says that no sidecar without data can come to label a file that got none:
the first is left by a removal that is interrupted (faults "removeMeta" and
"crashRemove"), the second by a closing that is ("meta", "crash"), and both may get
one name. `Precise` leaves out "sync" and "rename": a failed sync takes the batch
off the count although it reached the file, so the count is then a lower bound
only. `CountInv` says when the counters of an open segment are those of a file:
they are ahead of the active file by what is buffered (`Counted`), and every
sidecar labels its own file (`Labels`). `LossInv` counts what the drop counter
owes: `Owed` is what is neither `Settled` - in memory, flushed, in a closed segment,
or deleted with one - nor lost with a process. What a failed flush left in an
active file is not `Settled`, for the file may go with its segment; so it is owed
from the moment the batch is dropped. A dead process owes nothing: `Dies` moves
what is nowhere into `lost`.

* `RetentionWorks`: `Spec => RetentionIsRight` if `Smooth`, `Unmixed` and `Precise` - a pass
  over a spool within its cap deletes only what is past the age limit, and one in
  which every removal succeeds ends under the cap or with nothing listed.

Retention goes by the sidecars while the cap is about files, hence the hypotheses of
`SidecarsExact`: a sidecar with a wrong size stops the loop too early, one with a
wrong time deletes what is recent. (`SpoolLog` checks the property with death and stuck
sidecars together, which `Unmixed` leaves out.) `PassInv` is the invariant of
`SidecarsExact` with `FewInv`: the closed segments of a kind are finitely many, for the
sums over them mean nothing otherwise. `Chosen` fixes what a pass deletes by what
stands before each segment in the listing; `RemovalFrees` gives the size of the
spool after it as a sum over what is left, and `ReachesCap` compares the two.

### The agent

* `ShippedBeforeRemoval` (`AgentProofs`): `AgentSpec => []ExportedBeforeRemoved`,
  for every fault of the spool and of the export. `ExportedBeforeRemoved` speaks
  of what is removed; the invariant `ShipInv` adds what is about to be: the
  segments a running export has still to remove are in a bundle, and no other
  phase has any. Most actions leave removal, bundles and expiry alone (`Calm`)
  and share one lemma; the rest are the completion of a bundle, the removals, a
  death inside one, and retention, whose deletions are expired.
* `ListingStaysAccurate`: `AgentSpec => []AgentTypeOK`. With the types, `AgentInv`
  says that a handler runs only while the process is up and that only a written
  export has segments to remove; so what is on the list is on the disk.
* `AgentIsASpool`: `AgentSpec => Spec` if "crash" is among the faults. `SpoolStep`:
  every step of the loop is a step of the spool or `Leaves`, the exit after a
  shutdown, which for the spool is a death. So every theorem about the spool holds
  of the spool the agent uses, the refinement of `TelemetryLog` included.
* `StopsClean`: `AgentSpec => []CleanStop`. The property itself says where: if
  nothing fails but the process may die, a stopped agent has nothing in memory and
  no active file. `StopInv`: an open segment has records, in its buffer or in its
  file (`Neat`), so that closing it leaves no file behind.
* `ShippedAtMostOnce`: `AgentSpec => []ShippedOnce` if `OneShipment` - the agent
  removes what it exports (`keep_after_export` ships again by design), it does not die
  inside a handler (a death in the cleanup leaves what was shipped), and a removal
  does not fail on the data file and on its sidecar both (the segment stays listed).
  `OnceInv`: every record is in one place at a time, in what one kind holds or in
  one listed segment; and what a running export is not about to remove is in no
  bundle.

### Two processes

* `ClosedSegmentsAreFinal` (`CommandsProofs`): `SharedSpec => ClosedIsFinal` if
  "flush" is not among the windows. `FinalInv`: the file the agent writes to is
  the active one, and that is not among the closed ones. With "flush" TLC refutes it,
  so the assumption is needed.
* `OneFailureEach`: `SharedSpec => []OneFailurePerTake`. The count is not inductive:
  when a file is taken its failure is yet to come. `OneInv` keeps one failure in
  hand while the agent is robbed (its segment is open, its file gone).
* `BundlesHoldEverything`: `SharedSpec => []BundlesHoldAll` if `AutoDaily = FALSE` and
  `Windows = {}`. TLC refutes it with any window, and with `AutoDaily`: two exports
  at once remove each other's segments. `BundleInv` follows a record from the buffer
  (`Buffered`) into a file (`Filed`) and from the listing of an export to its bundle
  (`Shipping`, `Finished`); `Roles` says which process may be where. That a rename
  into `closed/` finds a name needs the pigeonhole principle (`NameIsFree`): there
  are more names than files.
* `DeploymentIsKept`: `IdentitySpec => []DeploymentKept`, for every number of days.
  `IdentityInv` follows what a command has read and not yet written: two identities
  need a failed read, two first starts at once, or a loss of power, and the
  property names them.
* `InventoriesProve`: `SettingsSpec => []InventoryIsProof`, for every configuration
  file. `SettingsInv`: the running process has left an inventory record with its
  settings, and nothing with other settings was written since (`RunningProved`).

### Collection

* `EventsLieApart` (`CollectionProofs`): `SpikeSpec => []CooldownHolds`. An event opens
  after `cooldownTill`, which counts from the end of the last one; `CoolInv`
  relates every completed event of a series to the series' `cooldownTill` and
  every event's start to the clock. Thresholds, baselines and lists play no part
  in it, so one lemma per phase of the machine shows what each does to times.
* `EventsAreReal`: `SpikeSpec => []EventsFollowRule`, for every rule, threshold and
  size of the lists. The property compares an event with the samples; the machine
  holds only two moments of them, `aboveSince` and `belowSince`. `SpikeInv` says what
  these stand for: since `aboveSince` all samples are above, for less than the
  sustained time (`Climbs`); since `belowSince` all are below, for less than the
  closing delay, the one before it was above, and no quiet stretch before was as
  long (`Falls`). An event is followed through its life by what is known of how it
  began, goes on and has ended (`Began`, `GoesOn`, `HasEnded`), and one lemma per
  phase (`QuietHolds`, `DuringHolds`, `PostHolds`) moves it along. Apart from it stand
  the lists: thinning keeps their order and first sample (`Thins`), a ring loses
  its oldest entry only (`RingTakes`, `RingHolds`), and so a ring longer than the
  sustained time holds the whole climb (`RingGrows`). That the counter of open
  events is exact needs the sums below (`CountMoves`).
* `SpikesBecomeEvents`: `SpikeSpec => []SpikesAreEvents` if `Cooldown > 0` (ten minutes by
  default). It is the other half of `Climbs`: any run of samples above the threshold
  outside the cooldown starts no earlier than `aboveSince`; and the threshold is never
  above the static one (`ThresholdIs`). With a cooldown of zero the sample that
  completes an event would be the first of a climb and starts none (spike.go:194).
* `EvidenceIsKept`: `CaptureSpec => []CaptureComplete` if
  `Window <= CloseBelow + PostCapture`. `EvidenceInv` rests on `SpikeInv`. The ring is in
  order, and what it has lost is older than its first entry, which happens only to a
  full ring (`RingHeld`); an event that is open was observed at every host sample
  since its opening (`WatchedTo`), for the counter is exact and a snapshot is then due;
  and a snapshot taken after an event is finished does not overlap it any more
  (`EvidenceStays`). The last needs the assumption: the window is two minutes
  (agent.go:209), `closeBelow` one (spike.go:47) and `post_capture` three by default. With
  a `post_capture` of less than one minute in the configuration file, the end of the
  window would be collected before its snapshots are taken.
* `LeadersAreKept`: `AttributionSpec => TopKept`. What is left out of a snapshot lost
  the second pass, which is over what the first left: those that won it are `TopN`
  others with as much memory (`SnapshotKeepsLeaders`). The mutant whose two passes share
  one quota has no such second pass.
* `WorkIsNamed`: `AttributionSpec => []NamedForItsWork` if numbers are not given again
  (`Reuse` is false; the counterexample with it is a finding). `Accounts` is what
  the property leaves out: with every number goes one name and the CPU time it consumed,
  no two samples of a number differ by more than that, and the times of a program's
  numbers add up to `burnt`. `NumbersAreKept` is where reuse would break it;
  `WorkStep` moves all of it over a snapshot, and `MergedIs` says that an accumulator
  is the difference of two samples. The naming needs no such condition
  (`DominantComesFirst`): whoever comes first is not behind the one with more than half.
* `BlameIsExact`: `ScheduleSpec => []ScheduleMatches`, for every mixed radix, tolerance
  and set of schedules (a step that is not positive counts as one, sched.go:50). A remainder of
  zero is a whole number of steps (`FieldExpansion`), so the walk over the minutes
  finds exactly the firing times (`CronMatch`). For timers (`TimerMatch`) the distance on
  the clock's face is the least among all whole numbers of days, and a week's
  worth of days suffices.
* `RecordsAreOfTheirMinute`: `MinuteSpec => []MinuteHoldsItsOwn`,
  for clocks that jump by any amount. `MinInv`: what is pending was taken in the
  minute that is pending.
* `SamplesAddUp`: `MinuteSpec => []MinutesAddUp`. `AddInv`: the samples of the
  records, of the pending minute and of what was lost add up to what was offered. The
  step that closes a minute moves a sum (`OneMinuteMore`, `Emitted`) and needs the
  lemmas on sums below.
* `FiguresAreReal`: `SamplerSpec => []RatesAreReal`, for every width of a counter.
  `SampleInv`: what the sampler holds of the last reading is behind the host by at
  most the work done since, so a difference is that work, modulo resets, and the
  shares of it are at most a hundred and add up (`SharesFit`). It rests on an
  assumption about the host that the kernel does not give: no field of the CPU
  line goes back (`CpuDeltas`). If idle or iowait did, which Linux allows, the shares
  would not add up.
* `HealthIsTrue`: `HealthSpec => []HealthIsHonest`, from two
  arguments. `IssuesAreKept`: `ListInv` says of the list what the property and its
  bound say of its range: no pair twice, none that was not seen, none missing while
  there is room. `NoFalseHealth`: a repeated error returns before the status is set
  (health.go:47), so `NeverFalselyOk` needs `StatusInv`: a collector with an error
  behind it never shows "ok" again. That is what makes the failing `GoodIsOk` and
  this theorem two sides of one line. `CountsInv` adds the types that are left.

### SQL Server

* `ScansAreRecorded` (`AnalyzerProofs`): `Spec => []ScanIsRecorded`, for every set of names
  and every order in which a scan reports its instances. `SqlInv` adds what the host
  guarantees: no two running instances share a name or a process number. A scan is a
  fold; `ScansKeep` shows over it that no instance undoes what an earlier one
  did (`Better`) and that each leaves a connection or a record (`Noted`).
* `TicksSeeInstances`: `Spec => TickSeesInstance`. `FoundAll`: a scan without
  repetitions and of the right length has every instance; so the lookups
  by name and by number find the one that runs.
* `SamplesAreTrue`: `CollectSpec => []SamplesAreReal`, over restarts of the engine, resets
  and failed queries in any order. `CountersInv`: whatever the collector still holds of
  a counter is behind the server by at most the work done since (`Behind`), so no
  difference is more than that work.
* `SilenceProvesNothing`: `CollectSpec => []SilenceIsNoEvidence`. A step either leaves a
  sample alone or takes one from queries that answered; what reaches the ladder from
  an instance nobody read lands on a rung that sizes nothing down.

### Analyzer

* `AdviceIsSafe` (`AnalyzerProofs`): `RecommendSpec => []AdviceHolds`, for all hosts and
  instances whose figures are natural numbers and whose memory use is not above its own
  peak (`RecommendAssumption`: it is what the summaries deliver). The ladders are case
  analysis (`HostLadder`, `SqlLadder`); that the ranges hold the measured need
  with its reserve is arithmetic on rounded-up quotients (`CeilIs`, `CapacityHolds`,
  `MemoryHolds`).
* `ImportsAreHonest`: `DatasetSpec => []ImportIsHonest`, for every set of bundles,
  any damage in transit and any order of reading. `DatasetAssumption` says that
  bundles, segments and their records are sequences and records have a time.
  `ImportInv` adds to the property what it follows from: a bundle that was read and
  is damaged or rejected has its warning (`Warned`), the data of a host are made of
  what its bundles ship (`Sourced`), and whatever an accepted bundle still held of its
  segments is there (`Kept`) - before `normalize` itself, afterwards perhaps another
  record of its minute or event. `DecodeSegmentsKeeps` and `DecodeKeeps` show for the
  two loops, over any number of segments and records, that they lose nothing (`Keeps`).
* `OverlapsAreHarmless`: `DatasetSpec => []OverlapIsHarmless`, from the same invariant.
  `NormalizeCleans`: what `Dropping` leaves is an increasing choice of the places that are
  not dropped (`DroppingChooses`), so over a sorted list one record of each minute
  (`MinutesOnce`) and the first of each event (`EventsOnce`). That all bundles have been
  read when `normalize` runs needs the pigeonhole principle (`EveryBundleOnce`).
* `FiguresAreRight`: `StatsSpec => []FiguresHold`, for every series of minutes in the
  order of time (`MinutesInv`). Times of whole minutes rise by one at least (`TimesRise`),
  so a span as long as the series has no gap. `SortedIs` counts what lies above and
  below a place, and a percentile lies between two neighbouring places (`QuantileIs`).
  For the loop over the minutes, `Scanned` says what it holds after each: the best run
  is the first of the longest among the minutes before the current run, and the current
  run cannot start earlier; when it ends, the better of the two is the longest so
  far (`ScanCloses`), because two runs that overlap are one (`RunsJoin`).
* `PatternsAreRight`: `RecurrenceSpec => []PatternsHold`, for every set of groups, times
  of day and history. The loop is used through one fact (`BasesAre`): an event of the group
  starts a cluster exactly when no earlier start is near it. So every event has a start
  near it and not after it (`BaseOf`), all events of a regular job have the same
  first one (`JobsFound`), and the starts of a prefix are the starts among its
  events (`BasesOfFront`), which is why a later event never unmakes a pattern.

### Shared lemmas

The library's induction theorems take an operator, which no backend can
instantiate. `Lemmas` argues by a smallest counterexample instead
(`SmallestSet`, `LeastNumber`, from the well-foundedness of inclusion on finite
sets), and gets from it that the recursion behind a sum or a fold of the community
modules has a solution (`SumsExist`, `FoldExists`), what a sum is when an element
comes, goes or changes (`TotalAdd`, `TotalRemove`, `TotalBut`), that a finite set
of numbers has a greatest element, and what a quotient is worth in an inequality.
Loops are recursive functions on `0 .. n`: `RecursionExists` gives such a function its
equation, and `UpTo` is induction along it, over a set of numbers instead of a
predicate.

## Model-checked only

* Liveness under fairness (`EventuallyShipped`, `InstanceIsExported`): fairness is
  stated with ENABLED, which the prover does not reason about.

Every safety and every action property that a passing run checks is stated by a theorem.

## Not modelled

* Bytes, JSON, gzip and encryption: a member is whole or torn, an encryption
  works or fails, a ciphertext is damaged or not.
* Records Append refuses because they do not marshal: nothing changes.
* Directories that cannot be created or read.
* The ciphertext directory a killed export leaves behind, which nobody reads.
* The schedule tick, which replaces the list `Schedule` reads, and the parsing
  of cron and timer text.
* Host inventory reads, `AttachFS`, `readPSI`, `readVMCounters`, the registry and
  `mssql.conf`: reads of the platform without state.
* `buildHAGroups`, reports, demo data, service glue: layout of a finished result,
  test data, command lines.
* In `Settings`, the flush that a new day forces on one kind alone: records reach
  the spool in order.
* `store.Append` failing inside the SQL manager: its result is not looked at
  there (sqlmanager.go:112), so nothing in the manager changes; what becomes of
  the record is `Spool`'s subject.

What could come next: a composition of `Agent`'s bundles with `Dataset`, from the
spool of one host to the data set of the analyzer.
