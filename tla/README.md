# A TLA+ model of the IICPC benchmarking platform

Contestants submit Docker images of matching engines. The platform runs each
image in a sandbox, drives it with a fleet of bots, measures every order, and
ranks the contestants on a live leaderboard. This directory models the parts of
it that are concurrent, that can fail halfway, or that must not lose anything,
checks them with TLC on small instances, and proves their safety properties
with TLAPS for every value of the constants.

## 1. Inventory

| Part | Source | State it keeps | Operations | What is hard |
| --- | --- | --- | --- | --- |
| Ring buffer | `internal/telemetry/ringbuffer.go` | `write`, `read`, slots | `Push`, `PopInto` | lock-free claims, a claim and its store are two steps, unsigned wrap, the full buffer |
| Judge engine | `internal/judge/judge.go` | locals of `Run`, two contexts; Redis `run:*`, `runs:*` | `Run`, `fail`, `saveResult`, `drainRingBuffer`, `percentiles` | every call may fail or be cut off by one of two contexts; errors of saves are dropped; clocks that go back |
| Sandbox | `internal/sandbox/docker.go` | Docker's containers, one host port | `EnsureInternalNetwork`, `RunSandbox`, `StopAndRemove` | a call cut off may have taken effect; removal under the context that expired |
| Judge API | `cmd/judge_api/main.go` | queue channel, `pending`, `running` | `createSubmission`, `judgeWorker`, admin handlers | handlers race the worker; the queue is lost with the process; exit does not wait for the worker |
| Bot fleet | `internal/botfleet/botfleet.go`, `cmd/bot_fleet` | pending orders of each bot | `Run`, `runBot`, `runBotUnary`, `publishMetric` | responses late, duplicate or missing; join before drain |
| Ingester | `cmd/telemetry_ingester/main.go` | `msgCh`, `toCommit`, `pending`, the aggregator's window | workers, collector, `flush` | offsets against records, failing commits and flushes, shutdown, restart |
| Aggregator | `internal/ingest/aggregator.go` | histograms and counters of a window | `Add`, `FlushAndReset`, `ComputeScore` | what a window counts; floating-point scores |
| TimescaleDB store | `internal/store/timescale.go` | table `metric_records` | `InsertBatch`, queries | one batch is one transaction |
| Leaderboard API and page | `cmd/leaderboard_api/main.go`, `frontend/leaderboard-ui` | Redis `leaderboard`, `leaderboard:*` | `/leaderboard`, `/stream`, history, proxy | reads in two commands; reset, trim and flush overlap; updates that get lost |
| Registry | `internal/registry/registry.go` | Redis `contestant:*`, `submission:*` and their lists | register, save, get, list | `EXISTS` then `SET`; pipelines lost halfway; lists read in two commands, trimmed and cleared meanwhile |
| Others | `internal/kafka`, `cmd/sandbox_manager`, `cmd/mock_matcher*`, deployment | none of their own | | wrappers, test servers, scripts |

How they interact: `createSubmission` sends to the channel that `judgeWorker`
receives from; the worker calls `Engine.Run`, which calls Docker, starts the bot
fleet and drains the ring buffer that the bots pushed into. The bots also
publish each metric to Kafka. The ingester reads Kafka, writes rows to
TimescaleDB and one window per contestant to Redis, and announces it on the
channel `leaderboard_updates`. The leaderboard API serves Redis and relays the
channel to the page, which fetches again. The admin resets the leaderboard from
the judge API while all this goes on.

What makes each part correct: the buffer neither loses, invents nor repeats a
metric, and refuses one only when it is full; a submission is judged once, in
order, ends with a final result that nobody rewrites, and leaves no container;
the ingester drops no record and counts none twice; the leaderboard shows the
latest window, keeps its best entries, and is empty of old ones after a reset;
each order of a bot is measured once, by its first response, and the fleet comes
to an end whatever the engine does; what a client was told is registered or
submitted is listed, and what is listed has a record.

## 2. Modules

| Module | Models | Used by |
| --- | --- | --- |
| `MetricQueue` | what the buffer promises: a bounded FIFO queue that refuses when full | refinement in `RingBuffer`, `BotFleet` |
| `RingBuffer` | `Push` and `PopInto`, one step per atomic instruction and slot access; the mapping to `MetricQueue` | `MCRingBuffer`, `RingBufferProofs` |
| `JudgeEngine` | `Engine.Run`, one step per outside call | extended by `JudgeApi` |
| `JudgeApi` | request handlers, queue, worker, the life of the process | `MCJudgeApi`, `JudgeProofs` |
| `Ingester` | workers, collector, flush, the life of the process | `MCIngester`, `IngesterProofs` |
| `Leaderboard` | flush, trim, reset, reads and updates of the leaderboard in Redis | `MCLeaderboard`, `LeaderboardProofs` |
| `RunStats` | the statistics of a run and the counters of a window, as operators, with reference definitions | `BotFleet` |
| `BotFleet` | the bots, their receivers, the join and the judge's drain, over `MetricQueue` | `MCBotFleet`, `BotFleetProofs` |
| `Registry` | registrations, submissions and their listings, one step per Redis command | `MCRegistry`, `RegistryProofs` |
| `RunRecords` | saves, listings and clears of run records, one step per Redis command | `MCRunRecords`, `RunRecordsProofs` |
| `SequenceLemmas` | no part of the system: lemmas about sequences that grow or shrink at an end, and about loops over them | the proof modules |

### RingBuffer
`write`, `read` and `buf` are the fields of the struct; `w`, `rd`, `n`, `i` the
locals of the two methods; `pc` and `cpc` say where each goroutine is. `Push` is
`CallPush` (call and load of `write`), `LoadRead` (load of `read` and the full
test), `Claim` or `Retry` (the CAS) and `Store` (the slot). `PopInto` is
`PopNothing`, or `BeginPop`, one `Copy` per slot and `Publish`. The slots are
plain memory: a copy that overlaps a store may see the old value, the new one or
a mixture (`Torn`), and so may two overlapping stores. The positions are `Nat`
(2^64 pushes do not happen) but the subtraction of `Push` is taken modulo `Word`,
since it wraps as soon as `rd` is larger than `w`. `claimed`, `dropped` and
`popped` are history. `ConcurrentDrain` tells the two users apart: `judge.go`
drains after `wg.Wait`, `cmd/bot_fleet` polls while the bots run.

### JudgeEngine and JudgeApi
`stage` is the program counter of `Run`. `ctx` is the caller's context and
`runCtx` the one `Run` derives from it; either may expire between two steps, and
`Create` and `Start` may be cut off with their effect done (`CutOff`). Every
early return of `Run` is `Fail`, which saves the result as FAILED and then runs
what was deferred (`Cleanup`). `saveResult` is four Redis commands, each of
which is skipped under an expired context or lost, its error dropped
(`SaveStep`). A container is absent, created or running; the host port is fixed,
so `Start` needs that none is running. Run ids come from the nanosecond clock
and are modelled as fresh numbers. What the fleet measured is reduced to a
number of orders.

In `JudgeApi`, `req[s]` is where the request that creates submission `s` is.
Sending to the queue and counting it are two steps, as receiving and
discounting are. `Interrupt` is the signal; `Down` is a crash or `main`
returning, which can happen at once after the signal because nothing waits for
the worker; `Restart` finds Redis and Docker as they were and an empty queue.
Only SIGINT is caught, so the SIGTERM of a stopping pod is a crash.
Without Docker (`eng = "nil"`) submissions are accepted and not queued.

### Ingester
A record is its offset in one partition. `Bad` records do not decode, `Poison`
records make the database refuse their batch. `CommitMessages` sets the group's
offset to one past the highest argument, also backwards. `Commit`, `FlushRedis`
and `Insert` are the steps of a tick; `Shutdown` is the case of the cancelled
context with its last flush. A call fails if its context is cancelled or by a
fault; a call whose effect is done and whose answer is lost is the successful
case, since the code does nothing on an error but log it. Kafka and the group
protocol are external: the reader hands out records in order and a restarted
group resumes at its offset, or at the end of the partition if it has none.

### Leaderboard
`board` and `detail` are the sorted set and the keys next to it. A flush is a
pipeline of three commands per contestant (`Exec` runs one; other clients come
in between), then `Card` and `Trim`, which the client library repeats with the same
ranks if its answer was lost. `resetLeaderboard` is `DelBoard` and then
pages of `ScanDetails` and `DelDetails`: SCAN visits each part of the key space
once, in any order. A fetch of the page is `ReadRanks` and `ReadDetails`, each of
which may fail instead (`FailFetch`, the answer 500). It is caused by an update
that was relayed (`Relay`), by the page being opened, or by the judge, which
announces the end of a run on the same channel (`Prompt`) with no row of its own
to show. Fetches may overlap. An update that is lost is one that is never
relayed. Scores are small numbers and windows are numbered.

### RunStats
A sample is the difference of a metric's two clock readings in microseconds
(negative when the clock was set back between them) and its verdict. `Measured`,
`Index`, `Percentile` and `LocalStats` are `drainRingBuffer` and `percentiles`;
`RecordLatency`, `NewWindow`, `AddSample` and `Window` are the collector's latency and
`Aggregator.Add`. `Loop` is a `for ... range` over a slice. `Sorted` stands for Go's
`sort.Slice`; that it inserts one element at a time does not show in what it
returns. The two computations treat a clock that went back differently: the judge
counts the order without a latency, the ingester records a latency of 1.
`IsPercentile` is the reference definition of a percentile, with neither a sort nor
an index: a latency such that at most `pct` per cent of the others, and no fewer
up to rounding down, are below it. `Agree` is that of all
statistics: percentiles, equal counts, and minimum, average and maximum of the window
around the percentiles of the run.

### BotFleet
`pc[b]` is where a bot's goroutine is and `rpc[b]` its receive goroutine. `Tick`
registers the order in `pending`, then `Send` returns (`SendOk`, `SendFails`).
`Recv`, `Lookup` (the section under the mutex) and `Record` are the receiver;
`Record` pushes into the abstract queue, which `RingBuffer` implements when it is
drained after the join. `Open` may fail, and then the bot makes unary calls
(`TickUnary`, `PlaceOrder`). The engine is external: `Answer` answers any order it
has received, again if it likes, or an order nobody sent, and `StreamEnds` ends
the stream, losing the responses still under way. An engine without
`StreamOrders` is a stream that ends before its first response. After `Join` the
judge drains (`Drain`) and computes the result (`Summarise`). What the two clock
readings of a metric differ by is chosen in `Drain`, since nothing looks at it
before.

### Registry and RunRecords
One step is one Redis command. In `Registry`, `at[q]` is the next command of
request `q`, or its answer; "ok" is a registration answered 201 or a submission
that `SaveSubmission` has stored (what the handler does next is in `JudgeApi`).
`Exec` runs the next command of the pipeline, or the rest of it is lost, or only
the answer is; then the client library may send the pipeline again, or the
request answers 500. A listing is the read of the index (`BeginList`) and of the
records (`MGet`); only what it has matters, not in which order. `pushes` is history.

In `RunRecords`, the worker goes through the eight commands of a run's two
saves and ignores errors; `BeginList` and `MGet` are a listing; `BeginClear`, `Scan` and
`Del` are `clearRuns`, in which SCAN visits each part of the key space once, in
pages of any content. A record expires some time after its run is over.
`JudgeEngine` models the same saves inside `Run`; here they meet their other
clients.

## 3. Runs

| Run | Expected | What it shows |
| --- | --- | --- |
| `RingJudge` | pass | three producers, two pushes each, three slots, the drain after the join: the buffer as the judge uses it is a bounded FIFO queue (`ImplementsQueue`), hands out what was pushed (`FaithfulPop`, `DrainComplete`), refuses only when full, and the drain ends |
| `RingFleetFaithful` | violation | a concurrent consumer copies a slot that is claimed and not stored |
| `JudgeSafety` | pass | two submissions, a queue of one, a lost command, a crash, both contexts expiring: judged once, saved, final, torn down |
| `JudgeLiveness` | pass | three submissions, a queue of two, no crash: judged in the order they were sent in, and every accepted one gets a final result, also when `runCtx` expires |
| `JudgeTeardown` | violation | a container whose creation or start was cut off stays |
| `Ingester` | pass | four records, two workers, one fault, one restart: nothing dropped, nothing counted twice in one life, everything stored in the end unless its batch failed, no record skipped by a restart after a commit |
| `IngesterCommit` | violation | a crash between commit and insert loses records |
| `Leaderboard` | pass | one ingester, two contestants, one place, a reset, a fetch, a lost command: ranks match details, a row fetched after an update is not older than it (`RowsAreFresh`), a reset is complete, the trim keeps the best as long as no command was lost |
| `LeaderboardTrim` | violation | two ingesters, each with a partition of its own, trim the same surplus twice |
| `BotFleet` | pass | two bots, three orders, an engine that answers late, twice, wrongly or never, a buffer of two: every order measured once by its first response (`FirstResponseCounts`), nothing runs on after the join, the result is complete, the fleet ends; the statistics of its samples, of any three samples and of some of up to 40 agree with their reference definitions (`StatisticsAgree`) |
| `Registry` | pass | two registrations of one id, three submissions, a list of two, two listings, two lost commands: what was answered is listed, what is listed is found, the newest stay, duplicates are refused |
| `RunRecords` | pass | three runs of one contestant, a listing, a clear, a lost command: a clear that answered 200 is complete, a listing skips only what is gone |

The violations are disagreements between the code and what its comments say;
`PROJECT.json` quotes the lines. The model shows more, with no run of
their own. With a concurrent consumer, `Push` can hold an older `w` than the `rd`
it loads; the difference wraps and a metric is refused with room in the buffer
(`RefusedOnlyWhenFull` holds in the judge's use only). A failed fleet is
recorded as COMPLETED when `runCtx` has expired meanwhile (`judge.go:231`). A run
cut off by its caller's context stays RUNNING in Redis, because `fail` saves
under that context (`OutcomeSaved` needs a live one). A bot whose engine lacks
`StreamOrders` does not fall back to unary calls, although `botfleet.go:123` says
so: gRPC reports the missing method with the first `Recv`. A registration lost
between its two commands answers 500, every retry answers 409, and the
contestant is never listed. Two overlapping registrations of one id may both be
answered 201. Each run is listed twice. Orders never answered on a stream are
not counted, while a unary call that fails counts as wrong. The throughput of a
window is its count over the nominal length of the window, also when the batch
was flushed early (`aggregator.go:172`). The counter of `GET /admin/queue` can be -1 for a moment, because the
worker may receive before the handler has counted (`PendingAccounting` states
what holds instead). Accepted submissions are forgotten by a restart, since the
queue is in memory (`AcceptedIsJudged` is checked without crashes). One
refused row takes its whole batch with it (`Committable`), although
`timescale.go:61` drains the results to keep the good ones.

**Bounds.** They are small and chosen so that the interesting cases happen. In
`RingJudge` three producers race for the last of three slots, and since `read`
stays 0 until all have exited, the pushes after the third claim are refused; no
slot is used twice and no difference wraps. Both happen with a concurrent consumer, for
which `OccupancyBounded` is proved and only the disagreement `RingFleetFaithful` is
run. With two
submissions and a queue of one, the second is refused as long as the worker has
not taken the first, and waits behind it afterwards; in `JudgeLiveness` two
submissions wait behind the first, and the third is refused while they do. `MaxRuns`
is the number of submissions, since a submission is judged at most once; a list of
three entries is trimmed by the fourth push. Two workers and a channel of one
deliver out of order and wait; a batch of two flushes early. One place for two
contestants makes every flush of both trim. A fetch of the page only reads, and no fetch changes what another gets, so one that
may begin at any moment stands for all of them. Two orders, one of them a
cancel probe, with two responses allow a duplicate, a late, an unknown and an
out-of-order response; the third order comes from the other bot, and a buffer of
two refuses it. Clock differences are negative, zero and positive. The statistics are also checked
on the constant `Inputs`: all sequences of up to three samples, and five long
ones around the lengths at which a truncated index changes (10, 11, 12, 21, 40); the
theorems of section 4 are about all lengths. Three
submissions on a list of two push one out; six pushes of three runs trim a list
of three. Faults are placed at every point they can occur at. Symmetry is used only in runs without liveness properties.

**Fairness.** Weak fairness of the goroutines: Go's scheduler runs them all, each
call of `Run` has a timeout, the ticker ticks, and a bot's context has a
deadline. A restart is fair because the deployment restarts its pods. No strong
fairness is assumed; in particular the CAS loop of `Push` ends because a CAS
fails only when another producer's has succeeded, and pushes are finite.
Arrivals, faults, expiries and crashes are never fair. Of the bots,
their receivers, the expiry of the context and the judge, weak fairness is
assumed, and nothing of the engine: it may never answer, and `Send` may block
until the context expires. `Leaderboard`, `Registry` and `RunRecords` have safety
properties only and may stop (deadlock is not checked there).

**Mutants.** Definitions whose comment begins with "Faulty variant" are not part of
the model: each is a plausible bug (a dropped guard, a swapped order, a missing
reset), and replacing its original by it makes TLC violate a property.

## 4. Proofs

Every safety property of a passing run is a theorem. The proofs hold for any number of
goroutines, records, requests, ingesters, faults and restarts, and any
capacities; the bounds of section 3 are of the runs only. They rest on the named
assumptions of the modules (sizes and bounds are natural numbers, `Owner`, `Of`
and `Home` are functions, the markers are not values) and on the two hypotheses
named below: `~ConcurrentDrain`, which is how the judge uses the buffer
(`DrainIsAlone`), and a single ingester.

All follow one pattern. The property alone is not inductive, because it is
about states in which a goroutine is at rest, and is broken or unprotected in
between; the invariant adds what holds in between. In the longer modules a
lemma for each action (`...Is`) says what it does to each variable at each
index, and the invariant is then shown for one bot, ingester or key at a time.

`RingBufferProofs`:

- `TypeCorrect` and `OccupancyBounded` hold for both uses of the buffer. The
  invariant is `OccupancyInv`: besides types and `Bounded` it says that a
  producer about to CAS holds a `rd` that is at most `read` and a `w` within `Size`
  of it, and that the consumer's batch lies between `read` and `write`. It is
  needed because `Bounded` alone does not survive `Claim`: the test was made
  with a `read` of the past, which is safe because `read` only grows.
- The other theorems assume `~ConcurrentDrain`, the judge's use. For
  `JudgeDrainFaithful`, `JudgeNoSlotClash` and `JudgeRefusesOnlyWhenFull` the
  invariant `JudgeInv` adds that `read` is 0 until all
  producers have exited, so all claimed positions are of one lap (`OneLap`), that
  each position belongs to the producer that claimed it (`Owned`), that a claimed
  position holds its metric unless its producer is still at the store
  (`Stored`), and that what was popped is a prefix of what was claimed
  (`Drained`).
- `JudgeDrainComplete` adds that each earlier call of a producer was either
  claimed or dropped (`CallsSettled`).
- `JudgeImplementsQueue`: the buffer implements `MetricQueue`. `Claim` maps to
  `Accept`, a full test to `Refuse`, `Copy` to `Take`, and every other step to a
  stutter (`QueueStep`); `JudgeInv` makes the mapped guards true.

`JudgeProofs`:

- `JudgeTypeCorrect`: types, with what holds inside a run (a submission, a run id
  and a result are there) and of the worker's hand.
- `FirstInFirstJudged`: the runs begun, the submission in hand and the queue are
  together exactly what was sent, in order.
- `RecordsAreFinal`: the record of a finished run is never rewritten. Its invariant
  says that the current run's record is not final before the last save, and that
  later run ids have no record.
- `PendingIsAccounted`: the counter is the length of the queue, less the sends
  not yet counted, plus the receive not yet discounted (`PendingInv`).
- `SubmissionsJudgedOnce` and `OnlyAcceptedAreRun`: a submission is in one place of
  the queue, the hand or the current run, in which case no earlier run is of
  it, and each id in Redis can be traced to a request that was stored (`OnceInv`).
- `ContainersTornDown`: `ContainerInv` says at each stage of `Run` whether the
  container is absent, covered by the deferred teardown, or excused by an
  expired `runCtx` or a lost command.
- `OutcomesAreSaved`: `SavedInv` says what each command of the save has written, as
  long as the context is live and no command was lost.
- `AcceptedAreKept` is the safety part of `AcceptedIsJudged`: under the conditions of
  the run `JudgeLiveness`, which `Calm` states (not interrupted, no crash, no lost
  command, no expired `ctx`), a submission that got to the queue waits, is in the
  worker's hand or has its final result, at every moment and for any number of
  submissions. `KeptInv` adds that the worker lets go of a submission only when its
  result is final, which it takes from `SavedInv`. Without `Calm` it is false: a crash
  forgets the queue.
- `CompletedRunsRan`, an action property of its own (`CompletedRan`): a record becomes
  COMPLETED only by a run whose sandbox had come up and whose fleet returned nil or
  met the end of `runCtx` (`CompletedInv`). Without the last case it is false: an error
  of the fleet counts as the end of the run's time then (`judge.go:231`).

`IngesterProofs`:

- `IngesterTypeCorrect` and `RestartsSkipNothing`: what is in memory was fetched, and
  committed offsets stay at or behind the reader (`FetchedInv`).
- `WindowsAreBatches`: the window and the batch differ only between the two halves
  of a flush (`WindowInv`).
- `FetchedIsAccounted`: each step moves a record to another place or gives it up.
- `StoredOncePerLife`: a record is in one place at a time (`Placed`), and one that
  may still be stored or published in this life was not stored or published in
  it yet (`OnceInv`).

`LeaderboardProofs`:

- `LeaderboardTypeCorrect`: `PipeInv` says that the rest of a pipeline keeps the order
  ZADD, SET, PUBLISH of each window, all of the ingester's latest window.
- `RanksMatchDetails`: a ranked contestant has its detail, or a reset took it, or its
  flush is between the ZADD and the SET, which is of the ranked row (`MatchInv`).
- `FetchedRowsAreFresh`: nothing is announced before it is written, and the page has
  heard of nothing that was not announced (`FreshInv`).
- `ResetsAreComplete`: during a reset, what flushes still write is of later windows,
  and nothing older is on the board or among the details SCAN has passed
  (`ResetInv`).
- `SingleIngesterKeepsTopN` assumes one ingester. As long as no command was lost,
  what ZCARD returned is still the size of the board, or a reset emptied it
  (`TrimInv`). With two ingesters it is false (`LeaderboardTrim`), and with one whose
  trim was repeated after a lost answer.

`BotFleetProofs`:

- `FirstResponsesCount`: an order sent is pending, measured or in the receiver's
  hand, a pending one is not measured (`Registered`), what was dealt with is
  measured (`Answered`), and each measured order has a first response with its
  verdict (`Once`). `Mode` says that a bot has a receiver exactly when it has a stream.
- `JoinedFleetIsQuiet`: bots are under way only while `Run` is, and a bot that
  returned has no receiver (`FleetInv`, `Mode`).
- `ResultsCountEverything`: each metric made is waiting, taken or refused, in one
  place and once (`Placed`), there is a sample for each one taken (`Sampled`), and
  the result is about all samples (`Summed`).
- `FleetTypeCorrect`, from both invariants.
- `PercentilesAtRanks`, for any sequence of samples: each pass of the sort keeps the
  list in order and the number of elements up to any value (`SortedIs`), hence the
  element at position `k` is of rank `k` (`RankAt`); the index of a percentile is
  inside the list and grows with the percentile (`IndexBounds`), and it is the
  percentile's share of the others, rounded down (`IndexIsShare`).
- `RunsAndWindowsAgree` adds `WindowAround`: after each sample, the minimum and maximum
  of the window are around every latency so far and its sum is between their
  multiples; a minimum of 0 means exactly that there is no sample yet.
- `StatisticsAlwaysAgree` and `ResultsAreComplete` apply these to the samples of runs.
- `FleetUsesTheQueue`: what bots and judge do to the buffer is a behaviour of
  `MetricQueue`, and `OffersAreNew`: the condition of `Accept` and `Refuse` that a metric is
  offered once is always met, so it takes no behaviour away from the bots.
- `DrainIsAlone`: a metric is taken only when no bot and no receiver is under way.
  Together with `JudgeImplementsQueue` this is why the buffer of the fleet is
  `MetricQueue`: the drain of `RingBuffer` begins after all producers have exited, and
  then the lock-free buffer implements the queue which the fleet uses.

The loops of `RunStats` need an induction over the length of a list. The induction
theorems of the library take an operator as a parameter, so `SequenceLemmas` states
the induction over sets of numbers instead: a set that has 0 and with each number
below `N` its successor has all of `0..N` (`UpToInduction`, from the least
counterexample). `LoopTyped` and the lemmas of each loop instantiate it with the
set of turns at which the claim holds.

`RegistryProofs`:

- `RegistryTypeCorrect` and `IndexesAreSound`: how far a request is in its pipeline says
  what it has written (`Written`), so an index entry comes after its record;
  what a listing reads of a list is the newest of all pushes, whichever of their
  trims have run.
- `DuplicatesAreRefused`: an answered registration has its record, which nothing deletes.
- `ListingsAreComplete`: the ids a listing has read have records and include all that
  were answered before it began (`ReadInv`).

`RunRecordsProofs`:

- `RunRecordsTypeCorrect`: the contestant's list exceeds its cap only by the entry
  just pushed and the trims that were lost (`LengthInv`).
- `ClearsAreComplete`: what is left of an old run is in the part SCAN has still to
  visit or among the keys to delete (`Cleared`).
- `SkippedAreGone`: as long as nothing was lost or cleared, every listed run has a
  record, or is over and the record may have expired (`ListedInv`).

Only model-checked: the liveness properties `DrainEnds`, `AcceptedIsJudged`,
`StoredInTheEnd` and `FleetEnds`, since `ENABLED` and fairness are out of the
prover's reach.

## 5. Not modelled

Scores and the HDR histogram (floating point), the text of responses and logs,
validation of input, CORS and the proxy, JSON, building images, resource limits
of the sandbox, clock resolution (ids are fresh), rebalances of the consumer
group, what the page displays when refreshes overlap (it keeps the answer that
arrives last, whichever fetch it is of), and commands that the client library sends
again after a lost answer, except in `Registry` and in `Trim` (elsewhere repeating a
command changes nothing more, or lists a run or announces an update once more), and the components that `PROJECT.json`
lists as not modelled: the Kafka wrapper and the console statistics have no
state of their own, the sandbox manager is a one-shot command, and the mock
engines are test servers, covered by the engine of `BotFleet`. Reads of a single
key (`GetSubmission`, `GetRunResult`, `QueryHistory`, `QueryRunStats`) change nothing
and have no step of their own.

## 6. Plan

What is left is about the components together:

- one module in which `BotFleet` runs over `RingBuffer` itself. Today that the fleet's
  buffer is a queue is put together from `JudgeImplementsQueue`, `FleetUsesTheQueue`
  and `DrainIsAlone`, each a theorem, by hand;
- that a submission which `Registry` answered is the one `JudgeApi` queues;
- that the saves of `JudgeEngine` implement those of `RunRecords`, which models the
  same commands among their other clients.
