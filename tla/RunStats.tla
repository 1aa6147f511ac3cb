------------------------------ MODULE RunStats ------------------------------
(***************************************************************************)
(* The statistics of measured orders, computed twice in the platform: by   *)
(* drainRingBuffer and percentiles of internal/judge for the result of a   *)
(* run, and by internal/ingest/aggregator.go for a leaderboard window.     *)
(*                                                                         *)
(* A sample is what a metric says of an order: RecvTime - SentTime in      *)
(* whole microseconds, negative when the wall clock was set back between   *)
(* the two readings, and whether the response was correct.                 *)
(***************************************************************************)
EXTENDS Integers, Sequences, FiniteSets, SequencesExt

Verdicts == {"correct", "wrong"}
Samples(latencies) == [us : latencies, verdict : Verdicts]

\* A latency below one microsecond is recorded as one.
Clamp(us) == IF us = 0 THEN 1 ELSE us

CountCorrect(samples) ==
    Cardinality({k \in DOMAIN samples : samples[k].verdict = "correct"})

\* acc = op(acc, x) for each x of a slice, in order.  It is FoldLeft, written as a
\* recursive function so that the proofs can follow the loop.
Loop(op(_, _), init, data) ==
    LET acc[n \in 0..Len(data)] == IF n = 0 THEN init ELSE op(acc[n - 1], data[n])
    IN  acc[Len(data)]

-----------------------------------------------------------------------------
(***************************************************************************)
(* internal/judge                                                          *)
(***************************************************************************)

\* drainRingBuffer's latencies: an order whose clock went backwards is counted
\* but has no latency.
AddLatency(latencies, s) ==
    IF s.us >= 0 THEN Append(latencies, Clamp(s.us)) ELSE latencies

Measured(samples) == Loop(AddLatency, <<>>, samples)

\* sort.Slice, of the library of Go: which sort it is does not show in its result.
AtMost(data, v) == Cardinality({j \in DOMAIN data : data[j] <= v})

Insert(sorted, x) == InsertAt(sorted, AtMost(sorted, x) + 1, x)

Sorted(data) == Loop(Insert, <<>>, data)

\* Faulty variant: a fraction of n instead of n - 1.
IndexOver(n, pct) == (n * pct) \div 100

\* int(float64(n-1) * pct / 100.0), a position in the sorted latencies from 0.
Index(n, pct) == ((n - 1) * pct) \div 100

\* Faulty variant: the latencies are not sorted.
PercentileUnsorted(data, pct) == IF data = <<>> THEN 0 ELSE data[Index(Len(data), pct) + 1]

\* One of the three values of percentiles.
Percentile(data, pct) ==
    IF data = <<>> THEN 0
                   ELSE Sorted(data)[Index(Len(data), pct) + 1]

\* The result of drainRingBuffer; CorrectRatio is correct / count.
LocalStats(samples) ==
    LET data == Measured(samples)
    IN  [count |-> Len(samples), correct |-> CountCorrect(samples),
         p50 |-> Percentile(data, 50), p90 |-> Percentile(data, 90),
         p99 |-> Percentile(data, 99)]

-----------------------------------------------------------------------------
(***************************************************************************)
(* internal/ingest                                                         *)
(***************************************************************************)

\* The collector's latency of a record: 1 when the clock went backwards.
RecordLatency(us) == IF us >= 0 THEN Clamp(us) ELSE 1

\* The counters of a contestant in a new window.
NewWindow == [cnt |-> 0, ok |-> 0, sumUs |-> 0, minUs |-> 0, maxUs |-> 0]

\* Faulty variant: the minimum starts at 0 like the maximum.
AddSampleZero(w, s) ==
    LET us == RecordLatency(s.us)
    IN  [cnt |-> w.cnt + 1,
         ok |-> w.ok + (IF s.verdict = "correct" THEN 1 ELSE 0),
         sumUs |-> w.sumUs + us,
         minUs |-> IF us < w.minUs THEN us ELSE w.minUs,
         maxUs |-> IF us > w.maxUs THEN us ELSE w.maxUs]

\* Aggregator.Add; a minimum of 0 means that there is none yet.
AddSample(w, s) ==
    LET us == RecordLatency(s.us)
    IN  [cnt |-> w.cnt + 1,
         ok |-> w.ok + (IF s.verdict = "correct" THEN 1 ELSE 0),
         sumUs |-> w.sumUs + us,
         minUs |-> IF w.minUs = 0 \/ us < w.minUs THEN us ELSE w.minUs,
         maxUs |-> IF us > w.maxUs THEN us ELSE w.maxUs]

Window(samples) == Loop(AddSample, NewWindow, samples)

-----------------------------------------------------------------------------
(***************************************************************************)
(* Reference definitions                                                   *)
(***************************************************************************)

\* v is a value of data such that pct per cent of the others, rounded down, may be
\* smaller and no more are: neither sorting nor an index is needed to say so.
IsPercentile(v, data, pct) ==
    /\ v \in Range(data)
    /\ 100 * Cardinality({j \in DOMAIN data : data[j] < v}) <= pct * (Len(data) - 1)
    /\ 100 * Cardinality({j \in DOMAIN data : data[j] <= v}) > pct * (Len(data) - 1)

\* The three percentiles of a result are what they are called, and 0 without data.
PercentilesAt(r, data) ==
    IF data = <<>>
      THEN r.p50 = 0 /\ r.p90 = 0 /\ r.p99 = 0
      ELSE /\ IsPercentile(r.p50, data, 50)
           /\ IsPercentile(r.p90, data, 90)
           /\ IsPercentile(r.p99, data, 99)
           /\ r.p50 <= r.p90 /\ r.p90 <= r.p99

\* The two computations on the same samples: the percentiles are latencies with the
\* right share of the others below them, and the window counts what the run counts, its average is between
\* its minimum and its maximum, and so are the percentiles.
Agree(samples) ==
    LET data == Measured(samples)
        run == LocalStats(samples)
        win == Window(samples)
    IN  /\ PercentilesAt(run, data)
        /\ win.cnt = run.count /\ win.ok = run.correct
        /\ run.count > 0 => 1 <= win.minUs
        /\ win.cnt * win.minUs <= win.sumUs /\ win.sumUs <= win.cnt * win.maxUs
        /\ data # <<>> => win.minUs <= run.p50 /\ run.p99 <= win.maxUs
=============================================================================
