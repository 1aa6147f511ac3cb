------------------------------ MODULE Ingester ------------------------------
(***************************************************************************)
(* cmd/telemetry_ingester/main.go: workers fetch metric records from one   *)
(* Kafka partition and decode them; a collector adds them to the           *)
(* aggregator's window and to a batch and, on each tick, commits offsets,  *)
(* flushes the window to Redis and inserts the batch into TimescaleDB.     *)
(*                                                                         *)
(* A record is its offset.  A commit, a Redis pipeline and an insert may   *)
(* be lost; the process may be interrupted or crash between any two steps  *)
(* and is restarted by its supervisor, its memory gone.                    *)
(***************************************************************************)
EXTENDS Integers, Sequences, FiniteSets, SequencesExt, FiniteSetsExt

CONSTANTS
    Workers,      \* the fetching goroutines
    NumRecords,   \* bound: records ever produced to the partition
    Bad,          \* offsets whose value proto.Unmarshal refuses
    Poison,       \* offsets whose row the database refuses
    ChanCap,      \* capacity of msgCh (4096)
    PendingCap,   \* batch size that flushes early (200_000)
    MaxFaults,    \* bound: commits, pipelines and inserts that are lost
    MaxRestarts   \* bound: times the process goes down

Offsets == 0..(NumRecords - 1)

ASSUME IngesterBounds ==
    /\ NumRecords \in Nat
    /\ Bad \subseteq Offsets /\ Poison \subseteq Offsets
    /\ ChanCap \in Nat \ {0} /\ PendingCap \in Nat \ {0}
    /\ MaxFaults \in Nat /\ MaxRestarts \in Nat

NoCommit == -1     \* the group has committed nothing yet
Idle == -1         \* a worker that holds no record
Gone == -2         \* a worker that has returned

VARIABLES
    end,        \* Kafka: records produced
    committed,  \* Kafka: the group's offset
    stored,     \* TimescaleDB: rows per record
    counted,    \* Redis: published windows per record
    proc,       \* "up", "stopping" (signal context cancelled), "down"
    position,   \* the reader's next offset
    hand,       \* the record each worker holds
    msgCh,      \* the channel from the workers to the collector
    phase,      \* where the collector is
    flush,      \* which flush comes next: "periodic", or the "last" of the shutdown
    toCommit,   \* offsets to commit
    pending,    \* the batch of raw records
    window,     \* the records the aggregator has added since its reset
    first,      \* history: position at the start of this life of the process
    lost,       \* history: records of batches that failed, or given up at shutdown
    faults,
    restarts

kafkaVars == <<end, committed>>
collectorVars == <<phase, flush, toCommit, pending, window>>
vars == <<kafkaVars, stored, counted, proc, position, hand, msgCh, collectorVars, first,
          lost, faults, restarts>>

Init ==
    /\ end = 0
    /\ committed = NoCommit
    /\ stored = [m \in Offsets |-> 0]
    /\ counted = [m \in Offsets |-> 0]
    /\ proc = "up"
    /\ position = 0
    /\ hand = [k \in Workers |-> Idle]
    /\ msgCh = <<>>
    /\ phase = "select"
    /\ flush = "periodic"
    /\ toCommit = {}
    /\ pending = <<>>
    /\ window = {}
    /\ first = 0
    /\ lost = {}
    /\ faults = 0
    /\ restarts = 0

\* The bots publish another record.
Produce ==
    /\ end < NumRecords
    /\ end' = end + 1
    /\ UNCHANGED <<committed, stored, counted, proc, position, hand, msgCh, collectorVars,
                   first, lost, faults, restarts>>

\* A call under the signal context goes wrong: the context is cancelled, or
\* the call is lost.
GoesWrong ==
    \/ proc = "stopping" /\ UNCHANGED faults
    \/ proc = "up" /\ faults < MaxFaults /\ faults' = faults + 1

-----------------------------------------------------------------------------
(***************************************************************************)
(* The workers                                                             *)
(***************************************************************************)

\* FetchMessage hands each record to one worker, in offset order.
FetchMessage(k) ==
    /\ proc # "down"
    /\ hand[k] = Idle
    /\ position < end
    /\ hand' = [hand EXCEPT ![k] = position]
    /\ position' = position + 1
    /\ UNCHANGED <<kafkaVars, stored, counted, proc, msgCh, collectorVars, first, lost,
                   faults, restarts>>

\* CommitMessages sets the group's offset to one past the highest of its
\* arguments, also when that is lower than what is committed already.  Under a
\* cancelled context it may still succeed: the reader's select has two cases.
CommitMessages(offsets) ==
    \/ committed' = Max(offsets) + 1 /\ UNCHANGED faults
    \/ GoesWrong /\ UNCHANGED committed

\* A record that does not decode is committed at once and forgotten.
SkipBad(k) ==
    /\ hand[k] \in Bad
    /\ hand' = [hand EXCEPT ![k] = Idle]
    /\ CommitMessages({hand[k]})
    /\ UNCHANGED <<end, stored, counted, proc, position, msgCh, collectorVars, first, lost,
                   restarts>>

\* Faulty variant: a send that does not wait for room.
DeliverOrDrop(k) ==
    /\ hand[k] \in Offsets \ Bad
    /\ msgCh' = IF Len(msgCh) < ChanCap THEN Append(msgCh, hand[k]) ELSE msgCh
    /\ hand' = [hand EXCEPT ![k] = Idle]
    /\ UNCHANGED <<kafkaVars, stored, counted, proc, position, collectorVars, first, lost,
                   faults, restarts>>

\* The send to msgCh, which waits while the channel is full.
Deliver(k) ==
    /\ hand[k] \in Offsets \ Bad
    /\ Len(msgCh) < ChanCap
    /\ msgCh' = Append(msgCh, hand[k])
    /\ hand' = [hand EXCEPT ![k] = Idle]
    /\ UNCHANGED <<kafkaVars, stored, counted, proc, position, collectorVars, first, lost,
                   faults, restarts>>

\* The context is cancelled: the worker returns, with the record it holds.
WorkerReturns(k) ==
    /\ proc = "stopping"
    /\ hand[k] \in {Idle} \cup (Offsets \ Bad)
    /\ hand' = [hand EXCEPT ![k] = Gone]
    /\ lost' = IF hand[k] = Idle THEN lost ELSE lost \cup {hand[k]}
    /\ UNCHANGED <<kafkaVars, stored, counted, proc, position, msgCh, collectorVars, first,
                   faults, restarts>>

Worker(k) == FetchMessage(k) \/ SkipBad(k) \/ Deliver(k) \/ WorkerReturns(k)

-----------------------------------------------------------------------------
(***************************************************************************)
(* The collector                                                           *)
(***************************************************************************)

\* The aggregator counts a record in its window ...
Add(m) == window' = window \cup {m}

\* Faulty variant: the counters are kept for the next window.
FlushAndResetNot == UNCHANGED window

\* ... and starts the next one when its window is taken.
FlushAndReset == window' = {}

\* The case d := <-msgCh, with the early flush of a full batch.
Collect ==
    /\ proc # "down"
    /\ phase = "select"
    /\ msgCh # <<>>
    /\ LET m == Head(msgCh)
       IN  /\ toCommit' = toCommit \cup {m}
           /\ Add(m)
           /\ pending' = Append(pending, m)
    /\ msgCh' = Tail(msgCh)
    /\ phase' = IF Len(pending) + 1 >= PendingCap THEN "commit" ELSE "select"
    /\ UNCHANGED <<kafkaVars, stored, counted, proc, position, hand, flush, first, lost,
                   faults, restarts>>

\* The case <-ticker.C
Tick ==
    /\ proc # "down"
    /\ phase = "select"
    /\ toCommit # {} \/ pending # <<>>
    /\ phase' = "commit"
    /\ UNCHANGED <<kafkaVars, stored, counted, proc, position, hand, msgCh, flush, toCommit,
                   pending, window, first, lost, faults, restarts>>

\* The batch of offsets is committed before the flush; an error is logged and
\* the offsets are forgotten.
Commit ==
    /\ phase = "commit"
    /\ IF toCommit = {} THEN UNCHANGED <<committed, faults>> ELSE CommitMessages(toCommit)
    /\ toCommit' = {}
    /\ phase' = "redis"
    /\ UNCHANGED <<end, stored, counted, proc, position, hand, msgCh, flush, pending, window,
                   first, lost, restarts>>

\* The case <-ctx.Done(): one more commit, under the cancelled context, and the
\* last flush.
Shutdown ==
    /\ proc = "stopping"
    /\ phase = "select"
    /\ IF toCommit = {} THEN UNCHANGED <<committed, faults>> ELSE CommitMessages(toCommit)
    /\ flush' = "last"
    /\ phase' = "redis"
    /\ UNCHANGED <<end, stored, counted, proc, position, hand, msgCh, toCommit, pending,
                   window, first, lost, restarts>>

\* A flush call takes effect or not (its error is logged and nothing else); the
\* last flush has a context of its own.
FlushOk == (proc = "up" \/ flush = "last") /\ UNCHANGED faults
FlushFails ==
    \/ flush = "periodic" /\ GoesWrong
    \/ flush = "last" /\ faults < MaxFaults /\ faults' = faults + 1

\* FlushAndReset empties the aggregator, then its windows are sent to Redis.
FlushRedis ==
    /\ phase = "redis"
    /\ \/ /\ FlushOk
          /\ counted' = [m \in Offsets |-> counted[m] + (IF m \in window THEN 1 ELSE 0)]
       \/ window # {} /\ FlushFails /\ UNCHANGED counted
    /\ FlushAndReset
    /\ phase' = "insert"
    /\ UNCHANGED <<kafkaVars, stored, proc, position, hand, msgCh, flush, toCommit, pending,
                   first, lost, restarts>>

\* The rows SendBatch leaves in the table: its statements run in one implicit
\* transaction, so a refused row takes the whole batch with it.
Committable(batch) == IF batch \cap Poison = {} THEN batch ELSE {}

\* Faulty variant: the batch is kept after it was inserted.
FlushedKeeping == pending

\* What flush returns for the collector to go on with: pending[:0].
Flushed == <<>>

\* InsertBatch; its error is logged and the batch is dropped either way.
Insert ==
    /\ phase = "insert"
    /\ LET batch == ToSet(pending)
       IN  \E rows \in {Committable(batch), {}} :
             /\ \/ rows = Committable(batch) /\ FlushOk
                \/ rows = {} /\ FlushFails
             /\ stored' = [m \in Offsets |-> stored[m] + (IF m \in rows THEN 1 ELSE 0)]
             /\ lost' = lost \cup (batch \ rows)
    /\ pending' = Flushed
    /\ phase' = IF flush = "last" THEN "stopped" ELSE "select"
    /\ UNCHANGED <<kafkaVars, counted, proc, position, hand, msgCh, flush, toCommit, window,
                   first, restarts>>

Collector == Collect \/ Tick \/ Commit \/ Shutdown \/ FlushRedis \/ Insert

-----------------------------------------------------------------------------
(***************************************************************************)
(* The life of the process                                                 *)
(***************************************************************************)

Interrupt ==
    /\ proc = "up"
    /\ restarts < MaxRestarts
    /\ proc' = "stopping"
    /\ UNCHANGED <<kafkaVars, stored, counted, position, hand, msgCh, collectorVars, first,
                   lost, faults, restarts>>

\* main returns after the final flush and wg.Wait, or the process crashes.
Down ==
    /\ \/ phase = "stopped" /\ \A k \in Workers : hand[k] = Gone
       \/ proc # "down" /\ restarts < MaxRestarts
    /\ proc' = "down"
    /\ restarts' = restarts + 1
    /\ hand' = [k \in Workers |-> Gone]
    /\ msgCh' = <<>>
    /\ phase' = "down"
    /\ flush' = "periodic"
    /\ toCommit' = {}
    /\ pending' = <<>>
    /\ window' = {}
    /\ UNCHANGED <<kafkaVars, stored, counted, position, first, lost, faults>>

\* Faulty variant: the group's offset is not looked up.
ResumeAtEnd == end

\* The group resumes at its offset, or at the end if it has none (LastOffset).
Resume == IF committed = NoCommit THEN end ELSE committed

Restart ==
    /\ proc = "down"
    /\ proc' = "up"
    /\ position' = Resume
    /\ first' = Resume
    /\ hand' = [k \in Workers |-> Idle]
    /\ phase' = "select"
    /\ UNCHANGED <<kafkaVars, stored, counted, msgCh, flush, toCommit, pending, window, lost,
                   faults, restarts>>

\* Nothing to do until a record is produced.
Waiting ==
    /\ end = NumRecords /\ position = end
    /\ proc = "up" /\ phase = "select"
    /\ msgCh = <<>> /\ pending = <<>>
    /\ \A k \in Workers : hand[k] = Idle
    /\ UNCHANGED vars

Next ==
    \/ Produce
    \/ \E k \in Workers : Worker(k)
    \/ Collector
    \/ Interrupt
    \/ Down
    \/ Restart
    \/ Waiting

\* Every goroutine keeps being scheduled, the ticker keeps ticking, and the
\* process is restarted.
Fairness ==
    /\ \A k \in Workers : WF_vars(Worker(k))
    /\ WF_vars(Collector)
    /\ WF_vars(Restart)

Spec == Init /\ [][Next]_vars /\ Fairness

-----------------------------------------------------------------------------
(***************************************************************************)
(* Properties                                                              *)
(***************************************************************************)

TypeOK ==
    /\ end \in 0..NumRecords
    /\ committed \in {NoCommit} \cup (1..NumRecords)
    /\ stored \in [Offsets -> Nat]
    /\ counted \in [Offsets -> Nat]
    /\ proc \in {"up", "stopping", "down"}
    /\ position \in 0..NumRecords
    /\ hand \in [Workers -> Offsets \cup {Idle, Gone}]
    /\ msgCh \in Seq(Offsets) /\ Len(msgCh) <= ChanCap
    /\ phase \in {"select", "commit", "redis", "insert", "stopped", "down"}
    /\ flush \in {"periodic", "last"}
    /\ toCommit \subseteq Offsets
    /\ pending \in Seq(Offsets) /\ Len(pending) <= PendingCap
    /\ window \subseteq Offsets
    /\ first \in 0..NumRecords
    /\ lost \subseteq Offsets
    /\ faults \in 0..MaxFaults
    /\ restarts \in 0..MaxRestarts

\* The records in the process's memory.
InMemory == {hand[k] : k \in Workers} \cup ToSet(msgCh) \cup ToSet(pending)

\* Every decodable record fetched in this life of the process is in memory, in
\* the table, or in a batch the database failed to take: workers, channel and
\* collector drop nothing among themselves.
Accounted ==
    proc # "down" =>
        \A m \in first..(position - 1) :
            m \in Bad \cup InMemory \cup lost \/ stored[m] >= 1

\* In one life of the process no record is stored twice, nor counted in two
\* windows of the leaderboard, whatever the order in which the workers deliver
\* records and whichever commits and flushes fail.
OncePerLife ==
    \A m \in Offsets : stored[m] <= restarts + 1 /\ counted[m] <= restarts + 1

\* Between two flushes the aggregator's window is about the records of the
\* batch: what the leaderboard counts is what the table gets.
WindowIsBatch == phase = "select" => window = ToSet(pending)

\* Once the group has committed an offset, a restart goes back to records it
\* already fetched or on from the last one, and never past one it did not fetch
\* (main.go:89 StartOffset is for the first start alone): offsets committed out
\* of order by the workers never run ahead of the reader.
RestartSkipsNothing ==
    [][proc = "down" /\ proc' = "up" /\ committed # NoCommit => position' <= position]_vars

\* While the process is not stopped, every decodable record produced reaches the
\* table in the end, unless the batch it is in fails: no record stays behind in
\* a worker, in the channel or in a batch that nothing flushes.
StoredInTheEnd ==
    \A m \in Offsets \ Bad :
        end > m ~> (stored[m] >= 1 \/ m \in lost \/ proc # "up" \/ restarts > 0)

\* main.go:88 "manual commit for reliability": an offset is committed when its
\* record is safe, so a record below the group's offset is not lost.
CommitIsReliable ==
    \A m \in Offsets \ Bad :
        m < committed => m \in InMemory \/ stored[m] >= 1
=============================================================================
