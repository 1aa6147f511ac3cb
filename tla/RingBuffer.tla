----------------------------- MODULE RingBuffer -----------------------------
(***************************************************************************)
(* internal/telemetry/ringbuffer.go: the bounded metric buffer that the    *)
(* bots' receive goroutines Push into and one goroutine drains with        *)
(* PopInto.  Every atomic instruction and every slot access of the code is *)
(* one step here, so that all interleavings of the goroutines are there.   *)
(*                                                                         *)
(* The two users of the buffer differ in when they drain it:               *)
(*   judge.go (Engine.Run) drains after botfleet.Run has joined every bot  *)
(*     (ConcurrentDrain = FALSE), until PopInto returns 0;                 *)
(*   cmd/bot_fleet (consumeMetrics) polls it while the bots are pushing    *)
(*     (ConcurrentDrain = TRUE).                                           *)
(***************************************************************************)
EXTENDS Integers, Sequences, FiniteSets

CONSTANTS
    Producers,        \* goroutines that call Push, one receiver per bot
    Requested,        \* the size given to NewRingBuffer
    BatchLen,         \* len(dst) of PopInto
    MaxPush,          \* bound: Push calls of one producer
    Word,             \* 2^64, the modulus of the uint64 difference in Push
    ConcurrentDrain,  \* is the buffer drained while producers run?
    NoMetric,         \* the zero Metric of a slot nothing was stored in
    Torn              \* a Metric made of parts of two (racing plain accesses)

\* NewRingBuffer turns a size of 0 into 1.
Size == IF Requested = 0 THEN 1 ELSE Requested

\* The metric of p's n-th Push call.
Metrics == Producers \X (1..MaxPush)

ASSUME SizeAssumption == Requested \in Nat /\ Word \in Nat /\ Size < Word
ASSUME BoundAssumption == BatchLen \in Nat \ {0} /\ MaxPush \in Nat
ASSUME DrainAssumption == ConcurrentDrain \in BOOLEAN
ASSUME ValueAssumption == NoMetric \notin Metrics /\ Torn \notin Metrics

Slots == 0..(Size - 1)
Contents == Metrics \cup {NoMetric, Torn}

VARIABLES
    write,    \* next write position (monotonic)
    read,     \* next read position (monotonic)
    buf,      \* the slots
    pc,       \* where each producer is in Push
    w,        \* Push's local w
    rd,       \* Push's local rd
    calls,    \* Push calls begun by each producer
    racing,   \* producers whose pending store overlaps another store
    cpc,      \* where the consumer is: before PopInto, copying, or done
    n,        \* PopInto's local n
    i,        \* PopInto's local i
    claimed,  \* history: the metrics whose Push won a position, by position
    dropped,  \* history: the metrics whose Push returned false
    popped    \* history: the values copied out, in order

producerVars == <<pc, w, rd, calls, racing>>
consumerVars == <<cpc, n, i, popped>>
vars == <<write, read, buf, producerVars, consumerVars, claimed, dropped>>

-----------------------------------------------------------------------------
Init ==
    /\ write = 0
    /\ read = 0
    /\ buf = [s \in Slots |-> NoMetric]
    /\ pc = [p \in Producers |-> "idle"]
    /\ w = [p \in Producers |-> 0]
    /\ rd = [p \in Producers |-> 0]
    /\ calls = [p \in Producers |-> 0]
    /\ racing = {}
    /\ cpc = "pop"
    /\ n = 0
    /\ i = 0
    /\ claimed = <<>>
    /\ dropped = {}
    /\ popped = <<>>

\* The metric p is pushing, or pushed last.
Current(p) == <<p, calls[p]>>

Slot(pos) == pos % Size

\* The producers that have claimed a position of slot s and not stored yet.
StoringInto(s) == {p \in Producers : pc[p] = "store" /\ Slot(w[p]) = s}

AllExited == \A p \in Producers : pc[p] = "exited"

-----------------------------------------------------------------------------
(***************************************************************************)
(* Push                                                                    *)
(***************************************************************************)

\* A bot calls Push with its next metric; the loop's first load is part of it.
CallPush(p) ==
    /\ pc[p] = "idle"
    /\ calls[p] < MaxPush
    /\ calls' = [calls EXCEPT ![p] = @ + 1]
    /\ w' = [w EXCEPT ![p] = write]
    /\ pc' = [pc EXCEPT ![p] = "loadRead"]
    /\ UNCHANGED <<write, read, buf, rd, racing, consumerVars, claimed, dropped>>

\* The difference of two uint64 values.
SubWord(a, b) == (a - b) % Word

\* Faulty variant: off by one at the limit.
LooksFullLate(a, b) == SubWord(a, b) > Size

\* w - rd >= size, on unsigned operands.
LooksFull(a, b) == SubWord(a, b) >= Size

\* Load read and compare; a full buffer ends the call with false.
LoadRead(p) ==
    /\ pc[p] = "loadRead"
    /\ rd' = [rd EXCEPT ![p] = read]
    /\ IF LooksFull(w[p], read)
         THEN /\ pc' = [pc EXCEPT ![p] = "idle"]
              /\ dropped' = dropped \cup {Current(p)}
         ELSE /\ pc' = [pc EXCEPT ![p] = "cas"]
              /\ UNCHANGED dropped
    /\ UNCHANGED <<write, read, buf, w, calls, racing, consumerVars, claimed>>

\* The compare-and-swap of write: it claims position w ...
Claim(p) ==
    /\ pc[p] = "cas"
    /\ write = w[p]
    /\ write' = write + 1
    /\ claimed' = Append(claimed, Current(p))
    /\ racing' = racing \cup
         (LET others == StoringInto(Slot(w[p]))
          IN  IF others = {} THEN {} ELSE others \cup {p})
    /\ pc' = [pc EXCEPT ![p] = "store"]
    /\ UNCHANGED <<read, buf, w, rd, calls, consumerVars, dropped>>

\* Faulty variant: the loop retries with the position it already has.
RetryStale(p) ==
    /\ pc[p] = "cas"
    /\ write # w[p]
    /\ pc' = [pc EXCEPT ![p] = "loadRead"]
    /\ UNCHANGED <<write, read, buf, w, rd, calls, racing, consumerVars, claimed, dropped>>

\* ... or it finds write changed and the loop starts over with a fresh load.
Retry(p) ==
    /\ pc[p] = "cas"
    /\ write # w[p]
    /\ w' = [w EXCEPT ![p] = write]
    /\ pc' = [pc EXCEPT ![p] = "loadRead"]
    /\ UNCHANGED <<write, read, buf, rd, calls, racing, consumerVars, claimed, dropped>>

\* The plain store into the claimed slot, after the CAS; Push returns true.
\* Two stores that overlap in one slot may leave it torn.
Store(p) ==
    /\ pc[p] = "store"
    /\ \E v \in {Current(p)} \cup (IF p \in racing THEN {Torn} ELSE {}) :
          buf' = [buf EXCEPT ![Slot(w[p])] = v]
    /\ racing' = racing \ {p}
    /\ pc' = [pc EXCEPT ![p] = "idle"]
    /\ UNCHANGED <<write, read, w, rd, calls, consumerVars, claimed, dropped>>

\* The bot's context has expired and its receiver has returned (wg.Done).
Exit(p) ==
    /\ pc[p] = "idle"
    /\ pc' = [pc EXCEPT ![p] = "exited"]
    /\ UNCHANGED <<write, read, buf, w, rd, calls, racing, consumerVars, claimed, dropped>>

Producer(p) ==
    CallPush(p) \/ LoadRead(p) \/ Claim(p) \/ Retry(p) \/ Store(p) \/ Exit(p)

-----------------------------------------------------------------------------
(***************************************************************************)
(* PopInto.  Only the consumer writes read, so its load of read commutes   *)
(* with every other step and is merged with its load of write.             *)
(***************************************************************************)

\* Faulty variant: botfleet.Run returns without joining the bots.
MayDrainUnjoined == TRUE

\* When the consumer may run: judge.go calls it after wg.Wait has returned.
MayDrain == ConcurrentDrain \/ AllExited

\* w <= rd: PopInto returns 0.  drainRingBuffer stops, consumeMetrics polls on.
PopNothing ==
    /\ cpc = "pop"
    /\ MayDrain
    /\ write <= read
    /\ cpc' = IF ConcurrentDrain THEN "pop" ELSE "done"
    /\ UNCHANGED <<write, read, buf, producerVars, n, i, popped, claimed, dropped>>

\* Faulty variant: the operands of avail are swapped.
BeginPopSwapped ==
    /\ cpc = "pop"
    /\ MayDrain
    /\ write > read
    /\ n' = read - write
    /\ i' = 0
    /\ cpc' = "copy"
    /\ UNCHANGED <<write, read, buf, producerVars, popped, claimed, dropped>>

\* n = min(avail, len(dst)).
BeginPop ==
    /\ cpc = "pop"
    /\ MayDrain
    /\ write > read
    /\ n' = IF write - read < BatchLen THEN write - read ELSE BatchLen
    /\ i' = 0
    /\ cpc' = "copy"
    /\ UNCHANGED <<write, read, buf, producerVars, popped, claimed, dropped>>

\* dst[i] = buf[(rd+i) % size].  A store that is under way in that slot is a
\* data race: the copy may see the old value, the new one, or parts of both.
Copy ==
    /\ cpc = "copy"
    /\ i < n
    /\ LET s == Slot(read + i)
           inflight == StoringInto(s)
       IN  \E v \in {buf[s]} \cup {Current(p) : p \in inflight}
                             \cup (IF inflight = {} THEN {} ELSE {Torn}) :
             popped' = Append(popped, v)
    /\ i' = i + 1
    /\ UNCHANGED <<write, read, buf, producerVars, cpc, n, claimed, dropped>>

\* The store of read that hands the copied slots back to the producers.
Publish ==
    /\ cpc = "copy"
    /\ i = n
    /\ read' = read + n
    /\ cpc' = "pop"
    /\ UNCHANGED <<write, buf, producerVars, n, i, popped, claimed, dropped>>

Consumer == PopNothing \/ BeginPop \/ Copy \/ Publish

\* The run is over: the judge has drained the buffer.
Finished == cpc = "done" /\ UNCHANGED vars

Next ==
    \/ \E p \in Producers : Producer(p)
    \/ Consumer
    \/ Finished

\* Every goroutine keeps being scheduled, and a bot's context expires in the
\* end (botfleet.Run gives it cfg.Duration).
Fairness ==
    /\ \A p \in Producers : WF_vars(Producer(p))
    /\ WF_vars(Consumer)

Spec == Init /\ [][Next]_vars /\ Fairness

-----------------------------------------------------------------------------
(***************************************************************************)
(* Properties                                                              *)
(***************************************************************************)

TypeOK ==
    /\ write \in Nat
    /\ read \in Nat
    /\ buf \in [Slots -> Contents]
    /\ pc \in [Producers -> {"idle", "loadRead", "cas", "store", "exited"}]
    /\ w \in [Producers -> Nat]
    /\ rd \in [Producers -> Nat]
    /\ calls \in [Producers -> 0..MaxPush]
    /\ racing \subseteq Producers
    /\ cpc \in {"pop", "copy", "done"}
    /\ n \in Nat
    /\ i \in Nat
    /\ claimed \in Seq(Metrics)
    /\ dropped \subseteq Metrics
    /\ popped \in Seq(Contents)

\* The occupancy never exceeds the size, whatever stale positions the
\* producers hold and however the subtraction of Push wraps.
Bounded == read <= write /\ write <= read + Size

\* PopInto hands out exactly the metrics that were pushed, in the order in
\* which their positions were claimed: nothing invented, torn, lost, repeated.
FaithfulPop ==
    /\ Len(popped) <= Len(claimed)
    /\ \A k \in 1..Len(popped) : popped[k] = claimed[k]

\* No two producers are ever storing into one slot at the same time.
NoSlotClash ==
    \A p, q \in Producers :
        (pc[p] = "store" /\ pc[q] = "store" /\ Slot(w[p]) = Slot(w[q])) => p = q

\* When the judge's drain ends, it has seen every metric whose Push returned
\* true, and each call's metric was either seen or refused, never both.
DrainComplete ==
    cpc = "done" =>
        /\ popped = claimed
        /\ \A p \in Producers : \A k \in 1..calls[p] :
              (\E j \in 1..Len(popped) : popped[j] = <<p, k>>)
                <=> <<p, k>> \notin dropped

\* Push returns false only when the buffer is full ("Push returns false if the
\* buffer is full"): a refusal never comes from a stale position.
RefusedOnlyWhenFull ==
    [][dropped' # dropped => write - read >= Size]_vars

\* The judge's drain always comes to an end, however the CAS loops interleave.
DrainEnds == <>(cpc = "done")

\* The queue the buffer implements: claimed and not copied out yet.
Queue == INSTANCE MetricQueue WITH
    Capacity <- Size,
    items <- SubSeq(claimed, Len(popped) + 1, Len(claimed)),
    out <- popped,
    refused <- dropped

\* The judge's use of the buffer is a bounded FIFO queue that refuses a metric
\* only when it is full.
ImplementsQueue == Queue!Spec
=============================================================================
