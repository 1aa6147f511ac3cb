--------------------------- MODULE IngesterProofs ---------------------------
(***************************************************************************)
(* Proofs about Ingester, for every number of workers, records, faults and *)
(* restarts, every channel capacity and batch size.                        *)
(***************************************************************************)
EXTENDS Ingester, SequenceLemmas, WellFoundedInduction

\* What the life of the process implies for its memory.
ProcInv ==
    /\ proc = "stopping" => restarts < MaxRestarts
    /\ phase = "stopped" \/ flush = "last" => proc = "stopping"
    /\ proc = "down" =>
          /\ phase = "down" /\ flush = "periodic"
          /\ msgCh = <<>> /\ pending = <<>> /\ toCommit = {} /\ window = {}
          /\ \A k \in Workers : hand[k] = Gone
    /\ phase = "select" => Len(pending) < PendingCap

\* Everything in memory was fetched, and commits stay behind the reader.
FetchedInv ==
    /\ position <= end
    /\ \A k \in Workers : hand[k] \in Offsets => hand[k] < position
    /\ \A m \in ToSet(msgCh) \cup ToSet(pending) \cup toCommit \cup window : m < position
    /\ committed # NoCommit => committed <= position

TypeInv == TypeOK /\ ProcInv /\ FetchedInv

\* The window and the batch differ only between the two halves of a flush.
WindowInv == IF phase = "insert" THEN window = {} ELSE window = ToSet(pending)

InHands(m) == \E k \in Workers : hand[k] = m

\* A record is in one place at a time.
Placed ==
    /\ \A k, l \in Workers : hand[k] \in Offsets /\ hand[k] = hand[l] => k = l
    /\ \A m \in ToSet(msgCh) : ~InHands(m)
    /\ \A j, k \in 1..Len(msgCh) : msgCh[j] = msgCh[k] => j = k
    /\ \A m \in ToSet(pending) : ~InHands(m) /\ m \notin ToSet(msgCh)

\* What this life of the process may still store, or publish: not fetched, or
\* still on its way.
OnTheWay(m) == proc = "down" \/ m >= position \/ InHands(m) \/ m \in ToSet(msgCh)
MayStore(m) == OnTheWay(m) \/ m \in ToSet(pending)
MayCount(m) == OnTheWay(m) \/ m \in window

OnceInv ==
    /\ Placed
    /\ OncePerLife
    /\ \A m \in Offsets : MayStore(m) => stored[m] <= restarts
    /\ \A m \in Offsets : MayCount(m) => counted[m] <= restarts

-----------------------------------------------------------------------------
(***************************************************************************)
(* The highest of the offsets to commit                                    *)
(***************************************************************************)

\* A set of offsets that is not empty has one: Max is defined by CHOOSE.
LEMMA MaxOfOffsets ==
    ASSUME NEW S, S \subseteq Offsets, S # {}
    PROVE  Max(S) \in S
<1> DEFINE T == {NumRecords - x : x \in S}
<1> DEFINE R == {ss \in Nat \X Nat : ss[1] < ss[2]}
<1>1. T \subseteq Nat /\ T # {}
  <2>1. \A x \in S : NumRecords - x \in Nat
    BY IngesterBounds DEF Offsets
  <2> QED
    BY <2>1
<1>2. IsWellFoundedOn(R, Nat)
  BY NatLessThanWellFounded DEF OpToRel
<1>3. PICK t \in T : \A u \in T : <<u, t>> \notin R
  <2> HIDE DEF T, R
  <2> QED
    BY <1>1, <1>2, WFMin
<1>4. \A u \in T : ~(u < t)
  BY <1>1, <1>3
<1>5. PICK x \in S : t = NumRecords - x
  BY <1>3
<1>6. \A y \in S : x >= y
  <2> SUFFICES ASSUME NEW y \in S PROVE x >= y
    OBVIOUS
  <2>1. NumRecords - y \in T
    OBVIOUS
  <2>2. ~(NumRecords - y < NumRecords - x)
    BY <1>4, <1>5, <2>1
  <2> QED
    BY <2>2, IngesterBounds DEF Offsets
<1> QED
  BY <1>6 DEF Max

-----------------------------------------------------------------------------
(***************************************************************************)
(* Types, and commits that stay behind the reader                          *)
(***************************************************************************)

LEMMA GoesWrongType ==
    ASSUME faults \in 0..MaxFaults, GoesWrong
    PROVE  faults' \in 0..MaxFaults
BY IngesterBounds DEF GoesWrong

LEMMA FlushTypes ==
    ASSUME faults \in 0..MaxFaults, FlushOk \/ FlushFails
    PROVE  faults' \in 0..MaxFaults
BY GoesWrongType, IngesterBounds DEF FlushOk, FlushFails

\* A commit of fetched records leaves the group's offset at or behind the reader.
LEMMA CommitTypes ==
    ASSUME TypeInv, NEW S, S \subseteq Offsets, S # {}, \A m \in S : m < position,
           CommitMessages(S)
    PROVE  /\ committed' \in {NoCommit} \cup (1..NumRecords)
           /\ committed' # NoCommit => committed' <= position
           /\ faults' \in 0..MaxFaults
<1>1. TypeOK /\ FetchedInv
  BY DEF TypeInv
<1>2. CASE committed' = Max(S) + 1 /\ UNCHANGED faults
  <2>1. Max(S) \in S
    BY MaxOfOffsets
  <2>2. Max(S) \in Offsets /\ Max(S) < position
    BY <2>1
  <2>3. \A x \in Offsets : x < position => x + 1 \in 1..NumRecords /\ x + 1 <= position
    BY <1>1, IngesterBounds DEF TypeOK, Offsets
  <2> QED
    BY <1>1, <1>2, <2>2, <2>3 DEF TypeOK
<1>3. CASE GoesWrong /\ UNCHANGED committed
  BY <1>1, <1>3, GoesWrongType DEF TypeOK, FetchedInv
<1> QED
  BY <1>2, <1>3 DEF CommitMessages

LEMMA TypeInit == Init => TypeInv
<1> SUFFICES ASSUME Init PROVE TypeInv
  OBVIOUS
<1>1. TypeOK
  BY IngesterBounds DEF Init, TypeOK, NoCommit, Idle
<1>2. ProcInv
  BY IngesterBounds DEF Init, ProcInv
<1>3. FetchedInv
  BY ToSetEmpty DEF Init, FetchedInv, Idle, Offsets
<1> QED
  BY <1>1, <1>2, <1>3 DEF TypeInv

LEMMA TypeStep == TypeInv /\ [Next]_vars => TypeInv'
<1> SUFFICES ASSUME TypeInv, [Next]_vars PROVE TypeInv'
  OBVIOUS
<1>0. /\ TypeOK /\ ProcInv /\ FetchedInv
      /\ ToSet(msgCh) \subseteq Offsets /\ ToSet(pending) \subseteq Offsets
  BY ToSetIsRange DEF TypeInv, TypeOK
<1>i. Idle \notin Offsets /\ Gone \notin Offsets
  BY DEF Idle, Gone, Offsets
<1> USE <1>0
<1>1. CASE Produce
  <2>1. TypeOK'
    BY <1>1, IngesterBounds DEF Produce, TypeOK, collectorVars
  <2>2. ProcInv' /\ FetchedInv'
    BY <1>1 DEF Produce, TypeOK, ProcInv, FetchedInv, collectorVars
  <2> QED
    BY <2>1, <2>2 DEF TypeInv
<1>2. ASSUME NEW k \in Workers, FetchMessage(k) PROVE TypeInv'
  <2>1. position \in Offsets /\ position' = position + 1 /\ position' \in 0..NumRecords
        /\ position' <= end
    BY <1>2, IngesterBounds DEF FetchMessage, TypeOK, Offsets
  <2>2. /\ hand' = [hand EXCEPT ![k] = position] /\ hand[k] = Idle /\ proc # "down"
        /\ UNCHANGED <<end, committed, stored, counted, proc, msgCh, phase, flush, toCommit,
                       pending, window, first, lost, faults, restarts>>
    BY <1>2 DEF FetchMessage, kafkaVars, collectorVars
  <2>3. TypeOK'
    BY <2>1, <2>2 DEF TypeOK
  <2>4. ProcInv'
    BY <2>2 DEF ProcInv
  <2>5. FetchedInv'
    <3>1. \A l \in Workers : hand'[l] \in Offsets => hand'[l] < position'
      BY <2>1, <2>2 DEF TypeOK, FetchedInv, Offsets
    <3>2. \A m \in ToSet(msgCh) \cup ToSet(pending) \cup toCommit \cup window : m < position'
      <4>1. \A m \in Offsets : m < position => m < position + 1
        BY DEF TypeOK, Offsets
      <4> QED
        BY <2>1, <4>1 DEF TypeOK, FetchedInv
    <3> QED
      BY <2>1, <2>2, <3>1, <3>2, IngesterBounds DEF TypeOK, FetchedInv
  <2> QED
    BY <2>3, <2>4, <2>5 DEF TypeInv
<1>3. ASSUME NEW k \in Workers, SkipBad(k) PROVE TypeInv'
  <2>1. /\ hand[k] \in Offsets /\ hand' = [hand EXCEPT ![k] = Idle]
        /\ CommitMessages({hand[k]})
        /\ UNCHANGED <<end, stored, counted, proc, position, msgCh, phase, flush, toCommit,
                       pending, window, first, lost, restarts>>
    BY <1>3, IngesterBounds DEF SkipBad, collectorVars
  <2>2. /\ committed' \in {NoCommit} \cup (1..NumRecords)
        /\ committed' # NoCommit => committed' <= position
        /\ faults' \in 0..MaxFaults
    <3>1. \A m \in {hand[k]} : m < position
      BY <2>1 DEF FetchedInv
    <3> QED
      BY <2>1, <3>1, CommitTypes
  <2>3. TypeOK'
    BY <2>1, <2>2 DEF TypeOK
  <2>4. ProcInv' /\ FetchedInv'
    BY <1>i, <2>1, <2>2 DEF TypeOK, ProcInv, FetchedInv, Idle, Gone, Offsets
  <2> QED
    BY <2>3, <2>4 DEF TypeInv
<1>4. ASSUME NEW k \in Workers, Deliver(k) PROVE TypeInv'
  <2>1. /\ hand[k] \in Offsets /\ hand' = [hand EXCEPT ![k] = Idle]
        /\ msgCh' = Append(msgCh, hand[k]) /\ Len(msgCh) < ChanCap
        /\ UNCHANGED <<end, committed, stored, counted, proc, position, phase, flush, toCommit,
                       pending, window, first, lost, faults, restarts>>
    BY <1>4 DEF Deliver, kafkaVars, collectorVars
  <2>2. msgCh' \in Seq(Offsets) /\ Len(msgCh') <= ChanCap
    BY <2>1, IngesterBounds DEF TypeOK
  <2>3. TypeOK'
    BY <2>1, <2>2 DEF TypeOK
  <2>4. ProcInv'
    BY <1>i, <2>1 DEF ProcInv
  <2>5. ToSet(msgCh') = ToSet(msgCh) \cup {hand[k]}
    BY <2>1, ToSetAppend DEF TypeOK
  <2>6. FetchedInv'
    BY <1>i, <2>1, <2>5 DEF TypeOK, FetchedInv
  <2> QED
    BY <2>3, <2>4, <2>6 DEF TypeInv
<1>5. ASSUME NEW k \in Workers, WorkerReturns(k) PROVE TypeInv'
  <2>1. /\ hand' = [hand EXCEPT ![k] = Gone] /\ lost' \subseteq Offsets
        /\ UNCHANGED <<end, committed, stored, counted, proc, position, msgCh, phase, flush,
                       toCommit, pending, window, first, faults, restarts>>
    BY <1>5 DEF WorkerReturns, kafkaVars, collectorVars, TypeOK
  <2> QED
    BY <1>i, <2>1 DEF TypeInv, TypeOK, ProcInv, FetchedInv
<1>6. CASE Collect
  <2>1. /\ phase = "select" /\ msgCh # <<>> /\ proc # "down"
        /\ toCommit' = toCommit \cup {Head(msgCh)} /\ window' = window \cup {Head(msgCh)}
        /\ pending' = Append(pending, Head(msgCh)) /\ msgCh' = Tail(msgCh)
        /\ phase' = IF Len(pending) + 1 >= PendingCap THEN "commit" ELSE "select"
        /\ UNCHANGED <<end, committed, stored, counted, proc, position, hand, flush, first,
                       lost, faults, restarts>>
    BY <1>6 DEF Collect, Add, kafkaVars
  <2>2. /\ Head(msgCh) \in Offsets /\ Tail(msgCh) \in Seq(Offsets)
        /\ Len(Tail(msgCh)) = Len(msgCh) - 1
        /\ ToSet(msgCh) = {Head(msgCh)} \cup ToSet(Tail(msgCh))
    BY <2>1, ToSetHeadTail DEF TypeOK
  <2>3. ToSet(pending') = ToSet(pending) \cup {Head(msgCh)}
    BY <2>1, <2>2, ToSetAppend DEF TypeOK
  <2>4. /\ pending' \in Seq(Offsets) /\ Len(pending') = Len(pending) + 1
        /\ Len(pending) < PendingCap /\ Len(pending) \in Nat /\ PendingCap \in Nat
    BY <2>1, <2>2, IngesterBounds DEF TypeOK, ProcInv
  <2>5. TypeOK'
    BY <2>1, <2>2, <2>4, IngesterBounds DEF TypeOK
  <2>6. ProcInv'
    BY <2>1, <2>4 DEF ProcInv
  <2>7. FetchedInv'
    <3>1. \A m \in ToSet(msgCh') \cup ToSet(pending') \cup toCommit' \cup window' : m < position
      BY <2>1, <2>2, <2>3 DEF FetchedInv
    <3> QED
      BY <2>1, <3>1 DEF FetchedInv
  <2> QED
    BY <2>5, <2>6, <2>7 DEF TypeInv
<1>7. CASE Tick
  BY <1>7 DEF Tick, kafkaVars, TypeInv, TypeOK, ProcInv, FetchedInv
<1>8. ASSUME IF toCommit = {} THEN UNCHANGED <<committed, faults>> ELSE CommitMessages(toCommit)
      PROVE  /\ committed' \in {NoCommit} \cup (1..NumRecords)
             /\ committed' # NoCommit => committed' <= position
             /\ faults' \in 0..MaxFaults
  <2>1. toCommit \subseteq Offsets /\ \A m \in toCommit : m < position
    BY DEF TypeOK, FetchedInv
  <2> QED
    BY <1>8, <2>1, CommitTypes DEF TypeOK, FetchedInv
<1>9. CASE Commit
  <2>1. /\ phase = "commit" /\ phase' = "redis" /\ toCommit' = {}
        /\ UNCHANGED <<end, stored, counted, proc, position, hand, msgCh, flush, pending,
                       window, first, lost, restarts>>
    BY <1>9 DEF Commit
  <2>2. /\ committed' \in {NoCommit} \cup (1..NumRecords)
        /\ committed' # NoCommit => committed' <= position
        /\ faults' \in 0..MaxFaults
    BY <1>8, <1>9 DEF Commit
  <2> QED
    BY <2>1, <2>2 DEF TypeInv, TypeOK, ProcInv, FetchedInv
<1>10. CASE Shutdown
  <2>1. /\ phase = "select" /\ phase' = "redis" /\ flush' = "last" /\ proc = "stopping"
        /\ UNCHANGED <<end, stored, counted, proc, position, hand, msgCh, toCommit, pending,
                       window, first, lost, restarts>>
    BY <1>10 DEF Shutdown
  <2>2. /\ committed' \in {NoCommit} \cup (1..NumRecords)
        /\ committed' # NoCommit => committed' <= position
        /\ faults' \in 0..MaxFaults
    BY <1>8, <1>10 DEF Shutdown
  <2> QED
    BY <2>1, <2>2 DEF TypeInv, TypeOK, ProcInv, FetchedInv
<1>11. CASE FlushRedis
  <2>1. /\ phase = "redis" /\ phase' = "insert" /\ window' = {}
        /\ UNCHANGED <<end, committed, stored, proc, position, hand, msgCh, flush, toCommit,
                       pending, first, lost, restarts>>
    BY <1>11 DEF FlushRedis, FlushAndReset, kafkaVars
  <2>2. counted' \in [Offsets -> Nat] /\ faults' \in 0..MaxFaults
    <3>1. FlushOk \/ FlushFails
      BY <1>11 DEF FlushRedis
    <3>2. counted' = counted \/
          counted' = [m \in Offsets |-> counted[m] + (IF m \in window THEN 1 ELSE 0)]
      BY <1>11 DEF FlushRedis
    <3>3. \A m \in Offsets : counted[m] + (IF m \in window THEN 1 ELSE 0) \in Nat
      BY DEF TypeOK
    <3> QED
      BY <3>1, <3>2, <3>3, FlushTypes DEF TypeOK
  <2> QED
    BY <2>1, <2>2 DEF TypeInv, TypeOK, ProcInv, FetchedInv
<1>12. CASE Insert
  <2>1. /\ phase = "insert" /\ pending' = <<>>
        /\ phase' = IF flush = "last" THEN "stopped" ELSE "select"
        /\ UNCHANGED <<end, committed, counted, proc, position, hand, msgCh, flush, toCommit,
                       window, first, restarts>>
    BY <1>12 DEF Insert, Flushed, kafkaVars
  <2>2. PICK rows \in {Committable(ToSet(pending)), {}} :
          /\ FlushOk \/ FlushFails
          /\ stored' = [m \in Offsets |-> stored[m] + (IF m \in rows THEN 1 ELSE 0)]
          /\ lost' = lost \cup (ToSet(pending) \ rows)
    BY <1>12 DEF Insert
  <2>3. stored' \in [Offsets -> Nat] /\ lost' \subseteq Offsets /\ faults' \in 0..MaxFaults
    BY <2>2, FlushTypes DEF TypeOK
  <2>4. TypeOK' /\ FetchedInv'
    BY <2>1, <2>3, ToSetEmpty, IngesterBounds DEF TypeOK, FetchedInv
  <2>5. ProcInv'
    BY <2>1, IngesterBounds DEF TypeOK, ProcInv
  <2> QED
    BY <2>4, <2>5 DEF TypeInv
<1>13. CASE Interrupt
  BY <1>13 DEF Interrupt, kafkaVars, collectorVars, TypeInv, TypeOK, ProcInv, FetchedInv
<1>14. CASE Down
  <2>1. /\ proc' = "down" /\ restarts' = restarts + 1 /\ hand' = [k \in Workers |-> Gone]
        /\ msgCh' = <<>> /\ phase' = "down" /\ flush' = "periodic" /\ toCommit' = {}
        /\ pending' = <<>> /\ window' = {}
        /\ UNCHANGED <<end, committed, stored, counted, position, first, lost, faults>>
    BY <1>14 DEF Down, kafkaVars
  <2>2. restarts < MaxRestarts
    BY <1>14 DEF Down, ProcInv
  <2>3. TypeOK'
    BY <2>1, <2>2, IngesterBounds DEF TypeOK
  <2>4. ProcInv' /\ FetchedInv'
    BY <1>i, <2>1, ToSetEmpty DEF ProcInv, FetchedInv
  <2> QED
    BY <2>3, <2>4 DEF TypeInv
<1>15. CASE Restart
  <2>1. /\ proc = "down" /\ proc' = "up" /\ position' = Resume /\ first' = Resume
        /\ hand' = [k \in Workers |-> Idle] /\ phase' = "select"
        /\ UNCHANGED <<end, committed, stored, counted, msgCh, flush, toCommit, pending,
                       window, lost, faults, restarts>>
    BY <1>15 DEF Restart, kafkaVars
  <2>2. /\ msgCh = <<>> /\ pending = <<>> /\ toCommit = {} /\ window = {}
    BY <2>1 DEF ProcInv
  <2>3. /\ Resume \in 0..NumRecords /\ Resume <= end
        /\ committed # NoCommit => committed <= Resume
    BY IngesterBounds DEF Resume, TypeOK, FetchedInv
  <2>4. TypeOK'
    BY <2>1, <2>3 DEF TypeOK
  <2>5. ProcInv' /\ FetchedInv'
    BY <1>i, <2>1, <2>2, <2>3, ToSetEmpty, IngesterBounds DEF ProcInv, FetchedInv
  <2> QED
    BY <2>4, <2>5 DEF TypeInv
<1>16. CASE UNCHANGED vars
  BY <1>16 DEF vars, kafkaVars, collectorVars, TypeInv, TypeOK, ProcInv, FetchedInv
<1> QED
  BY <1>1, <1>2, <1>3, <1>4, <1>5, <1>6, <1>7, <1>9, <1>10, <1>11, <1>12, <1>13, <1>14,
     <1>15, <1>16
     DEF Next, Worker, Collector, Waiting

LEMMA TypeInvariant == Spec => []TypeInv
BY TypeInit, TypeStep, PTL DEF Spec

\* Workers, channel, collector and stores keep their types, the channel and the
\* batch their bounds, through every interleaving, failure and restart.
THEOREM IngesterTypeCorrect == Spec => []TypeOK
BY TypeInvariant, PTL DEF TypeInv

\* A restart never resumes past a record the group did not fetch, although the
\* workers' and the collector's commits may come out of order.
THEOREM RestartsSkipNothing == Spec => RestartSkipsNothing
<1>1. TypeInv /\ [Next]_vars =>
        [proc = "down" /\ proc' = "up" /\ committed # NoCommit => position' <= position]_vars
  <2> SUFFICES ASSUME TypeInv, [Next]_vars, proc = "down", proc' = "up", committed # NoCommit
               PROVE  position' <= position
    OBVIOUS
  <2>1. Restart
    BY DEF Next, Worker, Collector, Waiting, Produce, FetchMessage, SkipBad, Deliver,
           WorkerReturns, Collect, Tick, Commit, Shutdown, FlushRedis, Insert, Interrupt,
           Down, vars
  <2> QED
    BY <2>1 DEF Restart, Resume, TypeInv, FetchedInv
<1> QED
  BY <1>1, TypeInvariant, PTL DEF Spec, RestartSkipsNothing

-----------------------------------------------------------------------------
(***************************************************************************)
(* The window and the batch                                                *)
(***************************************************************************)

LEMMA CollectSets ==
    ASSUME TypeInv, Collect
    PROVE  /\ Head(msgCh) \in Offsets
           /\ ToSet(msgCh) = {Head(msgCh)} \cup ToSet(msgCh')
           /\ ToSet(pending') = ToSet(pending) \cup {Head(msgCh)}
<1>1. /\ msgCh # <<>> /\ msgCh' = Tail(msgCh) /\ pending' = Append(pending, Head(msgCh))
      /\ msgCh \in Seq(Offsets) /\ pending \in Seq(Offsets)
  BY DEF Collect, TypeInv, TypeOK
<1>2. Head(msgCh) \in Offsets /\ ToSet(msgCh) = {Head(msgCh)} \cup ToSet(Tail(msgCh))
  BY <1>1, ToSetHeadTail
<1> QED
  BY <1>1, <1>2, ToSetAppend

LEMMA WindowStep == TypeInv /\ WindowInv /\ [Next]_vars => WindowInv'
<1> SUFFICES ASSUME TypeInv, WindowInv, [Next]_vars PROVE WindowInv'
  OBVIOUS
<1>1. CASE Collect
  <2>1. phase = "select" /\ phase' # "insert" /\ window' = window \cup {Head(msgCh)}
    BY <1>1 DEF Collect, Add
  <2> QED
    BY <1>1, <2>1, CollectSets DEF WindowInv
<1>2. CASE FlushRedis
  BY <1>2 DEF FlushRedis, FlushAndReset, WindowInv
<1>3. CASE Insert
  <2>1. phase = "insert" /\ phase' # "insert" /\ window' = window /\ pending' = <<>>
    BY <1>3 DEF Insert, Flushed
  <2> QED
    BY <2>1, ToSetEmpty DEF WindowInv
<1>4. CASE Down
  BY <1>4, ToSetEmpty DEF Down, WindowInv
<1>5. CASE Tick \/ Commit \/ Shutdown \/ Restart
  <2>1. phase # "insert" /\ phase' # "insert" /\ UNCHANGED <<window, pending>>
    BY <1>5 DEF Tick, Commit, Shutdown, Restart, TypeInv, ProcInv
  <2> QED
    BY <2>1 DEF WindowInv
<1>6. ASSUME UNCHANGED <<window, pending, phase>> PROVE WindowInv'
  BY <1>6 DEF WindowInv
<1>7. ASSUME \/ Produce \/ Interrupt \/ UNCHANGED vars
             \/ \E k \in Workers : Worker(k)
      PROVE  UNCHANGED <<window, pending, phase>>
  BY <1>7 DEF Produce, Interrupt, Worker, FetchMessage, SkipBad, Deliver, WorkerReturns, vars,
              collectorVars
<1> QED
  BY <1>1, <1>2, <1>3, <1>4, <1>5, <1>6, <1>7 DEF Next, Collector, Waiting

\* Between two flushes the aggregator has counted exactly the records of the
\* batch, also after flushes that failed and after a restart.
THEOREM WindowsAreBatches == Spec => []WindowIsBatch
<1>1. Init => WindowInv
  BY ToSetEmpty DEF Init, WindowInv
<1>2. WindowInv => WindowIsBatch
  BY DEF WindowInv, WindowIsBatch
<1> QED
  BY <1>1, <1>2, WindowStep, TypeInvariant, PTL DEF Spec

-----------------------------------------------------------------------------
(***************************************************************************)
(* Nothing is dropped between the reader and the database                  *)
(***************************************************************************)

\* Where a fetched record may be.
Kept(m) == m \in Bad \cup InMemory \cup lost \/ stored[m] >= 1

\* What a step may do to a record that is accounted for.
LEMMA KeptStep ==
    ASSUME TypeInv, [Next]_vars, ~Down, NEW m \in Offsets, Kept(m)
    PROVE  Kept(m)'
<1>0. TypeOK
  BY DEF TypeInv
<1>u. ASSUME UNCHANGED <<hand, msgCh, pending, stored, lost>> PROVE Kept(m)'
  BY <1>u DEF Kept, InMemory
<1>1. ASSUME NEW k \in Workers, FetchMessage(k) PROVE Kept(m)'
  <2>1. /\ hand' = [hand EXCEPT ![k] = position] /\ hand[k] = Idle /\ Idle \notin Offsets
        /\ UNCHANGED <<msgCh, pending, stored, lost>>
    BY <1>1 DEF FetchMessage, collectorVars, Idle, Offsets
  <2>2. \A l \in Workers : hand[l] = m => hand'[l] = m
    BY <1>0, <2>1 DEF TypeOK
  <2> QED
    BY <2>1, <2>2 DEF Kept, InMemory
<1>2. ASSUME NEW k \in Workers, SkipBad(k) PROVE Kept(m)'
  <2>1. /\ hand' = [hand EXCEPT ![k] = Idle] /\ hand[k] \in Bad
        /\ UNCHANGED <<msgCh, pending, stored, lost>>
    BY <1>2 DEF SkipBad, collectorVars
  <2>2. \A l \in Workers : hand[l] = m => hand'[l] = m \/ m \in Bad
    BY <1>0, <2>1 DEF TypeOK
  <2> QED
    BY <2>1, <2>2 DEF Kept, InMemory
<1>3. ASSUME NEW k \in Workers, Deliver(k) PROVE Kept(m)'
  <2>1. /\ hand' = [hand EXCEPT ![k] = Idle] /\ hand[k] \in Offsets
        /\ msgCh' = Append(msgCh, hand[k])
        /\ UNCHANGED <<pending, stored, lost>>
    BY <1>3 DEF Deliver, collectorVars
  <2>2. ToSet(msgCh') = ToSet(msgCh) \cup {hand[k]}
    BY <1>0, <2>1, ToSetAppend DEF TypeOK
  <2>3. \A l \in Workers : hand[l] = m => hand'[l] = m \/ m \in ToSet(msgCh')
    BY <1>0, <2>1, <2>2 DEF TypeOK
  <2> QED
    BY <2>1, <2>2, <2>3 DEF Kept, InMemory
<1>4. ASSUME NEW k \in Workers, WorkerReturns(k) PROVE Kept(m)'
  <2>1. /\ hand' = [hand EXCEPT ![k] = Gone] /\ Idle \notin Offsets
        /\ lost' = IF hand[k] = Idle THEN lost ELSE lost \cup {hand[k]}
        /\ UNCHANGED <<msgCh, pending, stored>>
    BY <1>4 DEF WorkerReturns, collectorVars, Idle, Offsets
  <2>2. \A l \in Workers : hand[l] = m => hand'[l] = m \/ m \in lost'
    BY <1>0, <2>1 DEF TypeOK
  <2> QED
    BY <2>1, <2>2 DEF Kept, InMemory
<1>5. CASE Collect
  <2>1. UNCHANGED <<hand, stored, lost>>
    BY <1>5 DEF Collect
  <2> QED
    BY <1>5, <2>1, CollectSets DEF Kept, InMemory
<1>6. CASE Insert
  <2>1. UNCHANGED <<hand, msgCh>>
    BY <1>6 DEF Insert
  <2>2. PICK rows :
          /\ stored' = [x \in Offsets |-> stored[x] + (IF x \in rows THEN 1 ELSE 0)]
          /\ lost' = lost \cup (ToSet(pending) \ rows)
    BY <1>6 DEF Insert
  <2>3. stored'[m] = stored[m] + (IF m \in rows THEN 1 ELSE 0) /\ stored[m] \in Nat
    BY <1>0, <2>2 DEF TypeOK
  <2>4. CASE m \in ToSet(pending)
    BY <2>2, <2>3, <2>4 DEF Kept
  <2>5. CASE m \notin ToSet(pending)
    BY <2>1, <2>2, <2>3, <2>5 DEF Kept, InMemory
  <2> QED
    BY <2>4, <2>5
<1>7. CASE Restart
  <2>1. /\ \A k \in Workers : hand[k] = Gone
        /\ Gone \notin Offsets
        /\ UNCHANGED <<msgCh, pending, stored, lost>>
    BY <1>7 DEF Restart, TypeInv, ProcInv, Gone, Offsets
  <2> QED
    BY <2>1 DEF Kept, InMemory
<1>8. ASSUME Produce \/ Tick \/ Commit \/ Shutdown \/ FlushRedis \/ Interrupt \/ UNCHANGED vars
      PROVE  UNCHANGED <<hand, msgCh, pending, stored, lost>>
  BY <1>8 DEF Produce, Tick, Commit, Shutdown, FlushRedis, Interrupt, vars, collectorVars
<1> QED
  BY <1>u, <1>1, <1>2, <1>3, <1>4, <1>5, <1>6, <1>7, <1>8 DEF Next, Worker, Collector, Waiting

\* Accounted, without an interval whose bounds change.
FetchedIsKept ==
    proc # "down" => \A m \in Offsets : first <= m /\ m < position => Kept(m)

LEMMA FetchedIsKeptStep == TypeInv /\ FetchedIsKept /\ [Next]_vars => FetchedIsKept'
<1> SUFFICES ASSUME TypeInv, FetchedIsKept, [Next]_vars, proc' # "down",
                    NEW m \in Offsets, first' <= m, m < position'
             PROVE  Kept(m)'
  BY DEF FetchedIsKept, Kept
<1>0. TypeOK
  BY DEF TypeInv
<1>1. ~Down
  BY DEF Down
<1>2. ASSUME NEW k \in Workers, FetchMessage(k) PROVE Kept(m)'
  <2>1. /\ hand' = [hand EXCEPT ![k] = position] /\ position' = position + 1
        /\ first' = first /\ proc # "down"
    BY <1>2 DEF FetchMessage
  <2>2. CASE m = position
    <3>1. hand'[k] = m
      BY <1>0, <2>1, <2>2 DEF TypeOK
    <3> QED
      BY <3>1 DEF Kept, InMemory
  <2>3. CASE m # position
    <3>1. m < position
      BY <1>0, <2>1, <2>3, IngesterBounds DEF TypeOK, Offsets
    <3> QED
      BY <1>1, <2>1, <3>1, KeptStep DEF FetchedIsKept
  <2> QED
    BY <2>2, <2>3
<1>3. ASSUME Restart PROVE FALSE
  <2>1. first' = position' /\ position' \in Int
    BY <1>0, <1>3, IngesterBounds DEF Restart, Resume, TypeOK, NoCommit
  <2> QED
    BY <2>1, IngesterBounds DEF Offsets
<1>4. ASSUME UNCHANGED <<first, position>>, proc # "down" PROVE Kept(m)'
  BY <1>1, <1>4, KeptStep DEF FetchedIsKept
<1>5. CASE Interrupt
  BY <1>4, <1>5 DEF Interrupt
<1>6. ASSUME \/ Produce \/ Tick \/ Commit \/ Shutdown \/ Collect \/ FlushRedis \/ Insert
             \/ UNCHANGED vars
             \/ \E k \in Workers : SkipBad(k) \/ Deliver(k) \/ WorkerReturns(k)
      PROVE  UNCHANGED <<first, position, proc>>
  BY <1>6 DEF Produce, Tick, Commit, Shutdown, Collect, FlushRedis, Insert, SkipBad, Deliver,
              WorkerReturns, vars
<1> QED
  BY <1>1, <1>2, <1>3, <1>4, <1>5, <1>6 DEF Next, Worker, Collector, Waiting

\* Every decodable record a life of the process has fetched is still in its
\* memory, in the table, or in a batch or a hand that was given up: the
\* workers, msgCh and the collector lose nothing among themselves.
THEOREM FetchedIsAccounted == Spec => []Accounted
<1>1. Init => FetchedIsKept
  BY DEF Init, FetchedIsKept, Offsets
<1>2. TypeInv /\ FetchedIsKept => Accounted
  <2> SUFFICES ASSUME TypeInv, FetchedIsKept, proc # "down", NEW m \in first..(position - 1)
               PROVE  Kept(m)
    BY DEF Accounted, Kept
  <2>1. m \in Offsets /\ first <= m /\ m < position
    BY IngesterBounds DEF TypeInv, TypeOK, Offsets
  <2> QED
    BY <2>1 DEF FetchedIsKept
<1> QED
  BY <1>1, <1>2, FetchedIsKeptStep, TypeInvariant, PTL DEF Spec

-----------------------------------------------------------------------------
(***************************************************************************)
(* A record is stored and published at most once in a life of the process  *)
(***************************************************************************)

LEMMA PlacedStep == TypeInv /\ Placed /\ [Next]_vars => Placed'
<1> SUFFICES ASSUME TypeInv, Placed, [Next]_vars PROVE Placed'
  OBVIOUS
<1>0. TypeOK /\ FetchedInv /\ Idle \notin Offsets /\ Gone \notin Offsets
  BY DEF TypeInv, Idle, Gone, Offsets
<1>s. ToSet(msgCh) \subseteq Offsets /\ ToSet(pending) \subseteq Offsets
  BY <1>0, ToSetIsRange DEF TypeOK
<1>1. ASSUME NEW k \in Workers, FetchMessage(k) PROVE Placed'
  <2>1. /\ hand' = [hand EXCEPT ![k] = position]
        /\ UNCHANGED <<msgCh, pending>>
    BY <1>1 DEF FetchMessage, collectorVars
  <2>2. /\ \A l \in Workers : hand[l] \in Offsets => hand[l] # position
        /\ \A m \in ToSet(msgCh) \cup ToSet(pending) : m # position
    <3>1. \A x \in Offsets : x < position => x # position
      BY <1>0, IngesterBounds DEF TypeOK, Offsets
    <3> QED
      BY <1>0, <1>s, <3>1 DEF FetchedInv
  <2>3. \A l \in Workers : hand'[l] = IF l = k THEN position ELSE hand[l]
    BY <1>0, <2>1 DEF TypeOK
  <2>4. \A m : InHands(m)' => InHands(m) \/ m = position
    BY <2>3 DEF InHands
  <2>5. \A l, n \in Workers : hand'[l] \in Offsets /\ hand'[l] = hand'[n] => l = n
    BY <2>2, <2>3 DEF Placed
  <2> QED
    BY <2>1, <2>2, <2>4, <2>5 DEF Placed
<1>2. ASSUME NEW k \in Workers, NEW v \in {Idle, Gone},
             hand' = [hand EXCEPT ![k] = v], UNCHANGED <<msgCh, pending>>
      PROVE  Placed'
  <2>1. \A l \in Workers : hand'[l] = IF l = k THEN v ELSE hand[l]
    BY <1>0, <1>2 DEF TypeOK
  <2>2. \A m \in Offsets : InHands(m)' => InHands(m)
    BY <1>0, <2>1 DEF InHands
  <2>3. \A l, n \in Workers : hand'[l] \in Offsets /\ hand'[l] = hand'[n] => l = n
    BY <1>0, <2>1 DEF Placed
  <2> QED
    BY <1>2, <1>s, <2>2, <2>3 DEF Placed
<1>3. ASSUME NEW k \in Workers, SkipBad(k) \/ WorkerReturns(k) PROVE Placed'
  <2>1. /\ hand' = [hand EXCEPT ![k] = Idle] \/ hand' = [hand EXCEPT ![k] = Gone]
        /\ UNCHANGED <<msgCh, pending>>
    BY <1>3 DEF SkipBad, WorkerReturns, collectorVars
  <2> QED
    BY <1>2, <2>1
<1>4. ASSUME NEW k \in Workers, Deliver(k) PROVE Placed'
  <2>1. /\ hand' = [hand EXCEPT ![k] = Idle] /\ hand[k] \in Offsets
        /\ msgCh' = Append(msgCh, hand[k]) /\ pending' = pending
    BY <1>4 DEF Deliver, collectorVars
  <2>2. \A l \in Workers : hand'[l] = IF l = k THEN Idle ELSE hand[l]
    BY <1>0, <2>1 DEF TypeOK
  <2>3. \A m \in Offsets : InHands(m)' => InHands(m) /\ m # hand[k]
    BY <1>0, <2>1, <2>2 DEF InHands, Placed
  <2>4. \A l, n \in Workers : hand'[l] \in Offsets /\ hand'[l] = hand'[n] => l = n
    BY <1>0, <2>2 DEF Placed
  <2>5. ToSet(msgCh') = ToSet(msgCh) \cup {hand[k]}
    BY <1>0, <2>1, ToSetAppend DEF TypeOK
  <2>6. hand[k] \notin ToSet(msgCh) /\ hand[k] \notin ToSet(pending)
    BY DEF Placed, InHands
  <2>7. ASSUME NEW i \in 1..Len(msgCh'), NEW j \in 1..Len(msgCh'), msgCh'[i] = msgCh'[j]
        PROVE  i = j
    <3>1. /\ Len(msgCh') = Len(msgCh) + 1 /\ Len(msgCh) \in Nat
          /\ msgCh'[Len(msgCh) + 1] = hand[k]
          /\ \A n \in 1..Len(msgCh) : msgCh'[n] = msgCh[n]
      BY <1>0, <2>1 DEF TypeOK
    <3>2. \A n \in 1..Len(msgCh) : msgCh[n] \in ToSet(msgCh)
      BY <1>0, ToSetIsRange DEF TypeOK
    <3>3. /\ i \in 1..Len(msgCh) \/ i = Len(msgCh) + 1
          /\ j \in 1..Len(msgCh) \/ j = Len(msgCh) + 1
      BY <3>1
    <3>4. CASE i \in 1..Len(msgCh) /\ j \in 1..Len(msgCh)
      BY <2>7, <3>1, <3>4 DEF Placed
    <3> QED
      BY <2>6, <2>7, <3>1, <3>2, <3>3, <3>4
  <2> QED
    BY <1>s, <2>1, <2>3, <2>4, <2>5, <2>6, <2>7 DEF Placed
<1>5. CASE Collect
  <2>1. hand' = hand /\ msgCh' = Tail(msgCh) /\ msgCh # <<>>
    BY <1>5 DEF Collect
  <2>2. /\ Head(msgCh) = msgCh[1] /\ Len(msgCh) \in Nat /\ Len(msgCh) >= 1
        /\ Tail(msgCh) \in Seq(Offsets) /\ Len(Tail(msgCh)) = Len(msgCh) - 1
        /\ \A j \in 1..Len(Tail(msgCh)) : Tail(msgCh)[j] = msgCh[j + 1]
    BY <1>0, <2>1, HeadTailProperties, EmptySeq, LenProperties DEF TypeOK
  <2>3. /\ ToSet(msgCh) = {Head(msgCh)} \cup ToSet(msgCh')
        /\ ToSet(pending') = ToSet(pending) \cup {Head(msgCh)}
    BY <1>5, CollectSets
  <2>4. \A j \in 1..Len(msgCh') : j + 1 \in 1..Len(msgCh) /\ j + 1 # 1
    BY <2>1, <2>2
  <2>5. Head(msgCh) \notin ToSet(msgCh')
    <3>1. ToSet(Tail(msgCh)) = {Tail(msgCh)[j] : j \in 1..Len(Tail(msgCh))}
      BY <2>2, ToSetIsRange
    <3>2. ASSUME NEW j \in 1..Len(msgCh') PROVE msgCh'[j] # Head(msgCh)
      <4>1. msgCh'[j] = msgCh[j + 1] /\ 1 \in 1..Len(msgCh)
        BY <2>1, <2>2
      <4> QED
        BY <2>2, <2>4, <4>1 DEF Placed
    <3> QED
      BY <2>1, <3>1, <3>2
  <2>6. ASSUME NEW i \in 1..Len(msgCh'), NEW j \in 1..Len(msgCh'), msgCh'[i] = msgCh'[j]
        PROVE  i = j
    <3>1. msgCh[i + 1] = msgCh[j + 1]
      BY <2>1, <2>2, <2>6
    <3>2. i + 1 = j + 1
      BY <2>4, <3>1 DEF Placed
    <3> QED
      BY <2>1, <2>2, <3>2
  <2>7. \A m : InHands(m)' <=> InHands(m)
    BY <2>1 DEF InHands
  <2> QED
    BY <2>1, <2>3, <2>5, <2>6, <2>7 DEF Placed
<1>6. CASE Insert \/ Down \/ Restart
  <2>1. /\ pending' = <<>>
        /\ \/ UNCHANGED <<hand, msgCh>>
           \/ msgCh' = <<>> /\ \A k \in Workers : hand'[k] \in {Idle, Gone}
    BY <1>6 DEF Insert, Flushed, Down, Restart, TypeInv, ProcInv
  <2>2. CASE UNCHANGED <<hand, msgCh>>
    BY <2>1, <2>2, ToSetEmpty DEF Placed, InHands
  <2>3. CASE msgCh' = <<>> /\ \A k \in Workers : hand'[k] \in {Idle, Gone}
    BY <1>0, <2>1, <2>3, ToSetEmpty DEF Placed
  <2> QED
    BY <2>1, <2>2, <2>3
<1>7. ASSUME UNCHANGED <<hand, msgCh, pending>> PROVE Placed'
  BY <1>7 DEF Placed, InHands
<1>8. ASSUME Produce \/ Tick \/ Commit \/ Shutdown \/ FlushRedis \/ Interrupt \/ UNCHANGED vars
      PROVE  UNCHANGED <<hand, msgCh, pending>>
  BY <1>8 DEF Produce, Tick, Commit, Shutdown, FlushRedis, Interrupt, vars, collectorVars
<1> QED
  BY <1>1, <1>3, <1>4, <1>5, <1>6, <1>7, <1>8 DEF Next, Worker, Collector, Waiting

\* Outside the flush and the crash, what may still be stored or published could
\* be before the step as well.
LEMMA MayStep ==
    ASSUME TypeInv, [Next]_vars, ~Down, ~Restart, NEW m \in Offsets
    PROVE  /\ MayStore(m)' => MayStore(m)
           /\ ~FlushRedis => (MayCount(m)' => MayCount(m))
<1>0. TypeOK /\ Idle \notin Offsets /\ Gone \notin Offsets
  BY DEF TypeInv, Idle, Gone, Offsets
<1>p. proc' = "down" => proc = "down"
  BY DEF Next, Worker, FetchMessage, SkipBad, Deliver, WorkerReturns, Collector, Collect, Tick,
         Commit, Shutdown, FlushRedis, Insert, Produce, Interrupt, Waiting, vars
<1>1. ASSUME NEW k \in Workers, FetchMessage(k)
      PROVE  (MayStore(m)' => MayStore(m)) /\ (MayCount(m)' => MayCount(m))
  <2>1. /\ hand' = [hand EXCEPT ![k] = position] /\ position' = position + 1
        /\ UNCHANGED <<msgCh, pending, window>>
    BY <1>1 DEF FetchMessage, collectorVars
  <2>2. \A l \in Workers : hand'[l] = IF l = k THEN position ELSE hand[l]
    BY <1>0, <2>1 DEF TypeOK
  <2>3. (InHands(m)' => InHands(m) \/ m = position) /\ (m >= position' => m >= position)
        /\ (m = position => m >= position)
    BY <1>0, <2>1, <2>2, IngesterBounds DEF InHands, TypeOK, Offsets
  <2> QED
    BY <1>p, <2>1, <2>3 DEF MayStore, MayCount, OnTheWay
<1>2. ASSUME NEW k \in Workers, SkipBad(k) \/ WorkerReturns(k)
      PROVE  (MayStore(m)' => MayStore(m)) /\ (MayCount(m)' => MayCount(m))
  <2>1. /\ hand' = [hand EXCEPT ![k] = Idle] \/ hand' = [hand EXCEPT ![k] = Gone]
        /\ UNCHANGED <<msgCh, pending, window, position>>
    BY <1>2 DEF SkipBad, WorkerReturns, collectorVars
  <2>2. \A l \in Workers : hand'[l] = hand[l] \/ hand'[l] \notin Offsets
    BY <1>0, <2>1 DEF TypeOK
  <2>3. InHands(m)' => InHands(m)
    BY <2>2 DEF InHands
  <2> QED
    BY <1>p, <2>1, <2>3 DEF MayStore, MayCount, OnTheWay
<1>3. ASSUME NEW k \in Workers, Deliver(k)
      PROVE  (MayStore(m)' => MayStore(m)) /\ (MayCount(m)' => MayCount(m))
  <2>1. /\ hand' = [hand EXCEPT ![k] = Idle] /\ hand[k] \in Offsets
        /\ msgCh' = Append(msgCh, hand[k])
        /\ UNCHANGED <<pending, window, position>>
    BY <1>3 DEF Deliver, collectorVars
  <2>2. ToSet(msgCh') = ToSet(msgCh) \cup {hand[k]}
    BY <1>0, <2>1, ToSetAppend DEF TypeOK
  <2>3. \A l \in Workers : hand'[l] = hand[l] \/ hand'[l] \notin Offsets
    BY <1>0, <2>1 DEF TypeOK
  <2>4. (InHands(m)' => InHands(m)) /\ (m = hand[k] => InHands(m))
    BY <2>3 DEF InHands
  <2> QED
    BY <1>p, <2>1, <2>2, <2>4 DEF MayStore, MayCount, OnTheWay
<1>4. ASSUME Collect
      PROVE  (MayStore(m)' => MayStore(m)) /\ (MayCount(m)' => MayCount(m))
  <2>1. window' = window \cup {Head(msgCh)} /\ UNCHANGED <<hand, position>>
    BY <1>4 DEF Collect, Add
  <2>2. InHands(m)' => InHands(m)
    BY <2>1 DEF InHands
  <2> QED
    BY <1>4, <1>p, <2>1, <2>2, CollectSets DEF MayStore, MayCount, OnTheWay
<1>5. CASE FlushRedis
  <2>1. UNCHANGED <<hand, position, msgCh, pending>>
    BY <1>5 DEF FlushRedis
  <2> QED
    BY <1>5, <1>p, <2>1 DEF MayStore, OnTheWay, InHands
<1>6. ASSUME Insert
      PROVE  (MayStore(m)' => MayStore(m)) /\ (MayCount(m)' => MayCount(m))
  <2>1. UNCHANGED <<hand, position, msgCh, window>> /\ pending' = <<>>
    BY <1>6 DEF Insert, Flushed
  <2> QED
    BY <1>p, <2>1, ToSetEmpty DEF MayStore, MayCount, OnTheWay, InHands
<1>7. ASSUME UNCHANGED <<hand, position, msgCh, pending, window>>
      PROVE  (MayStore(m)' => MayStore(m)) /\ (MayCount(m)' => MayCount(m))
  BY <1>7, <1>p DEF MayStore, MayCount, OnTheWay, InHands
<1>8. ASSUME Produce \/ Tick \/ Commit \/ Shutdown \/ Interrupt \/ UNCHANGED vars
      PROVE  UNCHANGED <<hand, position, msgCh, pending, window>>
  BY <1>8 DEF Produce, Tick, Commit, Shutdown, Interrupt, vars, collectorVars
<1> QED
  BY <1>1, <1>2, <1>3, <1>4, <1>5, <1>6, <1>7, <1>8 DEF Next, Worker, Collector, Waiting

\* What was published or stored at most once per life stays so: a flush takes
\* what it writes off the way, a crash starts the next life.
LEMMA OnceStep == TypeInv /\ WindowInv /\ OnceInv /\ [Next]_vars => OnceInv'
<1> SUFFICES ASSUME TypeInv, WindowInv, OnceInv, [Next]_vars, NEW m \in Offsets
             PROVE  /\ stored'[m] <= restarts' + 1 /\ counted'[m] <= restarts' + 1
                    /\ MayStore(m)' => stored'[m] <= restarts'
                    /\ MayCount(m)' => counted'[m] <= restarts'
  BY PlacedStep DEF OnceInv, OncePerLife
<1>0. TypeOK /\ FetchedInv /\ stored[m] \in Nat /\ counted[m] \in Nat /\ restarts \in Nat
  BY IngesterBounds DEF TypeInv, TypeOK
<1>1. /\ stored[m] <= restarts + 1 /\ counted[m] <= restarts + 1
      /\ MayStore(m) => stored[m] <= restarts
      /\ MayCount(m) => counted[m] <= restarts
  BY DEF OnceInv, OncePerLife
<1>2. CASE Down
  BY <1>0, <1>1, <1>2 DEF Down
<1>3. CASE Restart
  <2>1. UNCHANGED <<stored, counted, restarts>> /\ MayStore(m) /\ MayCount(m)
    BY <1>3 DEF Restart, MayStore, MayCount, OnTheWay
  <2> QED
    BY <1>0, <1>1, <2>1
<1>4. ASSUME m \in ToSet(pending), UNCHANGED <<proc, position, hand, msgCh>>
      PROVE  ~OnTheWay(m)'
  <2>1. m < position /\ proc # "down" /\ ~InHands(m) /\ m \notin ToSet(msgCh)
    BY <1>4, ToSetEmpty DEF TypeInv, FetchedInv, ProcInv, OnceInv, Placed
  <2>2. ~(m >= position)
    BY <1>0, <2>1, IngesterBounds DEF TypeOK, Offsets
  <2> QED
    BY <1>4, <2>1, <2>2 DEF OnTheWay, InHands
<1>5. CASE FlushRedis
  <2>1. /\ phase = "redis" /\ window' = {}
        /\ UNCHANGED <<stored, restarts, proc, position, hand, msgCh>>
        /\ \/ counted' = [x \in Offsets |-> counted[x] + (IF x \in window THEN 1 ELSE 0)]
           \/ UNCHANGED counted
    BY <1>5 DEF FlushRedis, FlushAndReset
  <2>2. stored'[m] <= restarts' + 1 /\ (MayStore(m)' => stored'[m] <= restarts')
    BY <1>1, <1>5, <2>1, MayStep DEF FlushRedis, Down, Restart, TypeInv, ProcInv
  <2>3. MayCount(m)' => MayCount(m)
    BY <2>1 DEF MayCount, OnTheWay, InHands
  <2>4. CASE m \in window
    <3>1. m \in ToSet(pending)
      BY <2>1, <2>4 DEF WindowInv
    <3>2. ~MayCount(m)' /\ MayCount(m)
      BY <1>4, <2>1, <2>4, <3>1 DEF MayCount
    <3>3. counted'[m] = counted[m] + 1 \/ counted'[m] = counted[m]
      BY <2>1, <2>4
    <3> QED
      BY <1>0, <1>1, <2>1, <2>2, <3>2, <3>3
  <2>5. CASE m \notin window
    <3>1. counted'[m] = counted[m]
      BY <1>0, <2>1, <2>5
    <3> QED
      BY <1>1, <2>1, <2>2, <2>3, <3>1
  <2> QED
    BY <2>4, <2>5
<1>6. CASE Insert
  <2>1. /\ UNCHANGED <<counted, restarts, proc, position, hand, msgCh>>
        /\ pending' = <<>> /\ phase = "insert"
    BY <1>6 DEF Insert, Flushed
  <2>2. PICK rows \in {Committable(ToSet(pending)), {}} :
          stored' = [x \in Offsets |-> stored[x] + (IF x \in rows THEN 1 ELSE 0)]
    BY <1>6 DEF Insert
  <2>3. rows \subseteq ToSet(pending)
    BY <2>2 DEF Committable
  <2>4. ~Down /\ ~Restart /\ ~FlushRedis
    BY <2>1 DEF Down, Restart, FlushRedis, TypeInv, ProcInv
  <2>5. counted'[m] <= restarts' + 1 /\ (MayCount(m)' => counted'[m] <= restarts')
    BY <1>1, <2>1, <2>4, MayStep
  <2>6. CASE m \in rows
    <3>1. ~MayStore(m)' /\ MayStore(m)
      BY <1>4, <2>1, <2>3, <2>6, ToSetEmpty DEF MayStore
    <3>2. stored'[m] = stored[m] + 1
      BY <2>2, <2>6
    <3> QED
      BY <1>0, <1>1, <2>1, <2>5, <3>1, <3>2
  <2>7. CASE m \notin rows
    <3>1. stored'[m] = stored[m]
      BY <1>0, <2>2, <2>7
    <3> QED
      BY <1>1, <2>1, <2>4, <2>5, <3>1, MayStep
  <2> QED
    BY <2>6, <2>7
<1>7. ASSUME ~Down, ~Restart, ~FlushRedis, ~Insert
      PROVE  UNCHANGED <<stored, counted, restarts>>
  BY <1>7 DEF Next, Worker, FetchMessage, SkipBad, Deliver, WorkerReturns, Collector, Collect,
              Tick, Commit, Shutdown, Produce, Interrupt, Waiting, vars
<1> QED
  BY <1>1, <1>2, <1>3, <1>5, <1>6, <1>7, MayStep

\* However often the process was restarted, a record has at most one row in
\* TimescaleDB and one published window per life: no order of fetches, lost
\* commits and failed flushes makes a life write it twice.
THEOREM StoredOncePerLife == Spec => []OncePerLife
<1>1. Init => WindowInv
  BY ToSetEmpty DEF Init, WindowInv
<1>2. Init => OnceInv
  <2> SUFFICES ASSUME Init PROVE OnceInv
    OBVIOUS
  <2>1. Placed
    BY ToSetEmpty DEF Init, Placed, Idle, Offsets
  <2> QED
    BY <2>1 DEF Init, OnceInv, OncePerLife
<1>3. OnceInv => OncePerLife
  BY DEF OnceInv
<1> QED
  BY <1>1, <1>2, <1>3, WindowStep, OnceStep, TypeInvariant, PTL DEF Spec
=============================================================================
