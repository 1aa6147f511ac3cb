-------------------------- MODULE RingBufferProofs --------------------------
(***************************************************************************)
(* Proofs about RingBuffer, for every number of producers, size, batch     *)
(* length and number of calls.                                             *)
(***************************************************************************)
EXTENDS RingBuffer, SequenceTheorems, TLAPS

\* A producer inside Push has begun a call.
InCall == \A p \in Producers : pc[p] \in {"loadRead", "cas", "store"} => calls[p] >= 1

\* What a producer's local copies of the positions still tell: they are past
\* values, w was loaded before rd, and the full test was passed.
Positions ==
    \A p \in Producers :
        /\ w[p] <= write
        /\ pc[p] = "cas" =>
              /\ rd[p] <= read
              /\ w[p] <= rd[p] + Size
              /\ ~LooksFull(w[p], rd[p])

\* The batch under way lies between the two positions.
Batch == cpc = "copy" => i <= n /\ read + n <= write

\* Holds in both uses of the buffer.
OccupancyInv == TypeOK /\ InCall /\ Positions /\ Batch /\ Bounded

-----------------------------------------------------------------------------
LEMMA SizePositive == Size \in Nat /\ Size >= 1
BY SizeAssumption DEF Size

LEMMA SlotInRange == \A pos \in Nat : Slot(pos) \in Slots
BY SizePositive DEF Slot, Slots

LEMMA CurrentIsMetric ==
    ASSUME TypeOK, InCall, NEW p \in Producers, pc[p] \in {"loadRead", "cas", "store"}
    PROVE  Current(p) \in Metrics
BY BoundAssumption DEF TypeOK, InCall, Current, Metrics

\* A difference that did not wrap is what the full test compares.
LEMMA NoWrap ==
    ASSUME NEW a \in Nat, NEW b \in Nat, b <= a, a <= b + Size, ~LooksFull(a, b)
    PROVE  a < b + Size
<1>1. a - b \in 0..Size
  BY SizePositive
<1>2. (a - b) % Word = a - b
  BY <1>1, SizeAssumption, SizePositive
<1> QED
  BY <1>1, <1>2, SizePositive DEF LooksFull, SubWord

LEMMA OccupancyInit == Init => OccupancyInv
<1> SUFFICES ASSUME Init PROVE OccupancyInv
  OBVIOUS
<1>1. TypeOK
  BY BoundAssumption DEF Init, TypeOK, Contents
<1>2. InCall /\ Positions /\ Batch /\ Bounded
  BY SizePositive DEF Init, InCall, Positions, Batch, Bounded
<1> QED
  BY <1>1, <1>2 DEF OccupancyInv

LEMMA OccupancyStep == OccupancyInv /\ [Next]_vars => OccupancyInv'
<1> SUFFICES ASSUME OccupancyInv, [Next]_vars PROVE OccupancyInv'
  OBVIOUS
<1> USE SizePositive DEF OccupancyInv
<1>1. ASSUME NEW p \in Producers, CallPush(p) PROVE OccupancyInv'
  BY <1>1, BoundAssumption
     DEF CallPush, TypeOK, InCall, Positions, Batch, Bounded, consumerVars
<1>2. ASSUME NEW p \in Producers, LoadRead(p) PROVE OccupancyInv'
  <2>0. Current(p) \in Metrics
    BY <1>2, CurrentIsMetric DEF LoadRead
  <2>1. TypeOK' /\ InCall'
    BY <1>2, <2>0 DEF LoadRead, TypeOK, InCall, consumerVars
  <2>2. Positions'
    BY <1>2 DEF LoadRead, TypeOK, Positions, Bounded, consumerVars
  <2>3. Batch' /\ Bounded'
    BY <1>2 DEF LoadRead, Batch, Bounded, consumerVars
  <2> QED
    BY <2>1, <2>2, <2>3
<1>3. ASSUME NEW p \in Producers, Claim(p) PROVE OccupancyInv'
  <2>1. Current(p) \in Metrics
    BY <1>3, CurrentIsMetric DEF Claim
  <2>2. TypeOK' /\ InCall'
    BY <1>3, <2>1 DEF Claim, TypeOK, InCall, StoringInto, consumerVars
  <2>3. Positions' /\ Batch'
    BY <1>3 DEF Claim, TypeOK, Positions, Batch, consumerVars
  <2>4. Bounded'
    <3>1. /\ rd[p] \in Nat /\ write \in Nat /\ read \in Nat
          /\ rd[p] <= read /\ read <= write /\ write <= rd[p] + Size
          /\ ~LooksFull(write, rd[p])
      BY <1>3 DEF Claim, TypeOK, Positions, Bounded
    <3>2. write < rd[p] + Size
      BY <3>1, NoWrap
    <3> QED
      BY <1>3, <3>1, <3>2 DEF Claim, Bounded
  <2> QED
    BY <2>2, <2>3, <2>4
<1>4. ASSUME NEW p \in Producers, Retry(p) PROVE OccupancyInv'
  BY <1>4 DEF Retry, TypeOK, InCall, Positions, Batch, Bounded, consumerVars
<1>5. ASSUME NEW p \in Producers, Store(p) PROVE OccupancyInv'
  <2>1. Current(p) \in Metrics /\ Slot(w[p]) \in Slots
    BY <1>5, CurrentIsMetric, SlotInRange DEF Store, TypeOK
  <2>2. TypeOK'
    BY <1>5, <2>1 DEF Store, TypeOK, Contents, consumerVars
  <2>3. InCall' /\ Positions' /\ Batch' /\ Bounded'
    BY <1>5 DEF Store, TypeOK, InCall, Positions, Batch, Bounded, consumerVars
  <2> QED
    BY <2>2, <2>3
<1>6. ASSUME NEW p \in Producers, Exit(p) PROVE OccupancyInv'
  BY <1>6 DEF Exit, TypeOK, InCall, Positions, Batch, Bounded, consumerVars
<1>7. ASSUME PopNothing PROVE OccupancyInv'
  BY <1>7 DEF PopNothing, TypeOK, InCall, Positions, Batch, Bounded, producerVars
<1>8. ASSUME BeginPop PROVE OccupancyInv'
  BY <1>8, BoundAssumption
     DEF BeginPop, TypeOK, InCall, Positions, Batch, Bounded, producerVars
<1>9. ASSUME Copy PROVE OccupancyInv'
  <2>1. Slot(read + i) \in Slots
    BY SlotInRange DEF TypeOK
  <2>2. buf[Slot(read + i)] \in Contents
    BY <2>1 DEF TypeOK
  <2>3. \A p \in StoringInto(Slot(read + i)) : Current(p) \in Contents
    BY CurrentIsMetric DEF StoringInto, Contents
  <2>4. popped' \in Seq(Contents)
    BY <1>9, <2>2, <2>3 DEF Copy, TypeOK, Contents
  <2>5. TypeOK' /\ InCall' /\ Positions' /\ Batch' /\ Bounded'
    BY <1>9, <2>4 DEF Copy, TypeOK, InCall, Positions, Batch, Bounded, producerVars
  <2> QED
    BY <2>5
<1>10. ASSUME Publish PROVE OccupancyInv'
  BY <1>10 DEF Publish, TypeOK, InCall, Positions, Batch, Bounded, producerVars
<1>11. ASSUME UNCHANGED vars PROVE OccupancyInv'
  BY <1>11 DEF vars, producerVars, consumerVars, TypeOK, InCall, Positions, Batch, Bounded
<1> QED
  BY <1>1, <1>2, <1>3, <1>4, <1>5, <1>6, <1>7, <1>8, <1>9, <1>10, <1>11
     DEF Next, Producer, Consumer, Finished

LEMMA OccupancyInvariant == Spec => []OccupancyInv
BY OccupancyInit, OccupancyStep, PTL DEF Spec

\* Every variable of the buffer keeps its type, in both uses of it.
THEOREM TypeCorrect == Spec => []TypeOK
BY OccupancyInvariant, PTL DEF OccupancyInv

\* Push and PopInto keep the occupancy within the size, in both uses: a stale
\* position never lets the CAS of Push claim a slot that is still occupied.
THEOREM OccupancyBounded == Spec => []Bounded
BY OccupancyInvariant, PTL DEF OccupancyInv

-----------------------------------------------------------------------------
(***************************************************************************)
(* The judge's use of the buffer: drained after every bot has been joined. *)
(***************************************************************************)

\* Until the last producer has exited nothing is drained, so one lap of the
\* slots is all that is ever written.
OneLap ==
    /\ ~AllExited => read = 0 /\ popped = <<>> /\ cpc = "pop"
    /\ write <= Size
    /\ Len(claimed) = write

\* Each claimed position belongs to one producer until it has been stored.
Owned ==
    /\ \A p \in Producers : pc[p] = "store" =>
          w[p] < write /\ claimed[w[p] + 1] = Current(p)
    /\ \A p, q \in Producers :
          pc[p] = "store" /\ pc[q] = "store" /\ w[p] = w[q] => p = q
    /\ racing = {}

\* Each claimed position has been stored, or its owner is about to.
Stored ==
    \A k \in 1..write :
        \/ buf[k - 1] = claimed[k]
        \/ \E p \in Producers : pc[p] = "store" /\ w[p] = k - 1

\* How far the drain has come.
Drained ==
    /\ Len(popped) = read + (IF cpc = "copy" THEN i ELSE 0)
    /\ \A k \in 1..Len(popped) : popped[k] = claimed[k]
    /\ cpc = "done" => AllExited /\ read = write

JudgeInv == OccupancyInv /\ OneLap /\ Owned /\ Stored /\ Drained

LEMMA SlotOfFirstLap == \A pos \in Nat : pos < Size => Slot(pos) = pos
BY SizePositive DEF Slot

LEMMA JudgeInit == Init => JudgeInv
BY OccupancyInit, SizePositive DEF Init, JudgeInv, OneLap, Owned, Stored, Drained

\* A step of a producer outside the store changes nothing of what was claimed.
LEMMA QuietStep ==
    ASSUME TypeOK, OneLap, Owned, Stored, Drained,
           UNCHANGED <<write, read, buf, racing, consumerVars, claimed>>,
           \A q \in Producers : pc'[q] = "store" <=> pc[q] = "store",
           \A q \in Producers : pc[q] = "store" => w'[q] = w[q] /\ calls'[q] = calls[q],
           AllExited => AllExited'
    PROVE  OneLap' /\ Owned' /\ Stored' /\ Drained'
<1>1. OneLap' /\ Drained'
  BY DEF OneLap, Drained, consumerVars
<1>2. Owned'
  BY DEF Owned, Current
<1>3. Stored'
  BY DEF Stored
<1> QED
  BY <1>1, <1>2, <1>3

LEMMA JudgeStep ==
    ASSUME ~ConcurrentDrain, JudgeInv, [Next]_vars
    PROVE  JudgeInv'
<1>0. OccupancyInv /\ OccupancyInv'
  BY OccupancyStep DEF JudgeInv
<1>t. TypeOK /\ TypeOK' /\ Bounded /\ Bounded'
  BY <1>0 DEF OccupancyInv
<1> DEFINE Rest == OneLap /\ Owned /\ Stored /\ Drained
<1> SUFFICES Rest'
  BY <1>0 DEF JudgeInv
<1> USE <1>t, SizePositive DEF JudgeInv
<1>1. ASSUME NEW p \in Producers, CallPush(p) PROVE Rest'
  BY <1>1, QuietStep DEF CallPush, TypeOK, AllExited, consumerVars
<1>2. ASSUME NEW p \in Producers, LoadRead(p) PROVE Rest'
  BY <1>2, QuietStep DEF LoadRead, TypeOK, AllExited, consumerVars
<1>3. ASSUME NEW p \in Producers, Claim(p) PROVE Rest'
  <2>1. /\ read = 0 /\ popped = <<>> /\ cpc = "pop"
        /\ w[p] = write /\ w[p] \in Nat /\ write + 1 <= Size
    BY <1>3 DEF Claim, TypeOK, OneLap, AllExited, Bounded
  <2>2. Slot(w[p]) = w[p]
    BY <2>1, SlotOfFirstLap
  <2>3. StoringInto(Slot(w[p])) = {}
    <3> SUFFICES ASSUME NEW q \in Producers, pc[q] = "store" PROVE Slot(w[q]) # write
      BY <2>1, <2>2 DEF StoringInto
    <3>1. w[q] \in Nat /\ write \in Nat
      BY DEF TypeOK
    <3>2. w[q] < write
      BY DEF Owned
    <3>3. w[q] < Size
      BY <2>1, <3>1, <3>2
    <3> QED
      BY <3>1, <3>2, <3>3, SlotOfFirstLap
  <2>4. /\ Len(claimed') = write + 1
        /\ claimed'[write + 1] = Current(p)
        /\ \A k \in 1..write : claimed'[k] = claimed[k]
    BY <1>3, <2>1 DEF Claim, OneLap, TypeOK
  <2>5. OneLap'
    BY <1>3, <2>1, <2>4 DEF Claim, OneLap, AllExited, TypeOK, consumerVars
  <2>6. Owned'
    <3>1. racing' = {}
      BY <1>3, <2>3 DEF Claim, Owned
    <3>2. pc' = [pc EXCEPT ![p] = "store"] /\ w' = w /\ calls' = calls /\ write' = write + 1
      BY <1>3 DEF Claim
    <3>3. \A q \in Producers : pc'[q] = "store" =>
             w'[q] < write' /\ claimed'[w'[q] + 1] = Current(q)'
      <4> SUFFICES ASSUME NEW q \in Producers, pc'[q] = "store"
                   PROVE  w[q] < write + 1 /\ claimed'[w[q] + 1] = Current(q)
        BY <3>2 DEF Current
      <4>1. CASE q = p
        BY <2>1, <2>4, <4>1
      <4>2. CASE q # p
        <5>1. pc[q] = "store"
          BY <3>2, <4>2 DEF TypeOK
        <5>2. w[q] \in Nat /\ write \in Nat
          BY DEF TypeOK
        <5>3. w[q] < write /\ claimed[w[q] + 1] = Current(q)
          BY <5>1 DEF Owned
        <5>4. w[q] + 1 \in 1..write /\ w[q] < write + 1
          BY <5>2, <5>3
        <5> QED
          BY <2>4, <5>3, <5>4
      <4> QED
        BY <4>1, <4>2
    <3>4. \A q, r \in Producers :
             pc'[q] = "store" /\ pc'[r] = "store" /\ w'[q] = w'[r] => q = r
      BY <2>1, <3>2 DEF Owned, TypeOK
    <3> QED
      BY <3>1, <3>3, <3>4 DEF Owned
  <2>7. Stored'
    <3> SUFFICES ASSUME NEW k \in 1..(write + 1)
                 PROVE  \/ buf'[k - 1] = claimed'[k]
                        \/ \E q \in Producers : pc'[q] = "store" /\ w'[q] = k - 1
      BY <1>3 DEF Claim, Stored
    <3>1. CASE k = write + 1
      BY <1>3, <2>1, <3>1 DEF Claim, TypeOK
    <3>2. CASE k \in 1..write
      <4>1. \/ buf[k - 1] = claimed[k]
            \/ \E q \in Producers : pc[q] = "store" /\ w[q] = k - 1
        BY <3>2 DEF Stored
      <4> QED
        BY <1>3, <2>4, <3>2, <4>1 DEF Claim, TypeOK
    <3> QED
      BY <3>1, <3>2, <2>1
  <2>8. Drained'
    BY <1>3, <2>1 DEF Claim, Drained, consumerVars
  <2> QED
    BY <2>5, <2>6, <2>7, <2>8
<1>4. ASSUME NEW p \in Producers, Retry(p) PROVE Rest'
  BY <1>4, QuietStep DEF Retry, TypeOK, AllExited, consumerVars
<1>5. ASSUME NEW p \in Producers, Store(p) PROVE Rest'
  <2>1. /\ read = 0 /\ popped = <<>> /\ cpc = "pop"
        /\ w[p] \in Nat /\ w[p] < write /\ w[p] < Size
        /\ claimed[w[p] + 1] = Current(p)
    BY <1>5 DEF Store, TypeOK, OneLap, AllExited, Owned
  <2>2. Slot(w[p]) = w[p] /\ w[p] \in Slots
    BY <2>1, SlotOfFirstLap DEF Slots
  <2>3. buf' = [buf EXCEPT ![w[p]] = Current(p)]
    BY <1>5, <2>2 DEF Store, Owned
  <2>4. OneLap' /\ Owned' /\ Drained'
    BY <1>5, <2>1 DEF Store, TypeOK, OneLap, Owned, Drained, AllExited, Current, consumerVars
  <2>5. Stored'
    <3> SUFFICES ASSUME NEW k \in 1..write
                 PROVE  \/ buf'[k - 1] = claimed[k]
                        \/ \E q \in Producers : pc'[q] = "store" /\ w[q] = k - 1
      BY <1>5 DEF Store, Stored
    <3>1. CASE k - 1 = w[p]
      <4>1. buf'[w[p]] = Current(p)
        BY <2>2, <2>3 DEF TypeOK
      <4>2. k = w[p] + 1
        BY <2>1, <3>1
      <4> QED
        BY <2>1, <3>1, <4>1, <4>2
    <3>2. CASE k - 1 # w[p]
      <4>1. buf'[k - 1] = buf[k - 1]
        BY <2>3, <3>2, <1>t DEF TypeOK, OneLap, Slots
      <4>2. \/ buf[k - 1] = claimed[k]
            \/ \E q \in Producers : pc[q] = "store" /\ w[q] = k - 1
        BY DEF Stored
      <4>3. \A q \in Producers : pc[q] = "store" /\ w[q] = k - 1 => pc'[q] = "store"
        BY <1>5, <3>2 DEF Store, TypeOK
      <4> QED
        BY <4>1, <4>2, <4>3
    <3> QED
      BY <3>1, <3>2
  <2> QED
    BY <2>4, <2>5
<1>6. ASSUME NEW p \in Producers, Exit(p) PROVE Rest'
  BY <1>6, QuietStep DEF Exit, TypeOK, AllExited, consumerVars
<1>7. ASSUME PopNothing PROVE Rest'
  <2>1. AllExited /\ AllExited' /\ read = write
    BY <1>7 DEF PopNothing, MayDrain, Bounded, AllExited, producerVars, TypeOK
  <2> QED
    BY <1>7, <2>1
       DEF PopNothing, TypeOK, OneLap, Owned, Stored, Drained, Current, producerVars
<1>8. ASSUME BeginPop PROVE Rest'
  <2>1. AllExited /\ AllExited'
    BY <1>8 DEF BeginPop, MayDrain, AllExited, producerVars
  <2> QED
    BY <1>8, <2>1
       DEF BeginPop, TypeOK, OneLap, Owned, Stored, Drained, Current, producerVars
<1>9. ASSUME Copy PROVE Rest'
  <2>1. AllExited /\ AllExited'
    BY <1>9 DEF Copy, OneLap, AllExited, producerVars
  <2>2. /\ read + i \in Nat /\ read + i < write /\ read + i < Size
        /\ Len(popped) = read + i
    BY <1>0, <1>9 DEF Copy, OccupancyInv, Batch, TypeOK, OneLap, Drained
  <2>3. Slot(read + i) = read + i
    BY <2>2, SlotOfFirstLap
  <2>4. StoringInto(Slot(read + i)) = {}
    BY <2>1 DEF StoringInto, AllExited
  <2>5. popped' = Append(popped, buf[read + i])
    BY <1>9, <2>3, <2>4 DEF Copy
  <2>6. buf[read + i] = claimed[read + i + 1]
    <3>1. read + i + 1 \in 1..write /\ (read + i + 1) - 1 = read + i
      BY <2>2 DEF TypeOK
    <3> QED
      BY <2>1, <3>1 DEF Stored, AllExited
  <2>7. Drained'
    BY <1>9, <2>1, <2>2, <2>5, <2>6 DEF Copy, Drained, TypeOK
  <2> QED
    BY <1>9, <2>1, <2>7 DEF Copy, TypeOK, OneLap, Owned, Stored, Current, producerVars
<1>10. ASSUME Publish PROVE Rest'
  <2>1. AllExited /\ AllExited'
    BY <1>10 DEF Publish, OneLap, AllExited, producerVars
  <2> QED
    BY <1>10, <2>1
       DEF Publish, TypeOK, OneLap, Owned, Stored, Drained, Current, producerVars
<1>11. ASSUME UNCHANGED vars PROVE Rest'
  BY <1>11 DEF vars, producerVars, consumerVars, OneLap, Owned, Stored, Drained,
               AllExited, Current
<1> QED
  BY <1>1, <1>2, <1>3, <1>4, <1>5, <1>6, <1>7, <1>8, <1>9, <1>10, <1>11
     DEF Next, Producer, Consumer, Finished

LEMMA JudgeInvariant == ASSUME ~ConcurrentDrain PROVE Spec => []JudgeInv
BY JudgeInit, JudgeStep, PTL DEF Spec

\* What the judge drains is what the bots pushed, in order, whatever the
\* interleaving of their CAS loops: Push stores after its CAS, and the join in
\* botfleet.Run is what makes that safe.
THEOREM JudgeDrainFaithful ==
    ASSUME ~ConcurrentDrain
    PROVE  Spec => []FaithfulPop
<1>1. JudgeInv => FaithfulPop
  <2> SUFFICES ASSUME JudgeInv PROVE FaithfulPop
    OBVIOUS
  <2>1. TypeOK /\ Bounded /\ Batch
    BY DEF JudgeInv, OccupancyInv
  <2>2. Len(popped) <= Len(claimed)
    BY <2>1 DEF JudgeInv, TypeOK, Bounded, Batch, OneLap, Drained
  <2> QED
    BY <2>2 DEF JudgeInv, Drained, FaithfulPop
<1> QED
  BY <1>1, JudgeInvariant, PTL

\* In the judge's use no two bots ever store into one slot at the same time.
THEOREM JudgeNoSlotClash ==
    ASSUME ~ConcurrentDrain
    PROVE  Spec => []NoSlotClash
<1>1. JudgeInv => NoSlotClash
  <2> SUFFICES ASSUME JudgeInv, NEW p \in Producers, NEW q \in Producers,
                      pc[p] = "store", pc[q] = "store", Slot(w[p]) = Slot(w[q])
               PROVE  p = q
    BY DEF NoSlotClash
  <2>1. w[p] \in Nat /\ w[q] \in Nat /\ write \in Nat
    BY DEF JudgeInv, OccupancyInv, TypeOK
  <2>2. w[p] < write /\ w[q] < write /\ write <= Size
    BY DEF JudgeInv, Owned, OneLap
  <2>3. w[p] = w[q]
    BY <2>1, <2>2, SizePositive, SlotOfFirstLap
  <2> QED
    BY <2>3 DEF JudgeInv, Owned
<1> QED
  BY <1>1, JudgeInvariant, PTL

\* In the judge's use Push refuses a metric only when the buffer is full: the
\* unsigned difference cannot wrap, because read stands still while bots run.
THEOREM JudgeRefusesOnlyWhenFull ==
    ASSUME ~ConcurrentDrain
    PROVE  Spec => RefusedOnlyWhenFull
<1>1. ASSUME JudgeInv, [Next]_vars, dropped' # dropped PROVE write - read >= Size
  <2>1. PICK p \in Producers : LoadRead(p) /\ LooksFull(w[p], read)
    BY <1>1 DEF Next, Producer, Consumer, Finished, vars, CallPush, LoadRead, Claim, Retry,
                Store, Exit, PopNothing, BeginPop, Copy, Publish
  <2>2. read = 0
    BY <1>1, <2>1 DEF JudgeInv, OneLap, AllExited, LoadRead
  <2>3. w[p] \in Nat /\ write \in Nat /\ w[p] <= write /\ write <= Size
    BY <1>1 DEF JudgeInv, OccupancyInv, TypeOK, Positions, OneLap
  <2>4. (w[p] - 0) % Word = w[p]
    BY <2>3, SizeAssumption, SizePositive
  <2>5. w[p] >= Size
    BY <2>1, <2>2, <2>4 DEF LooksFull, SubWord
  <2> QED
    BY <2>2, <2>3, <2>5, SizePositive
<1>2. JudgeInv /\ [Next]_vars => [dropped' # dropped => write - read >= Size]_vars
  BY <1>1
<1> QED
  BY <1>2, JudgeInvariant, PTL DEF Spec, RefusedOnlyWhenFull

-----------------------------------------------------------------------------
(***************************************************************************)
(* What becomes of each call of Push: DrainComplete and the refinement.    *)
(***************************************************************************)

\* The metrics whose Push won a position.
Won == {claimed[j] : j \in 1..Len(claimed)}

\* How many of p's calls have won a position or been refused.
Settled(p) == IF pc[p] \in {"loadRead", "cas"} THEN calls[p] - 1 ELSE calls[p]

\* A settled call's metric was either claimed or dropped, never both, and a
\* metric that is not settled is in neither.  Holds in both uses.
CallsSettled ==
    \A p \in Producers : \A k \in 1..MaxPush :
        IF k <= Settled(p)
          THEN <<p, k>> \in Won <=> <<p, k>> \notin dropped
          ELSE <<p, k>> \notin Won /\ <<p, k>> \notin dropped

SettledInv == OccupancyInv /\ CallsSettled

LEMMA WonAppend ==
    ASSUME claimed \in Seq(Metrics), NEW m \in Metrics, claimed' = Append(claimed, m)
    PROVE  Won' = Won \cup {m}
<1>1. /\ Len(claimed) \in Nat
      /\ Len(claimed') = Len(claimed) + 1
      /\ claimed'[Len(claimed) + 1] = m
      /\ \A j \in 1..Len(claimed) : claimed'[j] = claimed[j]
  OBVIOUS
<1>2. Won' \subseteq Won \cup {m}
  <2> SUFFICES ASSUME NEW j \in 1..(Len(claimed) + 1) PROVE claimed'[j] \in Won \cup {m}
    BY <1>1 DEF Won
  <2>1. CASE j = Len(claimed) + 1
    BY <1>1, <2>1
  <2>2. CASE j \in 1..Len(claimed)
    BY <1>1, <2>2 DEF Won
  <2> QED
    BY <1>1, <2>1, <2>2
<1>3. Won \cup {m} \subseteq Won'
  <2>1. m \in Won'
    BY <1>1 DEF Won
  <2>2. ASSUME NEW j \in 1..Len(claimed) PROVE claimed[j] \in Won'
    BY <1>1 DEF Won
  <2> QED
    BY <2>1, <2>2 DEF Won
<1> QED
  BY <1>2, <1>3

\* A step that settles no call and changes neither history.
LEMMA UnsettledStep ==
    ASSUME CallsSettled, UNCHANGED <<claimed, dropped>>,
           \A q \in Producers : Settled(q)' = Settled(q)
    PROVE  CallsSettled'
<1>1. Won' = Won
  BY DEF Won
<1> QED
  BY <1>1 DEF CallsSettled

\* A step that settles p's current call, as claimed or as dropped.
LEMMA SettlingStep ==
    ASSUME TypeOK, InCall, CallsSettled, NEW p \in Producers, pc[p] \in {"loadRead", "cas"},
           \/ Won' = Won \cup {Current(p)} /\ dropped' = dropped
           \/ Won' = Won /\ dropped' = dropped \cup {Current(p)},
           \A q \in Producers : Settled(q)' = IF q = p THEN calls[p] ELSE Settled(q)
    PROVE  CallsSettled'
<1> SUFFICES ASSUME NEW q \in Producers, NEW k \in 1..MaxPush
             PROVE  IF k <= Settled(q)'
                      THEN <<q, k>> \in Won' <=> <<q, k>> \notin dropped'
                      ELSE <<q, k>> \notin Won' /\ <<q, k>> \notin dropped'
  BY DEF CallsSettled
<1>1. IF k <= Settled(q)
        THEN <<q, k>> \in Won <=> <<q, k>> \notin dropped
        ELSE <<q, k>> \notin Won /\ <<q, k>> \notin dropped
  BY DEF CallsSettled
<1>2. calls[p] \in Nat /\ calls[p] >= 1 /\ MaxPush \in Nat
  BY BoundAssumption DEF TypeOK, InCall
<1>3. CASE q = p /\ k = calls[p]
  <2>1. ~(k <= Settled(q)) /\ k <= Settled(q)' /\ <<q, k>> = Current(p)
    BY <1>2, <1>3 DEF Settled, Current
  <2> QED
    BY <1>1, <2>1
<1>4. CASE ~(q = p /\ k = calls[p])
  <2>1. <<q, k>> # Current(p)
    BY <1>4 DEF Current
  <2>2. k <= Settled(q)' <=> k <= Settled(q)
    BY <1>2, <1>4 DEF Settled
  <2> QED
    BY <1>1, <2>1, <2>2
<1> QED
  BY <1>3, <1>4

LEMMA SettledInit == Init => SettledInv
<1> SUFFICES ASSUME Init PROVE CallsSettled
  BY OccupancyInit DEF SettledInv
<1>1. Won = {} /\ dropped = {}
  BY DEF Init, Won
<1>2. \A p \in Producers : Settled(p) = 0
  BY DEF Init, Settled
<1> QED
  BY <1>1, <1>2, BoundAssumption DEF CallsSettled

LEMMA SettledStep == SettledInv /\ [Next]_vars => SettledInv'
<1> SUFFICES ASSUME SettledInv, [Next]_vars PROVE CallsSettled'
  BY OccupancyStep DEF SettledInv
<1>t. TypeOK /\ InCall /\ CallsSettled
  BY DEF SettledInv, OccupancyInv
<1> USE <1>t
<1>1. ASSUME NEW p \in Producers, CallPush(p) PROVE CallsSettled'
  <2>1. \A q \in Producers : Settled(q)' = Settled(q)
    BY <1>1 DEF CallPush, TypeOK, Settled
  <2> QED
    BY <1>1, <2>1, UnsettledStep DEF CallPush
<1>2. ASSUME NEW p \in Producers, LoadRead(p) PROVE CallsSettled'
  <2>1. CASE LooksFull(w[p], read)
    <3>1. Won' = Won /\ dropped' = dropped \cup {Current(p)}
      BY <1>2, <2>1 DEF LoadRead, Won
    <3>2. \A q \in Producers : Settled(q)' = IF q = p THEN calls[p] ELSE Settled(q)
      BY <1>2, <2>1 DEF LoadRead, TypeOK, Settled
    <3> QED
      BY <1>2, <3>1, <3>2, SettlingStep DEF LoadRead
  <2>2. CASE ~LooksFull(w[p], read)
    <3>1. \A q \in Producers : Settled(q)' = Settled(q)
      BY <1>2, <2>2 DEF LoadRead, TypeOK, Settled
    <3> QED
      BY <1>2, <2>2, <3>1, UnsettledStep DEF LoadRead
  <2> QED
    BY <2>1, <2>2
<1>3. ASSUME NEW p \in Producers, Claim(p) PROVE CallsSettled'
  <2>1. Current(p) \in Metrics
    BY <1>3, CurrentIsMetric DEF Claim
  <2>2. Won' = Won \cup {Current(p)} /\ dropped' = dropped
    BY <1>3, <2>1, WonAppend DEF Claim, TypeOK
  <2>3. \A q \in Producers : Settled(q)' = IF q = p THEN calls[p] ELSE Settled(q)
    BY <1>3 DEF Claim, TypeOK, Settled
  <2> QED
    BY <1>3, <2>2, <2>3, SettlingStep DEF Claim
<1>4. ASSUME NEW p \in Producers, Retry(p) PROVE CallsSettled'
  <2>1. \A q \in Producers : Settled(q)' = Settled(q)
    BY <1>4 DEF Retry, TypeOK, Settled
  <2> QED
    BY <1>4, <2>1, UnsettledStep DEF Retry
<1>5. ASSUME NEW p \in Producers, Store(p) PROVE CallsSettled'
  <2>1. \A q \in Producers : Settled(q)' = Settled(q)
    BY <1>5 DEF Store, TypeOK, Settled
  <2> QED
    BY <1>5, <2>1, UnsettledStep DEF Store
<1>6. ASSUME NEW p \in Producers, Exit(p) PROVE CallsSettled'
  <2>1. \A q \in Producers : Settled(q)' = Settled(q)
    BY <1>6 DEF Exit, TypeOK, Settled
  <2> QED
    BY <1>6, <2>1, UnsettledStep DEF Exit
<1>7. ASSUME Consumer \/ UNCHANGED vars PROVE CallsSettled'
  <2>1. UNCHANGED <<claimed, dropped, pc, calls>>
    BY <1>7 DEF Consumer, PopNothing, BeginPop, Copy, Publish, vars, producerVars
  <2> QED
    BY <2>1, UnsettledStep DEF Settled
<1> QED
  BY <1>1, <1>2, <1>3, <1>4, <1>5, <1>6, <1>7 DEF Next, Producer, Finished

LEMMA SettledInvariant == Spec => []SettledInv
BY SettledInit, SettledStep, PTL DEF Spec

\* When the judge's drainRingBuffer stops, every metric whose Push returned
\* true has been copied out, and each call was either seen or refused.
THEOREM JudgeDrainComplete ==
    ASSUME ~ConcurrentDrain
    PROVE  Spec => []DrainComplete
<1>1. JudgeInv /\ SettledInv => DrainComplete
  <2> SUFFICES ASSUME JudgeInv, SettledInv, cpc = "done" PROVE
         /\ popped = claimed
         /\ \A p \in Producers : \A k \in 1..calls[p] :
               (\E j \in 1..Len(popped) : popped[j] = <<p, k>>) <=> <<p, k>> \notin dropped
    BY DEF DrainComplete
  <2>1. TypeOK
    BY DEF JudgeInv, OccupancyInv
  <2>2. Len(popped) = Len(claimed) /\ AllExited
    BY <2>1 DEF JudgeInv, OneLap, Drained, TypeOK
  <2>3. popped = claimed
    BY <2>1, <2>2 DEF JudgeInv, Drained, TypeOK
  <2>4. ASSUME NEW p \in Producers, NEW k \in 1..calls[p]
        PROVE  (\E j \in 1..Len(popped) : popped[j] = <<p, k>>) <=> <<p, k>> \notin dropped
    <3>1. k \in 1..MaxPush /\ k <= Settled(p)
      BY <2>1, <2>2, BoundAssumption DEF TypeOK, Settled, AllExited
    <3>2. <<p, k>> \in Won <=> <<p, k>> \notin dropped
      BY <3>1 DEF SettledInv, CallsSettled
    <3> QED
      BY <2>3, <3>2 DEF Won
  <2> QED
    BY <2>3, <2>4
<1> QED
  BY <1>1, JudgeInvariant, SettledInvariant, PTL

-----------------------------------------------------------------------------
(***************************************************************************)
(* The judge's use of the buffer implements MetricQueue.  A claim accepts, *)
(* a full test that succeeds refuses, a copy takes; all else stutters.     *)
(***************************************************************************)

\* The queue's content under the refinement mapping.
Waiting == SubSeq(claimed, Len(popped) + 1, Len(claimed))

LEMMA WaitingBeforeDrain ==
    ASSUME TypeOK, popped = <<>>
    PROVE  Waiting = claimed
<1>1. Waiting = SubSeq(claimed, 1, Len(claimed))
  BY DEF Waiting
<1> QED
  BY <1>1, SubSeqFull DEF TypeOK

\* Everything the queue has seen is a settled call of Push.
LEMMA SeenIsSettled ==
    ASSUME TypeOK, OneLap, SettledInv, popped = <<>>,
           NEW p \in Producers, pc[p] \in {"loadRead", "cas"}
    PROVE  Current(p) \in Metrics /\ Current(p) \notin Queue!Seen
<1>1. Current(p) \in Metrics
  BY CurrentIsMetric DEF SettledInv, OccupancyInv
<1>2. calls[p] \in 1..MaxPush /\ ~(calls[p] <= Settled(p))
  BY BoundAssumption DEF SettledInv, OccupancyInv, TypeOK, InCall, Settled
<1>3. Current(p) \notin Won /\ Current(p) \notin dropped
  BY <1>2 DEF SettledInv, CallsSettled, Current
<1>4. Queue!Seen = dropped \cup {Waiting[k] : k \in 1..Len(Waiting)}
                           \cup {popped[k] : k \in 1..Len(popped)}
  BY DEF Queue!Seen, Waiting
<1>5. {popped[k] : k \in 1..Len(popped)} = {}
  OBVIOUS
<1>6. {Waiting[k] : k \in 1..Len(Waiting)} = Won
  BY WaitingBeforeDrain DEF Won
<1> QED
  BY <1>1, <1>3, <1>4, <1>5, <1>6

\* One step of the buffer is one step of the queue, or none.
LEMMA QueueStep ==
    ASSUME ~ConcurrentDrain, JudgeInv, JudgeInv', SettledInv, [Next]_vars
    PROVE  [Queue!Next]_Queue!vars
<1>t. TypeOK /\ TypeOK' /\ Bounded
  BY DEF JudgeInv, OccupancyInv
<1>v. UNCHANGED <<claimed, popped, dropped>> => UNCHANGED Queue!vars
  BY DEF Queue!vars
<1> USE <1>t, SizePositive
<1>1. ASSUME NEW p \in Producers, CallPush(p) PROVE UNCHANGED Queue!vars
  BY <1>1, <1>v DEF CallPush, consumerVars
<1>2. ASSUME NEW p \in Producers, LoadRead(p) PROVE Queue!Next \/ UNCHANGED Queue!vars
  <2>1. CASE ~LooksFull(w[p], read)
    BY <1>2, <1>v, <2>1 DEF LoadRead, consumerVars
  <2>2. CASE LooksFull(w[p], read)
    <3>1. read = 0 /\ popped = <<>> /\ write <= Size /\ Len(claimed) = write
      BY <1>2 DEF LoadRead, JudgeInv, OneLap, AllExited
    <3>2. w[p] \in Nat /\ write \in Nat /\ w[p] <= write
      BY DEF JudgeInv, OccupancyInv, Positions, TypeOK
    <3>3. (w[p] - 0) % Word = w[p]
      BY <3>1, <3>2, SizeAssumption
    <3>4. Len(Waiting) >= Size
      BY <2>2, <3>1, <3>2, <3>3, WaitingBeforeDrain DEF LooksFull, SubWord
    <3>5. Current(p) \in Metrics /\ Current(p) \notin Queue!Seen
      BY <1>2, <3>1, SeenIsSettled DEF LoadRead, JudgeInv
    <3>6. dropped' = dropped \cup {Current(p)} /\ UNCHANGED <<claimed, popped>>
      BY <1>2, <2>2 DEF LoadRead, consumerVars
    <3>7. Queue!Refuse(Current(p))
      BY <3>4, <3>5, <3>6 DEF Queue!Refuse, Waiting
    <3> QED
      BY <3>5, <3>7 DEF Queue!Next
  <2> QED
    BY <2>1, <2>2
<1>3. ASSUME NEW p \in Producers, Claim(p) PROVE Queue!Next
  <2>1. read = 0 /\ popped = <<>> /\ Len(claimed) = write /\ popped' = popped
    BY <1>3 DEF Claim, JudgeInv, OneLap, AllExited, consumerVars
  <2>2. write' \in Nat /\ write' <= Size /\ write' = write + 1 /\ write \in Nat
    BY <1>3 DEF Claim, JudgeInv, OneLap, TypeOK
  <2>3. Current(p) \in Metrics /\ Current(p) \notin Queue!Seen
    BY <1>3, <2>1, SeenIsSettled DEF Claim, JudgeInv
  <2>4. Waiting = claimed /\ Len(Waiting) < Size
    BY <2>1, <2>2, WaitingBeforeDrain
  <2>5. Waiting' = claimed'
    <3>1. Waiting' = SubSeq(claimed', 1, Len(claimed'))
      BY <2>1 DEF Waiting
    <3>2. claimed' \in Seq(Metrics)
      BY DEF TypeOK
    <3> QED
      BY <3>1, <3>2, SubSeqFull
  <2>6. Waiting' = Append(Waiting, Current(p))
    BY <1>3, <2>4, <2>5 DEF Claim
  <2>7. Queue!Accept(Current(p))
    BY <1>3, <2>1, <2>3, <2>4, <2>6 DEF Queue!Accept, Waiting, Claim
  <2> QED
    BY <2>3, <2>7 DEF Queue!Next
<1>4. ASSUME NEW p \in Producers, Retry(p) \/ Store(p) \/ Exit(p) PROVE UNCHANGED Queue!vars
  BY <1>4, <1>v DEF Retry, Store, Exit, consumerVars
<1>5. ASSUME PopNothing \/ BeginPop \/ Publish PROVE UNCHANGED Queue!vars
  BY <1>5, <1>v DEF PopNothing, BeginPop, Publish
<1>6. ASSUME Copy PROVE Queue!Next
  <2>1. /\ Len(popped) = read + i /\ Len(popped) \in Nat
        /\ Len(popped) < Len(claimed)
    BY <1>6 DEF Copy, JudgeInv, OccupancyInv, Batch, OneLap, Drained, TypeOK
  <2>2. PICK v : popped' = Append(popped, v)
    BY <1>6 DEF Copy
  <2>3. /\ Len(popped') = Len(popped) + 1
        /\ popped'[Len(popped) + 1] = v
    BY <2>2 DEF TypeOK
  <2>4. claimed' = claimed /\ dropped' = dropped
    BY <1>6 DEF Copy
  <2>5. popped'[Len(popped) + 1] = claimed[Len(popped) + 1]
    BY <2>1, <2>3, <2>4 DEF JudgeInv, Drained
  <2>6. /\ Head(Waiting) = claimed[Len(popped) + 1]
        /\ Tail(Waiting) = SubSeq(claimed, (Len(popped) + 1) + 1, Len(claimed))
    <3>1. /\ claimed \in Seq(Metrics) /\ Len(claimed) \in Nat
          /\ Len(popped) + 1 \in 1..Len(claimed)
          /\ Len(claimed) \in (Len(popped) + 1)..Len(claimed)
      BY <2>1 DEF TypeOK
    <3> QED
      BY <3>1, HeadTailOfSubSeq DEF Waiting
  <2>7. Waiting # <<>>
    <3>1. \A k \in (Len(popped) + 1)..Len(claimed) : claimed[k] \in Metrics
      BY <2>1 DEF TypeOK
    <3>2. Len(Waiting) = Len(claimed) - (Len(popped) + 1) + 1
      BY <2>1, <3>1, SubSeqProperties DEF Waiting, TypeOK
    <3> QED
      BY <2>1, <3>2 DEF TypeOK
  <2>8. Queue!Take
    BY <2>2, <2>3, <2>4, <2>5, <2>6, <2>7 DEF Queue!Take, Waiting
  <2> QED
    BY <2>8 DEF Queue!Next
<1>7. ASSUME UNCHANGED vars PROVE UNCHANGED Queue!vars
  BY <1>7, <1>v DEF vars, consumerVars
<1> QED
  BY <1>1, <1>2, <1>3, <1>4, <1>5, <1>6, <1>7 DEF Next, Producer, Consumer, Finished

\* The buffer, as the judge uses it, is a bounded first-in first-out queue:
\* each metric is accepted or refused once, refused only when Size metrics
\* wait, and taken in the order in which the CAS of Push accepted it.
THEOREM JudgeImplementsQueue ==
    ASSUME ~ConcurrentDrain
    PROVE  Spec => ImplementsQueue
<1>1. Init => Queue!Init
  BY SubSeqEmpty DEF Init, Queue!Init
<1>2. JudgeInv /\ JudgeInv' /\ SettledInv /\ [Next]_vars => [Queue!Next]_Queue!vars
  BY QueueStep
<1> QED
  BY <1>1, <1>2, JudgeInvariant, SettledInvariant, PTL DEF Spec, ImplementsQueue, Queue!Spec
=============================================================================
