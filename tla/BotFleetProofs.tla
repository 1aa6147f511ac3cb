--------------------------- MODULE BotFleetProofs ---------------------------
(***************************************************************************)
(* Proofs about BotFleet, for any bots, orders, responses and buffer: each *)
(* order is measured once, by its first response, nothing records after    *)
(* the join, the buffer is used as a queue by one side at a time, and the  *)
(* result counts every metric once.  The first part proves that the        *)
(* statistics of RunStats are right for any samples.                       *)
(***************************************************************************)
EXTENDS BotFleet, SequenceLemmas, FiniteSetTheorems

-----------------------------------------------------------------------------
(***************************************************************************)
(* The statistics of a run, for whatever samples: the course of each loop, *)
(* what the sort does, the ranks of the percentiles                        *)
(***************************************************************************)

\* A latency is at least one microsecond.
Latency == Nat \ {0}

\* drainRingBuffer's loop over the samples, from its first turn to its last; each
\* value of the accumulator is a list of latencies.
LEMMA MeasuredLoop ==
    ASSUME NEW s \in Seq(Samples(Int))
    PROVE  \E f : /\ Measured(s) = f[Len(s)] /\ f[0] = <<>>
                  /\ \A n \in 1..Len(s) : f[n] = AddLatency(f[n - 1], s[n])
                  /\ \A n \in 0..Len(s) : f[n] \in Seq(Latency)
<1> DEFINE S == Seq(Latency)
           g == [x \in S |-> [y \in Samples(Int) |-> AddLatency(x, y)]]
<1>1. Len(s) \in Nat /\ \A n \in 1..Len(s) : s[n] \in Samples(Int)
  OBVIOUS
<1>2. \A x \in S, y \in Samples(Int) : AddLatency(x, y) \in S
  BY DEF AddLatency, Clamp, Samples, Latency
<1>3. /\ g \in [S -> [Samples(Int) -> S]]
      /\ \A x \in S, y \in Samples(Int) : g[x][y] = AddLatency(x, y)
  BY <1>2
<1>4. <<>> \in S
  OBVIOUS
<1> HIDE DEF S, g
<1>5. PICK h : IsLoop(h, S, s, <<>>, g)
  BY <1>3, <1>4, LoopFunction
<1>6. h = [n \in 0..Len(s) |-> IF n = 0 THEN <<>> ELSE AddLatency(h[n - 1], s[n])]
  <2>1. h \in [0..Len(s) -> S] /\ h[0] = <<>> /\ \A n \in 1..Len(s) : h[n] = g[h[n - 1]][s[n]]
    BY <1>5 DEF IsLoop
  <2>2. \A n \in 1..Len(s) : h[n - 1] \in S
    <3>1. \A n \in 1..Len(s) : n - 1 \in 0..Len(s)
      BY <1>1
    <3> QED
      BY <2>1, <3>1
  <2>3. \A n \in 1..Len(s) : h[n] = AddLatency(h[n - 1], s[n])
    BY <1>1, <1>3, <2>1, <2>2
  <2>4. \A n \in 0..Len(s) : h[n] = IF n = 0 THEN <<>> ELSE AddLatency(h[n - 1], s[n])
    BY <1>1, <2>1, <2>3
  <2> QED
    BY <2>1, <2>4
<1> DEFINE f == CHOOSE acc :
                  acc = [n \in 0..Len(s) |-> IF n = 0 THEN <<>> ELSE AddLatency(acc[n - 1], s[n])]
<1>7. Measured(s) = f[Len(s)]
  BY DEF Measured, Loop
<1>8. f = [n \in 0..Len(s) |-> IF n = 0 THEN <<>> ELSE AddLatency(f[n - 1], s[n])]
  BY <1>6
<1> HIDE DEF f
<1>9. f[0] = <<>> /\ \A n \in 1..Len(s) : f[n] = AddLatency(f[n - 1], s[n])
  <2>1. \A n \in 0..Len(s) : f[n] = IF n = 0 THEN <<>> ELSE AddLatency(f[n - 1], s[n])
    BY <1>8
  <2> QED
    BY <1>1, <2>1
<1>10. \A n \in 0..Len(s) : f[n] \in S
  BY <1>1, <1>2, <1>4, <1>9, LoopTyped
<1> QED
  BY <1>7, <1>9, <1>10 DEF S


\* At most all elements are at most v.
LEMMA AtMostType ==
    ASSUME NEW s \in Seq(Int), NEW v \in Int
    PROVE  AtMost(s, v) \in 0..Len(s)
<1>1. /\ DOMAIN s = 1..Len(s) /\ Len(s) \in Nat
  OBVIOUS
<1>2. IsFiniteSet(1..Len(s)) /\ Cardinality(1..Len(s)) = Len(s)
  BY <1>1, FS_Interval
<1> DEFINE D == {j \in DOMAIN s : s[j] <= v}
<1>3. D \in SUBSET (1..Len(s))
  BY <1>1
<1> HIDE DEF D
<1>4. IsFiniteSet(D) /\ Cardinality(D) <= Len(s)
  BY <1>2, <1>3, FS_Subset
<1>5. Cardinality(D) \in Nat
  BY <1>4, FS_CardinalityType
<1> QED
  BY <1>1, <1>4, <1>5 DEF AtMost, D

\* What Insert does to each position.
LEMMA InsertIs ==
    ASSUME NEW s \in Seq(Int), NEW x \in Int
    PROVE  /\ Insert(s, x) \in Seq(Int) /\ Len(Insert(s, x)) = Len(s) + 1
           /\ \A j \in 1..AtMost(s, x) : Insert(s, x)[j] = s[j]
           /\ Insert(s, x)[AtMost(s, x) + 1] = x
           /\ \A j \in (AtMost(s, x) + 2)..(Len(s) + 1) : Insert(s, x)[j] = s[j - 1]
<1> DEFINE k == AtMost(s, x)
           a == SubSeq(s, 1, k)
           c == SubSeq(s, k + 1, Len(s))
<1>1. k \in 0..Len(s) /\ Len(s) \in Nat /\ k \in Nat
  BY AtMostType
<1> HIDE DEF k
<1>2. /\ a \in Seq(Int) /\ Len(a) = k /\ \A j \in 1..k : a[j] = s[j]
  BY <1>1
<1>3. /\ c \in Seq(Int) /\ Len(c) = Len(s) - k /\ \A j \in 1..(Len(s) - k) : c[j] = s[k + j]
  <2>1. CASE k = Len(s)
    BY <1>1, <2>1
  <2>2. CASE k < Len(s)
    BY <1>1, <2>2
  <2> QED
    BY <1>1, <2>1, <2>2
<1>4. Insert(s, x) = a \o <<x>> \o c
  <2>1. (k + 1) - 1 = k
    BY <1>1
  <2>2. Insert(s, x) = InsertAt(s, k + 1, x)
    BY DEF Insert, k
  <2>3. Insert(s, x) = SubSeq(s, 1, (k + 1) - 1) \o <<x>> \o SubSeq(s, k + 1, Len(s))
    BY <2>2 DEF InsertAt
  <2> QED
    BY <2>1, <2>3
<1> HIDE DEF a, c
<1> DEFINE b == a \o <<x>>
<1>5. /\ b \in Seq(Int) /\ Len(b) = k + 1 /\ b[k + 1] = x /\ \A j \in 1..k : b[j] = s[j]
  BY <1>1, <1>2
<1> HIDE DEF b
<1>6. Insert(s, x) = b \o c
  BY <1>4 DEF b
<1>7. /\ b \o c \in Seq(Int) /\ Len(b \o c) = Len(s) + 1
      /\ \A j \in 1..(k + 1) : (b \o c)[j] = b[j]
      /\ \A j \in (k + 2)..(Len(s) + 1) : (b \o c)[j] = c[j - (k + 1)]
  <2> DEFINE m == k + 1
             l == Len(s) - k
  <2>1. m \in Nat /\ l \in Nat /\ b \in Seq(Int) /\ c \in Seq(Int) /\ Len(b) = m /\ Len(c) = l
    BY <1>1, <1>3, <1>5
  <2>2. m + l = Len(s) + 1 /\ k + 2 = m + 1
    BY <1>1
  <2> HIDE DEF m, l
  <2>3. /\ b \o c \in Seq(Int) /\ Len(b \o c) = m + l
        /\ \A j \in 1..m : (b \o c)[j] = b[j]
        /\ \A j \in (m + 1)..(m + l) : (b \o c)[j] = c[j - m]
    <3>1. /\ b \o c \in Seq(Int) /\ Len(b \o c) = m + l
          /\ \A j \in 1..(m + l) : (b \o c)[j] = IF j <= m THEN b[j] ELSE c[j - m]
      BY <2>1, ConcatProperties
    <3>2. ASSUME NEW j \in 1..m PROVE (b \o c)[j] = b[j]
      <4>1. j \in 1..(m + l) /\ j <= m
        BY <2>1
      <4> QED
        BY <3>1, <4>1
    <3>3. ASSUME NEW j \in (m + 1)..(m + l) PROVE (b \o c)[j] = c[j - m]
      <4>1. j \in 1..(m + l) /\ ~ (j <= m)
        BY <2>1
      <4> QED
        BY <3>1, <4>1
    <3> QED
      BY <3>1, <3>2, <3>3
  <2> QED
    BY <2>2, <2>3 DEF m
<1>8. \A j \in 1..k : (b \o c)[j] = s[j]
  BY <1>1, <1>5, <1>7
<1>9. (b \o c)[k + 1] = x
  BY <1>1, <1>5, <1>7
<1>10. ASSUME NEW j \in (k + 2)..(Len(s) + 1) PROVE (b \o c)[j] = s[j - 1]
  <2>1. j - (k + 1) \in 1..(Len(s) - k) /\ k + (j - (k + 1)) = j - 1
    BY <1>1
  <2> QED
    BY <1>3, <1>7, <2>1
<1> QED
  BY <1>6, <1>7, <1>8, <1>9, <1>10 DEF k

\* The course of the sort.
LEMMA SortedLoop ==
    ASSUME NEW s \in Seq(Int)
    PROVE  \E f : /\ Sorted(s) = f[Len(s)] /\ f[0] = <<>>
                  /\ \A n \in 1..Len(s) : f[n] = Insert(f[n - 1], s[n])
                  /\ \A n \in 0..Len(s) : f[n] \in Seq(Int)
<1> DEFINE S == Seq(Int)
           g == [x \in S |-> [y \in Int |-> Insert(x, y)]]
<1>1. Len(s) \in Nat /\ \A n \in 1..Len(s) : s[n] \in Int
  OBVIOUS
<1>2. \A x \in S, y \in Int : Insert(x, y) \in S
  BY InsertIs
<1>3. g \in [S -> [Int -> S]] /\ \A x \in S, y \in Int : g[x][y] = Insert(x, y)
  BY <1>2
<1>4. <<>> \in S
  OBVIOUS
<1> HIDE DEF S, g
<1>5. PICK h : IsLoop(h, S, s, <<>>, g)
  BY <1>3, <1>4, LoopFunction
<1>6. h = [n \in 0..Len(s) |-> IF n = 0 THEN <<>> ELSE Insert(h[n - 1], s[n])]
  <2>1. h \in [0..Len(s) -> S] /\ h[0] = <<>> /\ \A n \in 1..Len(s) : h[n] = g[h[n - 1]][s[n]]
    BY <1>5 DEF IsLoop
  <2>2. \A n \in 1..Len(s) : h[n - 1] \in S
    <3>1. \A n \in 1..Len(s) : n - 1 \in 0..Len(s)
      BY <1>1
    <3> QED
      BY <2>1, <3>1
  <2>3. \A n \in 1..Len(s) : h[n] = Insert(h[n - 1], s[n])
    BY <1>1, <1>3, <2>1, <2>2
  <2>4. \A n \in 0..Len(s) : h[n] = IF n = 0 THEN <<>> ELSE Insert(h[n - 1], s[n])
    BY <1>1, <2>1, <2>3
  <2> QED
    BY <2>1, <2>4
<1> DEFINE f == CHOOSE acc :
                  acc = [n \in 0..Len(s) |-> IF n = 0 THEN <<>> ELSE Insert(acc[n - 1], s[n])]
<1>7. Sorted(s) = f[Len(s)]
  BY DEF Sorted, Loop
<1>8. f = [n \in 0..Len(s) |-> IF n = 0 THEN <<>> ELSE Insert(f[n - 1], s[n])]
  BY <1>6
<1> HIDE DEF f
<1>9. f[0] = <<>> /\ \A n \in 1..Len(s) : f[n] = Insert(f[n - 1], s[n])
  <2>1. \A n \in 0..Len(s) : f[n] = IF n = 0 THEN <<>> ELSE Insert(f[n - 1], s[n])
    BY <1>8
  <2> QED
    BY <1>1, <2>1
<1>10. \A n \in 0..Len(s) : f[n] \in S
  BY <1>1, <1>2, <1>4, <1>9, LoopTyped
<1> QED
  BY <1>7, <1>9, <1>10 DEF S

\* The elements of s do not decrease.
Ordered(s) == \A i, j \in 1..Len(s) : i <= j => s[i] <= s[j]

\* AtMost is the length of the prefix of elements that are at most v.
LEMMA AtMostIs ==
    ASSUME NEW s \in Seq(Int), NEW v \in Int, NEW m \in 0..Len(s),
           \A j \in 1..Len(s) : s[j] <= v <=> j <= m
    PROVE  AtMost(s, v) = m
<1>1. DOMAIN s = 1..Len(s) /\ Len(s) \in Nat
  OBVIOUS
<1>2. {j \in DOMAIN s : s[j] <= v} = 1..m
  BY <1>1
<1>3. Cardinality(1..m) = m
  <2>1. m \in Int /\ 1 \in Int /\ m \in Nat
    BY <1>1
  <2> QED
    BY <2>1, FS_Interval
<1> QED
  BY <1>2, <1>3 DEF AtMost

\* In an ordered sequence the elements that are at most v are a prefix.
LEMMA Segment ==
    ASSUME NEW s \in Seq(Int), Ordered(s), NEW v \in Int
    PROVE  \A j \in 1..Len(s) : s[j] <= v <=> j <= AtMost(s, v)
<1> DEFINE T == {n \in 0..Len(s) : \E m \in 0..n : \A j \in 1..n : s[j] <= v <=> j <= m}
<1>1. Len(s) \in Nat /\ \A j \in 1..Len(s) : s[j] \in Int
  OBVIOUS
<1>2. 0 \in T
  BY <1>1
<1>3. ASSUME NEW n \in 0..(Len(s) - 1), n \in T PROVE n + 1 \in T
  <2>1. PICK m \in 0..n : \A j \in 1..n : s[j] <= v <=> j <= m
    BY <1>3
  <2>2. /\ n + 1 \in 1..Len(s) /\ n \in Nat /\ n + 1 \in 0..Len(s)
        /\ \A j \in 1..(n + 1) : j = n + 1 \/ j \in 1..n
    BY <1>1
  <2>3. CASE s[n + 1] <= v
    <3>1. \A j \in 1..n : s[j] <= s[n + 1] /\ s[j] \in Int /\ s[n + 1] \in Int
      BY <1>1, <2>2 DEF Ordered
    <3>2. \A j \in 1..(n + 1) : s[j] <= v <=> j <= n + 1
      BY <2>2, <2>3, <3>1
    <3>3. n + 1 \in 0..(n + 1)
      BY <2>2
    <3> QED
      BY <2>2, <3>2, <3>3
  <2>4. CASE ~ (s[n + 1] <= v)
    <3>1. \A j \in 1..(n + 1) : s[j] <= v <=> j <= m
      BY <2>1, <2>2, <2>4
    <3>2. m \in 0..(n + 1)
      BY <2>2
    <3> QED
      BY <2>2, <3>1, <3>2
  <2> QED
    BY <2>3, <2>4
<1>4. Len(s) \in T
  <2> HIDE DEF T
  <2>1. 0..Len(s) \subseteq T
    BY <1>1, <1>2, <1>3, UpToInduction
  <2> QED
    BY <1>1, <2>1
<1>5. PICK m \in 0..Len(s) : \A j \in 1..Len(s) : s[j] <= v <=> j <= m
  BY <1>4
<1>6. AtMost(s, v) = m
  BY <1>5, AtMostIs
<1> QED
  BY <1>5, <1>6

\* Insert keeps a sequence ordered and counts its element.
LEMMA InsertOrdered ==
    ASSUME NEW s \in Seq(Int), Ordered(s), NEW x \in Int
    PROVE  /\ Ordered(Insert(s, x))
           /\ \A v \in Int : AtMost(Insert(s, x), v) = AtMost(s, v) + (IF x <= v THEN 1 ELSE 0)
<1> DEFINE t == Insert(s, x)
           k == AtMost(s, x)
<1>1. /\ t \in Seq(Int) /\ Len(t) = Len(s) + 1 /\ t[k + 1] = x
      /\ \A j \in 1..k : t[j] = s[j]
      /\ \A j \in (k + 2)..(Len(s) + 1) : t[j] = s[j - 1]
  BY InsertIs
<1>2. k \in 0..Len(s) /\ Len(s) \in Nat /\ k \in Nat
  BY AtMostType
<1>3. \A j \in 1..Len(s) : s[j] \in Int /\ (s[j] <= x <=> j <= k)
  BY Segment
<1> HIDE DEF t, k
<1>4. \A j \in 1..Len(t) : \/ j \in 1..k /\ j \in 1..Len(s)
                           \/ j = k + 1
                           \/ j \in (k + 2)..(Len(s) + 1) /\ j - 1 \in 1..Len(s) /\ ~ (j - 1 <= k)
  BY <1>1, <1>2
<1>5. \A j \in 1..Len(t) : /\ t[j] \in Int
                           /\ j <= k => j \in 1..Len(s) /\ t[j] = s[j] /\ t[j] <= x
                           /\ j = k + 1 => t[j] = x
                           /\ j > k + 1 => j - 1 \in 1..Len(s) /\ t[j] = s[j - 1] /\ t[j] > x
  <2> SUFFICES ASSUME NEW j \in 1..Len(t)
               PROVE  /\ t[j] \in Int
                      /\ j <= k => j \in 1..Len(s) /\ t[j] = s[j] /\ t[j] <= x
                      /\ j = k + 1 => t[j] = x
                      /\ j > k + 1 => j - 1 \in 1..Len(s) /\ t[j] = s[j - 1] /\ t[j] > x
    OBVIOUS
  <2>1. CASE j \in 1..k /\ j \in 1..Len(s)
    BY <1>1, <1>2, <1>3, <2>1
  <2>2. CASE j = k + 1
    BY <1>1, <1>2, <2>2
  <2>3. CASE j \in (k + 2)..(Len(s) + 1) /\ j - 1 \in 1..Len(s) /\ ~ (j - 1 <= k)
    <3>1. t[j] = s[j - 1]
      BY <1>1, <2>3
    <3>2. s[j - 1] \in Int /\ ~ (s[j - 1] <= x)
      BY <1>3, <2>3
    <3>3. j > k + 1 /\ ~ (j <= k) /\ j # k + 1
      BY <1>2, <2>3
    <3> QED
      BY <2>3, <3>1, <3>2, <3>3
  <2> QED
    BY <1>4, <2>1, <2>2, <2>3
<1>6. ASSUME NEW i \in 1..Len(t), NEW j \in 1..Len(t), i <= j PROVE t[i] <= t[j]
  <2>1. /\ i \in Nat /\ j \in Nat
        /\ (i <= k \/ i = k + 1 \/ i > k + 1) /\ (j <= k \/ j = k + 1 \/ j > k + 1)
    BY <1>1, <1>2
  <2>2. CASE j <= k
    BY <1>2, <1>5, <1>6, <2>1, <2>2 DEF Ordered
  <2>3. CASE i > k + 1
    <3>1. /\ t[i] = s[i - 1] /\ t[j] = s[j - 1] /\ i - 1 \in 1..Len(s) /\ j - 1 \in 1..Len(s)
          /\ i - 1 <= j - 1
      BY <1>2, <1>5, <1>6, <2>1, <2>3
    <3> QED
      BY <3>1 DEF Ordered
  <2>4. CASE i <= k + 1 /\ j >= k + 1
    <3>1. t[i] <= x /\ x <= t[j] /\ t[i] \in Int /\ t[j] \in Int
      BY <1>2, <1>5, <2>1, <2>4
    <3> QED
      BY <3>1
  <2> QED
    BY <1>2, <1>6, <2>1, <2>2, <2>3, <2>4
<1>7. ASSUME NEW v \in Int
      PROVE  AtMost(t, v) = AtMost(s, v) + (IF x <= v THEN 1 ELSE 0)
  <2> DEFINE m == AtMost(s, v)
             d == m + (IF x <= v THEN 1 ELSE 0)
  <2>1. m \in 0..Len(s) /\ m \in Nat
    BY AtMostType
  <2>2. \A j \in 1..Len(s) : s[j] \in Int /\ (s[j] <= v <=> j <= m)
    BY Segment
  <2> HIDE DEF m
  <2>3. d \in 0..Len(t)
    BY <1>1, <1>2, <2>1
  <2>4. CASE x <= v
    <3>1. k <= m
      <4>1. CASE k = 0
        BY <2>1, <4>1
      <4>2. CASE k # 0
        <5>1. k \in 1..Len(s) /\ k <= k
          BY <1>2, <4>2
        <5>2. s[k] <= x /\ s[k] \in Int
          BY <1>3, <5>1
        <5>3. s[k] <= v
          BY <2>4, <5>2
        <5> QED
          BY <2>2, <5>1, <5>3
      <4> QED
        BY <4>1, <4>2
    <3>2. ASSUME NEW j \in 1..Len(t) PROVE t[j] <= v <=> j <= m + 1
      <4>1. j \in Nat /\ (j <= k \/ j = k + 1 \/ j > k + 1)
        BY <1>1, <1>2
      <4>2. CASE j <= k
        BY <1>2, <1>5, <2>1, <2>2, <3>1, <4>1, <4>2
      <4>3. CASE j = k + 1
        BY <1>2, <1>5, <2>1, <2>4, <3>1, <4>3
      <4>4. CASE j > k + 1
        <5>1. t[j] = s[j - 1] /\ j - 1 \in 1..Len(s)
          BY <1>5, <4>4
        <5>2. t[j] <= v <=> j - 1 <= m
          BY <2>2, <5>1
        <5> QED
          BY <2>1, <4>1, <5>2
      <4> QED
        BY <4>1, <4>2, <4>3, <4>4
    <3>3. d = m + 1
      BY <2>4
    <3> QED
      BY <1>1, <2>3, <3>2, <3>3, AtMostIs DEF m
  <2>5. CASE ~ (x <= v)
    <3>1. m <= k
      <4>1. CASE m = 0
        BY <1>2, <4>1
      <4>2. CASE m # 0
        <5>1. m \in 1..Len(s) /\ m <= m
          BY <2>1, <4>2
        <5>2. s[m] <= v /\ s[m] \in Int
          BY <2>2, <5>1
        <5>3. s[m] <= x
          BY <2>5, <5>2
        <5> QED
          BY <1>3, <5>1, <5>3
      <4> QED
        BY <4>1, <4>2
    <3>2. ASSUME NEW j \in 1..Len(t) PROVE t[j] <= v <=> j <= m
      <4>1. j \in Nat /\ (j <= k \/ j = k + 1 \/ j > k + 1)
        BY <1>1, <1>2
      <4>2. CASE j <= k
        BY <1>2, <1>5, <2>1, <2>2, <3>1, <4>1, <4>2
      <4>3. CASE j = k + 1
        BY <1>2, <1>5, <2>1, <2>5, <3>1, <4>3
      <4>4. CASE j > k + 1
        <5>1. t[j] > x /\ t[j] \in Int /\ j > m
          BY <1>2, <1>5, <2>1, <3>1, <4>1, <4>4
        <5> QED
          BY <2>1, <2>5, <4>1, <5>1
      <4> QED
        BY <4>1, <4>2, <4>3, <4>4
    <3>3. d = m
      BY <2>1, <2>5
    <3> QED
      BY <1>1, <2>3, <3>2, <3>3, AtMostIs DEF m
  <2> QED
    BY <2>4, <2>5
<1> QED
  BY <1>6, <1>7 DEF Ordered, t

\* How many of the first n + 1 positions are in P.
LEMMA CountNext ==
    ASSUME NEW n \in Nat, NEW P
    PROVE  Cardinality((1..(n + 1)) \cap P) =
             Cardinality((1..n) \cap P) + (IF n + 1 \in P THEN 1 ELSE 0)
<1> DEFINE D == (1..n) \cap P
           E == (1..(n + 1)) \cap P
<1>1. IsFiniteSet(D) /\ n + 1 \notin D
  <2>1. IsFiniteSet(1..n) /\ D \in SUBSET (1..n)
    BY FS_Interval
  <2> QED
    BY <2>1, FS_Subset
<1>2. E = IF n + 1 \in P THEN D \cup {n + 1} ELSE D
  OBVIOUS
<1> HIDE DEF D, E
<1>3. Cardinality(D \cup {n + 1}) = Cardinality(D) + 1 /\ Cardinality(D) \in Nat
  BY <1>1, FS_AddElement, FS_CardinalityType
<1>4. Cardinality(E) = Cardinality(D) + (IF n + 1 \in P THEN 1 ELSE 0)
  BY <1>2, <1>3
<1> QED
  BY <1>4 DEF D, E

\* The sort orders its elements, and keeps each as often as it is there.
LEMMA SortedIs ==
    ASSUME NEW s \in Seq(Int)
    PROVE  /\ Sorted(s) \in Seq(Int) /\ Len(Sorted(s)) = Len(s) /\ Ordered(Sorted(s))
           /\ \A v \in Int : AtMost(Sorted(s), v) = AtMost(s, v)
<1>1. PICK f : /\ Sorted(s) = f[Len(s)] /\ f[0] = <<>>
               /\ \A n \in 1..Len(s) : f[n] = Insert(f[n - 1], s[n])
               /\ \A n \in 0..Len(s) : f[n] \in Seq(Int)
  BY SortedLoop
<1> DEFINE C(n, v) == Cardinality({j \in 1..n : s[j] <= v})
           Good(n) == /\ Len(f[n]) = n /\ Ordered(f[n])
                      /\ \A v \in Int : AtMost(f[n], v) = C(n, v)
           T == {n \in 0..Len(s) : Good(n)}
<1>2. Len(s) \in Nat /\ DOMAIN s = 1..Len(s) /\ \A n \in 1..Len(s) : s[n] \in Int
  OBVIOUS
<1>3. 0 \in T
  <2>1. Len(<<>>) = 0 /\ Ordered(<<>>)
    BY DEF Ordered
  <2>2. ASSUME NEW v \in Int PROVE AtMost(<<>>, v) = C(0, v)
    <3>1. {j \in DOMAIN <<>> : <<>>[j] <= v} = {} /\ {j \in 1..0 : s[j] <= v} = {}
      OBVIOUS
    <3> QED
      BY <3>1 DEF AtMost
  <2> QED
    BY <1>1, <1>2, <2>1, <2>2
<1>4. ASSUME NEW n \in 0..(Len(s) - 1), n \in T PROVE n + 1 \in T
  <2>1. /\ n + 1 \in 1..Len(s) /\ n + 1 \in 0..Len(s) /\ (n + 1) - 1 = n /\ n \in 0..Len(s)
    BY <1>2
  <2>2. Len(f[n]) = n /\ Ordered(f[n]) /\ \A v \in Int : AtMost(f[n], v) = C(n, v)
    BY <1>4
  <2>3. f[n + 1] = Insert(f[n], s[n + 1]) /\ f[n] \in Seq(Int) /\ s[n + 1] \in Int
    BY <1>1, <1>2, <2>1
  <2>4. Len(f[n + 1]) = n + 1
    <3>1. Len(Insert(f[n], s[n + 1])) = Len(f[n]) + 1
      BY <2>3, InsertIs
    <3> QED
      BY <2>2, <2>3, <3>1
  <2>5. /\ Ordered(f[n + 1])
        /\ \A v \in Int :
             AtMost(f[n + 1], v) = AtMost(f[n], v) + (IF s[n + 1] <= v THEN 1 ELSE 0)
    BY <2>2, <2>3, InsertOrdered
  <2>6. \A v \in Int : C(n + 1, v) = C(n, v) + (IF s[n + 1] <= v THEN 1 ELSE 0)
    <3> SUFFICES ASSUME NEW v \in Int
                 PROVE  C(n + 1, v) = C(n, v) + (IF s[n + 1] <= v THEN 1 ELSE 0)
      OBVIOUS
    <3> DEFINE P == {j \in 1..Len(s) : s[j] <= v}
    <3>1. /\ {j \in 1..(n + 1) : s[j] <= v} = (1..(n + 1)) \cap P
          /\ {j \in 1..n : s[j] <= v} = (1..n) \cap P
          /\ n + 1 \in P <=> s[n + 1] <= v
          /\ n \in Nat
      BY <1>2, <2>1
    <3> HIDE DEF P
    <3>2. Cardinality((1..(n + 1)) \cap P) =
            Cardinality((1..n) \cap P) + (IF n + 1 \in P THEN 1 ELSE 0)
      BY <3>1, CountNext
    <3> QED
      BY <3>1, <3>2
  <2> HIDE DEF C
  <2>7. \A v \in Int : AtMost(f[n + 1], v) = C(n + 1, v)
    BY <2>2, <2>5, <2>6
  <2> QED
    BY <2>1, <2>4, <2>5, <2>7
<1>5. Len(s) \in T
  <2> HIDE DEF T
  <2>1. 0..Len(s) \subseteq T
    BY <1>2, <1>3, <1>4, UpToInduction
  <2> QED
    BY <1>2, <2>1
<1>6. \A v \in Int : C(Len(s), v) = AtMost(s, v)
  BY <1>2 DEF AtMost
<1> HIDE DEF C
<1> QED
  BY <1>1, <1>2, <1>5, <1>6

\* v is the k-th smallest of data, counted from 0.
IsRank(v, data, k) ==
    /\ v \in Range(data)
    /\ Cardinality({j \in DOMAIN data : data[j] < v}) \in 0..k
    /\ Cardinality({j \in DOMAIN data : data[j] <= v}) \in Nat
    /\ Cardinality({j \in DOMAIN data : data[j] <= v}) > k

\* The element at position i of the sorted data, from 0, is the i-th smallest.
LEMMA RankAt ==
    ASSUME NEW s \in Seq(Int), NEW i \in 0..(Len(s) - 1)
    PROVE  IsRank(Sorted(s)[i + 1], s, i)
<1> DEFINE t == Sorted(s)
           v == t[i + 1]
<1>1. /\ t \in Seq(Int) /\ Len(t) = Len(s) /\ Ordered(t)
      /\ \A u \in Int : AtMost(t, u) = AtMost(s, u)
  BY SortedIs
<1> HIDE DEF t
<1>2. /\ Len(s) \in Nat /\ i + 1 \in 1..Len(t) /\ i \in Nat /\ DOMAIN s = 1..Len(s)
      /\ \A j \in 1..Len(s) : s[j] \in Int
  BY <1>1
<1>3. v \in Int /\ v - 1 \in Int /\ v <= v /\ ~ (v <= v - 1)
  BY <1>1, <1>2
<1>4. i + 1 <= AtMost(t, v) /\ ~ (i + 1 <= AtMost(t, v - 1))
  <2>1. \A u \in Int : t[i + 1] <= u <=> i + 1 <= AtMost(t, u)
    BY <1>1, <1>2, Segment
  <2> QED
    BY <1>3, <2>1
<1> HIDE DEF v
<1>5. AtMost(s, v) \in Nat /\ AtMost(s, v - 1) \in Nat
  <2>1. ASSUME NEW u \in Int PROVE AtMost(s, u) \in Nat
    <3>1. AtMost(s, u) \in 0..Len(s)
      BY AtMostType
    <3> QED
      BY <1>2, <3>1
  <2> QED
    BY <1>3, <2>1
<1>6. AtMost(s, v) > i /\ AtMost(s, v - 1) <= i
  BY <1>1, <1>2, <1>3, <1>4, <1>5
<1>7. {j \in DOMAIN s : s[j] < v} = {j \in DOMAIN s : s[j] <= v - 1}
  BY <1>2, <1>3
<1>8. /\ Cardinality({j \in DOMAIN s : s[j] <= v}) > i
      /\ Cardinality({j \in DOMAIN s : s[j] <= v}) \in Nat
      /\ Cardinality({j \in DOMAIN s : s[j] < v}) \in 0..i
  <2>1. /\ AtMost(s, v) = Cardinality({j \in DOMAIN s : s[j] <= v})
        /\ AtMost(s, v - 1) = Cardinality({j \in DOMAIN s : s[j] < v})
    BY <1>7 DEF AtMost
  <2> QED
    BY <1>2, <1>5, <1>6, <2>1
<1>9. v \in Range(s)
  <2>1. SUFFICES ASSUME \A j \in DOMAIN s : s[j] # v PROVE FALSE
    BY DEF Range
  <2>2. {j \in DOMAIN s : s[j] <= v} = {j \in DOMAIN s : s[j] < v}
    BY <1>2, <1>3, <2>1
  <2>3. AtMost(s, v) = AtMost(s, v - 1)
    BY <1>7, <2>2 DEF AtMost
  <2> QED
    BY <1>2, <1>5, <1>6, <2>3
<1> QED
  BY <1>8, <1>9 DEF IsRank, v, t

\* The positions of the percentiles are in the data, and in order.
LEMMA IndexBounds ==
    ASSUME NEW n \in Nat \ {0}
    PROVE  /\ Index(n, 50) \in 0..(n - 1) /\ Index(n, 90) \in 0..(n - 1)
           /\ Index(n, 99) \in 0..(n - 1)
           /\ Index(n, 50) <= Index(n, 90) /\ Index(n, 90) <= Index(n, 99)
BY DEF Index

\* How many values are below and up to the one at the index of a percentile.
LEMMA IndexIsShare ==
    ASSUME NEW n \in Nat \ {0}, NEW p \in {50, 90, 99},
           NEW a \in 0..Index(n, p), NEW b \in Nat, b > Index(n, p)
    PROVE  100 * a <= p * (n - 1) /\ 100 * b > p * (n - 1)
<1>1. /\ Index(n, p) \in Int /\ a \in Int /\ a <= Index(n, p)
      /\ 100 * Index(n, p) <= p * (n - 1) /\ p * (n - 1) < 100 * (Index(n, p) + 1)
  BY DEF Index
<1> QED
  BY <1>1

\* A list of latencies is one of integers.
LEMMA LatenciesAreInts ==
    ASSUME NEW s \in Seq(Latency)
    PROVE  /\ s \in Seq(Int) /\ Len(s) \in Nat /\ DOMAIN s = 1..Len(s)
           /\ \A j \in 1..Len(s) : s[j] \in Latency
           /\ s # <<>> => Len(s) \in Nat \ {0}
<1>1. Latency \subseteq Int
  BY DEF Latency
<1>2. s \in Seq(Int)
  BY <1>1, SeqSubset
<1>3. s \in [1..Len(s) -> Latency] /\ Len(s) \in Nat /\ (s # <<>> => Len(s) # 0)
  BY EmptySeq
<1> QED
  BY <1>2, <1>3

\* A percentile of data has its share of the other latencies below it.
LEMMA PercentileIs ==
    ASSUME NEW s \in Seq(Latency), s # <<>>, NEW p \in {50, 90, 99}
    PROVE  /\ Percentile(s, p) = Sorted(s)[Index(Len(s), p) + 1]
           /\ IsPercentile(Percentile(s, p), s, p)
           /\ Percentile(s, p) \in Latency
<1>1. s \in Seq(Int) /\ Len(s) \in Nat \ {0} /\ \A j \in DOMAIN s : s[j] \in Latency
  BY LatenciesAreInts
<1>2. Index(Len(s), p) \in 0..(Len(s) - 1)
  BY <1>1, IndexBounds
<1>3. Percentile(s, p) = Sorted(s)[Index(Len(s), p) + 1]
  BY DEF Percentile
<1>4. IsRank(Percentile(s, p), s, Index(Len(s), p))
  BY <1>1, <1>2, <1>3, RankAt
<1>5. Percentile(s, p) \in Range(s)
  BY <1>4 DEF IsRank
<1>6. IsPercentile(Percentile(s, p), s, p)
  BY <1>1, <1>4, IndexIsShare DEF IsRank, IsPercentile
<1> QED
  BY <1>1, <1>3, <1>5, <1>6 DEF Range

\* A higher percentile is not smaller.
LEMMA PercentilesOrdered ==
    ASSUME NEW s \in Seq(Int), s # <<>>
    PROVE  /\ Sorted(s)[Index(Len(s), 50) + 1] <= Sorted(s)[Index(Len(s), 90) + 1]
           /\ Sorted(s)[Index(Len(s), 90) + 1] <= Sorted(s)[Index(Len(s), 99) + 1]
<1>1. Len(s) \in Nat \ {0}
  OBVIOUS
<1>2. Len(Sorted(s)) = Len(s) /\ Ordered(Sorted(s))
  BY SortedIs
<1> DEFINE i == Index(Len(s), 50) + 1
           j == Index(Len(s), 90) + 1
           k == Index(Len(s), 99) + 1
<1>3. i \in 1..Len(s) /\ j \in 1..Len(s) /\ k \in 1..Len(s) /\ i <= j /\ j <= k
  <2>1. /\ Index(Len(s), 50) \in 0..(Len(s) - 1) /\ Index(Len(s), 90) \in 0..(Len(s) - 1)
        /\ Index(Len(s), 99) \in 0..(Len(s) - 1)
        /\ Index(Len(s), 50) <= Index(Len(s), 90) /\ Index(Len(s), 90) <= Index(Len(s), 99)
    BY <1>1, IndexBounds
  <2>2. \A a \in 0..(Len(s) - 1) : a + 1 \in 1..Len(s) /\ a \in Int
    BY <1>1
  <2>3. i \in 1..Len(s) /\ j \in 1..Len(s) /\ k \in 1..Len(s)
    BY <2>1, <2>2
  <2>4. \A a, b \in Int : a <= b => a + 1 <= b + 1
    OBVIOUS
  <2> QED
    BY <2>1, <2>2, <2>3, <2>4
<1> HIDE DEF i, j, k
<1>4. Sorted(s)[i] <= Sorted(s)[j] /\ Sorted(s)[j] <= Sorted(s)[k]
  BY <1>2, <1>3 DEF Ordered
<1> QED
  BY <1>4 DEF i, j, k

\* The latencies of samples are latencies.
LEMMA MeasuredType ==
    ASSUME NEW s \in Seq(Samples(Int))
    PROVE  Measured(s) \in Seq(Latency)
<1>1. PICK f : /\ Measured(s) = f[Len(s)] /\ f[0] = <<>>
               /\ \A n \in 1..Len(s) : f[n] = AddLatency(f[n - 1], s[n])
               /\ \A n \in 0..Len(s) : f[n] \in Seq(Latency)
  BY MeasuredLoop
<1>2. Len(s) \in 0..Len(s)
  OBVIOUS
<1> QED
  BY <1>1, <1>2

\* percentiles returns latencies with 50, 90 and 99 per cent of the others below
\* them, in order, for whatever samples a run has (judge.go:382).
THEOREM PercentilesAtRanks ==
    \A s \in Seq(Samples(Int)) : PercentilesAt(LocalStats(s), Measured(s))
<1> SUFFICES ASSUME NEW s \in Seq(Samples(Int)) PROVE PercentilesAt(LocalStats(s), Measured(s))
  OBVIOUS
<1> DEFINE data == Measured(s)
           r == LocalStats(s)
<1>1. data \in Seq(Latency)
  BY MeasuredType
<1>2. /\ r.p50 = Percentile(data, 50) /\ r.p90 = Percentile(data, 90)
      /\ r.p99 = Percentile(data, 99)
  BY DEF LocalStats
<1> HIDE DEF data, r
<1>3. CASE data = <<>>
  BY <1>2, <1>3 DEF PercentilesAt, Percentile, data, r
<1>4. CASE data # <<>>
  <2>1. data \in Seq(Int)
    BY <1>1, LatenciesAreInts
  <2>2. r.p50 <= r.p90 /\ r.p90 <= r.p99
    <3>1. /\ Percentile(data, 50) = Sorted(data)[Index(Len(data), 50) + 1]
          /\ Percentile(data, 90) = Sorted(data)[Index(Len(data), 90) + 1]
          /\ Percentile(data, 99) = Sorted(data)[Index(Len(data), 99) + 1]
      BY <1>1, <1>4, PercentileIs
    <3> QED
      BY <1>2, <1>4, <2>1, <3>1, PercentilesOrdered
  <2>3. /\ IsPercentile(r.p50, data, 50) /\ IsPercentile(r.p90, data, 90)
        /\ IsPercentile(r.p99, data, 99)
    BY <1>1, <1>2, <1>4, PercentileIs
  <2> QED
    BY <1>4, <2>2, <2>3 DEF PercentilesAt, data, r
<1> QED
  BY <1>3, <1>4

-----------------------------------------------------------------------------
(***************************************************************************)
(* The window                                                              *)
(***************************************************************************)

Windows == [cnt : Nat, ok : Nat, sumUs : Nat, minUs : Nat, maxUs : Nat]

\* What Aggregator.Add does to a window.
LEMMA WindowTurn ==
    ASSUME NEW w \in Windows, NEW s \in Samples(Int)
    PROVE  /\ AddSample(w, s) \in Windows
           /\ AddSample(w, s).cnt = w.cnt + 1
           /\ AddSample(w, s).ok = w.ok + (IF s.verdict = "correct" THEN 1 ELSE 0)
           /\ AddSample(w, s).sumUs = w.sumUs + RecordLatency(s.us)
           /\ AddSample(w, s).minUs <= RecordLatency(s.us) /\ AddSample(w, s).minUs >= 1
           /\ w.minUs >= 1 => AddSample(w, s).minUs <= w.minUs
           /\ AddSample(w, s).maxUs >= RecordLatency(s.us) /\ AddSample(w, s).maxUs >= w.maxUs
           /\ RecordLatency(s.us) \in Latency
<1> DEFINE us == RecordLatency(s.us)
           u == AddSample(w, s)
<1>1. us \in Latency
  BY DEF RecordLatency, Clamp, Samples, Latency
<1>2. /\ u = [cnt |-> w.cnt + 1, ok |-> w.ok + (IF s.verdict = "correct" THEN 1 ELSE 0),
              sumUs |-> w.sumUs + us,
              minUs |-> IF w.minUs = 0 \/ us < w.minUs THEN us ELSE w.minUs,
              maxUs |-> IF us > w.maxUs THEN us ELSE w.maxUs]
  BY DEF AddSample
<1> HIDE DEF us, u
<1>3. /\ u.cnt = w.cnt + 1 /\ u.ok = w.ok + (IF s.verdict = "correct" THEN 1 ELSE 0)
      /\ u.sumUs = w.sumUs + us
      /\ u.minUs = IF w.minUs = 0 \/ us < w.minUs THEN us ELSE w.minUs
      /\ u.maxUs = IF us > w.maxUs THEN us ELSE w.maxUs
  BY <1>2
<1>4. w.cnt \in Nat /\ w.ok \in Nat /\ w.sumUs \in Nat /\ w.minUs \in Nat /\ w.maxUs \in Nat
  BY DEF Windows
<1>5. us \in Nat /\ us >= 1
  BY <1>1 DEF Latency
<1>6. u.minUs <= us /\ u.minUs >= 1 /\ u.minUs \in Nat /\ (w.minUs >= 1 => u.minUs <= w.minUs)
  BY <1>3, <1>4, <1>5
<1>7. u.maxUs >= us /\ u.maxUs >= w.maxUs /\ u.maxUs \in Nat
  BY <1>3, <1>4, <1>5
<1>8. u \in Windows
  <2>1. u.cnt \in Nat /\ u.ok \in Nat /\ u.sumUs \in Nat
    BY <1>3, <1>4, <1>5
  <2>2. u = [cnt |-> u.cnt, ok |-> u.ok, sumUs |-> u.sumUs, minUs |-> u.minUs, maxUs |-> u.maxUs]
    BY <1>2
  <2> QED
    BY <1>6, <1>7, <2>1, <2>2 DEF Windows
<1> QED
  BY <1>1, <1>3, <1>6, <1>7, <1>8 DEF us, u

\* The course of a window over the samples.
LEMMA WindowLoop ==
    ASSUME NEW s \in Seq(Samples(Int))
    PROVE  \E f : /\ Window(s) = f[Len(s)] /\ f[0] = NewWindow
                  /\ \A n \in 1..Len(s) : f[n] = AddSample(f[n - 1], s[n])
                  /\ \A n \in 0..Len(s) : f[n] \in Windows
<1> DEFINE S == Windows
           g == [x \in S |-> [y \in Samples(Int) |-> AddSample(x, y)]]
<1>1. Len(s) \in Nat /\ \A n \in 1..Len(s) : s[n] \in Samples(Int)
  OBVIOUS
<1>2. \A x \in S, y \in Samples(Int) : AddSample(x, y) \in S
  BY WindowTurn DEF Windows
<1>3. /\ g \in [S -> [Samples(Int) -> S]]
      /\ \A x \in S, y \in Samples(Int) : g[x][y] = AddSample(x, y)
  BY <1>2
<1>4. NewWindow \in S
  BY DEF NewWindow, Windows
<1> HIDE DEF S, g
<1>5. PICK h : IsLoop(h, S, s, NewWindow, g)
  BY <1>3, <1>4, LoopFunction
<1>6. h = [n \in 0..Len(s) |-> IF n = 0 THEN NewWindow ELSE AddSample(h[n - 1], s[n])]
  <2>1. /\ h \in [0..Len(s) -> S] /\ h[0] = NewWindow
        /\ \A n \in 1..Len(s) : h[n] = g[h[n - 1]][s[n]]
    BY <1>5 DEF IsLoop
  <2>2. \A n \in 1..Len(s) : h[n - 1] \in S
    <3>1. \A n \in 1..Len(s) : n - 1 \in 0..Len(s)
      BY <1>1
    <3> QED
      BY <2>1, <3>1
  <2>3. \A n \in 1..Len(s) : h[n] = AddSample(h[n - 1], s[n])
    BY <1>1, <1>3, <2>1, <2>2
  <2>4. \A n \in 0..Len(s) : h[n] = IF n = 0 THEN NewWindow ELSE AddSample(h[n - 1], s[n])
    BY <1>1, <2>1, <2>3
  <2> QED
    BY <2>1, <2>4
<1> DEFINE f == CHOOSE acc :
                  acc = [n \in 0..Len(s) |->
                           IF n = 0 THEN NewWindow ELSE AddSample(acc[n - 1], s[n])]
<1>7. Window(s) = f[Len(s)]
  BY DEF Window, Loop
<1>8. f = [n \in 0..Len(s) |-> IF n = 0 THEN NewWindow ELSE AddSample(f[n - 1], s[n])]
  BY <1>6
<1> HIDE DEF f
<1>9. f[0] = NewWindow /\ \A n \in 1..Len(s) : f[n] = AddSample(f[n - 1], s[n])
  <2>1. \A n \in 0..Len(s) : f[n] = IF n = 0 THEN NewWindow ELSE AddSample(f[n - 1], s[n])
    BY <1>8
  <2> QED
    BY <1>1, <2>1
<1>10. \A n \in 0..Len(s) : f[n] \in S
  BY <1>1, <1>2, <1>4, <1>9, LoopTyped
<1> QED
  BY <1>7, <1>9, <1>10 DEF S


\* Multiplication by one more.
LEMMA TimesNext ==
    ASSUME NEW c \in Nat, NEW a \in Nat
    PROVE  (c + 1) * a = c * a + a /\ c * a \in Nat
OBVIOUS

\* Multiplication keeps the order.
LEMMA TimesMonotonic ==
    ASSUME NEW c \in Nat, NEW a \in Nat, NEW b \in Nat, a <= b
    PROVE  c * a <= c * b
OBVIOUS

\* A window counts all samples, and all the latencies of a run are between its
\* minimum and its maximum.
LEMMA WindowAround ==
    ASSUME NEW s \in Seq(Samples(Int))
    PROVE  LET w == Window(s)
               data == Measured(s)
           IN  /\ w \in Windows /\ w.cnt = Len(s) /\ w.ok = CountCorrect(s)
               /\ Len(s) > 0 => w.minUs >= 1
               /\ Len(s) * w.minUs <= w.sumUs /\ w.sumUs <= Len(s) * w.maxUs
               /\ \A j \in 1..Len(data) : w.minUs <= data[j] /\ data[j] <= w.maxUs
<1>1. PICK f : /\ Measured(s) = f[Len(s)] /\ f[0] = <<>>
               /\ \A n \in 1..Len(s) : f[n] = AddLatency(f[n - 1], s[n])
               /\ \A n \in 0..Len(s) : f[n] \in Seq(Latency)
  BY MeasuredLoop
<1>2. PICK h : /\ Window(s) = h[Len(s)] /\ h[0] = NewWindow
               /\ \A n \in 1..Len(s) : h[n] = AddSample(h[n - 1], s[n])
               /\ \A n \in 0..Len(s) : h[n] \in Windows
  BY WindowLoop
<1> DEFINE C(n) == Cardinality({j \in 1..n : s[j].verdict = "correct"})
           Within(n) == \A j \in 1..Len(f[n]) : h[n].minUs <= f[n][j] /\ f[n][j] <= h[n].maxUs
           Good(n) == /\ h[n].cnt = n /\ h[n].ok = C(n)
                      /\ n > 0 => h[n].minUs >= 1
                      /\ n * h[n].minUs <= h[n].sumUs /\ h[n].sumUs <= n * h[n].maxUs
                      /\ Within(n)
           T == {n \in 0..Len(s) : Good(n)}
<1>3. Len(s) \in Nat /\ DOMAIN s = 1..Len(s) /\ \A n \in 1..Len(s) : s[n] \in Samples(Int)
  OBVIOUS
<1>4. 0 \in T
  <2>1. h[0].cnt = 0 /\ h[0].ok = 0 /\ h[0].sumUs = 0 /\ h[0].minUs = 0 /\ h[0].maxUs = 0
    BY <1>2 DEF NewWindow
  <2>2. C(0) = 0
    <3>1. {j \in 1..0 : s[j].verdict = "correct"} = {}
      OBVIOUS
    <3> QED
      BY <3>1, FS_EmptySet
  <2>3. Within(0)
    BY <1>1
  <2> HIDE DEF C, Within
  <2> QED
    BY <1>3, <2>1, <2>2, <2>3
<1>5. ASSUME NEW n \in 0..(Len(s) - 1), n \in T PROVE n + 1 \in T
  <2>1. /\ n + 1 \in 1..Len(s) /\ n + 1 \in 0..Len(s) /\ (n + 1) - 1 = n /\ n \in 0..Len(s)
        /\ n \in Nat
    BY <1>3
  <2> DEFINE w == h[n]
             u == h[n + 1]
             us == RecordLatency(s[n + 1].us)
  <2>2. Good(n)
    BY <1>5
  <2>3. /\ w \in Windows /\ s[n + 1] \in Samples(Int) /\ u = AddSample(w, s[n + 1])
        /\ f[n] \in Seq(Latency) /\ f[n + 1] = AddLatency(f[n], s[n + 1])
    BY <1>1, <1>2, <1>3, <2>1
  <2> HIDE DEF w, u
  <2>4. /\ u \in Windows /\ u.cnt = w.cnt + 1
        /\ u.ok = w.ok + (IF s[n + 1].verdict = "correct" THEN 1 ELSE 0)
        /\ u.sumUs = w.sumUs + us /\ us \in Latency
        /\ u.minUs <= us /\ u.minUs >= 1 /\ (w.minUs >= 1 => u.minUs <= w.minUs)
        /\ u.maxUs >= us /\ u.maxUs >= w.maxUs
    BY <2>3, WindowTurn
  <2>5. /\ w.cnt \in Nat /\ w.ok \in Nat /\ w.sumUs \in Nat
        /\ w.minUs \in Nat /\ w.maxUs \in Nat
        /\ u.sumUs \in Nat /\ u.minUs \in Nat /\ u.maxUs \in Nat /\ us \in Nat /\ us >= 1
    BY <2>3, <2>4 DEF Windows, Latency
  <2>6. /\ w.cnt = n /\ w.ok = C(n) /\ (n > 0 => w.minUs >= 1)
        /\ n * w.minUs <= w.sumUs /\ w.sumUs <= n * w.maxUs
        /\ \A j \in 1..Len(f[n]) : w.minUs <= f[n][j] /\ f[n][j] <= w.maxUs
    BY <2>2 DEF w
  <2>7. u.cnt = n + 1 /\ u.ok = C(n + 1)
    <3> DEFINE P == {j \in 1..Len(s) : s[j].verdict = "correct"}
    <3>1. /\ {j \in 1..(n + 1) : s[j].verdict = "correct"} = (1..(n + 1)) \cap P
          /\ {j \in 1..n : s[j].verdict = "correct"} = (1..n) \cap P
          /\ n + 1 \in P <=> s[n + 1].verdict = "correct"
      BY <1>3, <2>1
    <3> HIDE DEF P
    <3>2. C(n + 1) = C(n) + (IF s[n + 1].verdict = "correct" THEN 1 ELSE 0)
      <4>1. Cardinality((1..(n + 1)) \cap P) =
              Cardinality((1..n) \cap P) + (IF n + 1 \in P THEN 1 ELSE 0)
        BY <2>1, CountNext
      <4> QED
        BY <3>1, <4>1
    <3> HIDE DEF C
    <3> QED
      BY <2>4, <2>6, <3>2
  <2> HIDE DEF C, us
  <2>8. (n + 1) * u.minUs <= u.sumUs
    <3>1. (n + 1) * u.minUs = n * u.minUs + u.minUs /\ n * u.minUs \in Nat
      BY <2>1, <2>5, TimesNext
    <3>2. n * u.minUs <= w.sumUs
      <4>1. CASE n = 0
        BY <2>5, <4>1
      <4>2. CASE n > 0
        <5>1. n * u.minUs <= n * w.minUs /\ n * w.minUs \in Nat
          BY <2>1, <2>4, <2>5, <2>6, <4>2, TimesNext, TimesMonotonic
        <5> QED
          BY <2>5, <2>6, <3>1, <5>1
      <4> QED
        BY <2>1, <4>1, <4>2
    <3> QED
      BY <2>4, <2>5, <3>1, <3>2
  <2>9. u.sumUs <= (n + 1) * u.maxUs
    <3>1. (n + 1) * u.maxUs = n * u.maxUs + u.maxUs /\ n * u.maxUs \in Nat
      BY <2>1, <2>5, TimesNext
    <3>2. n * w.maxUs <= n * u.maxUs /\ n * w.maxUs \in Nat
      BY <2>1, <2>4, <2>5, TimesNext, TimesMonotonic
    <3>3. w.sumUs <= n * u.maxUs
      <4>1. \A a, b, c \in Nat : a <= b /\ b <= c => a <= c
        OBVIOUS
      <4>2. w.sumUs \in Nat /\ w.sumUs <= n * w.maxUs
        BY <2>5, <2>6
      <4> QED
        BY <3>1, <3>2, <4>1, <4>2
    <3> QED
      BY <2>4, <2>5, <3>1, <3>3
  <2>10. \A j \in 1..Len(f[n + 1]) : u.minUs <= f[n + 1][j] /\ f[n + 1][j] <= u.maxUs
    <3>1. \A j \in 1..Len(f[n]) : /\ f[n][j] \in Nat
                                  /\ u.minUs <= f[n][j] /\ f[n][j] <= u.maxUs
      <4>1. \A j \in 1..Len(f[n]) : f[n][j] \in Nat
        BY <2>3, LatenciesAreInts DEF Latency
      <4>2. CASE n = 0
        <5>1. Len(f[n]) = 0
          BY <1>1, <4>2
        <5> QED
          BY <5>1
      <4>3. CASE n > 0
        <5>1. /\ u.minUs <= w.minUs /\ w.maxUs <= u.maxUs
              /\ \A j \in 1..Len(f[n]) : w.minUs <= f[n][j] /\ f[n][j] <= w.maxUs
          BY <2>4, <2>6, <4>3
        <5>2. \A a, b, c \in Nat : a <= b /\ b <= c => a <= c
          OBVIOUS
        <5>3. ASSUME NEW j \in 1..Len(f[n]) PROVE u.minUs <= f[n][j] /\ f[n][j] <= u.maxUs
          <6>1. f[n][j] \in Nat /\ w.minUs <= f[n][j] /\ f[n][j] <= w.maxUs
            BY <4>1, <5>1
          <6> QED
            BY <2>5, <5>1, <5>2, <6>1
        <5> QED
          BY <4>1, <5>3
      <4> QED
        BY <2>1, <4>2, <4>3
    <3>2. CASE s[n + 1].us >= 0
      <4>1. f[n + 1] = Append(f[n], us)
        BY <2>3, <3>2 DEF AddLatency, RecordLatency, us
      <4>2. /\ Len(f[n + 1]) = Len(f[n]) + 1 /\ f[n + 1][Len(f[n]) + 1] = us
            /\ Len(f[n]) \in Nat
            /\ \A j \in 1..Len(f[n]) : f[n + 1][j] = f[n][j]
        BY <2>3, <2>4, <4>1, AppendProperties
      <4>3. ASSUME NEW j \in 1..Len(f[n + 1])
            PROVE  u.minUs <= f[n + 1][j] /\ f[n + 1][j] <= u.maxUs
        <5>1. CASE j = Len(f[n]) + 1
          BY <2>4, <2>5, <4>2, <5>1
        <5>2. CASE j \in 1..Len(f[n])
          BY <3>1, <4>2, <5>2
        <5> QED
          BY <4>2, <5>1, <5>2
      <4> QED
        BY <4>3
    <3>3. CASE ~ (s[n + 1].us >= 0)
      BY <2>3, <3>1, <3>3 DEF AddLatency
    <3> QED
      BY <3>2, <3>3
  <2>11. Good(n + 1)
    BY <2>4, <2>7, <2>8, <2>9, <2>10 DEF u
  <2> HIDE DEF Good
  <2> QED
    BY <2>1, <2>11
<1>6. Len(s) \in T
  <2> HIDE DEF T
  <2>1. 0..Len(s) \subseteq T
    BY <1>3, <1>4, <1>5, UpToInduction
  <2> QED
    BY <1>3, <2>1
<1>7. C(Len(s)) = CountCorrect(s)
  BY <1>3 DEF CountCorrect
<1> HIDE DEF C
<1> QED
  BY <1>1, <1>2, <1>3, <1>6, <1>7

\* For whatever samples, the percentiles of a run are right, and the window of the
\* leaderboard over the same samples (aggregator.go:140) agrees with the run.
THEOREM RunsAndWindowsAgree == \A s \in Seq(Samples(Int)) : Agree(s)
<1> SUFFICES ASSUME NEW s \in Seq(Samples(Int)) PROVE Agree(s)
  OBVIOUS
<1> DEFINE data == Measured(s)
           run == LocalStats(s)
           w == Window(s)
<1>1. PercentilesAt(run, data)
  BY PercentilesAtRanks
<1>2. /\ w \in Windows /\ w.cnt = Len(s) /\ w.ok = CountCorrect(s)
      /\ Len(s) > 0 => w.minUs >= 1
      /\ Len(s) * w.minUs <= w.sumUs /\ w.sumUs <= Len(s) * w.maxUs
      /\ \A j \in 1..Len(data) : w.minUs <= data[j] /\ data[j] <= w.maxUs
  BY WindowAround
<1>3. run.count = Len(s) /\ run.correct = CountCorrect(s)
  BY DEF LocalStats
<1>4. data \in Seq(Latency)
  BY MeasuredType
<1>5. ASSUME data # <<>> PROVE w.minUs <= run.p50 /\ run.p99 <= w.maxUs
  <2>1. run.p50 \in Range(data) /\ run.p99 \in Range(data)
    BY <1>1, <1>5 DEF PercentilesAt, IsPercentile
  <2>2. DOMAIN data = 1..Len(data)
    BY <1>4, LatenciesAreInts
  <2> HIDE DEF data, run, w
  <2> QED
    BY <1>2, <2>1, <2>2 DEF Range
<1>6. w.minUs \in Nat
  BY <1>2 DEF Windows
<1> HIDE DEF data, run, w
<1>7. /\ w.cnt = run.count /\ w.ok = run.correct
      /\ run.count > 0 => 1 <= w.minUs
      /\ w.cnt * w.minUs <= w.sumUs /\ w.sumUs <= w.cnt * w.maxUs
  BY <1>2, <1>3, <1>6
<1> QED
  BY <1>1, <1>5, <1>7 DEF Agree, data, run, w

-----------------------------------------------------------------------------
(***************************************************************************)
(* Types                                                                   *)
(***************************************************************************)

MetricRec == [order : Nat, verdict : Verdicts]

TypeInv ==
    /\ fleet \in {"start", "running", "joined", "failed", "done"}
    /\ ctx \in {"live", "done"}
    /\ pc \in [Bots -> {"open", "select", "send", "closing", "unary", "calling", "returned"}]
    /\ rpc \in [Bots -> {"none", "recv", "lookup", "record", "done"}]
    /\ stream \in [Bots -> {"none", "open", "broken"}]
    /\ seq \in [Bots -> Nat]
    /\ pending \in [Bots -> SUBSET Nat]
    /\ wire \in [Bots -> SUBSET Nat]
    /\ replies \in [Bots -> Seq(Responses)]
    /\ heard \in [Bots -> Seq(Responses)]
    /\ measured \in [Bots -> Seq(MetricRec)]

-----------------------------------------------------------------------------
(***************************************************************************)
(* What each step does to its bot; it leaves the others alone              *)
(***************************************************************************)

\* Everything the bot and its receiver work on.
Own(d) == <<pc[d], rpc[d], seq[d], pending[d], stream[d], wire[d], replies[d], heard[d],
            measured[d]>>

OthersSame(b) == \A d \in Bots : d # b => Own(d)' = Own(d)

LEMMA RecvIs ==
    ASSUME TypeInv, NEW b \in Bots, Recv(b)
    PROVE  /\ rpc[b] = "recv" /\ replies[b] # <<>>
           /\ rpc'[b] = "lookup"
           /\ heard'[b] = Append(heard[b], Head(replies[b]))
           /\ replies'[b] = Tail(replies[b])
           /\ pc'[b] = pc[b] /\ seq'[b] = seq[b] /\ pending'[b] = pending[b]
           /\ stream'[b] = stream[b] /\ wire'[b] = wire[b] /\ measured'[b] = measured[b]
           /\ OthersSame(b) /\ TypeInv'
           /\ UNCHANGED <<fleet, measured, items, out, refused, samples, result>>
<1>1. /\ Head(replies[b]) \in Responses /\ Tail(replies[b]) \in Seq(Responses)
      /\ Append(heard[b], Head(replies[b])) \in Seq(Responses)
  <2>1. replies[b] \in Seq(Responses) /\ replies[b] # <<>> /\ heard[b] \in Seq(Responses)
    BY DEF TypeInv, Recv
  <2>2. Head(replies[b]) \in Responses /\ Tail(replies[b]) \in Seq(Responses)
    BY <2>1, ToSetHeadTail
  <2> QED
    BY <2>1, <2>2, AppendProperties
<1>2. TypeInv'
  BY <1>1 DEF TypeInv, Recv, GotoRecv, botVars, bufVars, judgeVars
<1> QED
  BY <1>2 DEF TypeInv, Recv, GotoRecv, OthersSame, Own, botVars, bufVars, judgeVars

LEMMA RecvFailsIs ==
    ASSUME TypeInv, NEW b \in Bots, RecvFails(b)
    PROVE  /\ rpc[b] = "recv" /\ rpc'[b] = "done"
           /\ pc'[b] = pc[b] /\ seq'[b] = seq[b] /\ pending'[b] = pending[b]
           /\ stream'[b] = stream[b] /\ wire'[b] = wire[b] /\ measured'[b] = measured[b]
           /\ replies'[b] = replies[b] /\ heard'[b] = heard[b]
           /\ OthersSame(b) /\ TypeInv'
           /\ UNCHANGED <<fleet, measured, items, out, refused, samples, result>>
<1>1. TypeInv'
  BY DEF TypeInv, RecvFails, GotoRecv, botVars, netVars, bufVars, judgeVars
<1> QED
  BY <1>1 DEF TypeInv, RecvFails, GotoRecv, OthersSame, Own, botVars, netVars, bufVars, judgeVars

LEMMA LookupIs ==
    ASSUME TypeInv, NEW b \in Bots, Lookup(b)
    PROVE  /\ rpc[b] = "lookup"
           /\ rpc'[b] = IF Response(b).order \in pending[b] THEN "record" ELSE "recv"
           /\ pending'[b] = pending[b] \ {Response(b).order}
           /\ pc'[b] = pc[b] /\ seq'[b] = seq[b]
           /\ stream'[b] = stream[b] /\ wire'[b] = wire[b] /\ measured'[b] = measured[b]
           /\ replies'[b] = replies[b] /\ heard'[b] = heard[b]
           /\ OthersSame(b) /\ TypeInv'
           /\ UNCHANGED <<fleet, measured, items, out, refused, samples, result>>
<1>1. TypeInv'
  BY DEF TypeInv, Lookup, GotoRecv, AfterLookup, Unpend, botVars, netVars, bufVars, judgeVars
<1> QED
  BY <1>1 DEF TypeInv, Lookup, GotoRecv, AfterLookup, Unpend, OthersSame, Own, botVars, netVars,
              bufVars, judgeVars

\* A metric is made, and accepted or refused by the buffer.
LEMMA RecordMetricIs ==
    ASSUME TypeInv, NEW b \in Bots, NEW order \in Nat, NEW status, RecordMetric(b, order, status)
    PROVE  /\ measured'[b] =
                Append(measured[b], [order |-> order, verdict |-> Verdict(b, order, status)])
           /\ \A d \in Bots : d # b => measured'[d] = measured[d]
           /\ measured' \in [Bots -> Seq(MetricRec)]
<1>1. [order |-> order, verdict |-> Verdict(b, order, status)] \in MetricRec
  BY DEF MetricRec, Verdict, Verdicts
<1>2. Append(measured[b], [order |-> order, verdict |-> Verdict(b, order, status)]) \in Seq(MetricRec)
  BY <1>1, AppendProperties DEF TypeInv
<1>3. measured' = [measured EXCEPT ![b] =
         Append(measured[b], [order |-> order, verdict |-> Verdict(b, order, status)])]
  BY DEF RecordMetric
<1> DEFINE m == Append(measured[b], [order |-> order, verdict |-> Verdict(b, order, status)])
<1> HIDE DEF m
<1>4. m \in Seq(MetricRec) /\ measured' = [measured EXCEPT ![b] = m]
  BY <1>2, <1>3 DEF m
<1>5. measured'[b] = m
  BY <1>4 DEF TypeInv
<1> QED
  BY <1>4, <1>5 DEF TypeInv, m

LEMMA LastIs ==
    ASSUME NEW S, NEW s \in Seq(S), s # <<>>
    PROVE  Last(s) = s[Len(s)] /\ Len(s) \in 1..Len(s) /\ Last(s) \in S
BY EmptySeq DEF Last

LEMMA RecordIs ==
    ASSUME TypeInv, NEW b \in Bots, Record(b), heard[b] # <<>>
    PROVE  /\ rpc[b] = "record" /\ rpc'[b] = "recv"
           /\ Response(b).order \in Nat
           /\ measured'[b] = Append(measured[b], [order |-> Response(b).order,
                verdict |-> Verdict(b, Response(b).order, Response(b).status)])
           /\ pc'[b] = pc[b] /\ seq'[b] = seq[b] /\ pending'[b] = pending[b]
           /\ stream'[b] = stream[b] /\ wire'[b] = wire[b]
           /\ replies'[b] = replies[b] /\ heard'[b] = heard[b]
           /\ OthersSame(b) /\ TypeInv'
           /\ UNCHANGED <<fleet, samples, result>>
<1>1. Response(b).order \in Nat
  <2>1. Response(b) \in Responses
    BY LastIs DEF TypeInv, Response
  <2> QED
    BY <2>1 DEF Responses
<1>2. RecordMetric(b, Response(b).order, Response(b).status)
  BY DEF Record
<1>3. /\ measured'[b] = Append(measured[b], [order |-> Response(b).order,
           verdict |-> Verdict(b, Response(b).order, Response(b).status)])
      /\ \A d \in Bots : d # b => measured'[d] = measured[d]
      /\ measured' \in [Bots -> Seq(MetricRec)]
  BY <1>1, <1>2, RecordMetricIs
<1>4. /\ rpc[b] = "record" /\ rpc' = [rpc EXCEPT ![b] = "recv"]
      /\ UNCHANGED <<ctx, pc, seq, pending, stream, wire, replies, heard, fleet, samples, result>>
  BY DEF Record, GotoRecv, botVars, netVars, judgeVars
<1>5. TypeInv'
  BY <1>3, <1>4 DEF TypeInv
<1>6. OthersSame(b)
  BY <1>3, <1>4 DEF TypeInv, OthersSame, Own
<1>7. rpc'[b] = "recv"
  BY <1>4 DEF TypeInv
<1> QED
  BY <1>1, <1>3, <1>4, <1>5, <1>6, <1>7

\* The context ends a loop, or the receiver is joined.
LEMMA BotEndsIs ==
    ASSUME TypeInv, NEW b \in Bots, CtxDone(b) \/ RecvDone(b)
    PROVE  /\ \/ pc[b] = "select" /\ pc'[b] = "closing"
              \/ pc[b] = "unary" /\ pc'[b] = "returned"
              \/ pc[b] = "closing" /\ rpc[b] = "done" /\ pc'[b] = "returned"
           /\ rpc'[b] = rpc[b] /\ seq'[b] = seq[b] /\ pending'[b] = pending[b]
           /\ stream'[b] = stream[b] /\ wire'[b] = wire[b] /\ measured'[b] = measured[b]
           /\ replies'[b] = replies[b] /\ heard'[b] = heard[b]
           /\ OthersSame(b) /\ TypeInv'
           /\ UNCHANGED <<fleet, measured, items, out, refused, samples, result>>
<1>1. TypeInv'
  BY DEF TypeInv, CtxDone, RecvDone, Goto, CloseLabel, netVars, bufVars, judgeVars
<1> QED
  BY <1>1 DEF TypeInv, CtxDone, RecvDone, Goto, CloseLabel, OthersSame, Own, netVars, bufVars,
              judgeVars

LEMMA OpenIs ==
    ASSUME TypeInv, NEW b \in Bots, Open(b)
    PROVE  /\ fleet = "running" /\ pc[b] = "open"
           /\ \/ pc'[b] = "select" /\ rpc'[b] = "recv" /\ stream'[b] = "open"
              \/ pc'[b] = "unary" /\ rpc'[b] = rpc[b] /\ stream'[b] = stream[b]
           /\ seq'[b] = seq[b] /\ pending'[b] = pending[b]
           /\ wire'[b] = wire[b] /\ measured'[b] = measured[b]
           /\ replies'[b] = replies[b] /\ heard'[b] = heard[b]
           /\ OthersSame(b) /\ TypeInv'
           /\ UNCHANGED <<fleet, measured, items, out, refused, samples, result>>
<1>1. TypeInv'
  BY DEF TypeInv, Open, Goto, GotoRecv, bufVars, judgeVars
<1> QED
  BY <1>1 DEF TypeInv, Open, Goto, GotoRecv, OthersSame, Own, bufVars, judgeVars

LEMMA TickIs ==
    ASSUME TypeInv, NEW b \in Bots, Tick(b)
    PROVE  /\ pc[b] = "select" /\ pc'[b] = "send"
           /\ seq[b] < Orders[b] /\ seq'[b] = seq[b] + 1
           /\ pending'[b] = pending[b] \cup {seq[b] + 1}
           /\ rpc'[b] = rpc[b]
           /\ stream'[b] = stream[b] /\ wire'[b] = wire[b] /\ measured'[b] = measured[b]
           /\ replies'[b] = replies[b] /\ heard'[b] = heard[b]
           /\ OthersSame(b) /\ TypeInv'
           /\ UNCHANGED <<fleet, measured, items, out, refused, samples, result>>
<1>1. /\ seq' = [seq EXCEPT ![b] = seq[b] + 1] /\ seq'[b] = seq[b] + 1 /\ seq[b] + 1 \in Nat
      /\ seq[b] < Orders[b]
  BY DEF TypeInv, Tick, BuildOrder
<1>2. pending' = [pending EXCEPT ![b] = pending[b] \cup {seq[b] + 1}]
  BY <1>1 DEF Tick
<1>3. /\ pc[b] = "select" /\ pc' = [pc EXCEPT ![b] = "send"]
      /\ UNCHANGED <<ctx, rpc, stream, wire, replies, heard, measured, items, out, refused,
                     fleet, samples, result>>
  BY DEF Tick, Goto, netVars, bufVars, judgeVars
<1>4. TypeInv'
  BY <1>1, <1>2, <1>3 DEF TypeInv
<1>5. OthersSame(b)
  BY <1>1, <1>2, <1>3 DEF TypeInv, OthersSame, Own
<1>6. pc'[b] = "send" /\ pending'[b] = pending[b] \cup {seq[b] + 1}
  BY <1>2, <1>3 DEF TypeInv
<1> QED
  BY <1>1, <1>3, <1>4, <1>5, <1>6

LEMMA SendOkIs ==
    ASSUME TypeInv, NEW b \in Bots, SendOk(b)
    PROVE  /\ pc[b] = "send" /\ pc'[b] = "select"
           /\ wire'[b] \in {wire[b], wire[b] \cup {seq[b]}}
           /\ rpc'[b] = rpc[b] /\ seq'[b] = seq[b] /\ pending'[b] = pending[b]
           /\ stream'[b] = stream[b] /\ measured'[b] = measured[b]
           /\ replies'[b] = replies[b] /\ heard'[b] = heard[b]
           /\ OthersSame(b) /\ TypeInv'
           /\ UNCHANGED <<fleet, measured, items, out, refused, samples, result>>
<1>1. \/ wire' = wire
      \/ wire' = [wire EXCEPT ![b] = wire[b] \cup {seq[b]}]
  BY DEF SendOk
<1>2. /\ pc[b] = "send" /\ pc' = [pc EXCEPT ![b] = "select"]
      /\ UNCHANGED <<ctx, rpc, seq, pending, stream, replies, heard, measured, items, out,
                     refused, fleet, samples, result>>
  BY DEF SendOk, Goto, bufVars, judgeVars
<1>3. TypeInv'
  <2>1. wire \in [Bots -> SUBSET Nat] /\ wire[b] \cup {seq[b]} \in SUBSET Nat
    BY DEF TypeInv
  <2>2. wire' \in [Bots -> SUBSET Nat]
    BY <1>1, <2>1
  <2> QED
    BY <1>2, <2>2 DEF TypeInv
<1>4. OthersSame(b)
  BY <1>1, <1>2 DEF TypeInv, OthersSame, Own
<1>5. pc'[b] = "select" /\ wire'[b] \in {wire[b], wire[b] \cup {seq[b]}}
  BY <1>1, <1>2 DEF TypeInv
<1> QED
  BY <1>2, <1>3, <1>4, <1>5

LEMMA SendFailsIs ==
    ASSUME TypeInv, NEW b \in Bots, SendFails(b)
    PROVE  /\ pc[b] = "send" /\ pc'[b] = "closing"
           /\ pending'[b] = pending[b] \ {seq[b]}
           /\ rpc'[b] = rpc[b] /\ seq'[b] = seq[b]
           /\ stream'[b] = stream[b] /\ wire'[b] = wire[b] /\ measured'[b] = measured[b]
           /\ replies'[b] = replies[b] /\ heard'[b] = heard[b]
           /\ OthersSame(b) /\ TypeInv'
           /\ UNCHANGED <<fleet, measured, items, out, refused, samples, result>>
<1>1. TypeInv'
  BY DEF TypeInv, SendFails, Goto, CloseLabel, netVars, bufVars, judgeVars
<1> QED
  BY <1>1 DEF TypeInv, SendFails, Goto, CloseLabel, OthersSame, Own, netVars, bufVars, judgeVars

LEMMA TickUnaryIs ==
    ASSUME TypeInv, NEW b \in Bots, TickUnary(b)
    PROVE  /\ pc[b] = "unary" /\ pc'[b] = "calling"
           /\ seq[b] < Orders[b] /\ seq'[b] = seq[b] + 1
           /\ rpc'[b] = rpc[b] /\ pending'[b] = pending[b]
           /\ stream'[b] = stream[b] /\ wire'[b] = wire[b] /\ measured'[b] = measured[b]
           /\ replies'[b] = replies[b] /\ heard'[b] = heard[b]
           /\ OthersSame(b) /\ TypeInv'
           /\ UNCHANGED <<fleet, measured, items, out, refused, samples, result>>
<1>1. TypeInv'
  BY DEF TypeInv, TickUnary, BuildOrder, Goto, netVars, bufVars, judgeVars
<1> QED
  BY <1>1 DEF TypeInv, TickUnary, BuildOrder, Goto, OthersSame, Own, netVars, bufVars, judgeVars

LEMMA CalledIs ==
    ASSUME TypeInv, NEW b \in Bots, NEW status \in Statuses \cup {"error"}, Called(b, status)
    PROVE  /\ pc[b] = "calling" /\ pc'[b] = "unary"
           /\ heard'[b] = Append(heard[b], [order |-> seq[b], status |-> status])
           /\ measured'[b] = Append(measured[b], [order |-> seq[b],
                verdict |-> Verdict(b, seq[b], status)])
           /\ rpc'[b] = rpc[b] /\ seq'[b] = seq[b] /\ pending'[b] = pending[b]
           /\ stream'[b] = stream[b] /\ wire'[b] = wire[b]
           /\ replies'[b] = replies[b]
           /\ OthersSame(b) /\ TypeInv'
           /\ RecordMetric(b, seq[b], status)
           /\ UNCHANGED <<fleet, samples, result>>
<1>1. RecordMetric(b, seq[b], status) /\ seq[b] \in Nat
  BY DEF Called, TypeInv
<1>2. /\ measured'[b] = Append(measured[b], [order |-> seq[b], verdict |-> Verdict(b, seq[b], status)])
      /\ \A d \in Bots : d # b => measured'[d] = measured[d]
      /\ measured' \in [Bots -> Seq(MetricRec)]
  BY <1>1, RecordMetricIs
<1> DEFINE h == Append(heard[b], [order |-> seq[b], status |-> status])
<1>3. h \in Seq(Responses)
  <2>1. [order |-> seq[b], status |-> status] \in Responses
    BY <1>1 DEF Responses
  <2> QED
    BY <2>1, AppendProperties DEF TypeInv
<1>4. /\ pc[b] = "calling" /\ pc' = [pc EXCEPT ![b] = "unary"]
      /\ heard' = [heard EXCEPT ![b] = h]
      /\ UNCHANGED <<ctx, seq, rpc, pending, stream, wire, replies, fleet, samples, result>>
  BY DEF Called, Goto, netVars, judgeVars
<1> HIDE DEF h
<1>5. TypeInv'
  BY <1>2, <1>3, <1>4 DEF TypeInv
<1>6. OthersSame(b)
  BY <1>2, <1>4 DEF TypeInv, OthersSame, Own
<1>7. pc'[b] = "unary" /\ heard'[b] = h
  BY <1>4 DEF TypeInv
<1> QED
  BY <1>1, <1>2, <1>4, <1>5, <1>6, <1>7 DEF h

\* What the engine and the network do to the responses under way.
LEMMA AnswerIs ==
    ASSUME TypeInv, NEW b \in Bots, Answer(b)
    PROVE  /\ \E r \in Responses : /\ r.order \in wire[b] \cup {0}
                                   /\ replies'[b] = Append(replies[b], r)
           /\ pc'[b] = pc[b] /\ rpc'[b] = rpc[b] /\ seq'[b] = seq[b] /\ pending'[b] = pending[b]
           /\ stream'[b] = stream[b] /\ wire'[b] = wire[b] /\ measured'[b] = measured[b]
           /\ heard'[b] = heard[b]
           /\ OthersSame(b) /\ TypeInv'
           /\ UNCHANGED <<fleet, measured, items, out, refused, samples, result>>
<1>1. PICK r \in [order : wire[b], status : Statuses] \cup {Unknown} :
        replies' = [replies EXCEPT ![b] = Append(replies[b], r)]
  BY DEF Answer
<1>2. UNCHANGED <<ctx, pc, seq, rpc, pending, stream, wire, heard, measured, items, out, refused,
                  fleet, samples, result>>
  BY DEF Answer, botVars, bufVars, judgeVars
<1>3. r \in Responses /\ r.order \in wire[b] \cup {0}
  <2>1. wire[b] \subseteq Nat
    BY DEF TypeInv
  <2>2. CASE r = Unknown
    BY <2>2 DEF Unknown, Responses
  <2>3. CASE r \in [order : wire[b], status : Statuses]
    BY <2>1, <2>3 DEF Responses
  <2> QED
    BY <2>2, <2>3
<1> DEFINE s == Append(replies[b], r)
<1>4. s \in Seq(Responses)
  BY <1>3, AppendProperties DEF TypeInv
<1> HIDE DEF s
<1>5. replies' = [replies EXCEPT ![b] = s]
  BY <1>1 DEF s
<1>6. TypeInv'
  BY <1>2, <1>4, <1>5 DEF TypeInv
<1>7. OthersSame(b)
  BY <1>2, <1>5 DEF TypeInv, OthersSame, Own
<1>8. replies'[b] = s
  BY <1>5 DEF TypeInv
<1> QED
  BY <1>2, <1>3, <1>6, <1>7, <1>8 DEF s

LEMMA StreamEndsIs ==
    ASSUME TypeInv, NEW b \in Bots, StreamEnds(b)
    PROVE  /\ \E k \in 0..Len(replies[b]) : replies'[b] = SubSeq(replies[b], 1, k)
           /\ stream[b] = "open" /\ stream'[b] = "broken"
           /\ pc'[b] = pc[b] /\ rpc'[b] = rpc[b] /\ seq'[b] = seq[b] /\ pending'[b] = pending[b]
           /\ wire'[b] = wire[b] /\ measured'[b] = measured[b] /\ heard'[b] = heard[b]
           /\ OthersSame(b) /\ TypeInv'
           /\ UNCHANGED <<fleet, measured, items, out, refused, samples, result>>
<1>1. PICK k \in 0..Len(replies[b]) :
        replies' = [replies EXCEPT ![b] = SubSeq(replies[b], 1, k)]
  BY DEF StreamEnds
<1>2. /\ stream[b] = "open" /\ stream' = [stream EXCEPT ![b] = "broken"]
      /\ UNCHANGED <<ctx, pc, seq, rpc, pending, wire, heard, measured, items, out, refused,
                     fleet, samples, result>>
  BY DEF StreamEnds, botVars, bufVars, judgeVars
<1> DEFINE s == SubSeq(replies[b], 1, k)
<1>3. s \in Seq(Responses)
  <2>1. replies[b] \in Seq(Responses) /\ Len(replies[b]) \in Nat
    BY DEF TypeInv
  <2>2. k \in Nat /\ k <= Len(replies[b])
    BY <2>1
  <2> QED
    BY <2>1, <2>2, Prefix
<1> HIDE DEF s
<1>4. replies' = [replies EXCEPT ![b] = s]
  BY <1>1 DEF s
<1>5. TypeInv'
  BY <1>2, <1>3, <1>4 DEF TypeInv
<1>6. OthersSame(b)
  BY <1>2, <1>4 DEF TypeInv, OthersSame, Own
<1>7. replies'[b] = s /\ stream'[b] = "broken"
  BY <1>2, <1>4 DEF TypeInv
<1> QED
  BY <1>2, <1>5, <1>6, <1>7 DEF s

\* The judge's own steps.
LEMMA JudgeIs ==
    ASSUME TypeInv, Expire \/ Judge \/ Finished \/ vars' = vars
    PROVE  /\ \A d \in Bots : Own(d)' = Own(d)
           /\ UNCHANGED measured
           /\ TypeInv'
<1>1. UNCHANGED <<pc, rpc, seq, pending, stream, wire, replies, heard, measured>>
  BY DEF Expire, Judge, Start, Join, Drain, Summarise, Finished, vars, botVars, netVars
<1>2. /\ fleet' \in {"start", "running", "joined", "failed", "done"}
      /\ ctx' \in {"live", "done"}
  BY DEF Expire, Judge, Start, Join, Drain, Summarise, Finished, vars, judgeVars, TypeInv
<1> QED
  BY <1>1, <1>2 DEF TypeInv, Own

-----------------------------------------------------------------------------
(***************************************************************************)
(* The invariant of a bot and its receiver                                 *)
(***************************************************************************)

MeasuredOrders(d) == {measured[d][k].order : k \in 1..Len(measured[d])}

\* Numbers are of orders that were built.
Bounds(d) ==
    /\ seq[d] <= Orders[d]
    /\ pending[d] \subseteq 1..seq[d]
    /\ wire[d] \subseteq 1..seq[d]
    /\ MeasuredOrders(d) \subseteq 1..seq[d]

\* A bot has a receiver exactly when it has a stream, and returns after it.
Mode(d) ==
    /\ pc[d] \in {"open", "unary", "calling"} => rpc[d] = "none"
    /\ pc[d] \in {"select", "send", "closing"} => rpc[d] # "none"
    /\ pc[d] = "returned" => rpc[d] \in {"none", "done"}
    /\ rpc[d] = "none" => wire[d] = {} /\ pending[d] = {}
    /\ rpc[d] \in {"lookup", "record"} => heard[d] # <<>>

\* Responses are about orders that were sent.
Replied(d) ==
    /\ \A k \in 1..Len(replies[d]) : replies[d][k].order \in wire[d] \cup {0}
    /\ rpc[d] \in {"lookup", "record"} => heard[d][Len(heard[d])].order \in wire[d] \cup {0}

\* An order is pending from before its Send until a response takes it out, and
\* what was taken out is measured or in the receiver's hand.
Registered(d) ==
    /\ \A o \in wire[d] :
         \/ o \in pending[d]
         \/ o \in MeasuredOrders(d)
         \/ rpc[d] = "record" /\ heard[d][Len(heard[d])].order = o
    /\ \A o \in pending[d] : o \notin MeasuredOrders(d)
    /\ rpc[d] = "record" =>
         /\ heard[d][Len(heard[d])].order \notin pending[d] \cup MeasuredOrders(d)
         /\ heard[d][Len(heard[d])].order \in 1..seq[d]
    /\ pc[d] = "send" => seq[d] \in pending[d] /\ seq[d] \notin wire[d]
    /\ pc[d] = "calling" => seq[d] \in 1..seq[d] /\ seq[d] \notin MeasuredOrders(d)

\* How many of the responses the bot has dealt with.
Dealt(d) == IF rpc[d] \in {"lookup", "record"} THEN Len(heard[d]) - 1 ELSE Len(heard[d])

\* Every order that was answered is measured.
Answered(d) ==
    \A k \in 1..Dealt(d) : heard[d][k].order # 0 => heard[d][k].order \in MeasuredOrders(d)

\* Response i is the first one of order o.
FirstOf(d, i, o) ==
    heard[d][i].order = o /\ \A j \in 1..(i - 1) : heard[d][j].order # o

\* Orders are measured once, by their first response.
Once(d) ==
    /\ \A j, k \in 1..Len(measured[d]) : measured[d][j].order = measured[d][k].order => j = k
    /\ \A k \in 1..Len(measured[d]) : \E i \in 1..Len(heard[d]) :
         /\ FirstOf(d, i, measured[d][k].order)
         /\ measured[d][k].verdict = Verdict(d, measured[d][k].order, heard[d][i].status)

BotInv(d) ==
    /\ Bounds(d) /\ Mode(d) /\ Replied(d) /\ Registered(d) /\ Answered(d) /\ Once(d)

LEMMA BotInvKept ==
    ASSUME NEW d \in Bots, BotInv(d), Own(d)' = Own(d)
    PROVE  BotInv(d)'
BY DEF Own, BotInv, Bounds, Mode, Replied, Registered, Answered, Dealt, FirstOf, Once,
       MeasuredOrders

\* Measuring an order for the first time.
LEMMA Measuring ==
    ASSUME TypeInv, NEW d \in Bots, NEW o \in Nat, NEW v \in Verdicts,
           measured'[d] = Append(measured[d], [order |-> o, verdict |-> v])
    PROVE  /\ MeasuredOrders(d)' = MeasuredOrders(d) \cup {o}
           /\ Len(measured'[d]) = Len(measured[d]) + 1 /\ Len(measured[d]) \in Nat
           /\ \A k \in 1..Len(measured[d]) : measured'[d][k] = measured[d][k]
           /\ measured'[d][Len(measured[d]) + 1] = [order |-> o, verdict |-> v]
<1> DEFINE m == [order |-> o, verdict |-> v]
           s == measured[d]
           t == measured'[d]
<1>1. s \in Seq(MetricRec) /\ m \in MetricRec /\ m.order = o
  BY DEF TypeInv, MetricRec
<1> HIDE DEF m
<1>2. t = Append(s, m)
  BY DEF m
<1> HIDE DEF s, t
<1>3. /\ Len(t) = Len(s) + 1 /\ Len(s) \in Nat
      /\ \A k \in 1..Len(s) : t[k] = s[k]
      /\ t[Len(s) + 1] = m
  BY <1>1, <1>2, AppendProperties
<1>4. {t[k].order : k \in 1..Len(t)} = {s[k].order : k \in 1..Len(s)} \cup {o}
  <2>1. ASSUME NEW k \in 1..Len(t) PROVE t[k].order \in {s[i].order : i \in 1..Len(s)} \cup {o}
    <3>1. CASE k = Len(s) + 1
      BY <1>1, <1>3, <3>1
    <3>2. CASE k \in 1..Len(s)
      BY <1>3, <3>2
    <3> QED
      BY <1>3, <3>1, <3>2
  <2>2. ASSUME NEW k \in 1..Len(s) PROVE s[k].order \in {t[i].order : i \in 1..Len(t)}
    BY <1>3
  <2>3. o \in {t[i].order : i \in 1..Len(t)}
    BY <1>1, <1>3
  <2> QED
    BY <2>1, <2>2, <2>3
<1> QED
  BY <1>3, <1>4 DEF MeasuredOrders, m, s, t

\* The responses heard so far stay the first ones when more are heard.
LEMMA OnceMeasured ==
    ASSUME TypeInv, NEW b \in Bots, Once(b), NEW o \in Nat, NEW st,
           o \notin MeasuredOrders(b), Verdict(b, o, st) \in Verdicts,
           measured'[b] = Append(measured[b], [order |-> o, verdict |-> Verdict(b, o, st)]),
           Len(heard'[b]) \in Nat, Len(heard[b]) \in Nat, Len(heard'[b]) >= Len(heard[b]),
           \A k \in 1..Len(heard[b]) : heard'[b][k] = heard[b][k],
           NEW i \in 1..Len(heard'[b]), heard'[b][i].status = st, heard'[b][i].order = o,
           \A j \in 1..(i - 1) : heard'[b][j].order # o
    PROVE  Once(b)'
<1>1. /\ Len(measured'[b]) = Len(measured[b]) + 1 /\ Len(measured[b]) \in Nat
      /\ \A k \in 1..Len(measured[b]) : measured'[b][k] = measured[b][k]
      /\ measured'[b][Len(measured[b]) + 1].order = o
      /\ measured'[b][Len(measured[b]) + 1].verdict = Verdict(b, o, st)
  <2>1. measured'[b][Len(measured[b]) + 1] = [order |-> o, verdict |-> Verdict(b, o, st)]
    BY Measuring
  <2> QED
    BY <2>1, Measuring
<1>2. \A k \in 1..Len(measured[b]) : measured[b][k].order # o
  BY DEF MeasuredOrders
<1>3. ASSUME NEW j \in 1..Len(measured'[b]), NEW k \in 1..Len(measured'[b]),
             measured'[b][j].order = measured'[b][k].order
      PROVE  j = k
  <2>1. CASE j \in 1..Len(measured[b]) /\ k \in 1..Len(measured[b])
    BY <1>1, <1>3, <2>1 DEF Once
  <2>2. CASE j = Len(measured[b]) + 1 /\ k \in 1..Len(measured[b])
    BY <1>1, <1>2, <1>3, <2>2
  <2>3. CASE j \in 1..Len(measured[b]) /\ k = Len(measured[b]) + 1
    BY <1>1, <1>2, <1>3, <2>3
  <2> QED
    BY <1>1, <2>1, <2>2, <2>3
<1>4. ASSUME NEW k \in 1..Len(measured'[b])
      PROVE  \E n \in 1..Len(heard'[b]) :
               /\ FirstOf(b, n, measured[b][k].order)'
               /\ measured'[b][k].verdict
                    = Verdict(b, measured'[b][k].order, heard'[b][n].status)
  <2>1. CASE k = Len(measured[b]) + 1
    BY <1>1, <2>1 DEF FirstOf
  <2>2. CASE k \in 1..Len(measured[b])
    <3>1. PICK n \in 1..Len(heard[b]) :
            /\ FirstOf(b, n, measured[b][k].order)
            /\ measured[b][k].verdict = Verdict(b, measured[b][k].order, heard[b][n].status)
      BY <2>2 DEF Once
    <3>2. n \in 1..Len(heard'[b]) /\ \A j \in 1..n : heard'[b][j] = heard[b][j]
      OBVIOUS
    <3>3. heard'[b][n] = heard[b][n] /\ measured'[b][k] = measured[b][k]
      BY <1>1, <2>2
    <3>4. heard'[b][n].order = measured[b][k].order
      BY <3>1, <3>3 DEF FirstOf
    <3>5. ASSUME NEW j \in 1..(n - 1) PROVE heard'[b][j].order # measured[b][k].order
      <4>1. heard[b][j].order # measured[b][k].order
        BY <3>1 DEF FirstOf
      <4>2. j \in 1..n
        OBVIOUS
      <4> QED
        BY <3>2, <4>1, <4>2
    <3>6. FirstOf(b, n, measured[b][k].order)'
      BY <3>3, <3>4, <3>5 DEF FirstOf
    <3> QED
      BY <3>1, <3>2, <3>3, <3>6
  <2>3. k = Len(measured[b]) + 1 \/ k \in 1..Len(measured[b])
    BY <1>1
  <2> QED
    BY <2>1, <2>2, <2>3
<1> QED
  BY <1>3, <1>4 DEF Once

\* Most steps hear nothing and measure nothing.
LEMMA NothingHeard ==
    ASSUME NEW b \in Bots, BotInv(b), heard'[b] = heard[b], measured'[b] = measured[b]
    PROVE  /\ Once(b)' /\ MeasuredOrders(b)' = MeasuredOrders(b)
           /\ (rpc'[b] \in {"lookup", "record"} <=> rpc[b] \in {"lookup", "record"}) => Answered(b)'
BY DEF BotInv, Once, FirstOf, MeasuredOrders, Answered, Dealt

LEMMA BotRecvFails ==
    ASSUME TypeInv, NEW b \in Bots, BotInv(b), RecvFails(b) \/ CtxDone(b) \/ RecvDone(b)
    PROVE  BotInv(b)'
<1>1. /\ rpc'[b] = rpc[b] \/ (rpc[b] = "recv" /\ rpc'[b] = "done")
      /\ \/ pc'[b] = pc[b]
         \/ pc[b] = "select" /\ pc'[b] = "closing"
         \/ pc[b] = "unary" /\ pc'[b] = "returned"
         \/ pc[b] = "closing" /\ rpc[b] = "done" /\ pc'[b] = "returned"
      /\ rpc'[b] = rpc[b] \/ pc'[b] = pc[b]
      /\ seq'[b] = seq[b] /\ pending'[b] = pending[b] /\ wire'[b] = wire[b]
      /\ measured'[b] = measured[b] /\ replies'[b] = replies[b] /\ heard'[b] = heard[b]
  BY RecvFailsIs, BotEndsIs
<1>2. Once(b)' /\ MeasuredOrders(b)' = MeasuredOrders(b) /\ Answered(b)'
  BY <1>1, NothingHeard
<1>3. Bounds(b)' /\ Replied(b)'
  BY <1>1, <1>2 DEF BotInv, Bounds, Replied
<1>4. Mode(b)'
  BY <1>1 DEF BotInv, Mode
<1>5. Registered(b)'
  BY <1>1, <1>2 DEF BotInv, Registered
<1> QED
  BY <1>2, <1>3, <1>4, <1>5 DEF BotInv

LEMMA BotOpen ==
    ASSUME TypeInv, NEW b \in Bots, BotInv(b), Open(b)
    PROVE  BotInv(b)'
<1>1. /\ pc[b] = "open" /\ rpc[b] = "none"
      /\ \/ pc'[b] = "select" /\ rpc'[b] = "recv"
         \/ pc'[b] = "unary" /\ rpc'[b] = rpc[b]
      /\ seq'[b] = seq[b] /\ pending'[b] = pending[b] /\ wire'[b] = wire[b]
      /\ measured'[b] = measured[b] /\ replies'[b] = replies[b] /\ heard'[b] = heard[b]
  BY OpenIs DEF BotInv, Mode
<1>2. Once(b)' /\ MeasuredOrders(b)' = MeasuredOrders(b) /\ Answered(b)'
  BY <1>1, NothingHeard
<1>3. Bounds(b)' /\ Replied(b)'
  BY <1>1, <1>2 DEF BotInv, Bounds, Replied
<1>4. Mode(b)'
  BY <1>1 DEF BotInv, Mode
<1>5. Registered(b)'
  BY <1>1, <1>2 DEF BotInv, Registered
<1> QED
  BY <1>2, <1>3, <1>4, <1>5 DEF BotInv

LEMMA BotTick ==
    ASSUME TypeInv, NEW b \in Bots, BotInv(b), Tick(b)
    PROVE  BotInv(b)'
<1>1. /\ pc[b] = "select" /\ pc'[b] = "send" /\ rpc'[b] = rpc[b]
      /\ seq[b] < Orders[b] /\ seq'[b] = seq[b] + 1 /\ seq[b] \in Nat /\ Orders[b] \in Nat
      /\ pending'[b] = pending[b] \cup {seq[b] + 1} /\ wire'[b] = wire[b]
      /\ measured'[b] = measured[b] /\ replies'[b] = replies[b] /\ heard'[b] = heard[b]
  BY TickIs, FleetBounds DEF TypeInv
<1>2. Once(b)' /\ MeasuredOrders(b)' = MeasuredOrders(b) /\ Answered(b)'
  BY <1>1, NothingHeard
<1>3. Bounds(b)' /\ Replied(b)'
  BY <1>1, <1>2 DEF BotInv, Bounds, Replied
<1>4. Mode(b)'
  BY <1>1 DEF BotInv, Mode
<1>5. /\ seq[b] + 1 \notin wire[b] /\ seq[b] + 1 \notin MeasuredOrders(b)
      /\ 1..seq[b] \subseteq 1..(seq[b] + 1)
  BY <1>1 DEF BotInv, Bounds
<1>6. rpc[b] = "record" =>
        /\ heard[b][Len(heard[b])].order \notin pending'[b] \cup MeasuredOrders(b)
        /\ heard[b][Len(heard[b])].order \in 1..(seq[b] + 1)
  <2>1. SUFFICES ASSUME rpc[b] = "record"
                 PROVE  /\ heard[b][Len(heard[b])].order \notin pending'[b] \cup MeasuredOrders(b)
                        /\ heard[b][Len(heard[b])].order \in 1..(seq[b] + 1)
    OBVIOUS
  <2>2. /\ heard[b][Len(heard[b])].order \notin pending[b] \cup MeasuredOrders(b)
        /\ heard[b][Len(heard[b])].order \in 1..seq[b]
    BY <2>1 DEF BotInv, Registered
  <2> QED
    BY <1>1, <2>2
<1>7. Registered(b)'
  BY <1>1, <1>2, <1>5, <1>6 DEF BotInv, Registered
<1> QED
  BY <1>2, <1>3, <1>4, <1>7 DEF BotInv

LEMMA BotSend ==
    ASSUME TypeInv, NEW b \in Bots, BotInv(b), SendOk(b) \/ SendFails(b)
    PROVE  BotInv(b)'
<1>1. /\ pc[b] = "send" /\ rpc'[b] = rpc[b] /\ seq'[b] = seq[b] /\ seq[b] \in Nat
      /\ \/ /\ pc'[b] = "select" /\ pending'[b] = pending[b]
            /\ wire'[b] \in {wire[b], wire[b] \cup {seq[b]}}
         \/ pc'[b] = "closing" /\ pending'[b] = pending[b] \ {seq[b]} /\ wire'[b] = wire[b]
      /\ measured'[b] = measured[b] /\ replies'[b] = replies[b] /\ heard'[b] = heard[b]
  BY SendOkIs, SendFailsIs DEF TypeInv
<1>2. Once(b)' /\ MeasuredOrders(b)' = MeasuredOrders(b) /\ Answered(b)'
  BY <1>1, NothingHeard
<1>3. seq[b] \in pending[b] /\ seq[b] \notin wire[b] /\ rpc[b] # "none" /\ seq[b] \in 1..seq[b]
  BY <1>1 DEF BotInv, Registered, Mode, Bounds
<1>4. Bounds(b)' /\ Replied(b)'
  BY <1>1, <1>2, <1>3 DEF BotInv, Bounds, Replied
<1>5. Mode(b)'
  BY <1>1, <1>3 DEF BotInv, Mode
<1>6. Registered(b)'
  BY <1>1, <1>2, <1>3 DEF BotInv, Registered
<1> QED
  BY <1>2, <1>4, <1>5, <1>6 DEF BotInv

LEMMA BotTickUnary ==
    ASSUME TypeInv, NEW b \in Bots, BotInv(b), TickUnary(b)
    PROVE  BotInv(b)'
<1>1. /\ pc[b] = "unary" /\ pc'[b] = "calling" /\ rpc'[b] = rpc[b] /\ rpc[b] = "none"
      /\ seq[b] < Orders[b] /\ seq'[b] = seq[b] + 1 /\ seq[b] \in Nat /\ Orders[b] \in Nat
      /\ pending'[b] = pending[b] /\ wire'[b] = wire[b] /\ wire[b] = {} /\ pending[b] = {}
      /\ measured'[b] = measured[b] /\ replies'[b] = replies[b] /\ heard'[b] = heard[b]
  BY TickUnaryIs, FleetBounds DEF TypeInv, BotInv, Mode
<1>2. Once(b)' /\ MeasuredOrders(b)' = MeasuredOrders(b) /\ Answered(b)'
  BY <1>1, NothingHeard
<1>3. Bounds(b)' /\ Replied(b)'
  BY <1>1, <1>2 DEF BotInv, Bounds, Replied
<1>4. Mode(b)'
  BY <1>1 DEF BotInv, Mode
<1>5. seq[b] + 1 \notin MeasuredOrders(b) /\ seq[b] + 1 \in 1..(seq[b] + 1)
  BY <1>1 DEF BotInv, Bounds
<1>6. Registered(b)'
  BY <1>1, <1>2, <1>5 DEF BotInv, Registered
<1> QED
  BY <1>2, <1>3, <1>4, <1>6 DEF BotInv

LEMMA BotAnswer ==
    ASSUME TypeInv, NEW b \in Bots, BotInv(b), Answer(b) \/ StreamEnds(b)
    PROVE  BotInv(b)'
<1>1. /\ pc'[b] = pc[b] /\ rpc'[b] = rpc[b] /\ seq'[b] = seq[b]
      /\ pending'[b] = pending[b] /\ wire'[b] = wire[b]
      /\ measured'[b] = measured[b] /\ heard'[b] = heard[b]
  BY AnswerIs, StreamEndsIs
<1>2. Once(b)' /\ MeasuredOrders(b)' = MeasuredOrders(b) /\ Answered(b)'
  BY <1>1, NothingHeard
<1>3. Bounds(b)' /\ Mode(b)' /\ Registered(b)'
  BY <1>1, <1>2 DEF BotInv, Bounds, Mode, Registered
<1>4. /\ replies[b] \in Seq(Responses) /\ Len(replies[b]) \in Nat
      /\ \A k \in 1..Len(replies[b]) : replies[b][k].order \in wire[b] \cup {0}
  BY DEF TypeInv, BotInv, Replied
<1>5. \A k \in 1..Len(replies'[b]) : replies'[b][k].order \in wire[b] \cup {0}
  <2>1. CASE Answer(b)
    <3>1. PICK r \in Responses : r.order \in wire[b] \cup {0} /\ replies'[b] = Append(replies[b], r)
      BY <2>1, AnswerIs
    <3>2. /\ Len(replies'[b]) = Len(replies[b]) + 1
          /\ \A k \in 1..Len(replies[b]) : replies'[b][k] = replies[b][k]
          /\ replies'[b][Len(replies[b]) + 1] = r
      BY <1>4, <3>1, AppendProperties
    <3> QED
      BY <1>4, <3>1, <3>2
  <2>2. CASE StreamEnds(b)
    <3>1. PICK n \in 0..Len(replies[b]) : replies'[b] = SubSeq(replies[b], 1, n)
      BY <2>2, StreamEndsIs
    <3>2. n \in Nat /\ n <= Len(replies[b])
      BY <1>4
    <3>3. Len(replies'[b]) = n /\ \A k \in 1..n : replies'[b][k] = replies[b][k]
      BY <1>4, <3>1, <3>2, Prefix
    <3> QED
      BY <1>4, <3>2, <3>3
  <2> QED
    BY <2>1, <2>2
<1>6. Replied(b)'
  BY <1>1, <1>5 DEF BotInv, Replied
<1> QED
  BY <1>2, <1>3, <1>6 DEF BotInv

LEMMA BotRecv ==
    ASSUME TypeInv, NEW b \in Bots, BotInv(b), Recv(b)
    PROVE  BotInv(b)'
<1>1. /\ rpc[b] = "recv" /\ rpc'[b] = "lookup" /\ replies[b] # <<>>
      /\ heard'[b] = Append(heard[b], Head(replies[b])) /\ replies'[b] = Tail(replies[b])
      /\ pc'[b] = pc[b] /\ seq'[b] = seq[b] /\ pending'[b] = pending[b]
      /\ wire'[b] = wire[b] /\ measured'[b] = measured[b]
  BY RecvIs
<1>2. /\ replies[b] \in Seq(Responses) /\ heard[b] \in Seq(Responses)
      /\ Len(heard[b]) \in Nat /\ Len(replies[b]) \in Nat
  BY DEF TypeInv
<1>3. /\ Head(replies[b]) = replies[b][1] /\ Head(replies[b]) \in Responses
      /\ Len(replies'[b]) = Len(replies[b]) - 1 /\ Len(replies[b]) >= 1
      /\ \A k \in 1..(Len(replies[b]) - 1) : replies'[b][k] = replies[b][k + 1]
  BY <1>1, <1>2, HeadTailProperties, EmptySeq
<1>4. /\ Len(heard'[b]) = Len(heard[b]) + 1 /\ heard'[b] # <<>>
      /\ \A k \in 1..Len(heard[b]) : heard'[b][k] = heard[b][k]
      /\ heard'[b][Len(heard[b]) + 1] = replies[b][1]
  <2>1. /\ Len(heard'[b]) = Len(heard[b]) + 1 /\ heard'[b] \in Seq(Responses)
        /\ \A k \in 1..Len(heard[b]) : heard'[b][k] = heard[b][k]
        /\ heard'[b][Len(heard[b]) + 1] = replies[b][1]
    BY <1>1, <1>2, <1>3, AppendProperties
  <2> QED
    BY <1>2, <2>1, EmptySeq
<1>5. MeasuredOrders(b)' = MeasuredOrders(b)
  BY <1>1 DEF MeasuredOrders
<1>6. Bounds(b)' /\ Mode(b)' /\ Registered(b)'
  BY <1>1, <1>4, <1>5 DEF BotInv, Bounds, Mode, Registered
<1>7. Replied(b)'
  <2>1. \A k \in 1..Len(replies[b]) : replies[b][k].order \in wire[b] \cup {0}
    BY DEF BotInv, Replied
  <2>2. ASSUME NEW k \in 1..(Len(replies[b]) - 1)
        PROVE  replies'[b][k].order \in wire[b] \cup {0}
    <3>1. k + 1 \in 1..Len(replies[b])
      BY <1>2
    <3> QED
      BY <1>3, <2>1, <3>1
  <2>3. heard'[b][Len(heard'[b])].order \in wire[b] \cup {0}
    BY <1>2, <1>3, <1>4, <2>1
  <2> QED
    BY <1>1, <1>3, <2>2, <2>3 DEF Replied
<1>8. Answered(b)'
  <2>1. Dealt(b)' = Len(heard[b]) /\ Dealt(b) = Len(heard[b])
    BY <1>1, <1>2, <1>4 DEF Dealt
  <2> QED
    BY <1>4, <1>5, <2>1 DEF BotInv, Answered
<1>9. Once(b)'
  <2>1. ASSUME NEW k \in 1..Len(measured[b])
        PROVE  \E n \in 1..Len(heard'[b]) :
                 /\ FirstOf(b, n, measured[b][k].order)'
                 /\ measured[b][k].verdict = Verdict(b, measured[b][k].order, heard'[b][n].status)
    <3>1. PICK n \in 1..Len(heard[b]) :
            /\ FirstOf(b, n, measured[b][k].order)
            /\ measured[b][k].verdict = Verdict(b, measured[b][k].order, heard[b][n].status)
      BY DEF BotInv, Once
    <3>2. n \in 1..Len(heard'[b]) /\ heard'[b][n] = heard[b][n]
      BY <1>2, <1>4
    <3>3. ASSUME NEW j \in 1..(n - 1) PROVE heard'[b][j].order # measured[b][k].order
      <4>1. heard[b][j].order # measured[b][k].order
        BY <3>1 DEF FirstOf
      <4>2. j \in 1..Len(heard[b])
        BY <1>2
      <4> QED
        BY <1>4, <4>1, <4>2
    <3>4. heard'[b][n].order = measured[b][k].order
      BY <3>1, <3>2 DEF FirstOf
    <3>5. FirstOf(b, n, measured[b][k].order)'
      BY <1>1, <3>3, <3>4 DEF FirstOf
    <3> QED
      BY <3>1, <3>2, <3>5
  <2>2. \A j, k \in 1..Len(measured[b]) : measured[b][j].order = measured[b][k].order => j = k
    BY DEF BotInv, Once
  <2> QED
    BY <1>1, <2>1, <2>2 DEF Once
<1> QED
  BY <1>6, <1>7, <1>8, <1>9 DEF BotInv

LEMMA BotLookup ==
    ASSUME TypeInv, NEW b \in Bots, BotInv(b), Lookup(b)
    PROVE  BotInv(b)'
<1> DEFINE o == heard[b][Len(heard[b])].order
<1>1. /\ rpc[b] = "lookup" /\ heard[b] # <<>> /\ heard[b] \in Seq(Responses)
      /\ Len(heard[b]) \in Nat /\ Len(heard[b]) >= 1 /\ seq[b] \in Nat
      /\ o \in wire[b] \cup {0}
  BY LookupIs, EmptySeq DEF TypeInv, BotInv, Mode, Replied
<1>2. Response(b).order = o
  BY <1>1, LastIs DEF Response
<1>3. /\ rpc'[b] = IF o \in pending[b] THEN "record" ELSE "recv"
      /\ pending'[b] = pending[b] \ {o}
      /\ pc'[b] = pc[b] /\ seq'[b] = seq[b] /\ wire'[b] = wire[b]
      /\ measured'[b] = measured[b] /\ replies'[b] = replies[b] /\ heard'[b] = heard[b]
  BY <1>2, LookupIs
<1> HIDE DEF o
<1>4. Once(b)' /\ MeasuredOrders(b)' = MeasuredOrders(b)
  BY <1>3, NothingHeard
<1>5. Bounds(b)'
  BY <1>3, <1>4 DEF BotInv, Bounds
<1>6. Mode(b)'
  BY <1>1, <1>3 DEF BotInv, Mode
<1>7. Replied(b)'
  BY <1>1, <1>3 DEF BotInv, Replied, o
<1>8. CASE o \in pending[b]
  <2>1. rpc'[b] = "record" /\ o \in 1..seq[b] /\ o \notin MeasuredOrders(b)
    BY <1>3, <1>8 DEF BotInv, Bounds, Registered
  <2>2. pc[b] = "send" => seq[b] \in pending[b] /\ seq[b] # o /\ seq[b] \notin wire[b]
    BY <1>1, <2>1 DEF BotInv, Registered
  <2>3. \A p \in wire[b] : p \in pending[b] \ {o} \/ p \in MeasuredOrders(b) \/ o = p
    BY <1>1 DEF BotInv, Registered
  <2>4. /\ \A p \in pending[b] \ {o} : p \notin MeasuredOrders(b)
        /\ pc[b] # "calling"
    BY <1>1 DEF BotInv, Registered, Mode
  <2>5. Registered(b)'
    BY <1>3, <1>4, <2>1, <2>2, <2>3, <2>4 DEF Registered, o
  <2>6. Answered(b)'
    BY <1>1, <1>3, <2>1, NothingHeard
  <2> QED
    BY <1>4, <1>5, <1>6, <1>7, <2>5, <2>6 DEF BotInv
<1>9. CASE o \notin pending[b]
  <2>1. rpc'[b] = "recv" /\ pending'[b] = pending[b]
    BY <1>3, <1>9
  <2>2. o # 0 => o \in MeasuredOrders(b)
    BY <1>1, <1>9 DEF BotInv, Registered
  <2>3. Registered(b)'
    BY <1>1, <1>3, <1>4, <2>1 DEF BotInv, Registered
  <2>4. Dealt(b)' = Len(heard[b]) /\ Dealt(b) = Len(heard[b]) - 1
    BY <1>1, <1>3, <2>1 DEF Dealt
  <2>5. ASSUME NEW k \in 1..Len(heard[b])
        PROVE  heard[b][k].order # 0 => heard[b][k].order \in MeasuredOrders(b)
    <3>1. CASE k = Len(heard[b])
      BY <2>2, <3>1 DEF o
    <3>2. CASE k \in 1..(Len(heard[b]) - 1)
      BY <2>4, <3>2 DEF BotInv, Answered
    <3> QED
      BY <1>1, <3>1, <3>2
  <2>6. Answered(b)'
    BY <1>3, <1>4, <2>4, <2>5 DEF Answered
  <2> QED
    BY <1>4, <1>5, <1>6, <1>7, <2>3, <2>6 DEF BotInv
<1> QED
  BY <1>8, <1>9

LEMMA BotRecord ==
    ASSUME TypeInv, NEW b \in Bots, BotInv(b), Record(b)
    PROVE  BotInv(b)'
<1> DEFINE r == heard[b][Len(heard[b])]
           o == r.order
<1>1. /\ rpc[b] = "record" /\ heard[b] # <<>> /\ heard[b] \in Seq(Responses)
      /\ Len(heard[b]) \in Nat /\ Len(heard[b]) >= 1 /\ seq[b] \in Nat
      /\ o \in wire[b] \cup {0} /\ o \in 1..seq[b] /\ o \notin pending[b]
      /\ o \notin MeasuredOrders(b) /\ o \in Nat
  BY EmptySeq DEF Record, TypeInv, BotInv, Mode, Replied, Registered
<1>2. Response(b) = r
  BY <1>1, LastIs DEF Response
<1>3. /\ rpc'[b] = "recv"
      /\ measured'[b] = Append(measured[b], [order |-> o, verdict |-> Verdict(b, o, r.status)])
      /\ pc'[b] = pc[b] /\ seq'[b] = seq[b] /\ wire'[b] = wire[b] /\ pending'[b] = pending[b]
      /\ replies'[b] = replies[b] /\ heard'[b] = heard[b]
  BY <1>1, <1>2, RecordIs
<1>4. Verdict(b, o, r.status) \in Verdicts
  BY DEF Verdict, Verdicts
<1>5. MeasuredOrders(b)' = MeasuredOrders(b) \cup {o}
  BY <1>1, <1>3, <1>4, Measuring
<1>6. Dealt(b)' = Len(heard[b]) /\ Dealt(b) = Len(heard[b]) - 1
  BY <1>1, <1>3 DEF Dealt
<1>7. \A k \in 1..(Len(heard[b]) - 1) : heard[b][k].order # 0 => heard[b][k].order \in MeasuredOrders(b)
  BY <1>6 DEF BotInv, Answered
<1>8. Once(b)'
  <2>1. \A j \in 1..(Len(heard[b]) - 1) : heard[b][j].order # o
    BY <1>1, <1>7
  <2>2. Len(heard[b]) \in 1..Len(heard[b])
    BY <1>1
  <2>3. Once(b)
    BY DEF BotInv
  <2> HIDE DEF o, r
  <2>4. /\ Len(heard'[b]) \in Nat /\ Len(heard'[b]) >= Len(heard[b])
        /\ \A k \in 1..Len(heard[b]) : heard'[b][k] = heard[b][k]
        /\ Len(heard[b]) \in 1..Len(heard'[b])
        /\ \A j \in 1..(Len(heard[b]) - 1) : heard'[b][j].order # o
    BY <1>1, <1>3, <2>1, <2>2
  <2>5. heard'[b][Len(heard[b])].status = r.status /\ heard'[b][Len(heard[b])].order = o
    BY <1>3 DEF r, o
  <2> QED
    BY <1>1, <1>3, <1>4, <2>3, <2>4, <2>5, OnceMeasured
<1>9. Answered(b)'
  <2>1. ASSUME NEW k \in 1..Len(heard[b])
        PROVE  heard[b][k].order # 0 => heard[b][k].order \in MeasuredOrders(b)'
    <3>1. CASE k = Len(heard[b])
      BY <1>5, <3>1
    <3>2. CASE k \in 1..(Len(heard[b]) - 1)
      BY <1>5, <1>7, <3>2
    <3> QED
      BY <1>1, <3>1, <3>2
  <2> QED
    BY <1>3, <1>6, <2>1 DEF Answered
<1> HIDE DEF o, r
<1>10. Bounds(b)' /\ Mode(b)' /\ Replied(b)'
  BY <1>1, <1>3, <1>5 DEF BotInv, Bounds, Mode, Replied
<1>11. Registered(b)'
  <2>1. \A p \in wire[b] : p \in pending[b] \/ p \in MeasuredOrders(b) \/ p = o
    BY DEF BotInv, Registered, o, r
  <2>2. \A p \in pending[b] : p \notin MeasuredOrders(b) /\ p # o
    BY <1>1 DEF BotInv, Registered
  <2>3. /\ pc[b] = "send" => seq[b] \in pending[b] /\ seq[b] \notin wire[b]
        /\ pc[b] # "calling"
    BY <1>1 DEF BotInv, Registered, Mode
  <2> QED
    BY <1>3, <1>5, <2>1, <2>2, <2>3 DEF Registered
<1> QED
  BY <1>8, <1>9, <1>10, <1>11 DEF BotInv

LEMMA BotCalled ==
    ASSUME TypeInv, NEW b \in Bots, BotInv(b), NEW status \in Statuses \cup {"error"},
           Called(b, status)
    PROVE  BotInv(b)'
<1> DEFINE n == Len(heard[b])
           r == [order |-> seq[b], status |-> status]
<1>1. /\ pc[b] = "calling" /\ rpc[b] = "none" /\ heard[b] \in Seq(Responses) /\ n \in Nat
      /\ seq[b] \in Nat /\ seq[b] \in 1..seq[b] /\ seq[b] \notin MeasuredOrders(b)
      /\ wire[b] = {} /\ pending[b] = {}
  BY DEF Called, TypeInv, BotInv, Mode, Registered
<1>2. /\ pc'[b] = "unary" /\ rpc'[b] = rpc[b] /\ seq'[b] = seq[b] /\ wire'[b] = wire[b]
      /\ pending'[b] = pending[b] /\ replies'[b] = replies[b]
      /\ heard'[b] = Append(heard[b], r)
      /\ measured'[b] = Append(measured[b], [order |-> seq[b], verdict |-> Verdict(b, seq[b], status)])
  BY CalledIs
<1>3. Verdict(b, seq[b], status) \in Verdicts
  BY DEF Verdict, Verdicts
<1>4. MeasuredOrders(b)' = MeasuredOrders(b) \cup {seq[b]}
  BY <1>1, <1>2, <1>3, Measuring
<1>5. r \in Responses /\ r.order = seq[b] /\ r.status = status
  BY <1>1 DEF Responses
<1> HIDE DEF r
<1>6. /\ Len(heard'[b]) = n + 1
      /\ \A k \in 1..n : heard'[b][k] = heard[b][k]
      /\ heard'[b][n + 1] = r
  BY <1>1, <1>2, <1>5, AppendProperties
<1>7. /\ Dealt(b)' = Len(heard'[b]) /\ Dealt(b) = n
      /\ \A k \in 1..n : heard[b][k].order # 0 => heard[b][k].order \in MeasuredOrders(b)
  BY <1>1, <1>2 DEF Dealt, BotInv, Answered
<1> HIDE DEF n
<1>8. Once(b)'
  <2>1. \A j \in 1..((n + 1) - 1) : heard'[b][j].order # seq[b]
    BY <1>1, <1>6, <1>7
  <2>2. /\ Len(heard'[b]) \in Nat /\ Len(heard'[b]) >= Len(heard[b]) /\ Len(heard[b]) \in Nat
        /\ \A k \in 1..Len(heard[b]) : heard'[b][k] = heard[b][k]
        /\ n + 1 \in 1..Len(heard'[b])
    BY <1>1, <1>6 DEF n
  <2>3. heard'[b][n + 1].status = status /\ heard'[b][n + 1].order = seq[b]
    BY <1>5, <1>6
  <2>4. Once(b)
    BY DEF BotInv
  <2> QED
    BY <1>1, <1>2, <1>3, <2>1, <2>2, <2>3, <2>4, OnceMeasured
<1>9. Answered(b)'
  <2>1. ASSUME NEW k \in 1..(n + 1)
        PROVE  heard'[b][k].order # 0 => heard'[b][k].order \in MeasuredOrders(b)'
    <3>1. CASE k = n + 1
      BY <1>4, <1>5, <1>6, <3>1
    <3>2. CASE k \in 1..n
      BY <1>4, <1>6, <1>7, <3>2
    <3> QED
      BY <1>1, <3>1, <3>2
  <2> QED
    BY <1>6, <1>7, <2>1 DEF Answered
<1>10. Bounds(b)' /\ Mode(b)' /\ Replied(b)'
  BY <1>1, <1>2, <1>4 DEF BotInv, Bounds, Mode, Replied
<1>11. Registered(b)'
  BY <1>1, <1>2, <1>4 DEF Registered
<1> QED
  BY <1>8, <1>9, <1>10, <1>11 DEF BotInv

-----------------------------------------------------------------------------
(***************************************************************************)
(* All bots, the join and the judge                                        *)
(***************************************************************************)

\* Bots are under way only while Run is.
FleetInv ==
    fleet # "running" => \A d \in Bots : pc[d] \in {"open", "returned"}

FleetBotsInv ==
    /\ TypeInv /\ FleetInv
    /\ \A d \in Bots : BotInv(d)

LEMMA FleetInit ==
    ASSUME Init
    PROVE  FleetBotsInv
<1>1. TypeInv
  BY DEF Init, TypeInv
<1>2. FleetInv
  BY DEF Init, FleetInv
<1>3. ASSUME NEW d \in Bots PROVE BotInv(d)
  <2>1. /\ pc[d] = "open" /\ rpc[d] = "none" /\ seq[d] = 0 /\ pending[d] = {} /\ wire[d] = {}
        /\ replies[d] = <<>> /\ heard[d] = <<>> /\ measured[d] = <<>>
    BY DEF Init
  <2>2. MeasuredOrders(d) = {}
    BY <2>1 DEF MeasuredOrders
  <2>3. Orders[d] \in Nat
    BY FleetBounds
  <2> QED
    BY <2>1, <2>2, <2>3 DEF BotInv, Bounds, Mode, Replied, Registered, Answered, Dealt, FirstOf, Once
<1> QED
  BY <1>1, <1>2, <1>3 DEF FleetBotsInv

\* A step of one bot, its receiver or its engine.
StepOf(b) ==
    \/ Bot(b) \/ Receiver(b) \/ SendOk(b) \/ PlaceOrder(b)
    \/ Answer(b) \/ StreamEnds(b)

LEMMA BotStep ==
    ASSUME FleetBotsInv, NEW b \in Bots, StepOf(b)
    PROVE  FleetBotsInv' /\ fleet' = fleet
<1>0. TypeInv /\ BotInv(b) /\ "error" \in Statuses \cup {"error"}
  BY DEF FleetBotsInv
<1>1. \/ Recv(b) \/ RecvFails(b) \/ Lookup(b) \/ Record(b)
      \/ Open(b) \/ Tick(b) \/ SendFails(b) \/ CtxDone(b) \/ RecvDone(b) \/ TickUnary(b)
      \/ SendOk(b) \/ Answer(b) \/ StreamEnds(b)
      \/ \E status \in Statuses \cup {"error"} : Called(b, status)
  BY DEF StepOf, Bot, Receiver, PlaceOrder, PlaceOrderCut
<1>2. Record(b) => heard[b] # <<>>
  BY <1>0 DEF Record, BotInv, Mode
<1>3. /\ TypeInv' /\ OthersSame(b) /\ fleet' = fleet
      /\ pc'[b] = pc[b] \/ fleet = "running" \/ pc[b] \notin {"open", "returned"}
  <2>1. CASE Recv(b)
    BY <1>0, <2>1, RecvIs
  <2>2. CASE RecvFails(b)
    BY <1>0, <2>2, RecvFailsIs
  <2>3. CASE Lookup(b)
    BY <1>0, <2>3, LookupIs
  <2>4. CASE Record(b)
    BY <1>0, <2>4, <1>2, RecordIs
  <2>5. CASE Open(b)
    BY <1>0, <2>5, OpenIs
  <2>6. CASE Tick(b)
    BY <1>0, <2>6, TickIs
  <2>7. CASE SendFails(b)
    BY <1>0, <2>7, SendFailsIs
  <2>8. CASE CtxDone(b) \/ RecvDone(b)
    BY <1>0, <2>8, BotEndsIs
  <2>9. CASE TickUnary(b)
    BY <1>0, <2>9, TickUnaryIs
  <2>10. CASE SendOk(b)
    BY <1>0, <2>10, SendOkIs
  <2>11. CASE Answer(b)
    BY <1>0, <2>11, AnswerIs
  <2>12. CASE StreamEnds(b)
    BY <1>0, <2>12, StreamEndsIs
  <2>13. CASE \E status \in Statuses \cup {"error"} : Called(b, status)
    BY <1>0, <2>13, CalledIs
  <2> QED
    BY <1>1, <2>1, <2>2, <2>3, <2>4, <2>5, <2>6, <2>7, <2>8, <2>9, <2>10, <2>11, <2>12, <2>13
<1>4. BotInv(b)'
  BY <1>0, <1>1, BotRecv, BotRecvFails, BotLookup, BotRecord, BotOpen, BotTick, BotSend,
     BotTickUnary, BotAnswer, BotCalled
<1>5. \A d \in Bots : BotInv(d)'
  BY <1>3, <1>4, BotInvKept DEF FleetBotsInv, OthersSame
<1>6. \A d \in Bots : d # b => pc'[d] = pc[d]
  BY <1>3 DEF OthersSame, Own
<1>7. FleetInv'
  BY <1>3, <1>6 DEF FleetBotsInv, FleetInv
<1> QED
  BY <1>3, <1>5, <1>7 DEF FleetBotsInv

LEMMA FleetStep ==
    ASSUME FleetBotsInv, [Next]_vars
    PROVE  FleetBotsInv'
<1>1. CASE \E b \in Bots : StepOf(b)
  BY <1>1, BotStep
<1>2. CASE Expire \/ Judge \/ Finished \/ vars' = vars
  <2>1. /\ \A d \in Bots : Own(d)' = Own(d)
        /\ TypeInv'
    BY <1>2, JudgeIs DEF FleetBotsInv
  <2>2. \A d \in Bots : BotInv(d)'
    BY <2>1, BotInvKept DEF FleetBotsInv
  <2>3. \A d \in Bots : pc'[d] = pc[d]
    BY <2>1 DEF Own
  <2>4. \/ fleet' = fleet \/ fleet = "start"
        \/ \A d \in Bots : pc[d] = "returned"
        \/ fleet \in {"joined", "failed"}
    BY <1>2 DEF Expire, Judge, Start, Join, Drain, Summarise, Finished, vars, judgeVars
  <2>5. FleetInv'
    BY <2>3, <2>4 DEF FleetBotsInv, FleetInv
  <2> QED
    BY <2>1, <2>2, <2>5 DEF FleetBotsInv
<1> QED
  BY <1>1, <1>2 DEF Next, StepOf

\* The bots' invariant holds at every step.
THEOREM FleetInvariant == Spec => []FleetBotsInv
<1>1. Init => FleetBotsInv
  BY FleetInit
<1>2. FleetBotsInv /\ [Next]_vars => FleetBotsInv'
  BY FleetStep
<1> QED
  BY <1>1, <1>2, PTL DEF Spec

-----------------------------------------------------------------------------
(***************************************************************************)
(* First responses                                                         *)
(***************************************************************************)

\* There is one first response of an order, which FirstResponse finds.
LEMMA FirstIs ==
    ASSUME TypeInv, NEW b \in Bots, NEW o, NEW i \in 1..Len(heard[b]), FirstOf(b, i, o)
    PROVE  FirstResponse(b, o) = heard[b][i]
<1>1. heard[b] \in Seq(Responses) /\ DOMAIN heard[b] = 1..Len(heard[b]) /\ Len(heard[b]) \in Nat
  BY DEF TypeInv
<1> DEFINE F(n) == heard[b][n].order = o /\ \A j \in 1..(n - 1) : heard[b][j].order # o
           c == CHOOSE n \in DOMAIN heard[b] : F(n)
<1>2. i \in DOMAIN heard[b] /\ F(i)
  BY <1>1 DEF FirstOf
<1>3. c \in DOMAIN heard[b] /\ F(c)
  BY <1>2
<1>4. c \in 1..Len(heard[b]) /\ i \in Int /\ c \in Int
  BY <1>1, <1>3
<1>5. FirstResponse(b, o) = heard[b][c]
  BY DEF FirstResponse
<1> HIDE DEF c
<1>6. c = i
  <2>1. CASE c < i
    BY <1>2, <1>3, <1>4, <2>1
  <2>2. CASE i < c
    BY <1>2, <1>3, <1>4, <2>2
  <2> QED
    BY <1>4, <2>1, <2>2
<1> QED
  BY <1>5, <1>6

LEMMA HandledIs ==
    ASSUME TypeInv, NEW b \in Bots, Mode(b)
    PROVE  DOMAIN Handled(b) = 1..Dealt(b)
<1>1. heard[b] \in Seq(Responses) /\ DOMAIN heard[b] = 1..Len(heard[b]) /\ Len(heard[b]) \in Nat
  BY DEF TypeInv
<1>2. CASE rpc[b] \in {"lookup", "record"}
  <2>1. heard[b] # <<>> /\ Len(heard[b]) >= 1
    BY <1>1, <1>2, EmptySeq DEF Mode
  <2>2. Len(heard[b]) - 1 \in Nat /\ Len(heard[b]) - 1 <= Len(heard[b])
    BY <1>1, <2>1
  <2>3. /\ SubSeq(heard[b], 1, Len(heard[b]) - 1) \in Seq(Responses)
        /\ Len(SubSeq(heard[b], 1, Len(heard[b]) - 1)) = Len(heard[b]) - 1
    BY <1>1, <2>2, Prefix
  <2>4. Handled(b) = SubSeq(heard[b], 1, Len(heard[b]) - 1)
    BY <1>2 DEF Handled, Front
  <2> QED
    BY <1>2, <2>3, <2>4 DEF Dealt
<1>3. CASE rpc[b] \notin {"lookup", "record"}
  BY <1>1, <1>3 DEF Handled, Dealt
<1> QED
  BY <1>2, <1>3

\* Whatever the engine answers, in whatever order and however often, an order is
\* measured at most once, by its first response, and every answered order is
\* measured: the pending entry made before the Send and taken out under the mutex
\* decides.
THEOREM FirstResponsesCount == Spec => []FirstResponseCounts
<1>1. FleetBotsInv => FirstResponseCounts
  <2>1. SUFFICES ASSUME FleetBotsInv, NEW b \in Bots
        PROVE  /\ \A k \in DOMAIN measured[b] :
                    /\ \A j \in DOMAIN measured[b] :
                         measured[b][j].order = measured[b][k].order => j = k
                    /\ \E j \in DOMAIN heard[b] : heard[b][j].order = measured[b][k].order
                    /\ measured[b][k].verdict = Verdict(b, measured[b][k].order,
                         FirstResponse(b, measured[b][k].order).status)
               /\ \A k \in DOMAIN Handled(b) :
                    heard[b][k].order # 0 =>
                      \E j \in DOMAIN measured[b] : measured[b][j].order = heard[b][k].order
    BY DEF FirstResponseCounts
  <2>2. /\ TypeInv /\ BotInv(b)
        /\ DOMAIN measured[b] = 1..Len(measured[b]) /\ DOMAIN heard[b] = 1..Len(heard[b])
    BY <2>1 DEF FleetBotsInv, TypeInv
  <2>3. ASSUME NEW k \in DOMAIN measured[b]
        PROVE  /\ \A j \in DOMAIN measured[b] :
                    measured[b][j].order = measured[b][k].order => j = k
               /\ \E j \in DOMAIN heard[b] : heard[b][j].order = measured[b][k].order
               /\ measured[b][k].verdict = Verdict(b, measured[b][k].order,
                    FirstResponse(b, measured[b][k].order).status)
    <3>1. PICK i \in 1..Len(heard[b]) :
            /\ FirstOf(b, i, measured[b][k].order)
            /\ measured[b][k].verdict = Verdict(b, measured[b][k].order, heard[b][i].status)
      BY <2>2 DEF BotInv, Once
    <3>2. FirstResponse(b, measured[b][k].order) = heard[b][i]
      BY <2>2, <3>1, FirstIs
    <3>3. heard[b][i].order = measured[b][k].order
      BY <3>1 DEF FirstOf
    <3>4. \A j \in DOMAIN measured[b] : measured[b][j].order = measured[b][k].order => j = k
      BY <2>2 DEF BotInv, Once
    <3> QED
      BY <2>2, <3>1, <3>2, <3>3, <3>4
  <2>4. ASSUME NEW k \in DOMAIN Handled(b), heard[b][k].order # 0
        PROVE  \E j \in DOMAIN measured[b] : measured[b][j].order = heard[b][k].order
    <3>1. k \in 1..Dealt(b)
      BY <2>2, HandledIs DEF BotInv
    <3>2. heard[b][k].order \in MeasuredOrders(b)
      BY <2>2, <2>4, <3>1 DEF BotInv, Answered
    <3> QED
      BY <2>2, <3>2 DEF MeasuredOrders
  <2> QED
    BY <2>3, <2>4
<1> QED
  BY <1>1, FleetInvariant, PTL

\* Run returns only after every bot has joined its receiver: once the judge
\* drains, nobody is left to record a metric.
THEOREM JoinedFleetIsQuiet == Spec => []JoinedIsQuiet
<1>1. FleetBotsInv => JoinedIsQuiet
  BY DEF FleetBotsInv, FleetInv, BotInv, Mode, JoinedIsQuiet
<1> QED
  BY <1>1, FleetInvariant, PTL

-----------------------------------------------------------------------------
(***************************************************************************)
(* The metrics on their way through the buffer                             *)
(***************************************************************************)

\* Every metric made so far, a bot's n-th one.
MadeMetrics == {m \in Metrics : m[2] \in 1..Len(measured[m[1]])}

\* Whether the metric was of a correct response.
VerdictOf(m) == measured[m[1]][m[2]].verdict

BufTypes ==
    /\ items \in Seq(Metrics) /\ Len(items) <= Capacity
    /\ out \in Seq(Metrics)
    /\ samples \in Seq(Samples(Latencies))

\* Each metric that was made is waiting, taken or refused, in one place, once.
Placed ==
    /\ ToSet(items) \cup ToSet(out) \cup refused = MadeMetrics
    /\ ToSet(items) \cap ToSet(out) = {}
    /\ ToSet(items) \cap refused = {}
    /\ ToSet(out) \cap refused = {}
    /\ IsInjective(items) /\ IsInjective(out)

\* There is a sample for each metric taken.
Sampled ==
    /\ Len(samples) = Len(out)
    /\ \A j \in 1..Len(out) : samples[j].verdict = VerdictOf(out[j])

\* The result is about all of them.
Summed ==
    fleet = "done" => items = <<>> /\ result = LocalStats(samples)

BufInv == BufTypes /\ Placed /\ Sampled /\ Summed

\* A metric of a bot becomes one more, and the earlier ones stay what they are.
LEMMA MadeMetricsIs ==
    ASSUME TypeInv, NEW b \in Bots, NEW order \in Nat, NEW status, RecordMetric(b, order, status)
    PROVE  /\ <<b, Len(measured[b]) + 1>> \in Metrics
           /\ MadeMetrics' = MadeMetrics \cup {<<b, Len(measured[b]) + 1>>}
           /\ \A m \in MadeMetrics : VerdictOf(m)' = VerdictOf(m)
<1> DEFINE n == Len(measured[b])
<1>1. [order |-> order, verdict |-> Verdict(b, order, status)] \in MetricRec
  BY DEF MetricRec, Verdict, Verdicts
<1>2. /\ measured'[b] =
           Append(measured[b], [order |-> order, verdict |-> Verdict(b, order, status)])
      /\ \A d \in Bots : d # b => measured'[d] = measured[d]
  BY RecordMetricIs
<1>3. measured[b] \in Seq(MetricRec) /\ n \in Nat
  BY DEF TypeInv
<1>4. Len(measured'[b]) = n + 1 /\ \A k \in 1..n : measured'[b][k] = measured[b][k]
  BY <1>1, <1>2, <1>3, AppendProperties
<1> HIDE DEF n
<1>5. /\ <<b, n + 1>> \in Metrics
      /\ \A m \in Metrics : m = <<m[1], m[2]>> /\ m[1] \in Bots /\ m[2] \in Nat
  BY <1>3 DEF Metrics
<1>6. ASSUME NEW m \in Metrics
      PROVE  m[2] \in 1..Len(measured'[m[1]]) <=>
               m[2] \in 1..Len(measured[m[1]]) \/ m = <<b, n + 1>>
  <2>1. CASE m[1] = b
    <3>1. m[2] \in 1..(n + 1) <=> m[2] \in 1..n \/ m[2] = n + 1
      BY <1>3, <1>5
    <3>2. m = <<b, n + 1>> <=> m[2] = n + 1
      BY <1>5, <2>1
    <3> QED
      BY <1>4, <2>1, <3>1, <3>2 DEF n
  <2>2. CASE m[1] # b
    BY <1>2, <1>5, <2>2
  <2> QED
    BY <2>1, <2>2
<1>7. MadeMetrics' = MadeMetrics \cup {<<b, n + 1>>}
  BY <1>5, <1>6 DEF MadeMetrics, Metrics
<1>8. ASSUME NEW m \in MadeMetrics PROVE measured'[m[1]][m[2]] = measured[m[1]][m[2]]
  <2>1. m[1] \in Bots /\ m[2] \in 1..Len(measured[m[1]])
    BY <1>5 DEF MadeMetrics
  <2>2. CASE m[1] = b
    BY <1>4, <2>1, <2>2 DEF n
  <2>3. CASE m[1] # b
    BY <1>2, <2>1, <2>3
  <2> QED
    BY <2>2, <2>3
<1> QED
  BY <1>5, <1>7, <1>8 DEF n, VerdictOf

\* Push.
LEMMA BufRecord ==
    ASSUME TypeInv, BufInv, fleet # "done", NEW b \in Bots, NEW order \in Nat, NEW status,
           RecordMetric(b, order, status), UNCHANGED <<fleet, samples, result>>
    PROVE  BufInv'
<1> DEFINE m == <<b, Len(measured[b]) + 1>>
<1>1. /\ m \in Metrics /\ MadeMetrics' = MadeMetrics \cup {m}
      /\ \A p \in MadeMetrics : VerdictOf(p)' = VerdictOf(p)
  BY MadeMetricsIs
<1>2. Buffer!Accept(m) \/ Buffer!Refuse(m)
  BY DEF RecordMetric
<1> HIDE DEF m
<1>3. /\ items \in Seq(Metrics) /\ out \in Seq(Metrics) /\ samples \in Seq(Samples(Latencies))
      /\ Len(items) \in Nat /\ Len(items) <= Capacity
      /\ ToSet(items) = {items[k] : k \in 1..Len(items)}
      /\ ToSet(out) = {out[k] : k \in 1..Len(out)}
  BY ToSetIsRange DEF BufInv, BufTypes
<1>4. m \notin refused \cup ToSet(items) \cup ToSet(out) /\ m \notin MadeMetrics /\ out' = out
  BY <1>2, <1>3 DEF BufInv, Placed, Buffer!Accept, Buffer!Refuse, Buffer!Seen
<1>5. \/ /\ items' = Append(items, m) /\ refused' = refused
         /\ Append(items, m) \in Seq(Metrics) /\ Len(Append(items, m)) <= Capacity
         /\ ToSet(Append(items, m)) = ToSet(items) \cup {m} /\ IsInjective(Append(items, m))
      \/ items' = items /\ refused' = refused \cup {m}
  <2>1. CASE Buffer!Accept(m)
    <3>1. items' = Append(items, m) /\ refused' = refused /\ Len(items) < Capacity
      BY <2>1 DEF Buffer!Accept
    <3>2. /\ Append(items, m) \in Seq(Metrics) /\ Len(Append(items, m)) = Len(items) + 1
          /\ ToSet(Append(items, m)) = ToSet(items) \cup {m}
      BY <1>1, <1>3, AppendProperties, ToSetAppend
    <3>3. IsInjective(Append(items, m))
      BY <1>1, <1>3, <1>4, InjectiveAppend DEF BufInv, Placed
    <3>4. Len(Append(items, m)) <= Capacity
      BY <1>3, <3>1, <3>2, FleetBounds
    <3> QED
      BY <3>1, <3>2, <3>3, <3>4
  <2>2. CASE Buffer!Refuse(m)
    BY <2>2 DEF Buffer!Refuse
  <2> QED
    BY <1>2, <2>1, <2>2
<1>6. BufTypes'
  BY <1>3, <1>4, <1>5 DEF BufTypes
<1>7. Placed'
  <2>1. CASE items' = Append(items, m) /\ refused' = refused
    BY <1>1, <1>4, <1>5, <2>1 DEF BufInv, Placed
  <2>2. CASE items' = items /\ refused' = refused \cup {m}
    BY <1>1, <1>4, <2>2 DEF BufInv, Placed
  <2> QED
    BY <1>5, <2>1, <2>2
<1>8. Sampled'
  <2>1. ASSUME NEW j \in 1..Len(out) PROVE samples[j].verdict = VerdictOf(out[j])'
    <3>1. out[j] \in MadeMetrics
      BY <1>3 DEF BufInv, Placed
    <3>2. samples[j].verdict = VerdictOf(out[j])
      BY DEF BufInv, Sampled
    <3>3. out'[j] = out[j]
      BY <1>4
    <3> QED
      BY <1>1, <3>1, <3>2, <3>3 DEF VerdictOf
  <2>2. Len(samples) = Len(out)
    BY DEF BufInv, Sampled
  <2> QED
    BY <1>4, <2>1, <2>2 DEF Sampled
<1>9. Summed'
  BY DEF Summed
<1> QED
  BY <1>6, <1>7, <1>8, <1>9 DEF BufInv

\* Pop, and the sample made of the metric.
LEMMA BufDrain ==
    ASSUME TypeInv, BufInv, Drain
    PROVE  BufInv'
<1> DEFINE m == Head(items)
<1>1. /\ items \in Seq(Metrics) /\ out \in Seq(Metrics) /\ samples \in Seq(Samples(Latencies))
      /\ Len(out) \in Nat /\ Len(items) \in Nat /\ Len(items) <= Capacity /\ items # <<>>
      /\ out' = Append(out, m) /\ items' = Tail(items)
      /\ UNCHANGED <<refused, measured, fleet>> /\ fleet # "done"
  BY DEF BufInv, BufTypes, Drain, Buffer!Take
<1>2. PICK us \in Latencies :
        samples' = Append(samples, [us |-> us, verdict |-> measured[m[1]][m[2]].verdict])
  BY DEF Drain
<1>3. /\ m \in Metrics /\ Tail(items) \in Seq(Metrics) /\ Len(Tail(items)) = Len(items) - 1
      /\ ToSet(items) = {m} \cup ToSet(Tail(items))
  BY <1>1, ToSetHeadTail
<1>4. IsInjective(Tail(items)) /\ m \notin ToSet(Tail(items))
  BY <1>1, InjectiveTail DEF BufInv, Placed
<1> HIDE DEF m
<1>5. /\ Append(out, m) \in Seq(Metrics) /\ ToSet(Append(out, m)) = ToSet(out) \cup {m}
      /\ Len(Append(out, m)) = Len(out) + 1 /\ Append(out, m)[Len(out) + 1] = m
      /\ \A j \in 1..Len(out) : Append(out, m)[j] = out[j]
  BY <1>1, <1>3, AppendProperties, ToSetAppend
<1>6. m \notin ToSet(out) /\ m \notin refused /\ m \in MadeMetrics
  BY <1>3 DEF BufInv, Placed
<1>7. IsInjective(Append(out, m))
  BY <1>1, <1>3, <1>6, InjectiveAppend DEF BufInv, Placed
<1>8. VerdictOf(m) \in Verdicts
  <2>1. m[1] \in Bots /\ m[2] \in 1..Len(measured[m[1]])
    BY <1>6 DEF MadeMetrics, Metrics
  <2>2. measured[m[1]] \in Seq(MetricRec)
    BY <2>1 DEF TypeInv
  <2>3. measured[m[1]][m[2]] \in MetricRec
    BY <2>1, <2>2
  <2> QED
    BY <2>3 DEF VerdictOf, MetricRec
<1> DEFINE r == [us |-> us, verdict |-> VerdictOf(m)]
<1>9. samples' = Append(samples, r)
  BY <1>2 DEF VerdictOf
<1>10. r \in Samples(Latencies) /\ r.verdict = VerdictOf(m)
  BY <1>8 DEF Samples
<1> HIDE DEF r
<1>11. /\ Append(samples, r) \in Seq(Samples(Latencies)) /\ Len(samples) \in Nat
       /\ Len(Append(samples, r)) = Len(samples) + 1 /\ Append(samples, r)[Len(samples) + 1] = r
       /\ \A j \in 1..Len(samples) : Append(samples, r)[j] = samples[j]
  BY <1>1, <1>10, AppendProperties
<1>12. BufTypes'
  BY <1>1, <1>3, <1>5, <1>9, <1>11, FleetBounds DEF BufTypes
<1>13. Placed'
  <2>1. MadeMetrics' = MadeMetrics
    BY <1>1 DEF MadeMetrics
  <2> QED
    BY <1>1, <1>3, <1>4, <1>5, <1>6, <1>7, <2>1 DEF BufInv, Placed
<1>14. Sampled'
  <2>1. Len(samples) = Len(out) /\ \A j \in 1..Len(out) : samples[j].verdict = VerdictOf(out[j])
    BY DEF BufInv, Sampled
  <2>2. ASSUME NEW j \in 1..(Len(out) + 1)
        PROVE  Append(samples, r)[j].verdict = VerdictOf(Append(out, m)[j])
    <3>1. CASE j = Len(out) + 1
      BY <1>5, <1>10, <1>11, <2>1, <3>1
    <3>2. CASE j \in 1..Len(out)
      BY <1>5, <1>11, <2>1, <3>2
    <3>3. Len(out) \in Nat
      BY <1>1
    <3>4. j = Len(out) + 1 \/ j \in 1..Len(out)
      BY <3>3
    <3> QED
      BY <3>1, <3>2, <3>4
  <2> QED
    BY <1>1, <1>5, <1>9, <1>11, <2>1, <2>2 DEF Sampled, VerdictOf
<1>15. Summed'
  BY <1>1 DEF Summed
<1> QED
  BY <1>12, <1>13, <1>14, <1>15 DEF BufInv

\* The statistics are about every sample.
LEMMA BufSummarise ==
    ASSUME BufInv, Summarise
    PROVE  BufInv'
<1>1. /\ items = <<>> /\ result' = LocalStats(samples)
      /\ UNCHANGED <<measured, items, out, refused, samples>>
  BY DEF Summarise, bufVars
<1>2. Summed'
  BY <1>1 DEF Summed
<1> QED
  BY <1>1, <1>2 DEF BufInv, BufTypes, Placed, MadeMetrics, Sampled, VerdictOf

\* Every other step leaves the metrics alone.
LEMMA BufKept ==
    ASSUME BufInv, UNCHANGED <<measured, items, out, refused, samples, result>>,
           fleet' = fleet \/ fleet' # "done"
    PROVE  BufInv'
BY DEF BufInv, BufTypes, Placed, MadeMetrics, Sampled, VerdictOf, Summed

\* The buffer's invariant needs the bots': no metric is made once the judge is done.
LEMMA BufStep ==
    ASSUME FleetBotsInv, BufInv, [Next]_vars
    PROVE  BufInv'
<1>0. TypeInv /\ "error" \in Statuses \cup {"error"}
  BY DEF FleetBotsInv
<1>1. \/ \E b \in Bots : Record(b)
      \/ \E b \in Bots : \E status \in Statuses \cup {"error"} : Called(b, status)
      \/ \E b \in Bots : \/ Recv(b) \/ RecvFails(b) \/ Lookup(b) \/ Open(b) \/ Tick(b)
                         \/ SendFails(b) \/ CtxDone(b) \/ RecvDone(b) \/ TickUnary(b)
                         \/ SendOk(b) \/ Answer(b) \/ StreamEnds(b)
      \/ Expire \/ Start \/ Join \/ Finished \/ vars' = vars
      \/ Drain \/ Summarise
  BY <1>0 DEF Next, Bot, Receiver, PlaceOrder, PlaceOrderCut, Judge
<1>2. ASSUME NEW b \in Bots, Record(b)
      PROVE  BufInv'
  <2>1. BotInv(b) /\ rpc[b] = "record"
    BY <1>2 DEF FleetBotsInv, Record
  <2>2. heard[b] # <<>>
    BY <2>1 DEF BotInv, Mode
  <2>3. fleet # "done"
    BY <2>1 DEF FleetBotsInv, FleetInv, BotInv, Mode
  <2>4. Response(b).order \in Nat /\ UNCHANGED <<fleet, samples, result>>
    BY <1>0, <1>2, <2>2, RecordIs
  <2>5. RecordMetric(b, Response(b).order, Response(b).status)
    BY <1>2 DEF Record
  <2> QED
    BY <1>0, <2>3, <2>4, <2>5, BufRecord
<1>3. ASSUME NEW b \in Bots, NEW status \in Statuses \cup {"error"}, Called(b, status)
      PROVE  BufInv'
  <2>1. pc[b] = "calling" /\ RecordMetric(b, seq[b], status) /\ UNCHANGED <<fleet, samples, result>>
    BY <1>0, <1>3, CalledIs
  <2>2. fleet # "done" /\ seq[b] \in Nat
    BY <2>1 DEF FleetBotsInv, FleetInv, TypeInv
  <2> QED
    BY <1>0, <2>1, <2>2, BufRecord
<1>4. ASSUME NEW b \in Bots,
             \/ Recv(b) \/ RecvFails(b) \/ Lookup(b) \/ Open(b) \/ Tick(b)
             \/ SendFails(b) \/ CtxDone(b) \/ RecvDone(b) \/ TickUnary(b)
             \/ SendOk(b) \/ Answer(b) \/ StreamEnds(b)
      PROVE  BufInv'
  <2>1. UNCHANGED <<fleet, measured, items, out, refused, samples, result>>
    BY <1>4 DEF Recv, RecvFails, Lookup, Open, Tick, SendFails, CtxDone, RecvDone, TickUnary,
                SendOk, Answer, StreamEnds, bufVars, judgeVars
  <2> QED
    BY <2>1, BufKept
<1>5. CASE Expire \/ Start \/ Join \/ Finished \/ vars' = vars
  <2>1. /\ UNCHANGED <<measured, items, out, refused, samples, result>>
        /\ fleet' = fleet \/ fleet' # "done"
    BY <1>5 DEF Expire, Start, Join, Finished, vars, bufVars, judgeVars
  <2> QED
    BY <2>1, BufKept
<1> QED
  BY <1>0, <1>1, <1>2, <1>3, <1>4, <1>5, BufDrain, BufSummarise

LEMMA BufInit ==
    ASSUME Init
    PROVE  BufInv
<1>1. items = <<>> /\ out = <<>> /\ refused = {} /\ samples = <<>> /\ fleet = "start"
  BY DEF Init, Buffer!Init
<1>2. MadeMetrics = {}
  BY DEF Init, MadeMetrics, Metrics
<1>3. Placed
  BY <1>1, <1>2, ToSetEmpty DEF Placed, IsInjective
<1>4. BufTypes
  <2>1. Capacity \in Nat
    BY FleetBounds
  <2> QED
    BY <1>1, <2>1, EmptySeq DEF BufTypes
<1> QED
  BY <1>1, <1>3, <1>4 DEF BufInv, Sampled, Summed

\* The two invariants together hold at every step.
THEOREM BufferInvariant == Spec => [](FleetBotsInv /\ BufInv)
<1>1. Init => FleetBotsInv /\ BufInv
  BY FleetInit, BufInit
<1>2. FleetBotsInv /\ BufInv /\ [Next]_vars => (FleetBotsInv /\ BufInv)'
  BY FleetStep, BufStep
<1> QED
  BY <1>1, <1>2, PTL DEF Spec

\* Orders, responses and metrics have their types and bounds in every state.
THEOREM FleetTypeCorrect == Spec => []TypeOK
<1>1. FleetBotsInv /\ BufInv => TypeOK
  <2>1. SUFFICES ASSUME FleetBotsInv, BufInv
                 PROVE  TypeOK
    OBVIOUS
  <2>2. ASSUME NEW b \in Bots
        PROVE  /\ seq[b] \in 0..Orders[b]
               /\ pending[b] \subseteq 1..seq[b]
               /\ wire[b] \subseteq 1..seq[b]
               /\ replies[b] \in Seq(Responses)
               /\ heard[b] \in Seq(Responses)
               /\ measured[b] \in Seq([order : 1..seq[b], verdict : Verdicts])
    <3>1. Bounds(b) /\ TypeInv
      BY <2>1 DEF FleetBotsInv, BotInv
    <3>2. seq[b] \in Nat /\ Orders[b] \in Nat /\ seq[b] <= Orders[b]
      BY <3>1, FleetBounds DEF TypeInv, Bounds
    <3>3. /\ measured[b] \in Seq(MetricRec) /\ Len(measured[b]) \in Nat
          /\ measured[b] \in [1..Len(measured[b]) -> MetricRec]
      BY <3>1 DEF TypeInv
    <3>4. ASSUME NEW k \in 1..Len(measured[b])
          PROVE  measured[b][k] \in [order : 1..seq[b], verdict : Verdicts]
      <4>1. measured[b][k] \in MetricRec /\ measured[b][k].order \in 1..seq[b]
        BY <3>1, <3>3 DEF Bounds, MeasuredOrders
      <4> QED
        BY <4>1 DEF MetricRec
    <3> DEFINE Recs == [order : 1..seq[b], verdict : Verdicts]
    <3>5. \A k \in 1..Len(measured[b]) : measured[b][k] \in Recs
      BY <3>4
    <3> HIDE DEF Recs
    <3>6. measured[b] \in [1..Len(measured[b]) -> Recs]
      BY <3>3, <3>5
    <3>7. measured[b] \in UNION {[1..n -> Recs] : n \in Nat}
      BY <3>3, <3>6
    <3>8. measured[b] \in Seq([order : 1..seq[b], verdict : Verdicts])
      BY <3>7, SeqDef DEF Recs
    <3> QED
      BY <3>1, <3>2, <3>8 DEF TypeInv, Bounds
  <2> QED
    BY <2>1, <2>2 DEF TypeOK, FleetBotsInv, TypeInv, BufInv, BufTypes
<1> QED
  BY <1>1, BufferInvariant, PTL

\* The result of a run is about every metric its bots made except the ones a full
\* buffer refused, and counts each of them once: none is lost between the bots, the
\* buffer and the drain, and none comes after it.
THEOREM ResultsCountEverything == Spec => []CountsEverything
<1>1. FleetBotsInv /\ BufInv => CountsEverything
  <2>1. SUFFICES ASSUME FleetBotsInv, BufInv, fleet = "done"
        PROVE  /\ \A b \in Bots : \A k \in DOMAIN measured[b] :
                    Cardinality({j \in DOMAIN out : out[j] = <<b, k>>}) =
                      (IF <<b, k>> \in refused THEN 0 ELSE 1)
               /\ result.count = Len(out)
               /\ result.correct = Cardinality({j \in DOMAIN out :
                    measured[out[j][1]][out[j][2]].verdict = "correct"})
    BY DEF CountsEverything
  <2>2. /\ items = <<>> /\ result = LocalStats(samples) /\ Len(samples) = Len(out)
        /\ ToSet(items) = {} /\ out \in Seq(Metrics) /\ samples \in Seq(Samples(Latencies))
        /\ DOMAIN out = 1..Len(out) /\ DOMAIN samples = 1..Len(samples)
    BY <2>1, ToSetEmpty DEF BufInv, Summed, Sampled, BufTypes
  <2>3. ToSet(out) = {out[j] : j \in DOMAIN out}
    BY <2>2, ToSetIsRange
  <2>4. ASSUME NEW b \in Bots, NEW k \in DOMAIN measured[b]
        PROVE  Cardinality({j \in DOMAIN out : out[j] = <<b, k>>}) =
                 (IF <<b, k>> \in refused THEN 0 ELSE 1)
    <3>1. <<b, k>> \in MadeMetrics
      <4>1. DOMAIN measured[b] = 1..Len(measured[b]) /\ Len(measured[b]) \in Nat
        BY <2>1 DEF FleetBotsInv, TypeInv
      <4> QED
        BY <4>1 DEF MadeMetrics, Metrics
    <3>2. CASE <<b, k>> \in refused
      <4>1. {j \in DOMAIN out : out[j] = <<b, k>>} = {}
        BY <2>1, <2>3, <3>2 DEF BufInv, Placed
      <4> QED
        BY <3>2, <4>1, FS_EmptySet
    <3>3. CASE <<b, k>> \notin refused
      <4>1. PICK i \in DOMAIN out : out[i] = <<b, k>>
        BY <2>1, <2>2, <2>3, <3>1, <3>3 DEF BufInv, Placed
      <4>2. {j \in DOMAIN out : out[j] = <<b, k>>} = {i}
        BY <2>1, <4>1 DEF BufInv, Placed, IsInjective
      <4> QED
        BY <3>3, <4>2, FS_Singleton
    <3> QED
      BY <3>2, <3>3
  <2>5. {j \in DOMAIN samples : samples[j].verdict = "correct"} =
          {j \in DOMAIN out : measured[out[j][1]][out[j][2]].verdict = "correct"}
    BY <2>1, <2>2 DEF BufInv, Sampled, VerdictOf
  <2>6. result.count = Len(samples) /\ result.correct = CountCorrect(samples)
    BY <2>2 DEF LocalStats
  <2> QED
    BY <2>2, <2>4, <2>5, <2>6 DEF CountCorrect
<1> QED
  BY <1>1, BufferInvariant, PTL

-----------------------------------------------------------------------------
(***************************************************************************)
(* The fleet and the judge as users of the buffer                          *)
(***************************************************************************)

\* A step offers one new metric to the buffer, by a bot under way, or takes one after
\* the join, or leaves the buffer alone.
LEMMA BufferUse ==
    ASSUME FleetBotsInv, [Next]_vars
    PROVE  \/ /\ fleet = "running"
              /\ \E m \in Metrics : Buffer!Accept(m) \/ Buffer!Refuse(m)
           \/ fleet \in {"joined", "failed"} /\ Buffer!Take
           \/ UNCHANGED <<items, out, refused>>
<1>0. TypeInv /\ FleetInv /\ \A b \in Bots : BotInv(b)
  BY DEF FleetBotsInv
<1>1. \/ \E b \in Bots : Record(b)
      \/ \E b \in Bots : \E status : Called(b, status)
      \/ \E b \in Bots : \/ Recv(b) \/ RecvFails(b) \/ Lookup(b) \/ Open(b) \/ Tick(b)
                         \/ SendFails(b) \/ CtxDone(b) \/ RecvDone(b) \/ TickUnary(b)
                         \/ SendOk(b) \/ Answer(b) \/ StreamEnds(b)
      \/ Expire \/ Start \/ Join \/ Finished \/ Summarise \/ vars' = vars
      \/ Drain
  BY DEF Next, Bot, Receiver, PlaceOrder, PlaceOrderCut, Judge
<1>2. ASSUME NEW b \in Bots, NEW order, NEW status, RecordMetric(b, order, status)
      PROVE  \E m \in Metrics : Buffer!Accept(m) \/ Buffer!Refuse(m)
  <2> DEFINE m == <<b, Len(measured[b]) + 1>>
  <2>1. Buffer!Accept(m) \/ Buffer!Refuse(m)
    BY <1>2 DEF RecordMetric
  <2>2. m \in Metrics
    <3>1. Len(measured[b]) \in Nat
      BY <1>0 DEF TypeInv
    <3> QED
      BY <3>1 DEF Metrics
  <2> HIDE DEF m
  <2> QED
    BY <2>1, <2>2
<1>3. ASSUME NEW b \in Bots, Record(b)
      PROVE  fleet = "running" /\ \E m \in Metrics : Buffer!Accept(m) \/ Buffer!Refuse(m)
  <2>1. rpc[b] = "record" /\ \E order, status : RecordMetric(b, order, status)
    BY <1>3 DEF Record
  <2>2. fleet = "running"
    BY <1>0, <2>1 DEF FleetInv, BotInv, Mode
  <2> QED
    BY <1>2, <2>1, <2>2
<1>4. ASSUME NEW b \in Bots, NEW status, Called(b, status)
      PROVE  fleet = "running" /\ \E m \in Metrics : Buffer!Accept(m) \/ Buffer!Refuse(m)
  <2>1. pc[b] = "calling" /\ \E order : RecordMetric(b, order, status)
    BY <1>4 DEF Called
  <2>2. fleet = "running"
    BY <1>0, <2>1 DEF FleetInv
  <2> QED
    BY <1>2, <2>1, <2>2
<1>5. ASSUME NEW b \in Bots,
             \/ Recv(b) \/ RecvFails(b) \/ Lookup(b) \/ Open(b) \/ Tick(b)
             \/ SendFails(b) \/ CtxDone(b) \/ RecvDone(b) \/ TickUnary(b)
             \/ SendOk(b) \/ Answer(b) \/ StreamEnds(b)
      PROVE  UNCHANGED <<items, out, refused>>
  BY <1>5 DEF Recv, RecvFails, Lookup, Open, Tick, SendFails, CtxDone, RecvDone, TickUnary,
              SendOk, Answer, StreamEnds, bufVars
<1>6. CASE Expire \/ Start \/ Join \/ Finished \/ Summarise \/ vars' = vars
  BY <1>6 DEF Expire, Start, Join, Finished, Summarise, vars, bufVars
<1>7. CASE Drain
  BY <1>7 DEF Drain
<1> QED
  BY <1>1, <1>3, <1>4, <1>5, <1>6, <1>7

\* The metric that a bot would offer next has not been offered before.
OffersAreNew == \A b \in Bots : <<b, Len(measured[b]) + 1>> \notin Buffer!Seen

LEMMA OffersNew ==
    ASSUME TypeInv, Placed
    PROVE  OffersAreNew
<1> SUFFICES ASSUME NEW b \in Bots PROVE <<b, Len(measured[b]) + 1>> \notin Buffer!Seen
  BY DEF OffersAreNew
<1> DEFINE n == Len(measured[b])
<1>1. n \in Nat
  BY DEF TypeInv
<1>2. Buffer!Seen = MadeMetrics
  <2>1. /\ ToSet(items) = {items[k] : k \in 1..Len(items)}
        /\ ToSet(out) = {out[k] : k \in 1..Len(out)}
    BY DEF ToSet
  <2> QED
    BY <2>1 DEF Placed, Buffer!Seen
<1>3. <<b, n + 1>> \notin MadeMetrics
  <2>1. n + 1 \notin 1..n
    BY <1>1
  <2> HIDE DEF n
  <2>2. <<b, n + 1>>[1] = b /\ <<b, n + 1>>[2] = n + 1
    OBVIOUS
  <2> QED
    BY <2>1, <2>2 DEF MadeMetrics, n
<1> QED
  BY <1>2, <1>3

\* What the bots and the judge do to the buffer is a behaviour of the bounded queue,
\* and the queue's condition that a metric is offered once never holds a bot up: each
\* call of TryPush comes with a metric of its own.
THEOREM FleetUsesTheQueue == Spec => Buffer!Spec /\ []OffersAreNew
<1>1. Init => Buffer!Init
  BY DEF Init
<1>2. FleetBotsInv /\ [Next]_vars => [Buffer!Next]_(Buffer!vars)
  <2>1. SUFFICES ASSUME FleetBotsInv, [Next]_vars
        PROVE  Buffer!Next \/ UNCHANGED <<items, out, refused>>
    BY DEF Buffer!vars
  <2>2. CASE \E m \in Metrics : Buffer!Accept(m) \/ Buffer!Refuse(m)
    BY <2>2 DEF Buffer!Next
  <2>3. CASE Buffer!Take
    BY <2>3 DEF Buffer!Next
  <2> QED
    BY <2>1, <2>2, <2>3, BufferUse
<1>3. FleetBotsInv /\ BufInv => OffersAreNew
  BY OffersNew DEF FleetBotsInv, BufInv
<1> QED
  BY <1>1, <1>2, <1>3, FleetInvariant, BufferInvariant, PTL DEF Spec, Buffer!Spec

\* The two sides of the buffer are never at work together: a metric is taken only
\* when no bot and no receiver is under way, and offered only while Run is.
SidesApart ==
    /\ out' # out => \A b \in Bots : pc[b] \in {"open", "returned"} /\ rpc[b] \in {"none", "done"}
    /\ out' = out /\ (items' # items \/ refused' # refused) => fleet = "running"

\* drainRingBuffer runs after botfleet.Run has returned: the judge is the only
\* goroutine at the buffer, as its PopInto presumes.
THEOREM DrainIsAlone == Spec => [][SidesApart]_vars
<1>1. FleetBotsInv /\ BufInv /\ [Next]_vars => SidesApart
  <2>1. SUFFICES ASSUME FleetBotsInv, BufInv, [Next]_vars PROVE SidesApart
    OBVIOUS
  <2>2. CASE /\ fleet = "running"
             /\ \E m \in Metrics : Buffer!Accept(m) \/ Buffer!Refuse(m)
    BY <2>2 DEF SidesApart, Buffer!Accept, Buffer!Refuse
  <2>3. CASE fleet \in {"joined", "failed"} /\ Buffer!Take
    <3>1. \A b \in Bots : pc[b] \in {"open", "returned"} /\ rpc[b] \in {"none", "done"}
      BY <2>1, <2>3 DEF FleetBotsInv, FleetInv, BotInv, Mode
    <3>2. out' # out
      <4>1. out \in Seq(Metrics) /\ Head(items) \in Metrics /\ out' = Append(out, Head(items))
        BY <2>1, <2>3, HeadTailProperties DEF BufInv, BufTypes, Buffer!Take
      <4>2. Len(out') = Len(out) + 1 /\ Len(out) \in Nat
        BY <4>1, AppendProperties
      <4> QED
        BY <4>2
    <3> QED
      BY <3>1, <3>2 DEF SidesApart
  <2>4. CASE UNCHANGED <<items, out, refused>>
    BY <2>4 DEF SidesApart
  <2> QED
    BY <2>1, <2>2, <2>3, <2>4, BufferUse
<1> QED
  BY <1>1, BufferInvariant, PTL DEF Spec

-----------------------------------------------------------------------------
(***************************************************************************)
(* The results of runs                                                     *)
(***************************************************************************)

\* The samples of a run are samples.
LEMMA SamplesOfRuns ==
    ASSUME samples \in Seq(Samples(Latencies))
    PROVE  samples \in Seq(Samples(Int))
<1>1. Samples(Latencies) \subseteq Samples(Int)
  BY FleetBounds DEF Samples
<1> QED
  BY <1>1, SeqSubset

\* The result of a run is complete: it is about all the metrics, computed when no
\* more can come, and its percentiles are right.
THEOREM ResultsAreComplete == Spec => []ResultIsComplete
<1>1. FleetBotsInv /\ BufInv => (fleet = "done" => PercentilesAt(result, Measured(samples)))
  BY SamplesOfRuns, PercentilesAtRanks DEF BufInv, BufTypes, Summed
<1> QED
  BY <1>1, BufferInvariant, JoinedFleetIsQuiet, ResultsCountEverything, PTL DEF ResultIsComplete

\* The statistics of a run agree with a leaderboard window over its samples, as
\* those of any other samples do.
THEOREM StatisticsAlwaysAgree == Spec => []StatisticsAgree
<1>1. BufInv => StatisticsAgree
  BY SamplesOfRuns, RunsAndWindowsAgree, FleetBounds DEF BufInv, BufTypes, StatisticsAgree
<1> QED
  BY <1>1, BufferInvariant, PTL
=============================================================================
