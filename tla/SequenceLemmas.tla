--------------------------- MODULE SequenceLemmas ---------------------------
(***************************************************************************)
(* Lemmas about finite sequences that the proofs of several components     *)
(* share: the elements of a sequence after it grew or shrank at an end.    *)
(***************************************************************************)
EXTENDS Integers, Sequences, SequencesExt, SequenceTheorems, WellFoundedInduction, TLAPS

\* The elements of a sequence, by their positions.
LEMMA ToSetIsRange ==
    ASSUME NEW S, NEW s \in Seq(S)
    PROVE  ToSet(s) = {s[j] : j \in 1..Len(s)} /\ ToSet(s) \subseteq S
BY DEF ToSet

\* An empty sequence has none.
LEMMA ToSetEmpty == ToSet(<<>>) = {}
BY DEF ToSet

\* A sequence grows at its end.
LEMMA ToSetAppend ==
    ASSUME NEW S, NEW s \in Seq(S), NEW e \in S
    PROVE  ToSet(Append(s, e)) = ToSet(s) \cup {e}
<1>1. /\ Append(s, e) \in Seq(S) /\ Len(Append(s, e)) = Len(s) + 1 /\ Len(s) \in Nat
      /\ Append(s, e)[Len(s) + 1] = e
      /\ \A j \in 1..Len(s) : Append(s, e)[j] = s[j]
  OBVIOUS
<1>2. ToSet(Append(s, e)) = {Append(s, e)[j] : j \in 1..(Len(s) + 1)}
  BY <1>1, ToSetIsRange
<1>3. ToSet(s) = {s[j] : j \in 1..Len(s)}
  BY ToSetIsRange
<1>4. ASSUME NEW j \in 1..(Len(s) + 1) PROVE Append(s, e)[j] \in ToSet(s) \cup {e}
  <2>1. CASE j = Len(s) + 1
    BY <1>1, <2>1
  <2>2. CASE j \in 1..Len(s)
    BY <1>1, <1>3, <2>2
  <2> QED
    BY <1>1, <2>1, <2>2
<1>5. ASSUME NEW j \in 1..Len(s) PROVE s[j] \in ToSet(Append(s, e))
  BY <1>1, <1>2
<1>6. e \in ToSet(Append(s, e))
  BY <1>1, <1>2
<1> QED
  BY <1>2, <1>3, <1>4, <1>5, <1>6

\* A sequence loses its head.
LEMMA ToSetHeadTail ==
    ASSUME NEW S, NEW s \in Seq(S), s # <<>>
    PROVE  /\ Head(s) \in S /\ Tail(s) \in Seq(S) /\ Len(Tail(s)) = Len(s) - 1
           /\ ToSet(s) = {Head(s)} \cup ToSet(Tail(s))
<1>1. /\ Head(s) \in S /\ Tail(s) \in Seq(S) /\ Len(Tail(s)) = Len(s) - 1
      /\ \A j \in 1..Len(Tail(s)) : Tail(s)[j] = s[j + 1]
      /\ Len(s) \in Nat /\ Len(s) >= 1 /\ Head(s) = s[1]
  BY HeadTailProperties, EmptySeq, LenProperties
<1>2. /\ ToSet(s) = {s[j] : j \in 1..Len(s)}
      /\ ToSet(Tail(s)) = {Tail(s)[j] : j \in 1..(Len(s) - 1)}
  BY <1>1, ToSetIsRange
<1>3. ASSUME NEW j \in 1..Len(s) PROVE s[j] \in {Head(s)} \cup ToSet(Tail(s))
  <2>1. CASE j = 1
    BY <1>1, <2>1
  <2>2. CASE j - 1 \in 1..(Len(s) - 1)
    <3>1. Tail(s)[j - 1] = s[(j - 1) + 1] /\ (j - 1) + 1 = j
      BY <1>1, <2>2
    <3> QED
      BY <1>2, <2>2, <3>1
  <2> QED
    BY <1>1, <2>1, <2>2
<1>4. ASSUME NEW j \in 1..(Len(s) - 1) PROVE Tail(s)[j] \in ToSet(s)
  <2>1. j + 1 \in 1..Len(s) /\ Tail(s)[j] = s[j + 1]
    BY <1>1
  <2> QED
    BY <1>2, <2>1
<1>5. Head(s) \in ToSet(s)
  BY <1>1, <1>2
<1> QED
  BY <1>1, <1>2, <1>3, <1>4, <1>5

\* A sequence grows at its head.
LEMMA ToSetPush ==
    ASSUME NEW S, NEW s \in Seq(S), NEW e \in S
    PROVE  <<e>> \o s \in Seq(S) /\ ToSet(<<e>> \o s) = {e} \cup ToSet(s)
<1> DEFINE es == <<e>> \o s
<1>1. /\ es \in Seq(S) /\ Len(es) = 1 + Len(s) /\ es[1] = e /\ Len(s) \in Nat
      /\ \A j \in 2..Len(es) : es[j] = s[j - 1]
  OBVIOUS
<1> HIDE DEF es
<1>2. ToSet(es) = {es[j] : j \in 1..Len(es)} /\ ToSet(s) = {s[j] : j \in 1..Len(s)}
  BY <1>1, ToSetIsRange
<1>3. ASSUME NEW j \in 1..Len(es) PROVE es[j] \in {e} \cup ToSet(s)
  <2>1. CASE j = 1
    BY <1>1, <2>1
  <2>2. CASE j # 1
    <3>1. j \in 2..Len(es) /\ j - 1 \in 1..Len(s)
      BY <1>1, <2>2
    <3> QED
      BY <1>1, <1>2, <3>1
  <2> QED
    BY <2>1, <2>2
<1>4. ASSUME NEW j \in 1..Len(s) PROVE s[j] \in ToSet(es)
  <2>1. j + 1 \in 2..Len(es) /\ j + 1 \in 1..Len(es) /\ (j + 1) - 1 = j
    BY <1>1
  <2>2. es[j + 1] = s[j]
    BY <1>1, <2>1
  <2> QED
    BY <1>2, <2>1, <2>2
<1>5. e \in ToSet(es)
  BY <1>1, <1>2
<1>6. ToSet(es) = {e} \cup ToSet(s)
  BY <1>2, <1>3, <1>4, <1>5
<1> QED
  BY <1>1, <1>6 DEF es

\* What a prefix of a sequence has of it.
LEMMA Prefix ==
    ASSUME NEW S, NEW s \in Seq(S), NEW k \in Nat, k <= Len(s)
    PROVE  /\ SubSeq(s, 1, k) \in Seq(S) /\ Len(SubSeq(s, 1, k)) = k
           /\ \A j \in 1..k : SubSeq(s, 1, k)[j] = s[j]
           /\ ToSet(SubSeq(s, 1, k)) \subseteq ToSet(s)
<1>1. Len(s) \in Nat /\ \A j \in 1..k : j \in 1..Len(s) /\ s[j] \in S
  OBVIOUS
<1>2. /\ SubSeq(s, 1, k) \in Seq(S)
      /\ Len(SubSeq(s, 1, k)) = IF 1 <= k THEN k - 1 + 1 ELSE 0
      /\ \A j \in 1..(k - 1 + 1) : SubSeq(s, 1, k)[j] = s[1 + j - 1]
  BY <1>1, SubSeqProperties
<1>3. Len(SubSeq(s, 1, k)) = k /\ \A j \in 1..k : SubSeq(s, 1, k)[j] = s[j]
  BY <1>1, <1>2
<1>4. ToSet(SubSeq(s, 1, k)) = {SubSeq(s, 1, k)[j] : j \in 1..k}
  BY <1>2, <1>3, ToSetIsRange
<1>5. ToSet(s) = {s[j] : j \in 1..Len(s)}
  BY ToSetIsRange
<1> QED
  BY <1>1, <1>2, <1>3, <1>4, <1>5

\* A sequence without repetitions stays one when a new element is appended.
LEMMA InjectiveAppend ==
    ASSUME NEW S, NEW s \in Seq(S), NEW e \in S, IsInjective(s), e \notin ToSet(s)
    PROVE  IsInjective(Append(s, e))
<1> DEFINE t == Append(s, e)
<1>1. /\ t \in Seq(S) /\ Len(t) = Len(s) + 1 /\ Len(s) \in Nat /\ t[Len(s) + 1] = e
      /\ \A j \in 1..Len(s) : t[j] = s[j]
      /\ DOMAIN t = 1..Len(t) /\ DOMAIN s = 1..Len(s)
  OBVIOUS
<1>2. \A j \in 1..Len(s) : s[j] # e
  BY ToSetIsRange
<1> HIDE DEF t
<1>3. ASSUME NEW j \in 1..Len(t), NEW k \in 1..Len(t), t[j] = t[k]
      PROVE  j = k
  <2>1. CASE j \in 1..Len(s) /\ k \in 1..Len(s)
    BY <1>1, <1>3, <2>1 DEF IsInjective
  <2>2. CASE j = Len(s) + 1 /\ k \in 1..Len(s)
    BY <1>1, <1>2, <1>3, <2>2
  <2>3. CASE j \in 1..Len(s) /\ k = Len(s) + 1
    BY <1>1, <1>2, <1>3, <2>3
  <2> QED
    BY <1>1, <2>1, <2>2, <2>3
<1>4. IsInjective(t)
  BY <1>1, <1>3 DEF IsInjective
<1> QED
  BY <1>4 DEF t

\* And when its head is taken off, which is then in it no more.
LEMMA InjectiveTail ==
    ASSUME NEW S, NEW s \in Seq(S), s # <<>>, IsInjective(s)
    PROVE  IsInjective(Tail(s)) /\ Head(s) \notin ToSet(Tail(s))
<1> DEFINE t == Tail(s)
<1>1. /\ t \in Seq(S) /\ Len(t) = Len(s) - 1 /\ Len(s) \in Nat /\ Head(s) = s[1]
      /\ \A j \in 1..Len(t) : t[j] = s[j + 1]
      /\ DOMAIN t = 1..Len(t) /\ DOMAIN s = 1..Len(s) /\ Len(s) >= 1
  BY HeadTailProperties, EmptySeq, LenProperties
<1> HIDE DEF t
<1>2. ASSUME NEW j \in 1..Len(t), NEW k \in 1..Len(t), t[j] = t[k]
      PROVE  j = k
  <2>1. j + 1 \in DOMAIN s /\ k + 1 \in DOMAIN s /\ s[j + 1] = s[k + 1]
    BY <1>1, <1>2
  <2> QED
    BY <2>1 DEF IsInjective
<1>3. ASSUME NEW j \in 1..Len(t) PROVE t[j] # Head(s)
  <2>1. j + 1 \in DOMAIN s /\ 1 \in DOMAIN s /\ t[j] = s[j + 1] /\ j + 1 # 1
    BY <1>1
  <2> QED
    BY <1>1, <2>1 DEF IsInjective
<1>4. ToSet(t) = {t[j] : j \in 1..Len(t)}
  BY <1>1, ToSetIsRange
<1>5. IsInjective(t) /\ Head(s) \notin ToSet(t)
  BY <1>1, <1>2, <1>3, <1>4 DEF IsInjective
<1> QED
  BY <1>5 DEF t
\* A sequence over a set is one over a larger set.
LEMMA SeqSubset ==
    ASSUME NEW S, NEW T, S \subseteq T, NEW s \in Seq(S)
    PROVE  s \in Seq(T)
<1>1. s \in [1..Len(s) -> S] /\ Len(s) \in Nat
  OBVIOUS
<1>2. s \in [1..Len(s) -> T]
  BY <1>1
<1>3. s \in UNION {[1..n -> T] : n \in Nat}
  BY <1>1, <1>2
<1> QED
  BY <1>3, SeqDef

-----------------------------------------------------------------------------
(***************************************************************************)
(* Induction over a bounded set of numbers, from the least counterexample, *)
(* and loops over a sequence                                               *)
(***************************************************************************)

\* A set that has 0 and the successor of each of its numbers below N has them all.
LEMMA UpToInduction ==
    ASSUME NEW N \in Nat, NEW T, 0 \in T,
           \A n \in 0..(N - 1) : n \in T => n + 1 \in T
    PROVE  0..N \subseteq T
<1> DEFINE R == {ss \in Nat \X Nat : ss[1] < ss[2]}
           Bad == {n \in 0..N : n \notin T}
<1>1. SUFFICES ASSUME Bad # {} PROVE FALSE
  OBVIOUS
<1>2. IsWellFoundedOn(R, Nat)
  BY NatLessThanWellFounded DEF OpToRel
<1>3. PICK x \in Bad : \A y \in Bad : ~ (<<y, x>> \in R)
  <2>1. Bad \subseteq Nat
    OBVIOUS
  <2> HIDE DEF R, Bad
  <2> QED
    BY <1>1, <1>2, <2>1, WFMin
<1>4. x \in 0..N /\ x \notin T /\ x \in Nat /\ x # 0
  BY <1>3
<1>5. x - 1 \in 0..(N - 1) /\ x - 1 \in Nat /\ x - 1 < x
  BY <1>4
<1>6. x - 1 \in T
  <2>1. <<x - 1, x>> \in R
    BY <1>4, <1>5
  <2> QED
    BY <1>3, <1>4, <1>5, <2>1
<1>7. (x - 1) + 1 \in T /\ (x - 1) + 1 = x
  BY <1>4, <1>5, <1>6
<1> QED
  BY <1>4, <1>7

\* f is the course of a loop over s: its value before the first element, and
\* after the first n.
IsLoop(f, S, s, base, g) ==
    /\ f \in [0..Len(s) -> S]
    /\ f[0] = base
    /\ \A n \in 1..Len(s) : f[n] = g[f[n - 1]][s[n]]

LEMMA LoopFunction ==
    ASSUME NEW S, NEW T, NEW s \in Seq(T), NEW base \in S, NEW g \in [S -> [T -> S]]
    PROVE  \E f : IsLoop(f, S, s, base, g)
<1> DEFINE Up(f, m) == f[0] = base /\ \A n \in 1..m : f[n] = g[f[n - 1]][s[n]]
           Good == {m \in 0..Len(s) : \E f \in [0..m -> S] : Up(f, m)}
<1>1. Len(s) \in Nat /\ \A n \in 1..Len(s) : s[n] \in T
  OBVIOUS
<1>2. 0 \in Good
  <2> DEFINE z == [n \in 0..0 |-> base]
  <2>1. z \in [0..0 -> S] /\ Up(z, 0)
    OBVIOUS
  <2>2. \E f \in [0..0 -> S] : Up(f, 0)
    <3> HIDE DEF z, Up
    <3> QED
      BY <2>1
  <2> HIDE DEF Up
  <2> QED
    BY <1>1, <2>2
<1>3. ASSUME NEW m \in 0..(Len(s) - 1), m \in Good PROVE m + 1 \in Good
  <2>1. PICK f \in [0..m -> S] : Up(f, m)
    BY <1>3
  <2> DEFINE h == [n \in 0..(m + 1) |-> IF n = m + 1 THEN g[f[m]][s[m + 1]] ELSE f[n]]
  <2>2. m \in Nat /\ m + 1 \in 1..Len(s) /\ m + 1 \in 0..Len(s) /\ m \in 0..m
    BY <1>1
  <2>3. g[f[m]][s[m + 1]] \in S
    BY <1>1, <2>1, <2>2
  <2>4. h \in [0..(m + 1) -> S]
    BY <2>2, <2>3
  <2>5. \A n \in 0..m : h[n] = f[n]
    BY <2>2
  <2>6. h[m + 1] = g[h[m]][s[m + 1]]
    <3>1. m + 1 \in 0..(m + 1) /\ h[m] = f[m]
      BY <2>2, <2>5
    <3>2. h[m + 1] = g[f[m]][s[m + 1]]
      BY <3>1
    <3> QED
      BY <3>1, <3>2
  <2>7. ASSUME NEW n \in 1..(m + 1) PROVE h[n] = g[h[n - 1]][s[n]]
    <3>1. CASE n = m + 1
      BY <2>2, <2>6, <3>1
    <3>2. CASE n \in 1..m
      <4>1. n \in 0..m /\ n - 1 \in 0..m
        BY <2>2, <3>2
      <4> QED
        BY <2>1, <2>5, <3>2, <4>1
    <3> QED
      BY <2>2, <3>1, <3>2
  <2>8. h[0] = base
    BY <2>1, <2>2, <2>5
  <2>9. Up(h, m + 1)
    BY <2>7, <2>8
  <2> HIDE DEF h, Up
  <2> QED
    BY <2>2, <2>4, <2>9
<1>4. Len(s) \in Good
  <2> HIDE DEF Good
  <2>1. 0..Len(s) \subseteq Good
    BY <1>1, <1>2, <1>3, UpToInduction
  <2> QED
    BY <1>1, <2>1
<1>5. PICK f \in [0..Len(s) -> S] : Up(f, Len(s))
  BY <1>4
<1> QED
  BY <1>5 DEF IsLoop

\* What holds before a loop and is kept by each turn of it holds throughout: T has
\* the numbers of the turns after which it holds.
LEMMA LoopTyped ==
    ASSUME NEW N \in Nat, NEW S, NEW f, f[0] \in S,
           \A n \in 1..N : f[n - 1] \in S => f[n] \in S
    PROVE  \A n \in 0..N : f[n] \in S
<1> DEFINE T == {n \in 0..N : f[n] \in S}
<1>1. 0 \in T
  OBVIOUS
<1>2. ASSUME NEW n \in 0..(N - 1), n \in T PROVE n + 1 \in T
  <2>1. n + 1 \in 1..N /\ n + 1 \in 0..N /\ (n + 1) - 1 = n
    OBVIOUS
  <2> QED
    BY <1>2, <2>1
<1>3. 0..N \subseteq T
  <2> HIDE DEF T
  <2> QED
    BY <1>1, <1>2, UpToInduction
<1> QED
  BY <1>3
=============================================================================
