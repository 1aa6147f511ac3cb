------------------------- MODULE LeaderboardProofs --------------------------
(***************************************************************************)
(* Proofs about Leaderboard, for any contestants, ingesters and bounds:    *)
(* ranks match details, refreshed rows are fresh, a reset is complete, and *)
(* the trim of a single ingester keeps the best.                           *)
(***************************************************************************)
EXTENDS Leaderboard, SequenceLemmas, FiniteSetTheorems

-----------------------------------------------------------------------------
(***************************************************************************)
(* The pipeline of a flush                                                 *)
(***************************************************************************)

Command == [op : {"ZADD", "SET", "PUBLISH"}, of : Contestants, row : Rows]

\* The commands of a window follow each other, and the last one announces it.
Chain(t) ==
    \A k \in 1..Len(t) :
        /\ t[k].op # "PUBLISH" =>
             /\ k + 1 \in 1..Len(t)
             /\ t[k + 1].of = t[k].of
             /\ t[k + 1].row = t[k].row
             /\ t[k].op = "ZADD" => t[k + 1].op = "SET"
             /\ t[k].op = "SET" => t[k + 1].op = "PUBLISH"
        /\ t[k].op = "PUBLISH" /\ k + 1 \in 1..Len(t) => t[k + 1].op = "ZADD"

\* Every command is about a window of this number and a contestant of g.
OfWindow(t, g, n) == \A k \in 1..Len(t) : Home[t[k].of] = g /\ t[k].row.ver = n

OpAt(k) == IF k % 3 = 1 THEN "ZADD" ELSE IF k % 3 = 2 THEN "SET" ELSE "PUBLISH"
WindowAt(k) == (k + 2) \div 3

\* Where the commands of a window are in the pipeline.
LEMMA PlaceInPipeline ==
    ASSUME NEW size \in Nat, NEW k \in 1..(3 * size)
    PROVE  /\ WindowAt(k) \in 1..size
           /\ OpAt(1) = "ZADD"
           /\ OpAt(k) = "PUBLISH" => OpAt(k + 1) = "ZADD"
           /\ OpAt(k) # "PUBLISH" =>
                /\ k + 1 \in 1..(3 * size) /\ WindowAt(k + 1) = WindowAt(k)
                /\ OpAt(k) = "ZADD" => OpAt(k + 1) = "SET"
                /\ OpAt(k) = "SET" => OpAt(k + 1) = "PUBLISH"
<1>1. WindowAt(k) \in 1..size
  BY DEF WindowAt
<1>2. ASSUME OpAt(k) # "PUBLISH"
      PROVE  k + 1 \in 1..(3 * size) /\ WindowAt(k + 1) = WindowAt(k)
  <2>1. k % 3 = 1 \/ k % 3 = 2
    BY <1>2 DEF OpAt
  <2> QED
    BY <2>1 DEF WindowAt
<1>3. /\ OpAt(1) = "ZADD"
      /\ OpAt(k) = "PUBLISH" => OpAt(k + 1) = "ZADD"
      /\ OpAt(k) = "ZADD" => OpAt(k + 1) = "SET"
      /\ OpAt(k) = "SET" => OpAt(k + 1) = "PUBLISH"
  BY DEF OpAt
<1> QED
  BY <1>1, <1>2, <1>3

\* The command at each place.
LEMMA CommandAt ==
    ASSUME NEW k \in Nat, NEW c, NEW row
    PROVE  Commands(c, row)[((k - 1) % 3) + 1] = [op |-> OpAt(k), of |-> c, row |-> row]
<1>1. /\ k % 3 = 1 => ((k - 1) % 3) + 1 = 1
      /\ k % 3 = 2 => ((k - 1) % 3) + 1 = 2
      /\ k % 3 = 0 => ((k - 1) % 3) + 1 = 3
      /\ k % 3 \in {0, 1, 2}
  OBVIOUS
<1>2. /\ Commands(c, row)[1] = [op |-> "ZADD", of |-> c, row |-> row]
      /\ Commands(c, row)[2] = [op |-> "SET", of |-> c, row |-> row]
      /\ Commands(c, row)[3] = [op |-> "PUBLISH", of |-> c, row |-> row]
  BY DEF Commands
<1> QED
  BY <1>1, <1>2 DEF OpAt

\* A pipeline of at least one window is a chain of commands.
LEMMA PipelineIsChain ==
    ASSUME NEW g \in Ingesters, NEW n \in 1..MaxWindows,
           NEW order, NEW rows, NEW size \in Nat \ {0},
           order \in [1..size -> Contestants],
           \A i \in 1..size : /\ Home[order[i]] = g
                              /\ rows[order[i]] \in Rows /\ rows[order[i]].ver = n
    PROVE  /\ Pipeline(order, rows) \in Seq(Command) /\ Pipeline(order, rows) # <<>>
           /\ Chain(Pipeline(order, rows)) /\ OfWindow(Pipeline(order, rows), g, n)
           /\ Pipeline(order, rows)[1].op = "ZADD"
<1>1. Len(order) = size
  <2>1. order \in Seq(Contestants)
    BY SeqDef
  <2> QED
    BY <2>1, LenProperties
<1> DEFINE t == Pipeline(order, rows)
<1>2. /\ DOMAIN t = 1..(3 * size)
      /\ t = [k \in 1..(3 * size) |-> t[k]]
      /\ \A k \in 1..(3 * size) :
           t[k] = Commands(order[WindowAt(k)], rows[order[WindowAt(k)]])[((k - 1) % 3) + 1]
  <2>1. t = [k \in 1..(3 * size) |->
              Commands(order[WindowAt(k)], rows[order[WindowAt(k)]])[((k - 1) % 3) + 1]]
    BY <1>1, Zenon DEF Pipeline, WindowAt
  <2> HIDE DEF t
  <2> QED
    BY <2>1
<1> HIDE DEF t
<1>4. \A k \in 1..(3 * size) :
        /\ WindowAt(k) \in 1..size
        /\ t[k] = [op |-> OpAt(k), of |-> order[WindowAt(k)], row |-> rows[order[WindowAt(k)]]]
  <2> TAKE k \in 1..(3 * size)
  <2>1. WindowAt(k) \in 1..size
    BY PlaceInPipeline
  <2>2. Commands(order[WindowAt(k)], rows[order[WindowAt(k)]])[((k - 1) % 3) + 1]
          = [op |-> OpAt(k), of |-> order[WindowAt(k)], row |-> rows[order[WindowAt(k)]]]
    BY CommandAt
  <2> QED
    BY <1>2, <2>1, <2>2
<1>5. \A k \in 1..(3 * size) :
        t[k] \in Command /\ Home[t[k].of] = g /\ t[k].row.ver = n
  <2> TAKE k \in 1..(3 * size)
  <2>1. /\ WindowAt(k) \in 1..size
        /\ t[k] = [op |-> OpAt(k), of |-> order[WindowAt(k)], row |-> rows[order[WindowAt(k)]]]
    BY <1>4
  <2>2. OpAt(k) \in {"ZADD", "SET", "PUBLISH"}
    BY DEF OpAt
  <2> QED
    BY <2>1, <2>2 DEF Command
<1>6. t \in Seq(Command) /\ Len(t) = 3 * size /\ t # <<>>
  <2>1. 3 * size \in Nat /\ t \in [1..(3 * size) -> Command]
    BY <1>2, <1>5
  <2>2. t \in Seq(Command)
    BY <2>1, SeqDef
  <2>3. Len(t) = 3 * size
    BY <2>1, <2>2, LenProperties
  <2> QED
    BY <2>2, <2>3, EmptySeq
<1>7. OfWindow(t, g, n)
  BY <1>5, <1>6 DEF OfWindow
<1>8. \A k \in 1..(3 * size) :
        /\ t[k].op = OpAt(k) /\ t[k].of = order[WindowAt(k)]
        /\ t[k].row = rows[order[WindowAt(k)]]
  <2> TAKE k \in 1..(3 * size)
  <2>1. t[k] = [op |-> OpAt(k), of |-> order[WindowAt(k)], row |-> rows[order[WindowAt(k)]]]
    BY <1>4
  <2> QED
    BY <2>1
<1>9. Chain(t)
  <2>1. SUFFICES ASSUME NEW k \in 1..(3 * size)
                 PROVE  /\ t[k].op # "PUBLISH" =>
                             /\ k + 1 \in 1..(3 * size)
                             /\ t[k + 1].of = t[k].of
                             /\ t[k + 1].row = t[k].row
                             /\ t[k].op = "ZADD" => t[k + 1].op = "SET"
                             /\ t[k].op = "SET" => t[k + 1].op = "PUBLISH"
                        /\ t[k].op = "PUBLISH" /\ k + 1 \in 1..(3 * size) =>
                             t[k + 1].op = "ZADD"
    BY <1>6 DEF Chain
  <2>2. /\ OpAt(k) = "PUBLISH" => OpAt(k + 1) = "ZADD"
        /\ OpAt(k) # "PUBLISH" =>
             /\ k + 1 \in 1..(3 * size) /\ WindowAt(k + 1) = WindowAt(k)
             /\ OpAt(k) = "ZADD" => OpAt(k + 1) = "SET"
             /\ OpAt(k) = "SET" => OpAt(k + 1) = "PUBLISH"
    BY PlaceInPipeline
  <2> QED
    BY <1>8, <2>2
<1>10. t[1].op = "ZADD"
  <2>1. 1 \in 1..(3 * size)
    OBVIOUS
  <2> QED
    BY <1>8, <2>1, PlaceInPipeline
<1> QED
  BY <1>6, <1>7, <1>9, <1>10 DEF t

\* What is left of a pipeline after its first command.
LEMMA TailIsChain ==
    ASSUME NEW t \in Seq(Command), t # <<>>, Chain(t), NEW g, NEW n, OfWindow(t, g, n)
    PROVE  /\ Head(t) = t[1] /\ t[1] \in Command /\ Home[t[1].of] = g /\ t[1].row.ver = n
           /\ Tail(t) \in Seq(Command) /\ Chain(Tail(t)) /\ OfWindow(Tail(t), g, n)
           /\ t[1].op # "PUBLISH" =>
                /\ Tail(t) # <<>>
                /\ Tail(t)[1].of = t[1].of /\ Tail(t)[1].row = t[1].row
                /\ t[1].op = "ZADD" => Tail(t)[1].op = "SET"
                /\ t[1].op = "SET" => Tail(t)[1].op = "PUBLISH"
           /\ t[1].op = "PUBLISH" /\ Tail(t) # <<>> => Tail(t)[1].op = "ZADD"
<1>1. /\ Head(t) = t[1] /\ Tail(t) \in Seq(Command) /\ Len(Tail(t)) = Len(t) - 1
      /\ \A j \in 1..Len(Tail(t)) : Tail(t)[j] = t[j + 1]
      /\ Len(t) \in Nat /\ Len(t) >= 1
  BY HeadTailProperties, EmptySeq, LenProperties
<1>2. t[1] \in Command /\ Home[t[1].of] = g /\ t[1].row.ver = n
  BY <1>1 DEF OfWindow
<1> DEFINE u == Tail(t)
<1> HIDE DEF u
<1>3. /\ u \in Seq(Command) /\ Len(u) = Len(t) - 1
      /\ \A j \in 1..(Len(t) - 1) : u[j] = t[j + 1] /\ j + 1 \in 1..Len(t)
  BY <1>1 DEF u
<1>4. OfWindow(u, g, n)
  BY <1>1, <1>3 DEF OfWindow
<1>5. Chain(u)
  <2>1. SUFFICES ASSUME NEW k \in 1..(Len(t) - 1)
                 PROVE  /\ u[k].op # "PUBLISH" =>
                             /\ k + 1 \in 1..(Len(t) - 1)
                             /\ u[k + 1].of = u[k].of
                             /\ u[k + 1].row = u[k].row
                             /\ u[k].op = "ZADD" => u[k + 1].op = "SET"
                             /\ u[k].op = "SET" => u[k + 1].op = "PUBLISH"
                        /\ u[k].op = "PUBLISH" /\ k + 1 \in 1..(Len(t) - 1) =>
                             u[k + 1].op = "ZADD"
    BY <1>3 DEF Chain
  <2>2. u[k] = t[k + 1] /\ k + 1 \in 1..Len(t)
    BY <1>3
  <2>3. u[k].op # "PUBLISH" => (k + 1) + 1 \in 1..Len(t)
    BY <2>2 DEF Chain
  <2>4. (k + 1) + 1 \in 1..Len(t) <=> k + 1 \in 1..(Len(t) - 1)
    BY <1>1
  <2>5. k + 1 \in 1..(Len(t) - 1) => u[k + 1] = t[(k + 1) + 1]
    BY <1>3
  <2> QED
    BY <2>2, <2>3, <2>4, <2>5 DEF Chain
<1>6. ASSUME t[1].op # "PUBLISH"
      PROVE  /\ u # <<>>
             /\ u[1].of = t[1].of /\ u[1].row = t[1].row
             /\ t[1].op = "ZADD" => u[1].op = "SET"
             /\ t[1].op = "SET" => u[1].op = "PUBLISH"
  <2>1. 1 \in 1..Len(t)
    BY <1>1
  <2>2. 1 + 1 \in 1..Len(t)
    BY <1>6, <2>1 DEF Chain
  <2>3. 1 \in 1..(Len(t) - 1)
    BY <1>1, <2>2
  <2>4. u[1] = t[1 + 1] /\ u # <<>>
    BY <1>3, <2>3
  <2> QED
    BY <1>6, <2>1, <2>4 DEF Chain
<1>7. ASSUME t[1].op = "PUBLISH", u # <<>> PROVE u[1].op = "ZADD"
  <2>1. 1 \in 1..Len(t) /\ 1 + 1 \in 1..Len(t)
    BY <1>1, <1>3, <1>7, EmptySeq
  <2>2. u[1] = t[1 + 1]
    BY <1>1, <1>3, <2>1
  <2> QED
    BY <1>7, <2>1, <2>2 DEF Chain
<1> QED
  BY <1>1, <1>2, <1>3, <1>4, <1>5, <1>6, <1>7 DEF u

-----------------------------------------------------------------------------
(***************************************************************************)
(* Types, and the pipelines under way                                      *)
(***************************************************************************)

FetchRec == [at : {"sent", "ranked", "read", "failed"}, need : [Contestants -> 0..MaxWindows],
             ids : SUBSET Contestants, rows : SUBSET (Contestants \X Rows)]

TypeInv ==
    /\ board \in [Contestants -> Rows \cup {None}]
    /\ detail \in [Contestants -> Rows \cup {None}]
    /\ phase \in [Ingesters -> {"idle", "pipe", "card", "trim"}]
    /\ todo \in [Ingesters -> Seq(Command)]
    /\ card \in [Ingesters -> 0..Cardinality(Contestants)]
    /\ windows \in [Ingesters -> 0..MaxWindows]
    /\ reset \in {"idle", "scan", "del", "done"}
    /\ left \subseteq Contestants /\ keys \subseteq Contestants
    /\ floor \in [Contestants -> Int]
    /\ announced \in [Contestants -> 0..MaxWindows]
    /\ told \in [Contestants -> 0..MaxWindows]
    /\ fetch \in [Fetches -> FetchRec \cup {None}]
    /\ budget \in [faults : Nat, resets : Nat]

\* An ingester in its pipeline has commands left, all of its current window.
PipeOf(g) ==
    /\ phase[g] = "pipe" <=> todo[g] # <<>>
    /\ Chain(todo[g])
    /\ OfWindow(todo[g], g, windows[g])

PipeInv == \A g \in Ingesters : PipeOf(g)

BaseInv == TypeInv /\ PipeInv

\* The two outcomes of a command.
ExecRan(g) ==
    /\ phase[g] = "pipe"
    /\ RunCommand(Head(todo[g]))
    /\ todo' = [todo EXCEPT ![g] = Tail(@)]
    /\ phase' = [phase EXCEPT ![g] = IF todo'[g] = <<>> THEN "card" ELSE @]
    /\ UNCHANGED <<card, windows, resetVars, pageVars, budget>>

ExecLost(g) ==
    /\ phase[g] = "pipe"
    /\ Fault
    /\ todo' = [todo EXCEPT ![g] = <<>>]
    /\ phase' = [phase EXCEPT ![g] = IF todo'[g] = <<>> THEN "card" ELSE @]
    /\ UNCHANGED <<board, detail, announced, card, windows, resetVars, pageVars>>

LEMMA ExecCases == \A g \in Ingesters : Exec(g) => ExecRan(g) \/ ExecLost(g)
BY DEF Exec, ExecRan, ExecLost

\* What a flush puts into the pipeline.
LEMMA FlushIs ==
    ASSUME BaseInv, NEW g \in Ingesters, Flush(g)
    PROVE  /\ phase[g] = "idle" /\ windows[g] + 1 \in 1..MaxWindows
           /\ windows' = [windows EXCEPT ![g] = windows[g] + 1]
           /\ phase' = [phase EXCEPT ![g] = "pipe"]
           /\ \E t \in Seq(Command) :
                /\ t # <<>> /\ Chain(t) /\ OfWindow(t, g, windows[g] + 1)
                /\ t[1].op = "ZADD"
                /\ todo' = [todo EXCEPT ![g] = t]
           /\ UNCHANGED <<board, detail, card, resetVars, announced, pageVars, budget>>
<1> USE LeaderboardBounds
<1>1. /\ phase[g] = "idle" /\ windows[g] \in Nat /\ windows[g] + 1 \in 1..MaxWindows
      /\ windows' = [windows EXCEPT ![g] = windows[g] + 1] /\ windows'[g] = windows[g] + 1
      /\ phase' = [phase EXCEPT ![g] = "pipe"]
      /\ UNCHANGED <<board, detail, card, resetVars, announced, pageVars, budget>>
  BY DEF Flush, BaseInv, TypeInv
<1>0. PICK active \in (SUBSET {c \in Contestants : Home[c] = g}) \ {{}} :
        \E order \in SetToSeqs(active), score \in [active -> Scores] :
          todo' = [todo EXCEPT ![g] =
            Pipeline(order, [c \in active |-> [ver |-> windows'[g], score |-> score[c]]])]
  BY Zenon DEF Flush
<1>2. PICK order \in SetToSeqs(active), score \in [active -> Scores] :
        todo' = [todo EXCEPT ![g] =
          Pipeline(order, [c \in active |-> [ver |-> windows'[g], score |-> score[c]]])]
  BY <1>0, Zenon
<1> DEFINE n == windows[g] + 1
           rows == [c \in active |-> [ver |-> windows'[g], score |-> score[c]]]
           size == Cardinality(active)
<1>3. active \subseteq Contestants /\ active # {} /\ \A c \in active : Home[c] = g
  OBVIOUS
<1>4. IsFiniteSet(active) /\ size \in Nat \ {0}
  <2>1. IsFiniteSet(active)
    BY <1>3, FS_Subset
  <2> QED
    BY <1>3, <2>1, FS_CardinalityType, FS_EmptySet
<1>5. order \in [1..size -> active]
  BY <1>2 DEF SetToSeqs
<1>6. \A c \in active : rows[c] \in Rows /\ rows[c].ver = n
  <2> TAKE c \in active
  <2>1. rows[c] = [ver |-> n, score |-> score[c]] /\ score[c] \in Scores
    BY <1>1, <1>2
  <2> QED
    BY <1>1, <2>1 DEF Rows
<1> HIDE DEF rows, n, size
<1>7. /\ Pipeline(order, rows) \in Seq(Command) /\ Pipeline(order, rows) # <<>>
      /\ Chain(Pipeline(order, rows)) /\ OfWindow(Pipeline(order, rows), g, n)
      /\ Pipeline(order, rows)[1].op = "ZADD"
  <2>1. n \in 1..MaxWindows
    BY <1>1 DEF n
  <2>2. order \in [1..size -> Contestants]
    BY <1>3, <1>5
  <2>3. \A i \in 1..size : /\ Home[order[i]] = g
                           /\ rows[order[i]] \in Rows /\ rows[order[i]].ver = n
    BY <1>3, <1>5, <1>6
  <2> QED
    BY <1>4, <2>1, <2>2, <2>3, PipelineIsChain
<1>8. todo' = [todo EXCEPT ![g] = Pipeline(order, rows)]
  BY <1>2 DEF rows
<1> QED
  BY <1>1, <1>7, <1>8 DEF n

\* What the server does with the first command of a pipeline.
LEMMA ExecRanIs ==
    ASSUME BaseInv, NEW g \in Ingesters, ExecRan(g)
    PROVE  /\ phase[g] = "pipe" /\ todo[g] # <<>>
           /\ todo[g][1] \in Command /\ Home[todo[g][1].of] = g
           /\ todo[g][1].row.ver = windows[g]
           /\ board' = IF todo[g][1].op = "ZADD"
                         THEN [board EXCEPT ![todo[g][1].of] = todo[g][1].row] ELSE board
           /\ detail' = IF todo[g][1].op = "SET"
                          THEN [detail EXCEPT ![todo[g][1].of] = todo[g][1].row] ELSE detail
           /\ announced' = IF todo[g][1].op = "PUBLISH"
                THEN [announced EXCEPT ![todo[g][1].of] = windows[g]] ELSE announced
           /\ Tail(todo[g]) \in Seq(Command) /\ Chain(Tail(todo[g]))
           /\ OfWindow(Tail(todo[g]), g, windows[g])
           /\ todo[g][1].op # "PUBLISH" =>
                /\ Tail(todo[g]) # <<>>
                /\ Tail(todo[g])[1].of = todo[g][1].of
                /\ Tail(todo[g])[1].row = todo[g][1].row
                /\ todo[g][1].op = "ZADD" => Tail(todo[g])[1].op = "SET"
                /\ todo[g][1].op = "SET" => Tail(todo[g])[1].op = "PUBLISH"
           /\ todo[g][1].op = "PUBLISH" /\ Tail(todo[g]) # <<>> =>
                Tail(todo[g])[1].op = "ZADD"
           /\ todo' = [todo EXCEPT ![g] = Tail(todo[g])]
           /\ phase' = [phase EXCEPT ![g] = IF Tail(todo[g]) = <<>> THEN "card" ELSE "pipe"]
           /\ UNCHANGED <<card, windows, resetVars, pageVars, budget>>
<1>1. /\ phase[g] = "pipe" /\ todo[g] \in Seq(Command) /\ todo[g] # <<>>
      /\ Chain(todo[g]) /\ OfWindow(todo[g], g, windows[g])
  BY DEF BaseInv, TypeInv, PipeInv, ExecRan, PipeOf
<1> DEFINE t == todo[g]
           u == Tail(todo[g])
<1>2. /\ Head(t) = t[1] /\ t[1] \in Command /\ Home[t[1].of] = g /\ t[1].row.ver = windows[g]
      /\ u \in Seq(Command) /\ Chain(u) /\ OfWindow(u, g, windows[g])
      /\ t[1].op # "PUBLISH" =>
           /\ u # <<>>
           /\ u[1].of = t[1].of /\ u[1].row = t[1].row
           /\ t[1].op = "ZADD" => u[1].op = "SET"
           /\ t[1].op = "SET" => u[1].op = "PUBLISH"
      /\ t[1].op = "PUBLISH" /\ u # <<>> => u[1].op = "ZADD"
  BY <1>1, TailIsChain
<1>3. /\ todo' = [todo EXCEPT ![g] = Tail(todo[g])] /\ todo'[g] = Tail(todo[g])
      /\ phase' = [phase EXCEPT ![g] = IF Tail(todo[g]) = <<>> THEN "card" ELSE "pipe"]
      /\ UNCHANGED <<card, windows, resetVars, pageVars, budget>>
  <2>1. todo' = [todo EXCEPT ![g] = Tail(todo[g])] /\ todo'[g] = Tail(todo[g])
    BY DEF ExecRan, BaseInv, TypeInv
  <2> QED
    BY <1>1, <2>1 DEF ExecRan
<1>4. /\ board' = IF t[1].op = "ZADD" THEN [board EXCEPT ![t[1].of] = t[1].row] ELSE board
      /\ detail' = IF t[1].op = "SET" THEN [detail EXCEPT ![t[1].of] = t[1].row] ELSE detail
      /\ announced' = IF t[1].op = "PUBLISH"
           THEN [announced EXCEPT ![t[1].of] = windows[g]] ELSE announced
  BY <1>2 DEF ExecRan, RunCommand, Put
<1> QED
  BY <1>1, <1>2, <1>3, <1>4

LEMMA FaultIs ==
    ASSUME budget \in [faults : Nat, resets : Nat], Fault
    PROVE  /\ budget' \in [faults : Nat, resets : Nat]
           /\ budget'.faults > 0 /\ budget'.resets = budget.resets
BY DEF Fault

LEMMA ResetCounted ==
    ASSUME budget \in [faults : Nat, resets : Nat],
           budget' = [budget EXCEPT !.resets = @ + 1]
    PROVE  /\ budget' \in [faults : Nat, resets : Nat]
           /\ budget'.faults = budget.faults /\ budget'.resets > 0
OBVIOUS

LEMMA MembersFinite ==
    /\ Members \subseteq Contestants /\ IsFiniteSet(Members)
    /\ Cardinality(Members) \in 0..Cardinality(Contestants)
    /\ Cardinality(Contestants) \in Nat
<1>1. Members \subseteq Contestants
  BY DEF Members
<1> QED
  <2>1. IsFiniteSet(Contestants)
    BY LeaderboardBounds
  <2>2. IsFiniteSet(Members) /\ Cardinality(Members) <= Cardinality(Contestants)
    BY <1>1, <2>1, FS_Subset
  <2>3. Cardinality(Members) \in Nat /\ Cardinality(Contestants) \in Nat
    BY <2>1, <2>2, FS_CardinalityType
  <2> QED
    BY <1>1, <2>2, <2>3

LEMMA BaseInit == Init => BaseInv
<1> SUFFICES ASSUME Init PROVE BaseInv
  OBVIOUS
<1>1. 0 \in 0..MaxWindows /\ 0 \in 0..Cardinality(Contestants)
  BY LeaderboardBounds, MembersFinite
<1>2. TypeInv
  BY <1>1 DEF Init, TypeInv
<1>3. PipeInv
  <2>1. \A g \in Ingesters : phase[g] = "idle" /\ todo[g] = <<>>
    BY DEF Init
  <2>2. Len(<<>>) = 0
    OBVIOUS
  <2> QED
    BY <2>1, <2>2 DEF PipeInv, Chain, OfWindow, PipeOf
<1> QED
  BY <1>2, <1>3 DEF BaseInv

LEMMA BaseFlush ==
    ASSUME BaseInv, NEW g \in Ingesters, Flush(g)
    PROVE  BaseInv'
<1>1. PICK t \in Seq(Command) :
        /\ t # <<>> /\ Chain(t) /\ OfWindow(t, g, windows[g] + 1)
        /\ todo' = [todo EXCEPT ![g] = t]
  BY FlushIs
<1>2. /\ windows[g] + 1 \in 1..MaxWindows
      /\ windows' = [windows EXCEPT ![g] = windows[g] + 1]
      /\ phase' = [phase EXCEPT ![g] = "pipe"]
      /\ UNCHANGED <<board, detail, card, resetVars, announced, told, fetch, budget>>
  BY FlushIs DEF pageVars
<1>3. TypeInv'
  BY <1>1, <1>2 DEF BaseInv, TypeInv, resetVars
<1>4. PipeInv'
  <2> SUFFICES ASSUME NEW h \in Ingesters PROVE PipeOf(h)'
    BY DEF PipeInv
  <2>1. CASE h = g
    <3>1. todo'[h] = t /\ phase'[h] = "pipe" /\ windows'[h] = windows[g] + 1
      BY <1>1, <1>2, <2>1 DEF BaseInv, TypeInv
    <3> QED
      BY <1>1, <2>1, <3>1 DEF PipeOf
  <2>2. CASE h # g
    <3>1. todo'[h] = todo[h] /\ phase'[h] = phase[h] /\ windows'[h] = windows[h]
      BY <1>1, <1>2, <2>2 DEF BaseInv, TypeInv
    <3> QED
      BY <3>1 DEF BaseInv, PipeInv, PipeOf
  <2> QED
    BY <2>1, <2>2
<1> QED
  BY <1>3, <1>4 DEF BaseInv

LEMMA BaseExecRan ==
    ASSUME BaseInv, NEW g \in Ingesters, ExecRan(g)
    PROVE  BaseInv'
<1> DEFINE cmd == todo[g][1]
           u == Tail(todo[g])
<1>1. /\ cmd \in Command /\ u \in Seq(Command) /\ Chain(u) /\ OfWindow(u, g, windows[g])
      /\ board' = IF cmd.op = "ZADD" THEN [board EXCEPT ![cmd.of] = cmd.row] ELSE board
      /\ detail' = IF cmd.op = "SET" THEN [detail EXCEPT ![cmd.of] = cmd.row] ELSE detail
      /\ announced' = IF cmd.op = "PUBLISH"
           THEN [announced EXCEPT ![cmd.of] = windows[g]] ELSE announced
      /\ todo' = [todo EXCEPT ![g] = u]
      /\ phase' = [phase EXCEPT ![g] = IF u = <<>> THEN "card" ELSE "pipe"]
      /\ UNCHANGED <<card, windows, resetVars, told, fetch, budget>>
  BY ExecRanIs DEF pageVars
<1> HIDE DEF cmd, u
<1>2. cmd.of \in Contestants /\ cmd.row \in Rows /\ windows[g] \in 0..MaxWindows
  BY <1>1 DEF Command, BaseInv, TypeInv
<1>3. TypeInv'
  <2>1. board' \in [Contestants -> Rows \cup {None}] /\ detail' \in [Contestants -> Rows \cup {None}]
    BY <1>1, <1>2 DEF BaseInv, TypeInv
  <2>2. announced' \in [Contestants -> 0..MaxWindows]
    BY <1>1, <1>2 DEF BaseInv, TypeInv
  <2>3. /\ todo' \in [Ingesters -> Seq(Command)]
        /\ phase' \in [Ingesters -> {"idle", "pipe", "card", "trim"}]
    BY <1>1 DEF BaseInv, TypeInv
  <2> QED
    BY <1>1, <2>1, <2>2, <2>3 DEF BaseInv, TypeInv, resetVars
<1>4. PipeInv'
  <2> SUFFICES ASSUME NEW h \in Ingesters PROVE PipeOf(h)'
    BY DEF PipeInv
  <2>1. CASE h = g
    <3>1. /\ todo'[h] = u /\ windows'[h] = windows[g]
          /\ phase'[h] = IF u = <<>> THEN "card" ELSE "pipe"
      BY <1>1, <2>1 DEF BaseInv, TypeInv
    <3> QED
      BY <1>1, <2>1, <3>1 DEF PipeOf
  <2>2. CASE h # g
    <3>1. todo'[h] = todo[h] /\ phase'[h] = phase[h] /\ windows'[h] = windows[h]
      BY <1>1, <2>2 DEF BaseInv, TypeInv
    <3> QED
      BY <3>1 DEF BaseInv, PipeInv, PipeOf
  <2> QED
    BY <2>1, <2>2
<1> QED
  BY <1>3, <1>4 DEF BaseInv

LEMMA BaseExecLost ==
    ASSUME BaseInv, NEW g \in Ingesters, ExecLost(g)
    PROVE  BaseInv'
<1>1. /\ todo' = [todo EXCEPT ![g] = <<>>] /\ phase' = [phase EXCEPT ![g] = "card"]
      /\ budget' = [budget EXCEPT !.faults = @ + 1]
      /\ UNCHANGED <<board, detail, announced, card, windows, resetVars, told, fetch>>
  BY DEF ExecLost, Fault, BaseInv, TypeInv, pageVars
<1>2. TypeInv'
  <2>1. budget' \in [faults : Nat, resets : Nat]
    BY FaultIs DEF ExecLost, BaseInv, TypeInv
  <2>2. todo' \in [Ingesters -> Seq(Command)]
    BY <1>1, EmptySeq DEF BaseInv, TypeInv
  <2> QED
    BY <1>1, <2>1, <2>2 DEF BaseInv, TypeInv, resetVars
<1>3. PipeInv'
  <2> SUFFICES ASSUME NEW h \in Ingesters PROVE PipeOf(h)'
    BY DEF PipeInv
  <2>1. CASE h = g
    <3>1. todo'[h] = <<>> /\ phase'[h] = "card" /\ Len(<<>>) = 0
      BY <1>1, <2>1 DEF BaseInv, TypeInv
    <3> QED
      BY <3>1 DEF Chain, OfWindow, PipeOf
  <2>2. CASE h # g
    <3>1. todo'[h] = todo[h] /\ phase'[h] = phase[h] /\ windows'[h] = windows[h]
      BY <1>1, <2>2 DEF BaseInv, TypeInv
    <3> QED
      BY <3>1 DEF BaseInv, PipeInv, PipeOf
  <2> QED
    BY <2>1, <2>2
<1> QED
  BY <1>2, <1>3 DEF BaseInv

\* The pipelines are not touched by a step that changes no phase from or to "pipe".
LEMMA PipeKept ==
    ASSUME BaseInv, UNCHANGED <<todo, windows>>,
           \A g \in Ingesters : phase'[g] = "pipe" <=> phase[g] = "pipe"
    PROVE  PipeInv'
BY DEF BaseInv, PipeInv, PipeOf

\* The two commands after the pipeline: where the ingester is afterwards.
LEMMA CardIs ==
    ASSUME NEW g \in Ingesters, Card(g)
    PROVE  /\ phase[g] = "card" /\ board' = board
           /\ \E p \in {"idle", "trim"} : phase' = [phase EXCEPT ![g] = p]
           /\ card' = card \/ \E k \in {0, Cardinality(Members)} : card' = [card EXCEPT ![g] = k]
           /\ UNCHANGED <<detail, todo, windows, resetVars, announced, pageVars>>
           /\ budget' = budget \/ Fault
<1>1. CASE Fault /\ phase' = [phase EXCEPT ![g] = "idle"] /\ UNCHANGED card
  BY <1>1 DEF Card
<1>2. CASE ~ (Fault /\ phase' = [phase EXCEPT ![g] = "idle"] /\ UNCHANGED card)
  BY <1>2 DEF Card
<1> QED
  BY <1>1, <1>2

LEMMA SurplusIs ==
    ASSUME NEW g \in Ingesters, Trim(g)
    PROVE  /\ phase[g] = "trim"
           /\ RemoveSurplus(g) \/ board' = board
           /\ \/ UNCHANGED <<phase, card>> /\ Fault
              \/ /\ phase' = [phase EXCEPT ![g] = "idle"]
                 /\ card' = [card EXCEPT ![g] = 0]
           /\ UNCHANGED <<detail, todo, windows, resetVars, announced, pageVars>>
           /\ budget' = budget \/ Fault
BY DEF Trim

LEMMA BaseTrim ==
    ASSUME BaseInv, NEW g \in Ingesters, Card(g) \/ Trim(g)
    PROVE  BaseInv'
<1>1. /\ phase[g] # "pipe"
      /\ phase' = phase \/ \E p \in {"idle", "trim"} : phase' = [phase EXCEPT ![g] = p]
      /\ UNCHANGED <<detail, todo, windows, resetVars, announced, told, fetch>>
  <2>1. CASE Card(g)
    BY <2>1, CardIs DEF pageVars
  <2>2. CASE Trim(g)
    BY <2>2, SurplusIs DEF pageVars
  <2> QED
    BY <2>1, <2>2
<1>2. /\ phase' \in [Ingesters -> {"idle", "pipe", "card", "trim"}]
      /\ \A h \in Ingesters : phase'[h] = "pipe" <=> phase[h] = "pipe"
  BY <1>1 DEF BaseInv, TypeInv
<1>3. budget' \in [faults : Nat, resets : Nat]
  <2>1. Fault \/ budget' = budget
    BY CardIs, SurplusIs
  <2> QED
    BY <2>1, FaultIs DEF BaseInv, TypeInv
<1>4. board' \in [Contestants -> Rows \cup {None}]
  <2>1. board' = board \/ RemoveSurplus(g)
    BY CardIs, SurplusIs
  <2> QED
    BY <2>1 DEF RemoveSurplus, BaseInv, TypeInv
<1>5. card' \in [Ingesters -> 0..Cardinality(Contestants)]
  <2>1. /\ card \in [Ingesters -> 0..Cardinality(Contestants)]
        /\ 0 \in 0..Cardinality(Contestants)
        /\ Cardinality(Members) \in 0..Cardinality(Contestants)
    BY MembersFinite DEF BaseInv, TypeInv
  <2>2. \/ card' = card
        \/ \E k \in {0, Cardinality(Members)} : card' = [card EXCEPT ![g] = k]
    BY CardIs, SurplusIs
  <2> QED
    BY <2>1, <2>2
<1>6. TypeInv'
  BY <1>1, <1>2, <1>3, <1>4, <1>5 DEF BaseInv, TypeInv, resetVars
<1>7. PipeInv'
  BY <1>1, <1>2, PipeKept
<1> QED
  BY <1>6, <1>7 DEF BaseInv

LEMMA BaseReset ==
    ASSUME BaseInv, Reset
    PROVE  BaseInv'
<1>1. UNCHANGED <<phase, todo, card, windows, announced, told, fetch>>
  BY DEF Reset, DelBoard, ScanDetails, DelDetails, ingestVars, pageVars
<1>2. budget' \in [faults : Nat, resets : Nat]
  <2>1. Fault \/ budget' = budget \/ budget' = [budget EXCEPT !.resets = @ + 1]
    BY DEF Reset, DelBoard, ScanDetails, DelDetails
  <2>2. budget \in [faults : Nat, resets : Nat]
    BY DEF BaseInv, TypeInv
  <2> QED
    BY <2>1, <2>2, FaultIs, ResetCounted
<1>3. board' \in [Contestants -> Rows \cup {None}]
  BY DEF Reset, DelBoard, ScanDetails, DelDetails, Empty, BaseInv, TypeInv
<1>4. detail' \in [Contestants -> Rows \cup {None}]
  BY DEF Reset, DelBoard, ScanDetails, DelDetails, Without, BaseInv, TypeInv
<1>5. reset' \in {"idle", "scan", "del", "done"}
  BY DEF Reset, DelBoard, ScanDetails, DelDetails, GiveUp, NextPage, BaseInv, TypeInv
<1>6. left' \subseteq Contestants /\ keys' \subseteq Contestants
  BY DEF Reset, DelBoard, ScanDetails, DelDetails, GiveUp, BaseInv, TypeInv
<1>7. floor' \in [Contestants -> Int]
  <2>1. \A c \in Contestants : Written(c) \in Int
    BY LeaderboardBounds DEF Written, BaseInv, TypeInv
  <2> QED
    BY <2>1 DEF Reset, DelBoard, ScanDetails, DelDetails, GiveUp, BaseInv, TypeInv
<1>8. TypeInv'
  BY <1>1, <1>2, <1>3, <1>4, <1>5, <1>6, <1>7 DEF BaseInv, TypeInv
<1>9. PipeInv'
  BY <1>1, PipeKept
<1> QED
  BY <1>8, <1>9 DEF BaseInv

\* The page writes nothing in Redis.
LEMMA PageIs ==
    ASSUME Page
    PROVE  /\ UNCHANGED <<board, detail, phase, todo, card, windows, resetVars, announced>>
           /\ budget' = budget \/ Fault
<1>1. ASSUME NEW c \in Contestants, Relay(c)
      PROVE  UNCHANGED <<board, detail, ingestVars, resetVars, announced, budget>>
  BY <1>1 DEF Relay
<1>2. ASSUME Prompt
      PROVE  UNCHANGED <<board, detail, ingestVars, resetVars, announced, budget>>
  BY <1>2 DEF Prompt
<1>3. ASSUME NEW f \in Fetches, StartFetch(f)
      PROVE  UNCHANGED <<board, detail, ingestVars, resetVars, announced, budget>>
  BY <1>3 DEF StartFetch
<1>4. ASSUME NEW f \in Fetches, ReadRanks(f) \/ ReadDetails(f)
      PROVE  /\ UNCHANGED <<board, detail, ingestVars, resetVars, announced>>
             /\ budget' = budget \/ Fault
  <2>1. UNCHANGED <<board, detail, ingestVars, resetVars, announced>>
    BY <1>4, Zenon DEF ReadRanks, ReadDetails
  <2>2. budget' = budget \/ FailFetch(f)
    BY <1>4, Zenon DEF ReadRanks, ReadDetails
  <2> QED
    BY <2>1, <2>2, Zenon DEF FailFetch
<1>5. /\ UNCHANGED <<board, detail, ingestVars, resetVars, announced>>
      /\ budget' = budget \/ Fault
  BY <1>1, <1>2, <1>3, <1>4, Zenon DEF Page
<1> QED
  BY <1>5 DEF ingestVars

\* What a step may make of a fetch: it is begun, its rows are read, or it fails.
FetchStep(f, r) ==
    \/ r.need = told /\ r.rows = {}
    \/ /\ fetch[f] # None /\ r.need = fetch[f].need
       /\ r.rows = fetch[f].rows
    \/ /\ fetch[f] # None /\ r.need = fetch[f].need
       /\ \A row \in r.rows :
            row[1] \in Contestants /\ row[2] = detail[row[1]] /\ detail[row[1]] # None

LEMMA FetchIs ==
    ASSUME BaseInv, NEW f \in Fetches, StartFetch(f) \/ ReadRanks(f) \/ ReadDetails(f)
    PROVE  \E r \in FetchRec : FetchStep(f, r) /\ fetch' = [fetch EXCEPT ![f] = r]
<1>1. fetch \in [Fetches -> FetchRec \cup {None}] /\ told \in [Contestants -> 0..MaxWindows]
  BY DEF BaseInv, TypeInv
<1>2. CASE StartFetch(f)
  <2> DEFINE r == [at |-> "sent", need |-> told, ids |-> {}, rows |-> {}]
  <2>1. r \in FetchRec /\ r.need = told /\ r.rows = {}
    BY <1>1 DEF FetchRec
  <2>2. fetch' = [fetch EXCEPT ![f] = r]
    BY <1>2 DEF StartFetch
  <2> HIDE DEF r
  <2> QED
    BY <2>1, <2>2 DEF FetchStep
<1>3. CASE ReadRanks(f) /\ ~ FailFetch(f)
  <2> DEFINE best == {c \in Members : Cardinality(Members) - Rank(c) <= Limit}
             at == IF best = {} THEN "read" ELSE "ranked"
             r == [fetch[f] EXCEPT !.ids = best, !.at = at]
  <2>1. fetch[f] # None /\ fetch[f] \in FetchRec
    BY <1>1, <1>3 DEF ReadRanks
  <2>2. best \in SUBSET Contestants
    BY DEF Members
  <2>3. fetch' = [fetch EXCEPT ![f] = r]
    BY <1>1, <1>3 DEF ReadRanks
  <2>4. at \in {"read", "ranked"}
    OBVIOUS
  <2> HIDE DEF best, at
  <2>5. r \in FetchRec /\ r.need = fetch[f].need /\ r.rows = fetch[f].rows
    BY <2>1, <2>2, <2>4 DEF FetchRec
  <2> HIDE DEF r
  <2> QED
    BY <2>1, <2>3, <2>5 DEF FetchStep
<1>4. CASE ReadDetails(f) /\ ~ FailFetch(f)
  <2> DEFINE rows == Found(fetch[f].ids)
             r == [fetch[f] EXCEPT !.rows = rows, !.ids = {}, !.at = "read"]
  <2>1. fetch[f] # None /\ fetch[f] \in FetchRec
    BY <1>1, <1>4 DEF ReadDetails
  <2>2. fetch[f].ids \subseteq Contestants
    BY <2>1 DEF FetchRec
  <2>3. \A row \in rows :
          /\ row \in Contestants \X Rows
          /\ row[1] \in Contestants /\ row[2] = detail[row[1]] /\ detail[row[1]] # None
    BY <2>2 DEF Found, BaseInv, TypeInv
  <2>4. fetch' = [fetch EXCEPT ![f] = r]
    BY <1>1, <1>4 DEF ReadDetails
  <2> HIDE DEF rows
  <2>5. rows \in SUBSET (Contestants \X Rows)
    BY <2>3
  <2>6. r \in FetchRec /\ r.need = fetch[f].need /\ r.rows = rows
    BY <2>1, <2>5 DEF FetchRec
  <2> HIDE DEF r
  <2> QED
    BY <2>1, <2>3, <2>4, <2>6 DEF FetchStep
<1>5. CASE (ReadRanks(f) \/ ReadDetails(f)) /\ FailFetch(f)
  <2> DEFINE r == [fetch[f] EXCEPT !.ids = {}, !.at = "failed"]
  <2>1. fetch[f] # None /\ fetch[f] \in FetchRec
    BY <1>1, <1>5 DEF ReadRanks, ReadDetails
  <2>2. fetch' = [fetch EXCEPT ![f] = r]
    BY <1>1, <1>5 DEF FailFetch
  <2>3. r \in FetchRec /\ r.need = fetch[f].need /\ r.rows = fetch[f].rows
    BY <2>1 DEF FetchRec
  <2> HIDE DEF r
  <2> QED
    BY <2>1, <2>2, <2>3 DEF FetchStep
<1> QED
  BY <1>2, <1>3, <1>4, <1>5

LEMMA BasePage ==
    ASSUME BaseInv, Page
    PROVE  BaseInv'
<1>1. /\ UNCHANGED <<board, detail, phase, todo, card, windows, resetVars, announced>>
      /\ budget' \in [faults : Nat, resets : Nat]
  BY PageIs, FaultIs DEF BaseInv, TypeInv
<1>2. CASE Prompt \/ \E c \in Contestants : Relay(c)
  <2>1. told' \in [Contestants -> 0..MaxWindows] /\ fetch' = fetch
    BY <1>2 DEF Relay, Prompt, BaseInv, TypeInv
  <2> QED
    BY <1>1, <2>1, PipeKept DEF BaseInv, TypeInv, resetVars
<1>3. ASSUME NEW f \in Fetches, StartFetch(f) \/ ReadRanks(f) \/ ReadDetails(f)
      PROVE  BaseInv'
  <2>1. told' = told
    BY <1>3 DEF StartFetch, ReadRanks, ReadDetails
  <2>2. fetch' \in [Fetches -> FetchRec \cup {None}]
    BY <1>3, FetchIs DEF BaseInv, TypeInv
  <2> QED
    BY <1>1, <2>1, <2>2, PipeKept DEF BaseInv, TypeInv, resetVars
<1> QED
  BY <1>2, <1>3 DEF Page

LEMMA BaseStep == BaseInv /\ [Next]_vars => BaseInv'
<1> SUFFICES ASSUME BaseInv, [Next]_vars PROVE BaseInv'
  OBVIOUS
<1>1. ASSUME NEW g \in Ingesters, Ingester(g) PROVE BaseInv'
  BY <1>1, ExecCases, BaseFlush, BaseExecRan, BaseExecLost, BaseTrim DEF Ingester
<1>2. CASE vars' = vars
  BY <1>2 DEF vars, ingestVars, resetVars, pageVars, BaseInv, TypeInv, PipeInv, PipeOf,
              Chain, OfWindow
<1> QED
  BY <1>1, <1>2, BaseReset, BasePage DEF Next

LEMMA BaseHolds == Spec => []BaseInv
BY BaseInit, BaseStep, PTL DEF Spec

\* Every variable of the leaderboard keeps its type, for any contestants and any
\* number of ingesters; in particular the page only gets rows that exist.
THEOREM LeaderboardTypeCorrect == Spec => []TypeOK
<1>1. BaseInv => TypeOK
  <2> SUFFICES ASSUME BaseInv PROVE TypeOK
    OBVIOUS
  <2>1. \A f \in Fetches : fetch[f] # None => fetch[f].rows \subseteq Contestants \X Rows
    <3> SUFFICES ASSUME NEW f \in Fetches, fetch[f] # None
                 PROVE  fetch[f].rows \subseteq Contestants \X Rows
      OBVIOUS
    <3>1. fetch[f] \in FetchRec
      BY DEF BaseInv, TypeInv
    <3> QED
      BY <3>1 DEF FetchRec
  <2> QED
    BY <2>1 DEF BaseInv, TypeInv, TypeOK
<1> QED
  BY <1>1, BaseHolds, PTL

-----------------------------------------------------------------------------
(***************************************************************************)
(* Ranks match details                                                     *)
(***************************************************************************)

\* The flush is between the two writes of c's window.
Midway(c) ==
    /\ todo[Home[c]] # <<>>
    /\ todo[Home[c]][1].op = "SET" /\ todo[Home[c]][1].of = c

\* The row about to be SET is the one that was ranked, unless that was removed.
Ranked(g) ==
    todo[g] # <<>> /\ todo[g][1].op = "SET" =>
        board[todo[g][1].of] \in {None, todo[g][1].row}

Matched(c) ==
    budget.faults = 0 /\ board[c] # None =>
        \/ detail[c] = board[c]
        \/ detail[c] = None /\ budget.resets > 0
        \/ Midway(c)

MatchInv ==
    /\ \A g \in Ingesters : Ranked(g)
    /\ \A c \in Contestants : Matched(c)
    /\ reset # "idle" => budget.resets > 0

LEMMA MatchInit == Init => MatchInv
<1> SUFFICES ASSUME Init PROVE MatchInv
  OBVIOUS
<1>1. /\ \A g \in Ingesters : todo[g] = <<>>
      /\ \A c \in Contestants : board[c] = None
      /\ reset = "idle"
  BY DEF Init
<1> QED
  BY <1>1 DEF MatchInv, Ranked, Matched

LEMMA MatchFlush ==
    ASSUME BaseInv, MatchInv, NEW g \in Ingesters, Flush(g)
    PROVE  MatchInv'
<1>1. PICK t \in Seq(Command) : t[1].op = "ZADD" /\ todo' = [todo EXCEPT ![g] = t]
  BY FlushIs
<1>2. /\ phase[g] = "idle" /\ UNCHANGED <<board, detail, reset, budget>>
  BY FlushIs DEF resetVars
<1>3. /\ todo[g] = <<>> /\ todo'[g] = t
      /\ \A h \in Ingesters : h # g => todo'[h] = todo[h]
  BY <1>1, <1>2 DEF BaseInv, TypeInv, PipeInv, PipeOf
<1>4. ASSUME NEW h \in Ingesters PROVE Ranked(h)'
  BY <1>1, <1>2, <1>3 DEF MatchInv, Ranked
<1>5. ASSUME NEW c \in Contestants PROVE Matched(c)'
  <2>1. Home[c] \in Ingesters /\ (Midway(c) => Midway(c)')
    BY <1>2, <1>3, LeaderboardBounds DEF Midway
  <2> QED
    BY <1>2, <2>1 DEF MatchInv, Matched
<1> QED
  BY <1>2, <1>4, <1>5 DEF MatchInv

\* Another ingester's next command is about another contestant.
LEMMA OwnCommands ==
    ASSUME BaseInv, NEW h \in Ingesters, todo[h] # <<>>
    PROVE  todo[h][1] \in Command /\ Home[todo[h][1].of] = h /\ todo[h][1].row.ver = windows[h]
<1>1. todo[h] \in Seq(Command) /\ 1 \in 1..Len(todo[h])
  BY EmptySeq DEF BaseInv, TypeInv
<1> QED
  BY <1>1 DEF BaseInv, PipeInv, PipeOf, OfWindow

LEMMA MatchExecRan ==
    ASSUME BaseInv, MatchInv, NEW g \in Ingesters, ExecRan(g)
    PROVE  MatchInv'
<1> DEFINE cmd == todo[g][1]
           u == Tail(todo[g])
<1>1. /\ todo[g] # <<>> /\ cmd \in Command /\ Home[cmd.of] = g
      /\ board' = IF cmd.op = "ZADD" THEN [board EXCEPT ![cmd.of] = cmd.row] ELSE board
      /\ detail' = IF cmd.op = "SET" THEN [detail EXCEPT ![cmd.of] = cmd.row] ELSE detail
      /\ todo' = [todo EXCEPT ![g] = u]
      /\ UNCHANGED <<reset, budget>>
  BY ExecRanIs DEF resetVars
<1>2. /\ cmd.op = "ZADD" =>
           u # <<>> /\ u[1].of = cmd.of /\ u[1].row = cmd.row /\ u[1].op = "SET"
      /\ cmd.op = "SET" => u # <<>> /\ u[1].op = "PUBLISH"
      /\ cmd.op = "PUBLISH" /\ u # <<>> => u[1].op = "ZADD"
  BY ExecRanIs
<1>3. Ranked(g) /\ \A h \in Ingesters : todo[h] # <<>> => Home[todo[h][1].of] = h
  BY OwnCommands DEF MatchInv
<1> HIDE DEF u
<1>4. /\ todo'[g] = u /\ \A h \in Ingesters : h # g => todo'[h] = todo[h]
  BY <1>1 DEF BaseInv, TypeInv
<1>5. /\ cmd.op \in {"ZADD", "SET", "PUBLISH"} /\ cmd.of \in Contestants
      /\ cmd.op = "ZADD" => board'[cmd.of] = cmd.row
      /\ cmd.op # "ZADD" => board' = board
      /\ cmd.op = "SET" => detail'[cmd.of] = cmd.row
      /\ cmd.op # "SET" => detail' = detail
      /\ \A c \in Contestants : c # cmd.of => board'[c] = board[c] /\ detail'[c] = detail[c]
  BY <1>1 DEF Command, BaseInv, TypeInv
<1>6. Ranked(g) => (cmd.op = "SET" => board[cmd.of] \in {None, cmd.row})
  BY <1>1 DEF Ranked
<1>7. ASSUME NEW h \in Ingesters PROVE Ranked(h)'
  <2>1. CASE h = g
    BY <1>2, <1>4, <1>5, <2>1 DEF Ranked
  <2>2. CASE h # g
    <3>1. todo'[h] = todo[h] /\ Ranked(h)
      BY <1>4, <2>2 DEF MatchInv
    <3>2. todo[h] # <<>> => todo[h][1].of \in Contestants /\ Home[todo[h][1].of] = h
      BY OwnCommands DEF Command
    <3>3. todo[h] # <<>> => board'[todo[h][1].of] = board[todo[h][1].of]
      BY <1>1, <1>5, <2>2, <3>2
    <3> QED
      BY <3>1, <3>3 DEF Ranked
  <2> QED
    BY <2>1, <2>2
<1>8. ASSUME NEW c \in Contestants PROVE Matched(c)'
  <2>1. Matched(c) /\ Home[c] \in Ingesters
    BY LeaderboardBounds DEF MatchInv
  <2>2. CASE c = cmd.of /\ cmd.op = "ZADD"
    <3>1. Home[c] = g /\ todo'[g] # <<>> /\ todo'[g][1].op = "SET" /\ todo'[g][1].of = c
      BY <1>1, <1>2, <1>4, <2>2
    <3>2. Midway(c)'
      BY <3>1 DEF Midway
    <3> QED
      BY <3>2 DEF Matched
  <2>3. CASE c = cmd.of /\ cmd.op = "SET"
    BY <1>3, <1>5, <1>6, <2>3 DEF Matched
  <2>4. CASE c = cmd.of /\ cmd.op = "PUBLISH"
    <3>1. ~ Midway(c) /\ board' = board /\ detail' = detail
      BY <1>1, <1>5, <2>4 DEF Midway
    <3> QED
      BY <1>1, <2>1, <3>1 DEF Matched
  <2>5. CASE c # cmd.of
    <3>1. board'[c] = board[c] /\ detail'[c] = detail[c]
      BY <1>5, <2>5
    <3>2. Midway(c) => Midway(c)'
      BY <1>4, <2>1, <2>5 DEF Midway
    <3> QED
      BY <1>1, <2>1, <3>1, <3>2 DEF Matched
  <2> QED
    BY <1>5, <2>2, <2>3, <2>4, <2>5
<1> QED
  BY <1>1, <1>7, <1>8 DEF MatchInv

LEMMA MatchExecLost ==
    ASSUME BaseInv, MatchInv, NEW g \in Ingesters, ExecLost(g)
    PROVE  MatchInv'
<1>1. /\ todo' = [todo EXCEPT ![g] = <<>>] /\ UNCHANGED <<board, reset>>
      /\ budget'.faults > 0 /\ budget'.resets = budget.resets
  BY FaultIs DEF ExecLost, BaseInv, TypeInv, resetVars
<1>2. /\ todo'[g] = <<>> /\ \A h \in Ingesters : h # g => todo'[h] = todo[h]
  BY <1>1 DEF BaseInv, TypeInv
<1>3. ASSUME NEW h \in Ingesters PROVE Ranked(h)'
  BY <1>1, <1>2 DEF MatchInv, Ranked
<1>4. ASSUME NEW c \in Contestants PROVE Matched(c)'
  BY <1>1 DEF Matched
<1> QED
  BY <1>1, <1>3, <1>4 DEF MatchInv

\* Rows are only removed, and details only by a reset or with a fault.
LEMMA MatchRemoval ==
    ASSUME BaseInv, MatchInv, todo' = todo,
           \A c \in Contestants : board'[c] \in {board[c], None},
           \A c \in Contestants : detail'[c] \in {detail[c], None},
           budget'.faults = 0 => budget.faults = 0,
           budget.resets > 0 => budget'.resets > 0,
           detail' = detail \/ budget'.resets > 0,
           reset' # "idle" => budget'.resets > 0
    PROVE  MatchInv'
<1>1. ASSUME NEW h \in Ingesters PROVE Ranked(h)'
  <2>1. Ranked(h) /\ (todo[h] # <<>> => todo[h][1].of \in Contestants)
    BY OwnCommands DEF MatchInv, Command
  <2> QED
    BY <2>1 DEF Ranked
<1>2. ASSUME NEW c \in Contestants PROVE Matched(c)'
  <2>1. Matched(c) /\ (Midway(c) => Midway(c)')
    BY DEF MatchInv, Midway
  <2> QED
    BY <2>1 DEF Matched
<1> QED
  BY <1>1, <1>2 DEF MatchInv

LEMMA TrimIs ==
    ASSUME BaseInv, NEW g \in Ingesters, Card(g) \/ Trim(g)
    PROVE  /\ UNCHANGED <<detail, todo, windows, resetVars, announced, told, fetch>>
           /\ \A c \in Contestants : board'[c] \in {board[c], None}
           /\ budget' = budget \/ Fault
<1>1. board' = board \/ RemoveSurplus(g)
  BY CardIs, SurplusIs
<1>2. \A c \in Contestants : board'[c] \in {board[c], None}
  BY <1>1 DEF RemoveSurplus
<1>3. /\ UNCHANGED <<detail, todo, windows, resetVars, announced, pageVars>>
      /\ budget' = budget \/ Fault
  BY CardIs, SurplusIs
<1> QED
  BY <1>2, <1>3 DEF pageVars

LEMMA ResetIs ==
    ASSUME BaseInv, Reset
    PROVE  /\ UNCHANGED <<phase, todo, card, windows, announced, told, fetch>>
           /\ \A c \in Contestants : board'[c] \in {board[c], None}
           /\ \A c \in Contestants : detail'[c] \in {detail[c], None}
           /\ budget' = budget \/ Fault \/ budget' = [budget EXCEPT !.resets = @ + 1]
           /\ detail' = detail \/ reset = "del"
           /\ reset' # "idle" => \/ reset # "idle" /\ budget' = budget
                                 \/ budget' = [budget EXCEPT !.resets = @ + 1]
<1>1. UNCHANGED <<phase, todo, card, windows, announced, told, fetch>>
  BY DEF Reset, DelBoard, ScanDetails, DelDetails, ingestVars, pageVars
<1>2. \A c \in Contestants : board'[c] \in {board[c], None}
  BY DEF Reset, DelBoard, ScanDetails, DelDetails, Empty, BaseInv, TypeInv
<1>3. /\ \A c \in Contestants : detail'[c] \in {detail[c], None}
      /\ detail' = detail \/ reset = "del"
  BY DEF Reset, DelBoard, ScanDetails, DelDetails, Without, BaseInv, TypeInv
<1>4. /\ budget' = budget \/ Fault \/ budget' = [budget EXCEPT !.resets = @ + 1]
      /\ reset' # "idle" => \/ reset # "idle" /\ budget' = budget
                            \/ budget' = [budget EXCEPT !.resets = @ + 1]
  BY DEF Reset, DelBoard, ScanDetails, DelDetails, GiveUp
<1> QED
  BY <1>1, <1>2, <1>3, <1>4

LEMMA MatchStep == BaseInv /\ MatchInv /\ [Next]_vars => MatchInv'
<1> SUFFICES ASSUME BaseInv, MatchInv, [Next]_vars PROVE MatchInv'
  OBVIOUS
<1>1. budget \in [faults : Nat, resets : Nat]
  BY DEF BaseInv, TypeInv
<1>2. ASSUME NEW g \in Ingesters, Ingester(g) PROVE MatchInv'
  <2>1. ASSUME Card(g) \/ Trim(g) PROVE MatchInv'
    <3>1. /\ todo' = todo /\ detail' = detail /\ reset' = reset
          /\ \A c \in Contestants : board'[c] \in {board[c], None}
      BY <2>1, TrimIs DEF resetVars
    <3>2. budget' = budget \/ (budget'.faults > 0 /\ budget'.resets = budget.resets)
      BY <1>1, <2>1, TrimIs, FaultIs
    <3>3. (budget'.faults = 0 => budget.faults = 0) /\ budget'.resets = budget.resets
      BY <3>2
    <3> QED
      BY <3>1, <3>3, MatchRemoval DEF MatchInv
  <2> QED
    BY <1>2, <2>1, ExecCases, MatchFlush, MatchExecRan, MatchExecLost DEF Ingester
<1>3. ASSUME Reset PROVE MatchInv'
  <2>1. /\ budget'.faults = 0 => budget.faults = 0
        /\ budget.resets > 0 => budget'.resets > 0
        /\ detail' = detail \/ budget'.resets > 0
        /\ reset' # "idle" => budget'.resets > 0
    <3>1. CASE budget' = budget
      BY <1>1, <1>3, <3>1, ResetIs, ResetCounted DEF MatchInv
    <3>2. CASE Fault
      <4>1. budget'.faults > 0 /\ budget'.resets = budget.resets
        BY <1>1, <3>2, FaultIs
      <4>2. budget' # budget /\ budget' # [budget EXCEPT !.resets = @ + 1]
        <5>1. budget'.faults = budget.faults + 1 /\ budget.faults \in Nat
          BY <1>1, <3>2 DEF Fault
        <5>2. ASSUME budget' = [budget EXCEPT !.resets = @ + 1] PROVE FALSE
          BY <1>1, <5>1, <5>2, ResetCounted
        <5>3. ASSUME budget' = budget PROVE FALSE
          BY <5>1, <5>3
        <5> QED
          BY <5>2, <5>3
      <4> QED
        BY <1>3, <4>1, <4>2, ResetIs DEF MatchInv
    <3>3. CASE budget' = [budget EXCEPT !.resets = @ + 1]
      BY <1>1, <3>3, ResetCounted
    <3> QED
      BY <1>3, <3>1, <3>2, <3>3, ResetIs
  <2>2. /\ todo' = todo
        /\ \A c \in Contestants : board'[c] \in {board[c], None}
        /\ \A c \in Contestants : detail'[c] \in {detail[c], None}
    BY <1>3, ResetIs
  <2> QED
    BY <2>1, <2>2, MatchRemoval
<1>4. ASSUME Page \/ vars' = vars PROVE MatchInv'
  <2>1. UNCHANGED <<board, detail, todo, reset>> /\ (budget' = budget \/ Fault)
    BY <1>4, PageIs DEF vars, ingestVars, resetVars
  <2>2. budget' = budget \/ (budget'.faults > 0 /\ budget'.resets = budget.resets)
    BY <1>1, <2>1, FaultIs
  <2>3. (budget'.faults = 0 => budget.faults = 0) /\ budget'.resets = budget.resets
    BY <2>2
  <2> QED
    BY <2>1, <2>3, MatchRemoval DEF MatchInv
<1> QED
  BY <1>2, <1>3, <1>4 DEF Next

\* When no flush is under way and no command was lost, a ranked contestant's detail
\* is of the window that ranks it, or a reset took it: for any number of ingesters,
\* contestants, resets and trims, although ranks and details are written by two
\* commands of a pipeline between which the others run.
THEOREM RanksMatchDetails == Spec => []RankMatchesDetail
<1>1. BaseInv /\ MatchInv => RankMatchesDetail
  <2> SUFFICES ASSUME BaseInv, MatchInv, NEW c \in Contestants,
                      phase[Home[c]] # "pipe", budget.faults = 0, board[c] # None
               PROVE  detail[c] = board[c] \/ (detail[c] = None /\ budget.resets > 0)
    BY DEF RankMatchesDetail
  <2>1. ~ Midway(c)
    BY LeaderboardBounds DEF BaseInv, PipeInv, PipeOf, Midway
  <2> QED
    BY <2>1 DEF MatchInv, Matched
<1>2. Spec => [](BaseInv /\ MatchInv)
  BY BaseInit, BaseStep, MatchInit, MatchStep, PTL DEF Spec
<1> QED
  BY <1>1, <1>2, PTL

-----------------------------------------------------------------------------
(***************************************************************************)
(* Refreshed rows are fresh                                                *)
(***************************************************************************)

\* The page has heard of nothing that was not announced, and nothing is announced
\* before it is written.
Announced(c) ==
    /\ told[c] <= announced[c] /\ announced[c] <= windows[Home[c]]
    /\ detail[c] # None => announced[c] <= detail[c].ver

\* The window about to be announced has been written.
Announceable(g) ==
    todo[g] # <<>> /\ todo[g][1].op = "PUBLISH" /\ detail[todo[g][1].of] # None =>
        detail[todo[g][1].of].ver = windows[g]

FetchFresh(f) ==
    fetch[f] # None =>
        /\ \A c \in Contestants : fetch[f].need[c] <= announced[c]
        /\ \A row \in fetch[f].rows : row[2].ver >= fetch[f].need[row[1]]

FreshInv ==
    /\ \A c \in Contestants : Announced(c)
    /\ \A g \in Ingesters : Announceable(g)
    /\ \A f \in Fetches : FetchFresh(f)

\* The types the comparisons need.
LEMMA FreshTypes ==
    ASSUME BaseInv
    PROVE  /\ \A c \in Contestants : /\ told[c] \in Int /\ announced[c] \in Int
                                     /\ Home[c] \in Ingesters /\ windows[Home[c]] \in Int
                                     /\ detail[c] # None => detail[c].ver \in Int
           /\ \A f \in Fetches : fetch[f] # None =>
                \A c \in Contestants : fetch[f].need[c] \in Int
           /\ \A f \in Fetches : fetch[f] # None =>
                \A row \in fetch[f].rows : row[1] \in Contestants /\ row[2].ver \in Int
<1>1. ASSUME NEW c \in Contestants
      PROVE  /\ told[c] \in Int /\ announced[c] \in Int
             /\ Home[c] \in Ingesters /\ windows[Home[c]] \in Int
             /\ detail[c] # None => detail[c].ver \in Int
  BY LeaderboardBounds DEF BaseInv, TypeInv, Rows
<1>2. ASSUME NEW f \in Fetches, fetch[f] # None
      PROVE  /\ \A c \in Contestants : fetch[f].need[c] \in Int
             /\ \A row \in fetch[f].rows : row[1] \in Contestants /\ row[2].ver \in Int
  <2>1. fetch[f] \in FetchRec
    BY <1>2 DEF BaseInv, TypeInv
  <2>2. fetch[f].need \in [Contestants -> 0..MaxWindows] /\ fetch[f].rows \subseteq Contestants \X Rows
    BY <2>1 DEF FetchRec
  <2> QED
    BY <2>2 DEF Rows
<1> QED
  BY <1>1, <1>2

LEMMA FreshInit == Init => FreshInv
<1> SUFFICES ASSUME Init PROVE FreshInv
  OBVIOUS
<1>1. /\ \A g \in Ingesters : todo[g] = <<>> /\ windows[g] = 0
      /\ \A c \in Contestants : detail[c] = None /\ told[c] = 0 /\ announced[c] = 0
      /\ \A f \in Fetches : fetch[f] = None
  BY DEF Init
<1> QED
  BY <1>1, LeaderboardBounds DEF FreshInv, Announced, Announceable, FetchFresh

LEMMA FreshFlush ==
    ASSUME BaseInv, FreshInv, NEW g \in Ingesters, Flush(g)
    PROVE  FreshInv'
<1>1. PICK t \in Seq(Command) : t[1].op = "ZADD" /\ todo' = [todo EXCEPT ![g] = t]
  BY FlushIs
<1>2. /\ windows' = [windows EXCEPT ![g] = windows[g] + 1]
      /\ UNCHANGED <<detail, told, announced, fetch>>
  BY FlushIs DEF pageVars
<1>3. /\ todo'[g] = t
      /\ \A h \in Ingesters : h # g => todo'[h] = todo[h] /\ windows'[h] = windows[h]
      /\ \A h \in Ingesters : windows'[h] >= windows[h]
  BY <1>1, <1>2 DEF BaseInv, TypeInv
<1>4. ASSUME NEW c \in Contestants PROVE Announced(c)'
  <2>1. Announced(c) /\ windows'[Home[c]] >= windows[Home[c]] /\ windows'[Home[c]] \in Int
    BY <1>2, <1>3, LeaderboardBounds DEF FreshInv, BaseInv, TypeInv
  <2> QED
    BY <1>2, <2>1, FreshTypes DEF Announced
<1>5. ASSUME NEW h \in Ingesters PROVE Announceable(h)'
  BY <1>1, <1>2, <1>3 DEF FreshInv, Announceable
<1>6. ASSUME NEW f \in Fetches PROVE FetchFresh(f)'
  BY <1>2 DEF FreshInv, FetchFresh
<1> QED
  BY <1>4, <1>5, <1>6 DEF FreshInv

LEMMA FreshExecRan ==
    ASSUME BaseInv, FreshInv, NEW g \in Ingesters, ExecRan(g)
    PROVE  FreshInv'
<1> DEFINE cmd == todo[g][1]
           u == Tail(todo[g])
<1>1. /\ todo[g] # <<>> /\ cmd \in Command /\ Home[cmd.of] = g /\ cmd.row.ver = windows[g]
      /\ detail' = IF cmd.op = "SET" THEN [detail EXCEPT ![cmd.of] = cmd.row] ELSE detail
      /\ announced' = IF cmd.op = "PUBLISH"
           THEN [announced EXCEPT ![cmd.of] = windows[g]] ELSE announced
      /\ todo' = [todo EXCEPT ![g] = u]
      /\ UNCHANGED <<windows, told, fetch>>
  BY ExecRanIs DEF pageVars
<1>2. /\ cmd.op = "ZADD" => u # <<>> /\ u[1].op = "SET"
      /\ cmd.op = "SET" => u # <<>> /\ u[1].of = cmd.of /\ u[1].op = "PUBLISH"
      /\ cmd.op = "PUBLISH" /\ u # <<>> => u[1].op = "ZADD"
  BY ExecRanIs
<1> HIDE DEF u
<1>3. /\ todo'[g] = u /\ \A h \in Ingesters : h # g => todo'[h] = todo[h]
  BY <1>1 DEF BaseInv, TypeInv
<1>4. /\ cmd.op \in {"ZADD", "SET", "PUBLISH"} /\ cmd.of \in Contestants
      /\ cmd.op = "SET" => detail'[cmd.of] = cmd.row
      /\ cmd.op # "SET" => detail' = detail
      /\ cmd.op = "PUBLISH" => announced'[cmd.of] = windows[g]
      /\ cmd.op # "PUBLISH" => announced' = announced
      /\ \A c \in Contestants :
           c # cmd.of => detail'[c] = detail[c] /\ announced'[c] = announced[c]
  BY <1>1 DEF Command, BaseInv, TypeInv
<1>5. cmd.op = "PUBLISH" /\ detail[cmd.of] # None => detail[cmd.of].ver = windows[g]
  <2>1. Announceable(g)
    BY DEF FreshInv
  <2> QED
    BY <1>1, <2>1 DEF Announceable
<1>6. ASSUME NEW c \in Contestants PROVE Announced(c)' /\ announced'[c] >= announced[c]
  <2>1. /\ told[c] <= announced[c] /\ announced[c] <= windows[Home[c]]
        /\ detail[c] # None => announced[c] <= detail[c].ver
    BY DEF FreshInv, Announced
  <2>2. CASE c = cmd.of
    BY <1>1, <1>4, <1>5, <2>1, <2>2, FreshTypes DEF Announced
  <2>3. CASE c # cmd.of
    BY <1>1, <1>4, <2>1, <2>3, FreshTypes DEF Announced
  <2> QED
    BY <2>2, <2>3
<1>7. ASSUME NEW h \in Ingesters PROVE Announceable(h)'
  <2>1. CASE h = g
    <3>1. CASE cmd.op = "SET"
      BY <1>1, <1>2, <1>3, <1>4, <2>1, <3>1 DEF Announceable
    <3>2. CASE cmd.op # "SET"
      <4>1. todo'[g] # <<>> => todo'[g][1].op # "PUBLISH"
        BY <1>2, <1>3, <1>4, <3>2
      <4> QED
        BY <2>1, <4>1 DEF Announceable
    <3> QED
      BY <3>1, <3>2
  <2>2. CASE h # g
    <3>1. todo'[h] = todo[h] /\ Announceable(h)
      BY <1>3, <2>2 DEF FreshInv
    <3>2. todo[h] # <<>> => todo[h][1].of \in Contestants /\ Home[todo[h][1].of] = h
      BY OwnCommands DEF Command
    <3>3. todo[h] # <<>> => detail'[todo[h][1].of] = detail[todo[h][1].of]
      BY <1>1, <1>4, <2>2, <3>2
    <3> QED
      BY <1>1, <3>1, <3>3 DEF Announceable
  <2> QED
    BY <2>1, <2>2
<1>8. ASSUME NEW f \in Fetches PROVE FetchFresh(f)'
  <2>1. SUFFICES ASSUME fetch[f] # None
                 PROVE  /\ \A c \in Contestants : fetch[f].need[c] <= announced'[c]
                        /\ \A row \in fetch[f].rows : row[2].ver >= fetch[f].need[row[1]]
    BY <1>1 DEF FetchFresh
  <2>2. /\ \A c \in Contestants : fetch[f].need[c] <= announced[c]
        /\ \A row \in fetch[f].rows : row[2].ver >= fetch[f].need[row[1]]
    BY <2>1 DEF FreshInv, FetchFresh
  <2>3. ASSUME NEW c \in Contestants PROVE fetch[f].need[c] <= announced'[c]
    <3>1. announced'[c] \in Int
      BY BaseExecRan DEF BaseInv, TypeInv
    <3> QED
      BY <1>6, <2>1, <2>2, <3>1, FreshTypes
  <2> QED
    BY <2>2, <2>3
<1> QED
  BY <1>6, <1>7, <1>8 DEF FreshInv

\* A step that only removes details, and announces nothing.
LEMMA FreshRemoval ==
    ASSUME BaseInv, FreshInv, UNCHANGED <<windows, announced, told, fetch>>,
           \A g \in Ingesters : todo'[g] \in {todo[g], <<>>},
           \A c \in Contestants : detail'[c] \in {detail[c], None}
    PROVE  FreshInv'
<1>1. ASSUME NEW c \in Contestants PROVE Announced(c)'
  BY DEF FreshInv, Announced
<1>2. ASSUME NEW h \in Ingesters PROVE Announceable(h)'
  <2>1. Announceable(h) /\ (todo[h] # <<>> => todo[h][1].of \in Contestants)
    BY OwnCommands DEF FreshInv, Command
  <2> QED
    BY <2>1 DEF Announceable
<1>3. ASSUME NEW f \in Fetches PROVE FetchFresh(f)'
  BY DEF FreshInv, FetchFresh
<1> QED
  BY <1>1, <1>2, <1>3 DEF FreshInv

LEMMA FreshPage ==
    ASSUME BaseInv, FreshInv, Page
    PROVE  FreshInv'
<1>1. UNCHANGED <<detail, todo, windows, announced>>
  BY PageIs
<1>2. ASSUME NEW h \in Ingesters PROVE Announceable(h)'
  BY <1>1 DEF FreshInv, Announceable
<1>3. ASSUME NEW c \in Contestants PROVE Announced(c)'
  <2>1. told'[c] = told[c] \/ told'[c] = announced[c]
    <3>1. told' = told \/ \E d \in Contestants : Relay(d)
      BY Zenon DEF Page, Prompt, StartFetch, ReadRanks, ReadDetails
    <3> QED
      BY <3>1 DEF Relay, BaseInv, TypeInv
  <2>2. announced[c] <= announced[c] /\ Announced(c)
    BY FreshTypes DEF FreshInv
  <2> QED
    BY <1>1, <2>1, <2>2 DEF Announced
<1>4. ASSUME NEW f \in Fetches PROVE FetchFresh(f)'
  <2>1. FetchFresh(f) /\ \A c \in Contestants : told[c] <= announced[c]
    BY DEF FreshInv, Announced
  <2>2. CASE fetch'[f] = fetch[f]
    BY <1>1, <2>1, <2>2 DEF FetchFresh
  <2>3. CASE fetch'[f] # fetch[f]
    <3>1. StartFetch(f) \/ ReadRanks(f) \/ ReadDetails(f)
      <4>1. ASSUME NEW e \in Fetches, e # f,
                   StartFetch(e) \/ ReadRanks(e) \/ ReadDetails(e)
            PROVE  fetch'[f] = fetch[f]
        BY <4>1, FetchIs DEF BaseInv, TypeInv
      <4>2. fetch' = fetch \/ \E e \in Fetches : StartFetch(e) \/ ReadRanks(e) \/ ReadDetails(e)
        BY DEF Page, Relay, Prompt
      <4> QED
        BY <2>3, <4>1, <4>2
    <3>2. PICK r \in FetchRec : FetchStep(f, r) /\ fetch' = [fetch EXCEPT ![f] = r]
      BY <3>1, FetchIs
    <3>3. fetch'[f] = r
      BY <3>2 DEF BaseInv, TypeInv
    <3>4. \A c \in Contestants : r.need[c] <= announced[c]
      BY <2>1, <3>2, FreshTypes DEF FetchStep, FetchFresh
    <3>5. \A row \in r.rows : row[2].ver >= r.need[row[1]]
      <4>1. CASE r.rows = {}
        BY <4>1
      <4>2. CASE fetch[f] # None /\ r.need = fetch[f].need /\ r.rows = fetch[f].rows
        BY <2>1, <4>2 DEF FetchFresh
      <4>3. CASE /\ fetch[f] # None /\ r.need = fetch[f].need
                 /\ \A row \in r.rows :
                      row[1] \in Contestants /\ row[2] = detail[row[1]] /\ detail[row[1]] # None
        <5> TAKE row \in r.rows
        <5> DEFINE c == row[1]
        <5>1. c \in Contestants /\ row[2] = detail[c] /\ detail[c] # None
          BY <4>3
        <5> HIDE DEF c
        <5>2. announced[c] <= detail[c].ver
          BY <5>1 DEF FreshInv, Announced
        <5>3. r.need[c] <= announced[c] /\ r.need[c] \in Int
          BY <3>4, <4>3, <5>1, FreshTypes
        <5>4. detail[c].ver >= r.need[c]
          BY <5>1, <5>2, <5>3, FreshTypes
        <5> QED
          BY <5>1, <5>4 DEF c
      <4> QED
        BY <3>2, <4>1, <4>2, <4>3 DEF FetchStep
    <3> QED
      BY <1>1, <3>3, <3>4, <3>5 DEF FetchFresh
  <2> QED
    BY <2>2, <2>3
<1> QED
  BY <1>2, <1>3, <1>4 DEF FreshInv

LEMMA FreshStep == BaseInv /\ FreshInv /\ [Next]_vars => FreshInv'
<1> SUFFICES ASSUME BaseInv, FreshInv, [Next]_vars PROVE FreshInv'
  OBVIOUS
<1>1. ASSUME NEW g \in Ingesters, Ingester(g) PROVE FreshInv'
  <2>1. ASSUME Card(g) \/ Trim(g) PROVE FreshInv'
    BY <2>1, TrimIs, FreshRemoval
  <2>2. ASSUME ExecLost(g) PROVE FreshInv'
    <3>1. /\ \A h \in Ingesters : todo'[h] \in {todo[h], <<>>}
          /\ UNCHANGED <<detail, windows, announced, told, fetch>>
      BY <2>2 DEF ExecLost, pageVars, BaseInv, TypeInv
    <3> QED
      BY <3>1, FreshRemoval
  <2> QED
    BY <1>1, <2>1, <2>2, ExecCases, FreshFlush, FreshExecRan DEF Ingester
<1>2. ASSUME Reset PROVE FreshInv'
  BY <1>2, ResetIs, FreshRemoval
<1>3. ASSUME vars' = vars PROVE FreshInv'
  <2>1. UNCHANGED <<detail, todo, windows, announced, told, fetch>>
    BY <1>3 DEF vars, ingestVars, pageVars
  <2> QED
    BY <2>1, FreshRemoval
<1> QED
  BY <1>1, <1>2, <1>3, FreshPage DEF Next

\* A fetch never shows a contestant's row as it was before an update of its window
\* that the page had heard of, however flushes, trims, resets and fetches overlap: the pipeline
\* announces a window after it has written it.
THEOREM FetchedRowsAreFresh == Spec => []RowsAreFresh
<1>1. FreshInv => RowsAreFresh
  BY DEF FreshInv, FetchFresh, RowsAreFresh
<1>2. Spec => [](BaseInv /\ FreshInv)
  BY BaseInit, BaseStep, FreshInit, FreshStep, PTL DEF Spec
<1> QED
  BY <1>1, <1>2, PTL

-----------------------------------------------------------------------------
(***************************************************************************)
(* A reset is complete                                                     *)
(***************************************************************************)

\* While a reset runs, what a flush still writes is of a later window than what
\* was there before; the board has nothing older, nor have the details that SCAN
\* has passed.
Since(c) ==
    /\ floor[c] <= windows[Home[c]]
    /\ phase[Home[c]] = "pipe" => floor[c] < windows[Home[c]]
    /\ board[c] # None => board[c].ver > floor[c]
    /\ c \notin left \cup keys => (detail[c] # None => detail[c].ver > floor[c])

ResetInv ==
    /\ reset # "idle" => \A c \in Contestants : Since(c)
    /\ reset = "done" => left = {}
    /\ reset # "del" => keys = {}

LEMMA ResetTypes ==
    ASSUME BaseInv, NEW c \in Contestants
    PROVE  /\ Home[c] \in Ingesters /\ windows[Home[c]] \in Int /\ floor[c] \in Int
BY LeaderboardBounds DEF BaseInv, TypeInv

LEMMA ResetFlush ==
    ASSUME BaseInv, ResetInv, NEW g \in Ingesters, Flush(g)
    PROVE  ResetInv'
<1>1. /\ windows' = [windows EXCEPT ![g] = windows[g] + 1]
      /\ phase' = [phase EXCEPT ![g] = "pipe"]
      /\ UNCHANGED <<board, detail, reset, left, keys, floor>>
  BY FlushIs DEF resetVars
<1>2. ASSUME NEW c \in Contestants, Since(c) PROVE Since(c)'
  <2>1. CASE Home[c] = g
    <3>1. windows'[Home[c]] = windows[Home[c]] + 1
      BY <1>1, <2>1 DEF BaseInv, TypeInv
    <3> QED
      BY <1>1, <1>2, <3>1, ResetTypes DEF Since
  <2>2. CASE Home[c] # g
    <3>1. windows'[Home[c]] = windows[Home[c]] /\ phase'[Home[c]] = phase[Home[c]]
      BY <1>1, <2>2, ResetTypes DEF BaseInv, TypeInv
    <3> QED
      BY <1>1, <1>2, <3>1 DEF Since
  <2> QED
    BY <2>1, <2>2
<1> QED
  BY <1>1, <1>2 DEF ResetInv

LEMMA ResetExecRan ==
    ASSUME BaseInv, ResetInv, NEW g \in Ingesters, ExecRan(g)
    PROVE  ResetInv'
<1> DEFINE cmd == todo[g][1]
<1>1. /\ cmd \in Command /\ Home[cmd.of] = g /\ cmd.row.ver = windows[g]
      /\ phase[g] = "pipe"
      /\ board' = IF cmd.op = "ZADD" THEN [board EXCEPT ![cmd.of] = cmd.row] ELSE board
      /\ detail' = IF cmd.op = "SET" THEN [detail EXCEPT ![cmd.of] = cmd.row] ELSE detail
      /\ UNCHANGED <<windows, reset, left, keys, floor>>
  BY ExecRanIs DEF resetVars
<1>2. \A h \in Ingesters : phase'[h] = "pipe" => phase[h] = "pipe"
  <2>1. phase' = [phase EXCEPT ![g] = IF Tail(todo[g]) = <<>> THEN "card" ELSE "pipe"]
    BY ExecRanIs
  <2> QED
    BY <1>1, <2>1 DEF BaseInv, TypeInv
<1>3. \A c \in Contestants :
        /\ board'[c] \in {board[c], cmd.row} /\ detail'[c] \in {detail[c], cmd.row}
        /\ c # cmd.of => board'[c] = board[c] /\ detail'[c] = detail[c]
  BY <1>1 DEF Command, BaseInv, TypeInv
<1>4. ASSUME NEW c \in Contestants, Since(c) PROVE Since(c)'
  <2>1. CASE c = cmd.of
    BY <1>1, <1>2, <1>3, <1>4, <2>1, ResetTypes DEF Since
  <2>2. CASE c # cmd.of
    BY <1>1, <1>2, <1>3, <1>4, <2>2, ResetTypes DEF Since
  <2> QED
    BY <2>1, <2>2
<1> QED
  BY <1>1, <1>4 DEF ResetInv

\* A step that writes nothing.
LEMMA ResetRemoval ==
    ASSUME BaseInv, ResetInv, UNCHANGED <<windows, detail, reset, left, keys, floor>>,
           \A g \in Ingesters : phase'[g] = "pipe" => phase[g] = "pipe",
           \A c \in Contestants : board'[c] \in {board[c], None}
    PROVE  ResetInv'
<1>1. ASSUME NEW c \in Contestants, Since(c) PROVE Since(c)'
  BY <1>1, ResetTypes DEF Since
<1> QED
  BY <1>1 DEF ResetInv

LEMMA ResetDelBoard ==
    ASSUME BaseInv, ResetInv, DelBoard
    PROVE  ResetInv'
<1>1. keys = {} /\ keys' = {}
  BY DEF DelBoard, ResetInv
<1>2. CASE reset' = "idle"
  BY <1>1, <1>2 DEF ResetInv
<1>3. CASE reset' # "idle"
  <2>1. /\ board' = Empty /\ reset' = "scan" /\ left' = Contestants
        /\ floor' = [c \in Contestants |-> Written(c)]
        /\ UNCHANGED <<detail, phase, windows>>
    BY <1>3 DEF DelBoard, GiveUp, ingestVars
  <2>2. ASSUME NEW c \in Contestants PROVE Since(c)'
    <3>1. board'[c] = None /\ floor'[c] = Written(c) /\ c \in left'
      BY <2>1 DEF Empty
    <3> QED
      BY <2>1, <3>1, ResetTypes DEF Since, Written
  <2> QED
    BY <1>1, <2>1, <2>2 DEF ResetInv
<1> QED
  BY <1>2, <1>3

LEMMA ResetScan ==
    ASSUME BaseInv, ResetInv, ScanDetails
    PROVE  ResetInv'
<1>1. CASE reset' = "idle"
  BY <1>1 DEF ScanDetails, GiveUp, NextPage, ResetInv
<1>2. CASE reset' # "idle"
  <2>1. PICK page \in (SUBSET left) \ {{}} :
          left' = left \ page /\ keys' = {c \in page : detail[c] # None}
    BY <1>2 DEF ScanDetails, GiveUp
  <2>2. /\ reset = "scan" /\ reset' = IF keys' = {} THEN NextPage(left') ELSE "del"
        /\ UNCHANGED <<board, detail, phase, windows, floor>>
    BY <1>2 DEF ScanDetails, GiveUp, ingestVars
  <2>3. ASSUME NEW c \in Contestants PROVE Since(c)'
    <3>1. Since(c) /\ keys = {}
      BY <2>2 DEF ResetInv
    <3>2. c \notin left' \cup keys' => c \notin left \/ detail[c] = None
      BY <2>1
    <3> QED
      BY <2>2, <3>1, <3>2 DEF Since
  <2> QED
    BY <2>2, <2>3 DEF ResetInv, NextPage
<1> QED
  BY <1>1, <1>2

LEMMA ResetDel ==
    ASSUME BaseInv, ResetInv, DelDetails
    PROVE  ResetInv'
<1>1. keys' = {}
  BY DEF DelDetails
<1>2. CASE reset' = "idle"
  BY <1>1, <1>2 DEF ResetInv
<1>3. CASE reset' # "idle"
  <2>1. /\ reset = "del" /\ detail' = Without(keys) /\ reset' = NextPage(left)
        /\ UNCHANGED <<board, phase, windows, floor, left>>
    BY <1>3 DEF DelDetails, GiveUp, ingestVars
  <2>2. ASSUME NEW c \in Contestants PROVE Since(c)'
    <3>1. Since(c)
      BY <2>1 DEF ResetInv
    <3>2. detail'[c] = IF c \in keys THEN None ELSE detail[c]
      BY <2>1 DEF Without
    <3> QED
      BY <1>1, <2>1, <3>1, <3>2 DEF Since
  <2> QED
    BY <1>1, <2>1, <2>2 DEF ResetInv, NextPage
<1> QED
  BY <1>2, <1>3

LEMMA ResetStep == BaseInv /\ ResetInv /\ [Next]_vars => ResetInv'
<1> SUFFICES ASSUME BaseInv, ResetInv, [Next]_vars PROVE ResetInv'
  OBVIOUS
<1>1. ASSUME NEW g \in Ingesters, Ingester(g) PROVE ResetInv'
  <2>1. ASSUME Card(g) \/ Trim(g) PROVE ResetInv'
    <3>1. \A h \in Ingesters : phase'[h] = "pipe" => phase[h] = "pipe"
      BY <2>1 DEF Card, Trim, BaseInv, TypeInv
    <3> QED
      BY <2>1, <3>1, TrimIs, ResetRemoval DEF resetVars
  <2>2. ASSUME ExecLost(g) PROVE ResetInv'
    <3>1. /\ \A h \in Ingesters : phase'[h] = "pipe" => phase[h] = "pipe"
          /\ UNCHANGED <<board, windows, detail, reset, left, keys, floor>>
      BY <2>2 DEF ExecLost, resetVars, BaseInv, TypeInv
    <3> QED
      BY <3>1, ResetRemoval
  <2> QED
    BY <1>1, <2>1, <2>2, ExecCases, ResetFlush, ResetExecRan DEF Ingester
<1>2. ASSUME Page \/ vars' = vars PROVE ResetInv'
  <2>1. UNCHANGED <<board, detail, phase, windows, reset, left, keys, floor>>
    BY <1>2, PageIs DEF vars, ingestVars, resetVars
  <2> QED
    BY <2>1, ResetRemoval
<1> QED
  BY <1>1, <1>2, ResetDelBoard, ResetScan, ResetDel DEF Next, Reset

\* After DELETE /leaderboard has answered 200 no row written before it began is left,
\* whatever any number of ingesters flushed meanwhile and in whatever pages SCAN
\* returned the keys.
THEOREM ResetsAreComplete == Spec => []ResetIsComplete
<1>1. Init => ResetInv
  BY DEF Init, ResetInv
<1>2. ResetInv => ResetIsComplete
  BY DEF ResetInv, Since, ResetIsComplete
<1>3. Spec => [](BaseInv /\ ResetInv)
  BY <1>1, BaseInit, BaseStep, ResetStep, PTL DEF Spec
<1> QED
  BY <1>2, <1>3, PTL

-----------------------------------------------------------------------------
(***************************************************************************)
(* The trim of a single ingester                                           *)
(***************************************************************************)

\* As long as no command was lost, what ZCARD returned is still the size of the board,
\* unless a reset emptied it.
TrimInv ==
    \A g \in Ingesters : phase[g] = "trim" /\ budget.faults = 0 =>
        Members = {} \/ Cardinality(Members) = card[g]

\* Neither the reset nor the page takes a fault back.
LEMMA FaultsStay ==
    ASSUME BaseInv, Reset \/ Page \/ vars' = vars, budget'.faults = 0
    PROVE  budget.faults = 0
<1>1. ~ Fault
  BY FaultIs DEF BaseInv, TypeInv
<1>2. CASE Page \/ vars' = vars
  BY <1>1, <1>2, PageIs DEF vars
<1>3. CASE DelBoard
  <2>1. budget' = [budget EXCEPT !.resets = @ + 1]
    BY <1>1, <1>3 DEF DelBoard
  <2> QED
    BY <2>1 DEF BaseInv, TypeInv
<1>4. CASE ScanDetails
  BY <1>1, <1>4 DEF ScanDetails
<1>5. CASE DelDetails
  BY <1>1, <1>5 DEF DelDetails
<1> QED
  BY <1>2, <1>3, <1>4, <1>5 DEF Reset

LEMMA TrimStep ==
    ASSUME BaseInv, TrimInv, \A g, h \in Ingesters : g = h, [Next]_vars
    PROVE  TrimInv'
<1>1. ASSUME NEW g \in Ingesters, Ingester(g) PROVE TrimInv'
  <2>1. SUFFICES ASSUME phase'[g] = "trim", budget'.faults = 0
                 PROVE  (Members = {} \/ Cardinality(Members) = card[g])'
    BY DEF TrimInv
  <2>2. Card(g) \/ Exec(g) \/ Flush(g) \/ Trim(g)
    BY <1>1 DEF Ingester
  <2>3. ~ Flush(g) /\ ~ Exec(g) /\ ~ Trim(g)
    <3>1. ~ Flush(g) /\ ~ Exec(g)
      BY <2>1 DEF Flush, Exec, BaseInv, TypeInv
    <3>2. ~ Fault
      BY <2>1, FaultIs DEF BaseInv, TypeInv
    <3>3. ~ Trim(g)
      BY <2>1, <3>2, SurplusIs DEF BaseInv, TypeInv
    <3> QED
      BY <3>1, <3>3
  <2>4. board' = board /\ card'[g] = Cardinality(Members)
    BY <2>1, <2>2, <2>3 DEF Card, BaseInv, TypeInv
  <2> QED
    BY <2>4 DEF Members
<1>2. ASSUME Reset PROVE TrimInv'
  <2>1. UNCHANGED <<phase, card>> /\ board' \in {board, Empty}
    BY <1>2 DEF Reset, DelBoard, ScanDetails, DelDetails, ingestVars
  <2>4. budget'.faults = 0 => budget.faults = 0
    BY <1>2, FaultsStay
  <2>2. CASE board' = board
    BY <2>1, <2>2, <2>4 DEF TrimInv, Members
  <2>3. CASE board' = Empty
    BY <2>3 DEF TrimInv, Members, Empty
  <2> QED
    BY <2>1, <2>2, <2>3
<1>3. ASSUME Page \/ vars' = vars PROVE TrimInv'
  <2>1. UNCHANGED <<phase, card, board>>
    BY <1>3, PageIs DEF vars, ingestVars
  <2>2. budget'.faults = 0 => budget.faults = 0
    BY <1>3, FaultsStay
  <2> QED
    BY <2>1, <2>2 DEF TrimInv, Members
<1> QED
  BY <1>1, <1>2, <1>3 DEF Next

\* The trim removes no entry that is among the best: what it removes is at a rank
\* below the surplus that ZCARD counted.
LEMMA TrimKeeps ==
    ASSUME BaseInv, TrimInv, NEW g \in Ingesters, Trim(g), budget'.faults = 0,
           NEW c \in Members,
           Cardinality(Members) - Rank(c) <= TopN
    PROVE  board'[c] = board[c]
<1>1. c \in Contestants /\ Cardinality(Members) = card[g] /\ Cardinality(Members) \in Nat
  <2>1. phase[g] = "trim" /\ budget.faults = 0
    <3>1. phase[g] = "trim" /\ (budget' = budget \/ Fault)
      BY SurplusIs
    <3>2. ~ Fault
      BY FaultIs DEF BaseInv, TypeInv
    <3> QED
      BY <3>1, <3>2
  <2>2. c \in Contestants /\ Members # {}
    BY DEF Members
  <2> QED
    BY <2>1, <2>2, MembersFinite DEF TrimInv
<1>2. Rank(c) \in Nat
  <2>1. IsFiniteSet({d \in Members : Below(d, c)})
    <3>1. {d \in Members : Below(d, c)} \subseteq Members
      OBVIOUS
    <3> QED
      BY <3>1, MembersFinite, FS_Subset
  <2> QED
    BY <2>1, FS_CardinalityType DEF Rank
<1>3. ~ (Rank(c) <= LastTrimmed(g))
  BY <1>1, <1>2, LeaderboardBounds DEF LastTrimmed
<1> QED
  BY <1>1, <1>3, SurplusIs DEF RemoveSurplus

\* With a single ingester, the one replica the deployment starts with, the trim keeps
\* the N best whatever resets come between ZCARD and ZREMRANGEBYRANK, unless a command
\* was lost.  With two ingesters this is false, as the run LeaderboardTrim shows.
THEOREM SingleIngesterKeepsTopN ==
    ASSUME \A g, h \in Ingesters : g = h
    PROVE  Spec => TrimKeepsTopN
<1>1. Init => TrimInv
  BY DEF Init, TrimInv
<1>2. BaseInv /\ TrimInv /\ [Next]_vars =>
        [\A g \in Ingesters : Trim(g) /\ budget'.faults = 0 =>
          \A c \in Members : Cardinality(Members) - Rank(c) <= TopN => board'[c] = board[c]]_vars
  BY TrimKeeps
<1>3. BaseInv /\ TrimInv /\ [Next]_vars => TrimInv'
  BY TrimStep
<1> QED
  BY <1>1, <1>2, <1>3, BaseInit, BaseStep, PTL DEF Spec, TrimKeepsTopN
=============================================================================
