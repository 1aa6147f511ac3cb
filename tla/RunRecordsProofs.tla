-------------------------- MODULE RunRecordsProofs --------------------------
(***************************************************************************)
(* Proofs about RunRecords, for every set of runs and contestants, every   *)
(* length of the lists and any number of listings, clears and lost         *)
(* commands.                                                               *)
(***************************************************************************)
EXTENDS RunRecords, SequenceLemmas

RunKey(r) == <<"run", r>>
SubKey(r) == <<"runs:submission", r>>
ConKey(c) == <<"runs:contestant", c>>

\* A list is longer than LTRIM leaves it by what was pushed since, and by the
\* LTRIMs that were lost.
Trimming(c) == saver # None /\ cmd \in {4, 8} /\ c = Of[saver]
LengthInv ==
    \A c \in Contestants :
        Len(db[ConKey(c)]) <= RunCap + budget.faults + (IF Trimming(c) THEN 1 ELSE 0)

DbOK ==
    /\ db \in [Keys -> {<<"RUNNING">>, <<"FINAL">>} \cup Seq(Runs)]
    /\ \A r \in Runs : db[RunKey(r)] \in {<<>>, <<"RUNNING">>, <<"FINAL">>}
    /\ \A r \in Runs : db[SubKey(r)] \in Seq(Runs)
    /\ \A c \in Contestants : db[ConKey(c)] \in Seq(Runs)

FieldsOK ==
    /\ budget \in [faults : Nat, reads : Nat, clears : Nat]
    /\ saver \in Runs \cup {None} /\ cmd \in 1..8
    /\ over \subseteq Runs /\ old \subseteq Runs
    /\ ids \in Seq(Runs)
    /\ clear \in {"idle", "run:*", "runs:*", "200", "500"}
    /\ keys \subseteq Keys /\ left \subseteq Keys

TypeInv == DbOK /\ FieldsOK /\ LengthInv

\* A run that is being judged is not over; what a clear saw over still is; keys
\* that were scanned are being deleted.
PhaseInv ==
    /\ saver \notin over /\ old \subseteq over
    /\ keys # {} => clear \in {"run:*", "runs:*"}
    /\ budget.clears = 0 => clear = "idle" /\ keys = {}

\* What clearRuns has not come to yet of an old run is in the part SCAN has
\* still to visit, or among the keys to delete.
Todo == left \cup keys
Cleared ==
    \A r \in old :
        /\ clear = "run:*" => RunKey(r) \in Todo \/ ~Exists(RunKey(r))
        /\ clear = "runs:*" =>
             /\ ~Exists(RunKey(r))
             /\ SubKey(r) \in Todo \/ ~Exists(SubKey(r))
             /\ ConKey(Of[r]) \in Todo \/ r \notin ToSet(db[ConKey(Of[r])])
        /\ clear = "200" =>
             /\ ~Exists(RunKey(r)) /\ ~Exists(SubKey(r))
             /\ r \notin ToSet(db[ConKey(Of[r])])

\* While nothing was lost or cleared, a listed run has its record, or is over.
Found(r) == Exists(RunKey(r)) \/ r \in over
ListedInv ==
    budget.faults = 0 /\ budget.clears = 0 =>
        /\ saver # None /\ cmd > 1 => Found(saver)
        /\ \A c \in Contestants : \A r \in ToSet(db[ConKey(c)]) : Found(r)
        /\ \A r \in ToSet(ids) : Found(r)

-----------------------------------------------------------------------------
(***************************************************************************)
(* Lemmas about the keys and the commands                                  *)
(***************************************************************************)

LEMMA KeysAre ==
    /\ KeySpace("run:*") = {RunKey(r) : r \in Runs}
    /\ KeySpace("runs:*") = {SubKey(r) : r \in Runs} \cup {ConKey(c) : c \in Contestants}
    /\ Keys = KeySpace("run:*") \cup KeySpace("runs:*")
    /\ \A r \in Runs : RunKey(r) \in Keys /\ SubKey(r) \in Keys
    /\ \A c \in Contestants : ConKey(c) \in Keys
<1>1. KeySpace("run:*") = {RunKey(r) : r \in Runs}
  BY DEF KeySpace, RunKey
<1>2. KeySpace("runs:*") = {SubKey(r) : r \in Runs} \cup {ConKey(c) : c \in Contestants}
  BY DEF KeySpace, SubKey, ConKey
<1> QED
  BY <1>1, <1>2 DEF Keys

LEMMA KeysDiffer ==
    /\ \A r, s \in Runs : RunKey(r) = RunKey(s) => r = s
    /\ \A r, s \in Runs : SubKey(r) = SubKey(s) => r = s
    /\ \A c, d \in Contestants : ConKey(c) = ConKey(d) => c = d
    /\ \A r, s \in Runs : RunKey(r) # SubKey(s)
    /\ \A r \in Runs : \A c \in Contestants : RunKey(r) # ConKey(c) /\ SubKey(r) # ConKey(c)
BY DEF RunKey, SubKey, ConKey

\* The eight commands of the two saves of a run.
LEMMA CommandsAre ==
    ASSUME NEW r \in Runs, NEW k \in 1..8
    PROVE  LET c == SaveCommands(r)[k] IN
           /\ Len(SaveCommands(r)) = 8
           /\ k = 1 => c.key = RunKey(r) /\ c.op = "RUNNING"
           /\ k = 5 => c.key = RunKey(r) /\ c.op = "FINAL"
           /\ k \in {2, 6} => c.key = SubKey(r) /\ c.op = "LPUSH"
           /\ k \in {3, 7} => c.key = ConKey(Of[r]) /\ c.op = "LPUSH"
           /\ k \in {4, 8} => c.key = ConKey(Of[r]) /\ c.op = "LTRIM"
<1> DEFINE running == [key |-> RunKey(r), op |-> "RUNNING"]
           final == [key |-> RunKey(r), op |-> "FINAL"]
           push == [key |-> SubKey(r), op |-> "LPUSH"]
           pushCon == [key |-> ConKey(Of[r]), op |-> "LPUSH"]
           trim == [key |-> ConKey(Of[r]), op |-> "LTRIM"]
<1>1. SaveCommands(r) = <<running, push, pushCon, trim>> \o <<final, push, pushCon, trim>>
  BY DEF SaveCommands, Save, RunKey, SubKey, ConKey
<1>2. /\ running.key = RunKey(r) /\ running.op = "RUNNING"
      /\ final.key = RunKey(r) /\ final.op = "FINAL"
      /\ push.key = SubKey(r) /\ push.op = "LPUSH"
      /\ pushCon.key = ConKey(Of[r]) /\ pushCon.op = "LPUSH"
      /\ trim.key = ConKey(Of[r]) /\ trim.op = "LTRIM"
  OBVIOUS
<1> HIDE DEF running, final, push, pushCon, trim
<1> DEFINE a == <<running, push, pushCon, trim>>
           b == <<final, push, pushCon, trim>>
           V == {running, final, push, pushCon, trim}
<1>3. /\ a \in Seq(V) /\ b \in Seq(V) /\ Len(a) = 4 /\ Len(b) = 4
      /\ a[1] = running /\ a[2] = push /\ a[3] = pushCon /\ a[4] = trim
      /\ b[1] = final /\ b[2] = push /\ b[3] = pushCon /\ b[4] = trim
      /\ SaveCommands(r) = a \o b
  BY <1>1
<1> HIDE DEF a, b, V
<1>4. /\ Len(SaveCommands(r)) = 8
      /\ \A i \in 1..8 : SaveCommands(r)[i] = IF i <= 4 THEN a[i] ELSE b[i - 4]
  <2>1. /\ Len(a \o b) = Len(a) + Len(b)
        /\ \A i \in 1..(Len(a) + Len(b)) :
             (a \o b)[i] = IF i <= Len(a) THEN a[i] ELSE b[i - Len(a)]
    BY <1>3, ConcatProperties
  <2> QED
    BY <1>3, <2>1
<1> DEFINE s == SaveCommands(r)
<1>5. /\ s[1] = running /\ s[2] = push /\ s[3] = pushCon /\ s[4] = trim
      /\ s[5] = final /\ s[6] = push /\ s[7] = pushCon /\ s[8] = trim
  BY <1>3, <1>4
<1> QED
  BY <1>2, <1>4, <1>5

LEMMA SpendIs ==
    ASSUME budget \in [faults : Nat, reads : Nat, clears : Nat],
           NEW what \in {"faults", "reads", "clears"}, NEW max, Spend(what, max)
    PROVE  /\ budget' \in [faults : Nat, reads : Nat, clears : Nat]
           /\ budget'[what] = budget[what] + 1
           /\ what # "faults" => budget'.faults = budget.faults
           /\ what # "clears" => budget'.clears = budget.clears
BY DEF Spend

LEMMA KeptElements ==
    ASSUME NEW list \in Seq(Runs)
    PROVE  /\ Kept(list) \in Seq(Runs) /\ Len(Kept(list)) <= RunCap
           /\ ToSet(Kept(list)) \subseteq ToSet(list)
<1> DEFINE k == IF Len(list) <= RunCap THEN Len(list) ELSE RunCap
<1>1. k \in Nat /\ k <= Len(list) /\ k <= RunCap
  BY RunRecordBounds
<1>2. Kept(list) = SubSeq(list, 1, k)
  BY DEF Kept
<1> HIDE DEF k
<1> QED
  BY <1>1, <1>2, Prefix

\* What saveResult does in a step: a command runs or is lost, and the next one
\* is up.
LEMMA SaveStepIs ==
    ASSUME FieldsOK, SaveStep
    PROVE  /\ saver \in Runs /\ Of[saver] \in Contestants
           /\ \/ UNCHANGED db /\ budget'.faults = budget.faults + 1
              \/ /\ UNCHANGED budget
                 /\ \/ /\ cmd \in {1, 5}
                       /\ \/ db' = [db EXCEPT ![RunKey(saver)] = <<"RUNNING">>]
                          \/ db' = [db EXCEPT ![RunKey(saver)] = <<"FINAL">>]
                    \/ /\ cmd \in {2, 6}
                       /\ db' = [db EXCEPT ![SubKey(saver)] = <<saver>> \o @]
                    \/ /\ cmd \in {3, 7}
                       /\ db' = [db EXCEPT ![ConKey(Of[saver])] = <<saver>> \o @]
                    \/ /\ cmd \in {4, 8}
                       /\ db' = [db EXCEPT ![ConKey(Of[saver])] = Kept(@)]
           /\ budget' \in [faults : Nat, reads : Nat, clears : Nat]
           /\ budget'.clears = budget.clears
           /\ \/ cmd = 8 /\ saver' = None /\ cmd' = 1 /\ over' = over \cup {saver}
              \/ cmd # 8 /\ cmd' = cmd + 1 /\ UNCHANGED <<saver, over>>
           /\ UNCHANGED <<ids, clear, left, keys, old>>
<1> DEFINE c == SaveCommands(saver)[cmd]
<1>1. saver \in Runs /\ Of[saver] \in Contestants
  BY RunRecordBounds DEF SaveStep, FieldsOK
<1>2. /\ \/ db' = [db EXCEPT ![c.key] = Effect(@, c.op, saver)] /\ UNCHANGED budget
         \/ Fault /\ UNCHANGED db
      /\ IF cmd = Len(SaveCommands(saver))
           THEN saver' = None /\ cmd' = 1 /\ over' = over \cup {saver}
           ELSE cmd' = cmd + 1 /\ UNCHANGED <<saver, over>>
      /\ UNCHANGED <<ids, clear, left, keys, old>>
  BY DEF SaveStep, clearVars
<1>3. cmd \in 1..8 /\ Len(SaveCommands(saver)) = 8
  BY <1>1, CommandsAre DEF FieldsOK
<1>4. ASSUME Fault
      PROVE  /\ budget' \in [faults : Nat, reads : Nat, clears : Nat]
             /\ budget'.faults = budget.faults + 1 /\ budget'.clears = budget.clears
  BY <1>4, SpendIs DEF Fault, FieldsOK
<1>5. ASSUME db' = [db EXCEPT ![c.key] = Effect(@, c.op, saver)]
      PROVE  \/ /\ cmd \in {1, 5}
                /\ \/ db' = [db EXCEPT ![RunKey(saver)] = <<"RUNNING">>]
                   \/ db' = [db EXCEPT ![RunKey(saver)] = <<"FINAL">>]
             \/ /\ cmd \in {2, 6}
                /\ db' = [db EXCEPT ![SubKey(saver)] = <<saver>> \o @]
             \/ /\ cmd \in {3, 7}
                /\ db' = [db EXCEPT ![ConKey(Of[saver])] = <<saver>> \o @]
             \/ /\ cmd \in {4, 8}
                /\ db' = [db EXCEPT ![ConKey(Of[saver])] = Kept(@)]
  <2>0. cmd \in {1, 2, 3, 4, 5, 6, 7, 8}
    BY DEF FieldsOK
  <2>1. CASE cmd = 1
    <3>1. c.key = RunKey(saver) /\ c.op = "RUNNING"
      BY <1>1, <1>3, <2>1, CommandsAre
    <3>2. \A v : Effect(v, c.op, saver) = <<"RUNNING">>
      BY <3>1 DEF Effect
    <3> HIDE DEF c
    <3> QED
      BY <1>5, <2>1, <3>1, <3>2
  <2>2. CASE cmd = 5
    <3>1. c.key = RunKey(saver) /\ c.op = "FINAL"
      BY <1>1, <1>3, <2>2, CommandsAre
    <3>2. \A v : Effect(v, c.op, saver) = <<"FINAL">>
      BY <3>1 DEF Effect
    <3> HIDE DEF c
    <3> QED
      BY <1>5, <2>2, <3>1, <3>2
  <2>3. CASE cmd \in {2, 6}
    <3>1. c.key = SubKey(saver) /\ c.op = "LPUSH"
      BY <1>1, <1>3, <2>3, CommandsAre
    <3>2. \A v : Effect(v, c.op, saver) = <<saver>> \o v
      BY <3>1 DEF Effect
    <3> HIDE DEF c
    <3> QED
      BY <1>5, <2>3, <3>1, <3>2
  <2>4. CASE cmd \in {3, 7}
    <3>1. c.key = ConKey(Of[saver]) /\ c.op = "LPUSH"
      BY <1>1, <1>3, <2>4, CommandsAre
    <3>2. \A v : Effect(v, c.op, saver) = <<saver>> \o v
      BY <3>1 DEF Effect
    <3> HIDE DEF c
    <3> QED
      BY <1>5, <2>4, <3>1, <3>2
  <2>5. CASE cmd \in {4, 8}
    <3>1. c.key = ConKey(Of[saver]) /\ c.op = "LTRIM"
      BY <1>1, <1>3, <2>5, CommandsAre
    <3>2. \A v : Effect(v, c.op, saver) = Kept(v)
      BY <3>1 DEF Effect
    <3> HIDE DEF c
    <3> QED
      BY <1>5, <2>5, <3>1, <3>2
  <2> QED
    BY <2>0, <2>1, <2>2, <2>3, <2>4, <2>5
<1>6. /\ budget' \in [faults : Nat, reads : Nat, clears : Nat]
      /\ budget'.clears = budget.clears
  BY <1>2, <1>4 DEF FieldsOK
<1>7. \/ cmd = 8 /\ saver' = None /\ cmd' = 1 /\ over' = over \cup {saver}
      \/ cmd # 8 /\ cmd' = cmd + 1 /\ UNCHANGED <<saver, over>>
  BY <1>2, <1>3
<1> HIDE DEF c
<1> QED
  BY <1>1, <1>2, <1>4, <1>5, <1>6, <1>7

-----------------------------------------------------------------------------
(***************************************************************************)
(* Types, and the length of the lists                                      *)
(***************************************************************************)

\* Which keys a step of saveResult writes, and what is left in the others.
LEMMA SaveWrites ==
    ASSUME DbOK, FieldsOK, SaveStep
    PROVE  /\ DbOK'
           /\ \A r \in Runs : r # saver => /\ db'[RunKey(r)] = db[RunKey(r)]
                                           /\ db'[SubKey(r)] = db[SubKey(r)]
           /\ db'[RunKey(saver)] = db[RunKey(saver)] \/ db'[RunKey(saver)] # <<>>
           /\ cmd = 1 /\ UNCHANGED budget => db'[RunKey(saver)] # <<>>
           /\ \A c \in Contestants :
                c # Of[saver] \/ cmd \notin {3, 4, 7, 8} => db'[ConKey(c)] = db[ConKey(c)]
           /\ LET list == db[ConKey(Of[saver])]
                  new == db'[ConKey(Of[saver])]
              IN  /\ cmd \in {3, 7} =>
                       \/ new = list
                       \/ Len(new) = Len(list) + 1 /\ ToSet(new) = {saver} \cup ToSet(list)
                  /\ cmd \in {4, 8} =>
                       \/ new = list /\ budget' # budget
                       \/ Len(new) <= RunCap /\ ToSet(new) \subseteq ToSet(list)
<1>0. /\ saver \in Runs /\ Of[saver] \in Contestants /\ cmd \in 1..8
      /\ RunKey(saver) \in Keys /\ SubKey(saver) \in Keys /\ ConKey(Of[saver]) \in Keys
      /\ \A c \in Contestants : db[ConKey(c)] \in Seq(Runs) /\ Len(db[ConKey(c)]) \in Nat
  BY SaveStepIs, KeysAre DEF DbOK, FieldsOK
<1>1. CASE UNCHANGED db /\ budget' # budget
  BY <1>0, <1>1 DEF DbOK
<1>2. CASE cmd \in {1, 5} /\ \/ db' = [db EXCEPT ![RunKey(saver)] = <<"RUNNING">>]
                             \/ db' = [db EXCEPT ![RunKey(saver)] = <<"FINAL">>]
  <2>1. PICK v \in {<<"RUNNING">>, <<"FINAL">>} : db' = [db EXCEPT ![RunKey(saver)] = v]
    BY <1>2
  <2>v. v # <<>>
    <3>1. Len(<<"RUNNING">>) = 1 /\ Len(<<"FINAL">>) = 1 /\ Len(<<>>) = 0
      OBVIOUS
    <3> QED
      BY <3>1
  <2>2. /\ db'[RunKey(saver)] = v
        /\ \A key \in Keys : key # RunKey(saver) => db'[key] = db[key]
        /\ db' \in [Keys -> {<<"RUNNING">>, <<"FINAL">>} \cup Seq(Runs)]
    BY <1>0, <2>1 DEF DbOK
  <2>3. /\ \A r \in Runs : /\ r # saver => db'[RunKey(r)] = db[RunKey(r)]
                           /\ db'[SubKey(r)] = db[SubKey(r)]
        /\ \A c \in Contestants : db'[ConKey(c)] = db[ConKey(c)]
    BY <1>0, <2>2, KeysAre, KeysDiffer
  <2>4. DbOK'
    BY <2>2, <2>3 DEF DbOK
  <2> QED
    BY <1>0, <1>2, <2>v, <2>2, <2>3, <2>4
<1>3. CASE cmd \in {2, 6} /\ db' = [db EXCEPT ![SubKey(saver)] = <<saver>> \o @]
  <2>1. <<saver>> \o db[SubKey(saver)] \in Seq(Runs)
    BY <1>0, ToSetPush DEF DbOK
  <2>2. /\ db'[SubKey(saver)] \in Seq(Runs)
        /\ \A key \in Keys : key # SubKey(saver) => db'[key] = db[key]
        /\ db' \in [Keys -> {<<"RUNNING">>, <<"FINAL">>} \cup Seq(Runs)]
    BY <1>0, <1>3, <2>1 DEF DbOK
  <2>3. /\ \A r \in Runs : /\ r # saver => db'[SubKey(r)] = db[SubKey(r)]
                           /\ db'[RunKey(r)] = db[RunKey(r)]
        /\ \A c \in Contestants : db'[ConKey(c)] = db[ConKey(c)]
    BY <1>0, <2>2, KeysAre, KeysDiffer
  <2>4. DbOK'
    BY <2>2, <2>3 DEF DbOK
  <2> QED
    BY <1>0, <1>3, <2>2, <2>3, <2>4
<1>4. ASSUME NEW new \in Seq(Runs), db' = [db EXCEPT ![ConKey(Of[saver])] = new]
      PROVE  /\ DbOK' /\ db'[ConKey(Of[saver])] = new
             /\ \A r \in Runs : db'[RunKey(r)] = db[RunKey(r)] /\ db'[SubKey(r)] = db[SubKey(r)]
             /\ \A c \in Contestants : c # Of[saver] => db'[ConKey(c)] = db[ConKey(c)]
  <2>1. /\ db'[ConKey(Of[saver])] = new
        /\ \A key \in Keys : key # ConKey(Of[saver]) => db'[key] = db[key]
        /\ db' \in [Keys -> {<<"RUNNING">>, <<"FINAL">>} \cup Seq(Runs)]
    BY <1>0, <1>4 DEF DbOK
  <2>2. /\ \A r \in Runs : db'[RunKey(r)] = db[RunKey(r)] /\ db'[SubKey(r)] = db[SubKey(r)]
        /\ \A c \in Contestants : c # Of[saver] => db'[ConKey(c)] = db[ConKey(c)]
    BY <1>0, <2>1, KeysAre, KeysDiffer
  <2> QED
    BY <2>1, <2>2 DEF DbOK
<1>5. CASE cmd \in {3, 7} /\ db' = [db EXCEPT ![ConKey(Of[saver])] = <<saver>> \o @]
  <2> DEFINE list == db[ConKey(Of[saver])]
             new == <<saver>> \o list
  <2>1. list \in Seq(Runs) /\ new \in Seq(Runs) /\ ToSet(new) = {saver} \cup ToSet(list)
    BY <1>0, ToSetPush
  <2>2. Len(new) = Len(list) + 1
    BY <1>0
  <2>3. db' = [db EXCEPT ![ConKey(Of[saver])] = new]
    BY <1>5
  <2> HIDE DEF new
  <2>4. /\ DbOK' /\ db'[ConKey(Of[saver])] = new
        /\ \A r \in Runs : db'[RunKey(r)] = db[RunKey(r)] /\ db'[SubKey(r)] = db[SubKey(r)]
        /\ \A c \in Contestants : c # Of[saver] => db'[ConKey(c)] = db[ConKey(c)]
    BY <1>4, <2>1, <2>3
  <2>5. LET l == db[ConKey(Of[saver])]
            n == db'[ConKey(Of[saver])]
        IN  Len(n) = Len(l) + 1 /\ ToSet(n) = {saver} \cup ToSet(l)
    BY <2>1, <2>2, <2>4
  <2>6. cmd \in {3, 7} /\ cmd # 1 /\ cmd \notin {4, 8}
    BY <1>5
  <2> QED
    BY <1>0, <2>4, <2>5, <2>6
<1>6. CASE cmd \in {4, 8} /\ db' = [db EXCEPT ![ConKey(Of[saver])] = Kept(@)]
  <2> DEFINE list == db[ConKey(Of[saver])]
             new == Kept(list)
  <2>1. new \in Seq(Runs) /\ Len(new) <= RunCap /\ ToSet(new) \subseteq ToSet(list)
    BY <1>0, KeptElements
  <2>2. db' = [db EXCEPT ![ConKey(Of[saver])] = new]
    BY <1>6
  <2> HIDE DEF new
  <2>3. /\ DbOK' /\ db'[ConKey(Of[saver])] = new
        /\ \A r \in Runs : db'[RunKey(r)] = db[RunKey(r)] /\ db'[SubKey(r)] = db[SubKey(r)]
        /\ \A c \in Contestants : c # Of[saver] => db'[ConKey(c)] = db[ConKey(c)]
    BY <1>4, <2>1, <2>2
  <2> QED
    BY <1>0, <1>6, <2>1, <2>3
<1>7. budget'.faults = budget.faults + 1 => budget' # budget
  BY DEF FieldsOK
<1> QED
  BY <1>1, <1>2, <1>3, <1>5, <1>6, <1>7, SaveStepIs

\* What clearRuns and an expiry do to the keys: some are emptied, others stay.
LEMMA Emptied ==
    ASSUME DbOK, NEW gone, db' = [key \in Keys |-> IF key \in gone THEN <<>> ELSE db[key]]
    PROVE  /\ DbOK'
           /\ \A key \in Keys : db'[key] = IF key \in gone THEN <<>> ELSE db[key]
<1>1. \A key \in Keys : db'[key] = IF key \in gone THEN <<>> ELSE db[key]
  OBVIOUS
<1>2. <<>> \in Seq(Runs)
  OBVIOUS
<1> QED
  BY <1>1, <1>2, KeysAre DEF DbOK

LEMMA NewestElements ==
    ASSUME DbOK, NEW c \in Contestants
    PROVE  Newest(c) \in Seq(Runs) /\ ToSet(Newest(c)) \subseteq ToSet(db[ConKey(c)])
<1> DEFINE list == db[ConKey(c)]
           k == IF Len(list) < Limit THEN Len(list) ELSE Limit
<1>1. list \in Seq(Runs) /\ k \in Nat /\ k <= Len(list)
  BY RunRecordBounds DEF DbOK
<1>2. Newest(c) = SubSeq(list, 1, k)
  BY DEF Newest, ConKey
<1> HIDE DEF list, k
<1>3. SubSeq(list, 1, k) \in Seq(Runs) /\ ToSet(SubSeq(list, 1, k)) \subseteq ToSet(list)
  BY <1>1, Prefix
<1> QED
  BY <1>2, <1>3 DEF list

\* The page after a page, or the pattern after a pattern.
LEMMA NextPageIs ==
    ASSUME clear \in {"run:*", "runs:*"}, NEW rest, NextPage(rest)
    PROVE  \/ rest # {} /\ left' = rest /\ clear' = clear
           \/ /\ rest = {} /\ clear = "run:*"
              /\ clear' = "runs:*" /\ left' = KeySpace("runs:*")
           \/ rest = {} /\ clear = "runs:*" /\ clear' = "200" /\ left' = {}
BY DEF NextPage

\* SCAN: the keys of a page that exist are up for deletion, or clearRuns fails.
LEMMA ScanIs ==
    ASSUME FieldsOK, Scan
    PROVE  /\ UNCHANGED <<db, saver, cmd, over, ids>>
           /\ clear \in {"run:*", "runs:*"} /\ keys = {}
           /\ \/ /\ GiveUp
              \/ \E page \in SUBSET left :
                   /\ keys' = {key \in page : Exists(key)}
                   /\ \/ keys' = {} /\ NextPage(left \ page)
                      \/ keys' # {} /\ left' = left \ page /\ clear' = clear
                   /\ UNCHANGED <<old, budget>>
BY DEF Scan, saverVars

\* DEL: the keys are gone and the next page is up, or clearRuns fails.
LEMMA DelIs ==
    ASSUME FieldsOK, PhaseInv, Del
    PROVE  /\ UNCHANGED <<saver, cmd, over, ids>>
           /\ clear \in {"run:*", "runs:*"} /\ keys # {}
           /\ \/ db' = [key \in Keys |-> IF key \in keys THEN <<>> ELSE db[key]]
              \/ UNCHANGED db
           /\ \/ GiveUp
              \/ /\ NextPage(left) /\ keys' = {} /\ UNCHANGED <<old, budget>>
                 /\ db' = [key \in Keys |-> IF key \in keys THEN <<>> ELSE db[key]]
<1>1. keys # {} /\ clear \in {"run:*", "runs:*"}
  BY DEF Del, PhaseInv
<1>2. NextPage(left) => clear' # "500"
  BY <1>1, NextPageIs
<1> QED
  BY <1>1, <1>2 DEF Del, saverVars

LEMMA GiveUpIs ==
    ASSUME FieldsOK, GiveUp
    PROVE  /\ budget' \in [faults : Nat, reads : Nat, clears : Nat]
           /\ budget'.faults = budget.faults + 1 /\ budget'.clears = budget.clears
           /\ clear' = "500" /\ left' = {} /\ keys' = {} /\ old' = {}
BY SpendIs DEF GiveUp, Fault, FieldsOK

\* Nothing gives back what was lost or cleared.
LEMMA BudgetStep ==
    ASSUME FieldsOK, PhaseInv, [Next]_vars
    PROVE  /\ budget' \in [faults : Nat, reads : Nat, clears : Nat]
           /\ budget'.faults >= budget.faults /\ budget'.clears >= budget.clears
<1>0. budget \in [faults : Nat, reads : Nat, clears : Nat]
  BY DEF FieldsOK
<1>1. CASE UNCHANGED budget
  BY <1>0, <1>1
<1>2. CASE SaveStep
  BY <1>0, <1>2, SaveStepIs
<1>3. ASSUME NEW c \in Contestants, BeginList(c) PROVE /\ budget'.faults = budget.faults
                                                       /\ budget'.clears = budget.clears
                  /\ budget' \in [faults : Nat, reads : Nat, clears : Nat]
  BY <1>0, <1>3, SpendIs DEF BeginList
<1>4. ASSUME BeginClear PROVE /\ budget'.faults = budget.faults
                              /\ budget'.clears = budget.clears + 1
                              /\ budget' \in [faults : Nat, reads : Nat, clears : Nat]
  BY <1>0, <1>4, SpendIs DEF BeginClear
<1>5. CASE GiveUp
  BY <1>0, <1>5, GiveUpIs
<1>6. ASSUME ~GiveUp, Scan \/ Del PROVE UNCHANGED budget
  BY <1>6, ScanIs, DelIs
<1>7. ASSUME NEW r \in Runs, BeginRun(r) \/ ExpireRun(r) PROVE UNCHANGED budget
  BY <1>7 DEF BeginRun, ExpireRun
<1>8. ASSUME MGet \/ UNCHANGED vars PROVE UNCHANGED budget
  BY <1>8 DEF MGet, vars
<1> QED
  BY <1>0, <1>1, <1>2, <1>3, <1>4, <1>5, <1>6, <1>7, <1>8 DEF Next

LEMMA LengthStep ==
    ASSUME TypeInv, PhaseInv, [Next]_vars
    PROVE  DbOK' /\ LengthInv'
<1>0. /\ DbOK /\ FieldsOK /\ LengthInv /\ RunCap \in Nat /\ budget.faults \in Nat
      /\ budget'.faults \in Nat /\ budget'.faults >= budget.faults
      /\ \A c \in Contestants : ConKey(c) \in Keys /\ Len(db[ConKey(c)]) \in Nat
  BY BudgetStep, RunRecordBounds, KeysAre DEF TypeInv, FieldsOK, DbOK
<1>1. CASE SaveStep
  <2>1. DbOK'
    BY <1>0, <1>1, SaveWrites
  <2>2. ASSUME NEW c \in Contestants
        PROVE  Len(db'[ConKey(c)])
                 <= RunCap + budget'.faults + (IF Trimming(c)' THEN 1 ELSE 0)
    <3>0. /\ Len(db[ConKey(c)]) <= RunCap + budget.faults + (IF Trimming(c) THEN 1 ELSE 0)
          /\ saver \in Runs /\ saver # None /\ cmd \in 1..8
      BY <1>0, <1>1 DEF LengthInv, SaveStep, FieldsOK
    <3>1. CASE c # Of[saver]
      <4>1. db'[ConKey(c)] = db[ConKey(c)] /\ ~Trimming(c)
        BY <1>0, <1>1, <3>1, SaveWrites DEF Trimming
      <4> QED
        BY <1>0, <3>0, <4>1
    <3>2. CASE c = Of[saver] /\ cmd \in {1, 2, 5, 6}
      <4>1. db'[ConKey(c)] = db[ConKey(c)] /\ ~Trimming(c)
        BY <1>0, <1>1, <3>2, SaveWrites DEF Trimming
      <4> QED
        BY <1>0, <3>0, <4>1
    <3>3. CASE c = Of[saver] /\ cmd \in {3, 7}
      <4>1. /\ db'[ConKey(c)] = db[ConKey(c)] \/ Len(db'[ConKey(c)]) = Len(db[ConKey(c)]) + 1
            /\ ~Trimming(c)
        BY <1>0, <1>1, <3>3, SaveWrites DEF Trimming
      <4>2. Trimming(c)'
        <5>1. cmd' = cmd + 1 /\ saver' = saver
          BY <1>0, <1>1, <3>3, SaveStepIs
        <5>2. cmd' \in {4, 8}
          BY <3>3, <5>1
        <5> QED
          BY <3>0, <3>3, <5>1, <5>2 DEF Trimming
      <4> QED
        BY <1>0, <3>0, <4>1, <4>2
    <3>4. CASE c = Of[saver] /\ cmd \in {4, 8}
      <4>1. \/ db'[ConKey(c)] = db[ConKey(c)] /\ budget' # budget
            \/ Len(db'[ConKey(c)]) <= RunCap
        BY <1>0, <1>1, <3>4, SaveWrites
      <4>2. budget' # budget => budget'.faults = budget.faults + 1
        BY <1>0, <1>1, SaveStepIs
      <4>3. Len(db'[ConKey(c)]) \in Nat
        BY <2>1 DEF DbOK
      <4>4. Len(db[ConKey(c)]) <= RunCap + budget.faults + 1
        BY <1>0, <3>0
      <4>5. Len(db'[ConKey(c)]) <= RunCap + budget'.faults
        <5>1. CASE db'[ConKey(c)] = db[ConKey(c)] /\ budget' # budget
          BY <1>0, <4>2, <4>4, <5>1
        <5>2. CASE Len(db'[ConKey(c)]) <= RunCap
          BY <1>0, <4>3, <5>2
        <5> QED
          BY <4>1, <5>1, <5>2
      <4> QED
        BY <1>0, <4>3, <4>5
    <3> QED
      BY <3>0, <3>1, <3>2, <3>3, <3>4
  <2> QED
    BY <2>1, <2>2 DEF LengthInv
<1>2. ASSUME NEW gone, db' = [key \in Keys |-> IF key \in gone THEN <<>> ELSE db[key]],
             \A c \in Contestants : Trimming(c)' <=> Trimming(c)
      PROVE  DbOK' /\ LengthInv'
  <2>1. /\ DbOK'
        /\ \A key \in Keys : db'[key] = IF key \in gone THEN <<>> ELSE db[key]
    BY <1>0, <1>2, Emptied
  <2>2. \A c \in Contestants : db'[ConKey(c)] = db[ConKey(c)] \/ Len(db'[ConKey(c)]) = 0
    BY <1>0, <2>1
  <2> QED
    BY <1>0, <1>2, <2>1, <2>2 DEF LengthInv
<1>3. ASSUME UNCHANGED db, \A c \in Contestants : Trimming(c) => Trimming(c)'
      PROVE  DbOK' /\ LengthInv'
  BY <1>0, <1>3 DEF DbOK, LengthInv
<1>4. ASSUME UNCHANGED <<saver, cmd>>
      PROVE  \A c \in Contestants : Trimming(c)' <=> Trimming(c)
  BY <1>4 DEF Trimming
<1>5. ASSUME NEW r \in Runs, BeginRun(r) PROVE DbOK' /\ LengthInv'
  BY <1>3, <1>5 DEF BeginRun, Trimming
<1>6. ASSUME NEW r \in Runs, ExpireRun(r) PROVE DbOK' /\ LengthInv'
  <2>1. UNCHANGED <<saver, cmd>> /\ db' = [db EXCEPT ![RunKey(r)] = <<>>]
    BY <1>6 DEF ExpireRun, saverVars, RunKey
  <2>2. db' = [key \in Keys |-> IF key \in {RunKey(r)} THEN <<>> ELSE db[key]]
    BY <1>0, <2>1 DEF DbOK
  <2> QED
    BY <1>2, <1>4, <2>1, <2>2
<1>7. ASSUME Scan \/ Del PROVE DbOK' /\ LengthInv'
  <2>1. /\ UNCHANGED <<saver, cmd>>
        /\ \/ db' = [key \in Keys |-> IF key \in keys THEN <<>> ELSE db[key]]
           \/ UNCHANGED db
    BY <1>0, <1>7, ScanIs, DelIs
  <2> QED
    BY <1>2, <1>3, <1>4, <2>1
<1>8. ASSUME \/ \E c \in Contestants : BeginList(c)
             \/ MGet \/ BeginClear \/ UNCHANGED vars
      PROVE  DbOK' /\ LengthInv'
  <2>1. UNCHANGED <<db, saver, cmd>>
    BY <1>8 DEF BeginList, MGet, BeginClear, vars, saverVars
  <2> QED
    BY <1>3, <1>4, <2>1
<1> QED
  BY <1>1, <1>5, <1>6, <1>7, <1>8 DEF Next

LEMMA FieldsStep ==
    ASSUME TypeInv, PhaseInv, [Next]_vars
    PROVE  FieldsOK' /\ PhaseInv'
<1>0. /\ DbOK /\ FieldsOK /\ None \notin Runs
      /\ budget' \in [faults : Nat, reads : Nat, clears : Nat]
      /\ budget'.clears >= budget.clears /\ budget.clears \in Nat /\ budget'.clears \in Nat
  BY BudgetStep, RunRecordBounds DEF TypeInv, FieldsOK
<1>1. ASSUME NEW r \in Runs, BeginRun(r) PROVE FieldsOK' /\ PhaseInv'
  <2>1. /\ r \notin over /\ saver' = r /\ cmd' = 1
        /\ UNCHANGED <<over, ids, clear, left, keys, old, budget>>
    BY <1>1 DEF BeginRun, clearVars
  <2> QED
    BY <1>0, <2>1 DEF FieldsOK, PhaseInv
<1>2. CASE SaveStep
  <2>1. /\ saver \in Runs /\ UNCHANGED <<ids, clear, left, keys, old>>
        /\ \/ cmd = 8 /\ saver' = None /\ cmd' = 1 /\ over' = over \cup {saver}
           \/ cmd # 8 /\ cmd' = cmd + 1 /\ UNCHANGED <<saver, over>>
        /\ budget'.clears = budget.clears
    BY <1>0, <1>2, SaveStepIs
  <2>2. cmd' \in 1..8 /\ saver' \in Runs \cup {None} /\ over' \subseteq Runs
    BY <1>0, <2>1 DEF FieldsOK
  <2>3. saver' \notin over' /\ over \subseteq over'
    BY <1>0, <2>1, <2>2 DEF PhaseInv
  <2> QED
    BY <1>0, <2>1, <2>2, <2>3 DEF FieldsOK, PhaseInv
<1>3. ASSUME NEW c \in Contestants, BeginList(c) PROVE FieldsOK' /\ PhaseInv'
  <2>1. ids' = Newest(c) /\ UNCHANGED <<saver, cmd, over, clear, left, keys, old>>
    BY <1>3 DEF BeginList, saverVars, clearVars
  <2>2. ids' \in Seq(Runs)
    BY <1>0, <2>1, NewestElements
  <2> QED
    BY <1>0, <2>1, <2>2 DEF FieldsOK, PhaseInv
<1>4. CASE MGet
  <2>1. ids' = <<>> /\ UNCHANGED <<saver, cmd, over, clear, left, keys, old>>
    BY <1>4 DEF MGet, saverVars, clearVars
  <2> QED
    BY <1>0, <2>1 DEF FieldsOK, PhaseInv
<1>5. CASE BeginClear
  <2>1. /\ clear' = "run:*" /\ left' = KeySpace("run:*") /\ keys' = {} /\ old' = over
        /\ UNCHANGED <<saver, cmd, over, ids>>
    BY <1>5 DEF BeginClear, saverVars
  <2>2. budget'.clears = budget.clears + 1
    BY <1>0, <1>5, SpendIs DEF BeginClear, FieldsOK
  <2> QED
    BY <1>0, <2>1, <2>2, KeysAre DEF FieldsOK, PhaseInv
<1>6. ASSUME UNCHANGED <<saver, cmd, over, ids>>, clear \in {"run:*", "runs:*"},
             keys' \subseteq Keys, left' \subseteq Keys, old' \subseteq old,
             clear' \in {"run:*", "runs:*", "200", "500"},
             keys' # {} => clear' \in {"run:*", "runs:*"}
      PROVE  FieldsOK' /\ PhaseInv'
  BY <1>0, <1>6 DEF FieldsOK, PhaseInv
<1>7. CASE GiveUp /\ (Scan \/ Del)
  <2>1. clear' = "500" /\ left' = {} /\ keys' = {} /\ old' = {}
    BY <1>0, <1>7, GiveUpIs
  <2>2. UNCHANGED <<saver, cmd, over, ids>> /\ clear \in {"run:*", "runs:*"}
    BY <1>0, <1>7, ScanIs, DelIs
  <2> QED
    BY <1>6, <2>1, <2>2
<1>8. CASE ~GiveUp /\ Scan
  <2>1. /\ UNCHANGED <<saver, cmd, over, ids>> /\ clear \in {"run:*", "runs:*"}
        /\ \E page \in SUBSET left :
             /\ keys' = {key \in page : Exists(key)}
             /\ \/ keys' = {} /\ NextPage(left \ page)
                \/ keys' # {} /\ left' = left \ page /\ clear' = clear
             /\ UNCHANGED <<old, budget>>
    BY <1>0, <1>8, ScanIs
  <2>2. PICK page \in SUBSET left :
             /\ keys' = {key \in page : Exists(key)}
             /\ \/ keys' = {} /\ NextPage(left \ page)
                \/ keys' # {} /\ left' = left \ page /\ clear' = clear
             /\ UNCHANGED <<old, budget>>
    BY <2>1
  <2>3. keys' \subseteq Keys
    BY <1>0, <2>2 DEF FieldsOK
  <2>4. left' \subseteq Keys /\ clear' \in {"run:*", "runs:*", "200"}
        /\ (keys' # {} => clear' \in {"run:*", "runs:*"})
    BY <1>0, <2>1, <2>2, NextPageIs, KeysAre DEF FieldsOK
  <2> QED
    BY <1>6, <2>1, <2>2, <2>3, <2>4
<1>9. CASE ~GiveUp /\ Del
  <2>1. /\ UNCHANGED <<saver, cmd, over, ids>> /\ clear \in {"run:*", "runs:*"}
        /\ NextPage(left) /\ keys' = {} /\ old' = old
    BY <1>0, <1>9, DelIs
  <2>2. left' \subseteq Keys /\ clear' \in {"run:*", "runs:*", "200"}
    BY <1>0, <2>1, NextPageIs, KeysAre DEF FieldsOK
  <2> QED
    BY <1>6, <2>1, <2>2
<1>10. ASSUME UNCHANGED vars \/ \E r \in Runs : ExpireRun(r) PROVE FieldsOK' /\ PhaseInv'
  <2>1. UNCHANGED <<saver, cmd, over, ids, clear, left, keys, old, budget>>
    BY <1>10 DEF ExpireRun, vars, saverVars, clearVars
  <2> QED
    BY <1>0, <2>1 DEF FieldsOK, PhaseInv
<1> QED
  BY <1>1, <1>2, <1>3, <1>4, <1>5, <1>7, <1>8, <1>9, <1>10 DEF Next

LEMMA TypeStep == TypeInv /\ PhaseInv /\ [Next]_vars => TypeInv' /\ PhaseInv'
BY LengthStep, FieldsStep DEF TypeInv

LEMMA TypeInit == Init => TypeInv /\ PhaseInv
<1> SUFFICES ASSUME Init PROVE TypeInv /\ PhaseInv
  OBVIOUS
<1>0. <<>> \in Seq(Runs) /\ Len(<<>>) = 0
  OBVIOUS
<1>1. \A key \in Keys : db[key] = <<>>
  BY DEF Init
<1>2. DbOK
  BY <1>0, <1>1, KeysAre DEF Init, DbOK
<1>3. FieldsOK
  BY <1>0 DEF Init, FieldsOK
<1>4. LengthInv
  BY <1>0, <1>1, KeysAre, RunRecordBounds DEF Init, LengthInv, Trimming
<1>5. PhaseInv
  BY DEF Init, PhaseInv
<1> QED
  BY <1>2, <1>3, <1>4, <1>5 DEF TypeInv

LEMMA TypeInvariant == Spec => [](TypeInv /\ PhaseInv)
BY TypeInit, TypeStep, PTL DEF Spec

\* The keys of runs keep their types, and runs:contestant:<id> stays within what
\* saveResult's LTRIM leaves, one entry just pushed and the LTRIMs that were lost.
THEOREM RunRecordsTypeCorrect == Spec => []TypeOK
<1>1. TypeInv => TypeOK
  <2> SUFFICES ASSUME TypeInv PROVE TypeOK
    OBVIOUS
  <2>0. DbOK /\ FieldsOK /\ LengthInv
    BY DEF TypeInv
  <2>1. \A r \in Runs : db[<<"run", r>>] \in {<<>>, <<"RUNNING">>, <<"FINAL">>}
    BY <2>0 DEF DbOK, RunKey
  <2>2. \A key \in KeySpace("runs:*") : db[key] \in Seq(Runs)
    BY <2>0, KeysAre DEF DbOK
  <2>3. ASSUME NEW c \in Contestants
        PROVE  Len(db[<<"runs:contestant", c>>]) <= RunCap + 1 + budget.faults
    <3>1. /\ Len(db[ConKey(c)]) <= RunCap + budget.faults + (IF Trimming(c) THEN 1 ELSE 0)
          /\ Len(db[ConKey(c)]) \in Nat /\ RunCap \in Nat /\ budget.faults \in Nat
      BY <2>0, RunRecordBounds DEF LengthInv, DbOK, FieldsOK
    <3> QED
      BY <3>1 DEF ConKey
  <2>4. ToSet(ids) \subseteq Runs
    BY <2>0, ToSetIsRange DEF FieldsOK
  <2> QED
    BY <2>0, <2>1, <2>2, <2>3, <2>4 DEF FieldsOK, TypeOK
<1> QED
  BY <1>1, TypeInvariant, PTL

-----------------------------------------------------------------------------
(***************************************************************************)
(* DELETE /admin/runs                                                      *)
(***************************************************************************)

\* A page that is done with: what it held is gone, and nothing else came back.
LEMMA PageDone ==
    ASSUME FieldsOK, Cleared, clear \in {"run:*", "runs:*"}, NEW rest, NextPage(rest),
           keys' = {}, old' = old,
           \A key \in Todo : key \in rest \/ db'[key] = <<>>,
           \A key \in Keys : db'[key] = <<>> \/ db'[key] = db[key]
    PROVE  Cleared'
<1> SUFFICES ASSUME NEW r \in old
             PROVE  /\ clear' = "run:*" => RunKey(r) \in Todo' \/ db'[RunKey(r)] = <<>>
                    /\ clear' = "runs:*" =>
                         /\ db'[RunKey(r)] = <<>>
                         /\ SubKey(r) \in Todo' \/ db'[SubKey(r)] = <<>>
                         /\ ConKey(Of[r]) \in Todo' \/ r \notin ToSet(db'[ConKey(Of[r])])
                    /\ clear' = "200" =>
                         /\ db'[RunKey(r)] = <<>> /\ db'[SubKey(r)] = <<>>
                         /\ r \notin ToSet(db'[ConKey(Of[r])])
  BY DEF Cleared, Exists
<1>0. /\ r \in Runs /\ Of[r] \in Contestants /\ Todo' = left'
      /\ RunKey(r) \in Keys /\ SubKey(r) \in Keys /\ ConKey(Of[r]) \in Keys
      /\ SubKey(r) \in KeySpace("runs:*") /\ ConKey(Of[r]) \in KeySpace("runs:*")
  BY RunRecordBounds, KeysAre DEF FieldsOK, Todo
<1>1. CASE rest # {} /\ left' = rest /\ clear' = clear
  BY <1>0, <1>1, ToSetEmpty DEF Cleared, Exists
<1>2. CASE rest = {} /\ clear = "run:*" /\ clear' = "runs:*" /\ left' = KeySpace("runs:*")
  BY <1>0, <1>2 DEF Cleared, Exists
<1>3. CASE rest = {} /\ clear = "runs:*" /\ clear' = "200" /\ left' = {}
  BY <1>0, <1>3, ToSetEmpty DEF Cleared, Exists
<1> QED
  BY <1>1, <1>2, <1>3, NextPageIs

LEMMA ClearedStep == TypeInv /\ PhaseInv /\ Cleared /\ [Next]_vars => Cleared'
<1> SUFFICES ASSUME TypeInv, PhaseInv, Cleared, [Next]_vars PROVE Cleared'
  OBVIOUS
<1>0. DbOK /\ FieldsOK /\ old \subseteq Runs /\ old \subseteq over /\ saver \notin over
  BY DEF TypeInv, FieldsOK, PhaseInv
<1>1. CASE SaveStep
  <2>0. UNCHANGED <<clear, left, keys, old>> /\ saver \in Runs /\ Of[saver] \in Contestants
    BY <1>0, <1>1, SaveStepIs
  <2>1. ASSUME NEW r \in old
        PROVE  /\ db'[RunKey(r)] = db[RunKey(r)] /\ db'[SubKey(r)] = db[SubKey(r)]
               /\ r \in ToSet(db'[ConKey(Of[r])]) => r \in ToSet(db[ConKey(Of[r])])
    <3>1. r \in Runs /\ r # saver /\ Of[r] \in Contestants /\ cmd \in 1..8
      BY <1>0, RunRecordBounds DEF FieldsOK
    <3>2. ToSet(db'[ConKey(Of[r])]) \subseteq ToSet(db[ConKey(Of[r])]) \cup {saver}
      <4>1. CASE Of[r] # Of[saver] \/ cmd \notin {3, 4, 7, 8}
        BY <1>0, <1>1, <3>1, <4>1, SaveWrites
      <4>2. CASE Of[r] = Of[saver] /\ cmd \in {3, 7}
        BY <1>0, <1>1, <4>2, SaveWrites
      <4>3. CASE Of[r] = Of[saver] /\ cmd \in {4, 8}
        BY <1>0, <1>1, <4>3, SaveWrites
      <4> QED
        BY <4>1, <4>2, <4>3
    <3> QED
      BY <1>0, <1>1, <3>1, <3>2, SaveWrites
  <2> QED
    BY <2>0, <2>1 DEF Cleared, Exists, Todo
<1>2. CASE BeginClear
  <2>1. clear' = "run:*" /\ left' = KeySpace("run:*") /\ keys' = {} /\ old' = over
    BY <1>2 DEF BeginClear
  <2>2. UNCHANGED over
    BY <1>2 DEF BeginClear, saverVars
  <2>3. \A r \in over : RunKey(r) \in KeySpace("run:*")
    BY <1>0, KeysAre DEF FieldsOK
  <2> QED
    BY <2>1, <2>2, <2>3 DEF Cleared, Todo
<1>3. CASE GiveUp
  BY <1>0, <1>3, GiveUpIs DEF Cleared
<1>4. CASE ~GiveUp /\ Scan
  <2>1. /\ UNCHANGED db /\ clear \in {"run:*", "runs:*"} /\ keys = {}
        /\ \E page \in SUBSET left :
             /\ keys' = {key \in page : Exists(key)}
             /\ \/ keys' = {} /\ NextPage(left \ page)
                \/ keys' # {} /\ left' = left \ page /\ clear' = clear
             /\ UNCHANGED <<old, budget>>
    BY <1>0, <1>4, ScanIs
  <2>2. PICK page \in SUBSET left :
             /\ keys' = {key \in page : Exists(key)}
             /\ \/ keys' = {} /\ NextPage(left \ page)
                \/ keys' # {} /\ left' = left \ page /\ clear' = clear
             /\ UNCHANGED <<old, budget>>
    BY <2>1
  <2>3. \A key \in Todo : key \in (left \ page) \cup keys' \/ db[key] = <<>>
    BY <2>1, <2>2 DEF Todo, Exists
  <2>4. CASE keys' = {} /\ NextPage(left \ page)
    BY <1>0, <2>1, <2>2, <2>3, <2>4, PageDone
  <2>5. CASE keys' # {} /\ left' = left \ page /\ clear' = clear
    <3>1. \A key \in Todo : key \in Todo' \/ db[key] = <<>>
      BY <2>3, <2>5 DEF Todo
    <3> QED
      BY <2>1, <2>2, <2>5, <3>1, ToSetEmpty DEF Cleared, Exists
  <2> QED
    BY <2>2, <2>4, <2>5
<1>5. CASE ~GiveUp /\ Del
  <2>1. /\ clear \in {"run:*", "runs:*"} /\ NextPage(left) /\ keys' = {} /\ old' = old
        /\ db' = [key \in Keys |-> IF key \in keys THEN <<>> ELSE db[key]]
    BY <1>0, <1>5, DelIs
  <2>2. \A key \in Keys : db'[key] = IF key \in keys THEN <<>> ELSE db[key]
    BY <1>0, <2>1, Emptied
  <2>3. /\ \A key \in Todo : key \in left \/ db'[key] = <<>>
        /\ \A key \in Keys : db'[key] = <<>> \/ db'[key] = db[key]
    BY <1>0, <2>2 DEF Todo, FieldsOK
  <2> QED
    BY <1>0, <2>1, <2>3, PageDone
<1>6. ASSUME NEW r \in Runs, ExpireRun(r) PROVE Cleared'
  <2>1. db' = [db EXCEPT ![RunKey(r)] = <<>>] /\ UNCHANGED <<clear, left, keys, old>>
    BY <1>6 DEF ExpireRun, clearVars, RunKey
  <2>2. \A key \in Keys : db'[key] = IF key = RunKey(r) THEN <<>> ELSE db[key]
    BY <1>0, <2>1 DEF DbOK
  <2>3. ASSUME NEW s \in old
        PROVE  /\ db'[RunKey(s)] = db[RunKey(s)] \/ db'[RunKey(s)] = <<>>
               /\ db'[SubKey(s)] = db[SubKey(s)] /\ db'[ConKey(Of[s])] = db[ConKey(Of[s])]
    <3>1. s \in Runs /\ Of[s] \in Contestants
      BY <1>0, RunRecordBounds
    <3> QED
      BY <2>2, <3>1, KeysAre, KeysDiffer
  <2> QED
    BY <2>1, <2>3 DEF Cleared, Exists, Todo
<1>7. ASSUME \/ \E r \in Runs : BeginRun(r)
             \/ \E c \in Contestants : BeginList(c)
             \/ MGet \/ UNCHANGED vars
      PROVE  Cleared'
  <2>1. UNCHANGED <<db, clear, left, keys, old>>
    BY <1>7 DEF BeginRun, BeginList, MGet, vars, clearVars
  <2> QED
    BY <2>1 DEF Cleared, Exists, Todo
<1> QED
  BY <1>1, <1>2, <1>3, <1>4, <1>5, <1>6, <1>7 DEF Next

\* Once DELETE /admin/runs has answered 200, nothing is left of a run that was
\* over when it began, however SCAN cut the key space into pages and whatever
\* the worker saved in between.
THEOREM ClearsAreComplete == Spec => []ClearIsComplete
<1>1. Init => Cleared
  BY DEF Init, Cleared
<1>2. Cleared => ClearIsComplete
  BY DEF Cleared, ClearIsComplete, RunKey, SubKey, ConKey
<1> QED
  BY <1>1, <1>2, ClearedStep, TypeInvariant, PTL DEF Spec

-----------------------------------------------------------------------------
(***************************************************************************)
(* Listings                                                                *)
(***************************************************************************)

LEMMA ListedStep == TypeInv /\ PhaseInv /\ ListedInv /\ [Next]_vars => ListedInv'
<1> SUFFICES ASSUME TypeInv, PhaseInv, ListedInv, [Next]_vars,
                    budget'.faults = 0, budget'.clears = 0
             PROVE  /\ saver' # None /\ cmd' > 1 => Found(saver)'
                    /\ \A c \in Contestants : \A r \in ToSet(db'[ConKey(c)]) : Found(r)'
                    /\ \A r \in ToSet(ids') : Found(r)'
  BY DEF ListedInv, Found
<1>0. DbOK /\ FieldsOK /\ ToSet(ids) \subseteq Runs
      /\ \A c \in Contestants : ToSet(db[ConKey(c)]) \subseteq Runs
  BY ToSetIsRange DEF TypeInv, DbOK, FieldsOK
<1>1. budget.faults = 0 /\ budget.clears = 0
  <2>1. budget.faults \in Nat /\ budget.clears \in Nat
        /\ budget'.faults >= budget.faults /\ budget'.clears >= budget.clears
    BY <1>0, BudgetStep DEF FieldsOK
  <2> QED
    BY <2>1
<1>2. /\ saver # None /\ cmd > 1 => Found(saver)
      /\ \A c \in Contestants : \A r \in ToSet(db[ConKey(c)]) : Found(r)
      /\ \A r \in ToSet(ids) : Found(r)
  BY <1>1 DEF ListedInv
<1>3. CASE SaveStep
  <2>0. /\ saver \in Runs /\ UNCHANGED <<ids, budget>> /\ over \subseteq over'
        /\ saver' = None \/ (saver' = saver /\ cmd' = cmd + 1)
        /\ cmd \in 1..8 /\ saver # None
    BY <1>0, <1>1, <1>3, SaveStepIs DEF FieldsOK, SaveStep
  <2>1. \A r \in Runs : Found(r) => Found(r)'
    <3>1. \A r \in Runs : db[RunKey(r)] # <<>> => db'[RunKey(r)] # <<>>
      BY <1>0, <1>3, SaveWrites
    <3> QED
      BY <2>0, <3>1 DEF Found, Exists
  <2>2. ASSUME saver' # None PROVE Found(saver)'
    <3>1. CASE cmd = 1
      BY <1>0, <1>3, <2>0, <2>2, <3>1, SaveWrites DEF Found, Exists
    <3>2. CASE cmd # 1
      <4>1. cmd > 1 /\ cmd \in 1..8
        BY <1>0, <3>2 DEF FieldsOK
      <4>2. Found(saver) /\ saver' = saver
        BY <1>2, <1>3, <2>0, <2>2, <4>1 DEF SaveStep
      <4> QED
        BY <2>0, <2>1, <4>2 DEF Found, Exists
    <3> QED
      BY <3>1, <3>2
  <2>3. ASSUME NEW c \in Contestants, NEW r \in ToSet(db'[ConKey(c)]) PROVE Found(r)'
    <3>1. CASE r \in ToSet(db[ConKey(c)])
      BY <1>0, <1>2, <2>1, <3>1
    <3>2. CASE r \notin ToSet(db[ConKey(c)])
      <4>0. cmd \in 1..8
        BY <1>0 DEF FieldsOK
      <4>1. c = Of[saver] /\ cmd \in {3, 7}
        BY <1>0, <1>3, <2>0, <2>3, <3>2, SaveWrites
      <4>2. r = saver
        BY <1>0, <1>3, <2>3, <3>2, <4>1, SaveWrites
      <4>3. Found(saver)
        BY <1>2, <1>3, <4>0, <4>1 DEF SaveStep
      <4> QED
        BY <2>0, <2>1, <4>2, <4>3
    <3> QED
      BY <3>1, <3>2
  <2> QED
    BY <1>0, <1>2, <2>0, <2>1, <2>2, <2>3
<1>4. ASSUME NEW c \in Contestants, BeginList(c)
      PROVE  /\ UNCHANGED <<db, saver, cmd, over>>
             /\ ToSet(ids') \subseteq ToSet(db[ConKey(c)])
  BY <1>0, <1>4, NewestElements DEF BeginList, saverVars
<1>5. ASSUME NEW c \in Contestants, BeginList(c)
      PROVE  /\ saver' # None /\ cmd' > 1 => Found(saver)'
             /\ \A d \in Contestants : \A r \in ToSet(db'[ConKey(d)]) : Found(r)'
             /\ \A r \in ToSet(ids') : Found(r)'
  BY <1>2, <1>4, <1>5 DEF Found, Exists
<1>6. CASE MGet
  <2>1. UNCHANGED <<db, saver, cmd, over>> /\ ids' = <<>>
    BY <1>6 DEF MGet, saverVars
  <2> QED
    BY <1>2, <2>1, ToSetEmpty DEF Found, Exists
<1>7. ASSUME NEW r \in Runs, BeginRun(r)
      PROVE  UNCHANGED <<db, over, ids>> /\ cmd' = 1
  BY <1>7 DEF BeginRun
<1>8. ASSUME NEW r \in Runs, ExpireRun(r)
      PROVE  /\ saver' # None /\ cmd' > 1 => Found(saver)'
             /\ \A c \in Contestants : \A s \in ToSet(db'[ConKey(c)]) : Found(s)'
             /\ \A s \in ToSet(ids') : Found(s)'
  <2>1. /\ db' = [db EXCEPT ![RunKey(r)] = <<>>] /\ r \in over
        /\ UNCHANGED <<saver, cmd, over, ids>>
    BY <1>8 DEF ExpireRun, saverVars, RunKey
  <2>2. \A key \in Keys : key # RunKey(r) => db'[key] = db[key]
    BY <1>0, <2>1 DEF DbOK
  <2>3. \A s \in Runs : Found(s) => Found(s)'
    BY <2>1, <2>2, KeysAre, KeysDiffer DEF Found, Exists
  <2>4. \A c \in Contestants : db'[ConKey(c)] = db[ConKey(c)]
    BY <2>2, KeysAre, KeysDiffer
  <2>5. saver \in Runs => (Found(saver) => db'[RunKey(saver)] # <<>> \/ saver \in over)
    BY <2>1, <2>2, KeysAre, KeysDiffer DEF Found, Exists
  <2>6. saver' # None /\ cmd' > 1 => Found(saver)'
    BY <1>0, <1>2, <2>1, <2>5 DEF FieldsOK, Found, Exists
  <2> QED
    BY <1>0, <1>2, <2>1, <2>3, <2>4, <2>6
<1>9. ASSUME BeginClear \/ Scan \/ Del PROVE FALSE
  <2>1. CASE BeginClear
    <3>1. budget'.clears = budget.clears + 1
      BY <1>0, <2>1, SpendIs DEF BeginClear, FieldsOK
    <3> QED
      BY <1>1, <3>1
  <2>2. CASE Scan \/ Del
    BY <1>0, <1>1, <2>2, ScanIs, DelIs DEF PhaseInv
  <2> QED
    BY <1>9, <2>1, <2>2
<1>10. ASSUME UNCHANGED <<db, over, ids>>, UNCHANGED <<saver, cmd>> \/ cmd' = 1
       PROVE  /\ saver' # None /\ cmd' > 1 => Found(saver)'
              /\ \A c \in Contestants : \A s \in ToSet(db'[ConKey(c)]) : Found(s)'
              /\ \A s \in ToSet(ids') : Found(s)'
  BY <1>2, <1>10 DEF Found, Exists
<1>11. CASE UNCHANGED vars
  BY <1>10, <1>11 DEF vars, saverVars
<1> QED
  BY <1>3, <1>5, <1>6, <1>7, <1>8, <1>9, <1>10, <1>11 DEF Next

\* ListRunsForContestant skips an id only when the record of its run expired,
\* was deleted, or was lost: saveResult never lists a run before its record.
THEOREM SkippedAreGone == Spec => SkippedIsGone
<1> DEFINE Skip == MGet /\ budget.faults = 0 /\ budget.clears = 0 =>
                     \A r \in ToSet(ids) : Exists(<<"run", r>>) \/ r \in over
<1>1. Init => ListedInv
  BY ToSetEmpty, KeysAre DEF Init, ListedInv
<1>2. ListedInv => Skip
  BY DEF ListedInv, Found, RunKey
<1>3. ListedInv /\ [Next]_vars => [Skip]_vars
  BY <1>2
<1> QED
  BY <1>1, <1>3, ListedStep, TypeInvariant, PTL DEF Spec, SkippedIsGone
=============================================================================
