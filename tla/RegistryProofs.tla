--------------------------- MODULE RegistryProofs ---------------------------
(***************************************************************************)
(* Proofs about Registry, for every number of contestants, requests and    *)
(* lost commands and every length of the trimmed list.                     *)
(***************************************************************************)
EXTENDS Registry, SequenceLemmas

\* The record's fields, and the answers each kind of request can get.
FieldsOK ==
    /\ read \in [kind : Kinds, status : {"200", "500"},
                 ids : SUBSET (Contestants \cup Submissions),
                 rows : SUBSET (Contestants \cup Submissions),
                 expected : SUBSET (Contestants \cup Submissions)]
    /\ \A q \in Registrations : at[q] \in {"new", "SET", "SADD", "ok", "409", "500"}
    /\ \A q \in Submissions : at[q] \in {"new", "SET", "LPUSH", "LTRIM", "ok", "404", "500"}

TypeInv == TypeOK /\ FieldsOK

\* How far a request is in its pipeline says what it has written.
Written ==
    /\ \A q \in Registrations :
         /\ at[q] = "SADD" => contestant[Of[q]] # None
         /\ at[q] = "ok" => Of[q] \in contestants
    /\ \A q \in Submissions : at[q] = "LPUSH" => q \in submission

IndexInv == TypeInv /\ Written /\ IndexIsSound

\* A listing under way has ids of records that are there, all it should have.
ReadInv ==
    /\ read.kind = "contestants" => read.ids \subseteq Contestants
    /\ \A id \in read.ids : Present(read.kind, id)
    /\ read.ids # {} => read.expected \subseteq read.ids
    /\ ListIsComplete

-----------------------------------------------------------------------------
(***************************************************************************)
(* Lemmas about sequences: LPUSH and LTRIM on a list that is read to a     *)
(* length                                                                  *)
(***************************************************************************)

\* The length of a trimmed list, and what is in it.
LEMMA TrimmedElements ==
    ASSUME NEW S, NEW s \in Seq(S), NEW n \in Nat
    PROVE  /\ Trimmed(s, n) \in Seq(S)
           /\ Len(Trimmed(s, n)) = IF Len(s) < n THEN Len(s) ELSE n
           /\ \A j \in 1..Len(Trimmed(s, n)) : Trimmed(s, n)[j] = s[j]
           /\ ToSet(Trimmed(s, n)) \subseteq ToSet(s)
<1> DEFINE k == IF Len(s) < n THEN Len(s) ELSE n
<1>1. k \in Nat /\ k <= Len(s)
  OBVIOUS
<1>2. Trimmed(s, n) = SubSeq(s, 1, k)
  BY DEF Trimmed
<1>3. /\ Trimmed(s, n) \in Seq(S) /\ Len(Trimmed(s, n)) = k
      /\ \A j \in 1..k : Trimmed(s, n)[j] = s[j]
      /\ ToSet(Trimmed(s, n)) \subseteq ToSet(s)
  <2> HIDE DEF k
  <2> QED
    BY <1>1, <1>2, Prefix
<1> QED
  BY <1>3

\* Two lists that read the same still do after the same push.
LEMMA TrimmedPush ==
    ASSUME NEW S, NEW s \in Seq(S), NEW t \in Seq(S), NEW e \in S, NEW n \in Nat,
           Trimmed(s, n) = Trimmed(t, n)
    PROVE  Trimmed(<<e>> \o s, n) = Trimmed(<<e>> \o t, n)
<1> DEFINE es == <<e>> \o s
           et == <<e>> \o t
<1>1. /\ es \in Seq(S) /\ Len(es) = 1 + Len(s) /\ es[1] = e
      /\ \A j \in 2..Len(es) : es[j] = s[j - 1]
      /\ et \in Seq(S) /\ Len(et) = 1 + Len(t) /\ et[1] = e
      /\ \A j \in 2..Len(et) : et[j] = t[j - 1]
      /\ Len(s) \in Nat /\ Len(t) \in Nat
  OBVIOUS
<1>2. /\ Len(s) = Len(t) \/ (Len(s) >= n /\ Len(t) >= n)
      /\ \A j \in 1..Len(s) : j <= n => s[j] = t[j]
  <2>1. /\ Len(Trimmed(s, n)) = IF Len(s) < n THEN Len(s) ELSE n
        /\ \A j \in 1..Len(Trimmed(s, n)) : Trimmed(s, n)[j] = s[j]
    BY TrimmedElements
  <2>2. /\ Len(Trimmed(t, n)) = IF Len(t) < n THEN Len(t) ELSE n
        /\ \A j \in 1..Len(Trimmed(t, n)) : Trimmed(t, n)[j] = t[j]
    BY TrimmedElements
  <2>3. \A j \in 1..Len(s) : j <= n => j \in 1..Len(Trimmed(s, n))
    BY <1>1, <2>1
  <2> QED
    BY <1>1, <2>1, <2>2, <2>3
<1> HIDE DEF es, et
<1>3. /\ Trimmed(es, n) \in Seq(S) /\ Len(Trimmed(es, n)) = IF Len(es) < n THEN Len(es) ELSE n
      /\ \A j \in 1..Len(Trimmed(es, n)) : Trimmed(es, n)[j] = es[j]
  BY <1>1, TrimmedElements
<1>4. /\ Trimmed(et, n) \in Seq(S) /\ Len(Trimmed(et, n)) = IF Len(et) < n THEN Len(et) ELSE n
      /\ \A j \in 1..Len(Trimmed(et, n)) : Trimmed(et, n)[j] = et[j]
  BY <1>1, TrimmedElements
<1>5. Len(Trimmed(es, n)) = Len(Trimmed(et, n))
  BY <1>1, <1>2, <1>3, <1>4
<1>6. ASSUME NEW j \in 1..Len(Trimmed(es, n)) PROVE Trimmed(es, n)[j] = Trimmed(et, n)[j]
  <2>1. j \in 1..Len(es) /\ j \in 1..Len(et) /\ j <= n
    BY <1>1, <1>2, <1>3, <1>4
  <2>2. CASE j = 1
    BY <1>1, <1>3, <1>4, <1>5, <2>2
  <2>3. CASE j # 1
    <3>1. j - 1 \in 1..Len(s) /\ j - 1 <= n /\ j \in 2..Len(es) /\ j \in 2..Len(et)
      BY <1>1, <2>1, <2>3
    <3>2. es[j] = et[j]
      BY <1>1, <1>2, <3>1
    <3> QED
      BY <1>3, <1>4, <1>5, <3>2
  <2> QED
    BY <2>2, <2>3
<1>7. Trimmed(es, n) = Trimmed(et, n)
  BY <1>3, <1>4, <1>5, <1>6, SeqEqual
<1> QED
  BY <1>7 DEF es, et

\* A list that was trimmed reads as before.
LEMMA TrimmedTwice ==
    ASSUME NEW S, NEW s \in Seq(S), NEW n \in Nat
    PROVE  Trimmed(Trimmed(s, n), n) = Trimmed(s, n)
<1>1. /\ Trimmed(s, n) \in Seq(S) /\ Len(s) \in Nat
      /\ Len(Trimmed(s, n)) = IF Len(s) < n THEN Len(s) ELSE n
  BY TrimmedElements
<1>2. ~(Len(Trimmed(s, n)) < n) => Len(Trimmed(s, n)) = n
  BY <1>1
<1>3. SubSeq(Trimmed(s, n), 1, Len(Trimmed(s, n))) = Trimmed(s, n)
  BY <1>1, SubSeqFull
<1>4. Trimmed(Trimmed(s, n), n)
        = SubSeq(Trimmed(s, n), 1, IF Len(Trimmed(s, n)) < n THEN Len(Trimmed(s, n)) ELSE n)
  BY DEF Trimmed
<1>5. (IF Len(Trimmed(s, n)) < n THEN Len(Trimmed(s, n)) ELSE n) = Len(Trimmed(s, n))
  BY <1>2
<1> QED
  BY <1>3, <1>4, <1>5, Zenon

-----------------------------------------------------------------------------
(***************************************************************************)
(* Steps of a request                                                      *)
(***************************************************************************)

\* The order of the commands of a pipeline.
LEMMA AdvanceIs ==
    ASSUME NEW q \in Requests
    PROVE  /\ q \in Registrations =>
                /\ at[q] = "SET" => Advance(q) = "SADD"
                /\ at[q] = "SADD" => Advance(q) = "ok"
           /\ q \in Submissions =>
                /\ at[q] = "SET" => Advance(q) = "LPUSH"
                /\ at[q] = "LPUSH" => Advance(q) = "LTRIM"
                /\ at[q] = "LTRIM" => Advance(q) = "ok"
<1> DEFINE p == Pipeline(q)
           k == CHOOSE j \in DOMAIN p : p[j] = at[q]
<1>0. Advance(q) = IF k = Len(p) THEN "ok" ELSE p[k + 1]
  BY DEF Advance
<1>1. ASSUME q \in Registrations
      PROVE  /\ at[q] = "SET" => Advance(q) = "SADD"
             /\ at[q] = "SADD" => Advance(q) = "ok"
  <2>1. p = <<"SET", "SADD">> /\ DOMAIN p = 1..2 /\ Len(p) = 2
    BY <1>1 DEF Pipeline
  <2>2. ASSUME at[q] = "SET" PROVE k = 1
    BY <2>1, <2>2
  <2>3. ASSUME at[q] = "SADD" PROVE k = 2
    BY <2>1, <2>3
  <2> HIDE DEF k, p
  <2> QED
    BY <1>0, <2>1, <2>2, <2>3
<1>2. ASSUME q \in Submissions
      PROVE  /\ at[q] = "SET" => Advance(q) = "LPUSH"
             /\ at[q] = "LPUSH" => Advance(q) = "LTRIM"
             /\ at[q] = "LTRIM" => Advance(q) = "ok"
  <2>1. p = <<"SET", "LPUSH", "LTRIM">> /\ DOMAIN p = 1..3 /\ Len(p) = 3
    BY <1>2, RegistryBounds DEF Pipeline
  <2>2. ASSUME at[q] = "SET" PROVE k = 1
    BY <2>1, <2>2
  <2>3. ASSUME at[q] = "LPUSH" PROVE k = 2
    BY <2>1, <2>3
  <2>4. ASSUME at[q] = "LTRIM" PROVE k = 3
    BY <2>1, <2>4
  <2> HIDE DEF k, p
  <2> QED
    BY <1>0, <2>1, <2>2, <2>3, <2>4
<1> QED
  BY <1>1, <1>2

\* What the check of a request that arrives decides.
LEMMA CheckIs ==
    ASSUME NEW q \in Requests
    PROVE  /\ q \in Registrations => Check(q) = IF contestant[Of[q]] # None THEN "409" ELSE "SET"
           /\ q \in Submissions => Check(q) = IF contestant[Of[q]] = None THEN "404" ELSE "SET"
<1>1. Head(Pipeline(q)) = "SET"
  BY DEF Pipeline
<1> QED
  BY <1>1, RegistryBounds DEF Check

LEMMA FaultType ==
    ASSUME faults \in 0..MaxFaults, Fault
    PROVE  faults' \in 0..MaxFaults
BY RegistryBounds DEF Fault

\* A command runs and the request goes on, or its pipeline is lost and the request
\* ends or begins the pipeline again.
LEMMA ExecIs ==
    ASSUME TypeInv, NEW q \in Requests, Exec(q)
    PROVE  /\ faults' \in 0..MaxFaults /\ UNCHANGED <<read, reads>>
           /\ \E next \in {Advance(q), "500", "SET"} : at' = [at EXCEPT ![q] = next]
           /\ \/ RunCommand(q)
              \/ /\ UNCHANGED <<contestant, contestants, submission, submissions, pushes>>
                 /\ \E next \in {"500", "SET"} : at' = [at EXCEPT ![q] = next]
<1>1. faults \in 0..MaxFaults
  BY DEF TypeInv, TypeOK
<1>2. Head(Pipeline(q)) = "SET"
  BY DEF Pipeline
<1>3. \/ /\ RunCommand(q) /\ UNCHANGED faults
         /\ at' = [at EXCEPT ![q] = Advance(q)]
      \/ /\ Fault
         /\ RunCommand(q) \/ UNCHANGED <<contestantVars, submissionVars>>
         /\ \E next \in {"500", "SET"} : at' = [at EXCEPT ![q] = next]
  BY <1>2 DEF Exec, LostAnswer
<1>4. UNCHANGED readVars
  BY DEF Exec
<1> QED
  BY <1>1, <1>3, <1>4, FaultType DEF contestantVars, submissionVars, readVars

\* What each command changes.
LEMMA CommandIs ==
    ASSUME NEW q \in Requests, RunCommand(q)
    PROVE  \/ /\ at[q] = "SET" /\ q \in Registrations
              /\ contestant' = [contestant EXCEPT ![Of[q]] = q]
              /\ UNCHANGED <<contestants, submission, submissions, pushes>>
           \/ /\ at[q] = "SET" /\ q \in Submissions
              /\ submission' = submission \cup {q}
              /\ UNCHANGED <<contestant, contestants, submissions, pushes>>
           \/ /\ at[q] = "SADD"
              /\ contestants' = contestants \cup {Of[q]}
              /\ UNCHANGED <<contestant, submission, submissions, pushes>>
           \/ /\ at[q] = "LPUSH"
              /\ submissions' = [submissions EXCEPT ![Of[q]] = <<q>> \o @]
              /\ pushes' = [pushes EXCEPT ![Of[q]] = <<q>> \o @]
              /\ UNCHANGED <<contestant, contestants, submission>>
           \/ /\ at[q] = "LTRIM"
              /\ submissions' = [submissions EXCEPT ![Of[q]] = Trimmed(@, SubCap)]
              /\ UNCHANGED <<contestant, contestants, submission, pushes>>
<1>1. CASE Put(q)
  BY <1>1 DEF Put, Requests
<1>2. CASE SAdd(q)
  BY <1>2 DEF SAdd, submissionVars
<1>3. CASE LPush(q)
  BY <1>3 DEF LPush, Pushed, contestantVars
<1>4. CASE LTrim(q)
  BY <1>4 DEF LTrim, Kept, contestantVars
<1> QED
  BY <1>1, <1>2, <1>3, <1>4 DEF RunCommand

\* Where a request may be after a step, and what the step wrote.
LEMMA ExecAt ==
    ASSUME TypeInv, NEW q \in Requests, Exec(q) \/ Arrive(q)
    PROVE  /\ \A p \in Requests : p # q => at'[p] = at[p]
           /\ q \in Registrations =>
                /\ at'[q] \in {"SET", "SADD", "ok", "409", "500"}
                /\ at'[q] = "SADD" => RunCommand(q) /\ at[q] = "SET"
                /\ at'[q] = "ok" => RunCommand(q) /\ at[q] = "SADD"
           /\ q \in Submissions =>
                /\ at'[q] \in {"SET", "LPUSH", "LTRIM", "ok", "404", "500"}
                /\ at'[q] = "LPUSH" => RunCommand(q) /\ at[q] = "SET"
           /\ at' \in [Requests -> {"new", "SET", "SADD", "LPUSH", "LTRIM", "ok", "404", "409",
                                    "500"}]
<1>0. /\ at \in [Requests -> {"new", "SET", "SADD", "LPUSH", "LTRIM", "ok", "404", "409", "500"}]
      /\ q \in Registrations => at[q] \in {"new", "SET", "SADD", "ok", "409", "500"}
      /\ q \in Submissions => at[q] \in {"new", "SET", "LPUSH", "LTRIM", "ok", "404", "500"}
      /\ q \in Registrations \/ q \in Submissions
      /\ ~(q \in Registrations /\ q \in Submissions)
  BY RegistryBounds DEF TypeInv, TypeOK, FieldsOK, Requests
<1>1. CASE Arrive(q)
  <2>1. at' = [at EXCEPT ![q] = Check(q)] \/ at' = [at EXCEPT ![q] = "500"]
    BY <1>1 DEF Arrive
  <2>2. at'[q] = Check(q) \/ at'[q] = "500"
    BY <1>0, <2>1
  <2>3. /\ q \in Registrations => at'[q] \in {"SET", "409", "500"}
        /\ q \in Submissions => at'[q] \in {"SET", "404", "500"}
    BY <2>2, CheckIs
  <2>4. /\ \A p \in Requests : p # q => at'[p] = at[p]
        /\ DOMAIN at' = Requests /\ at' = [p \in Requests |-> at'[p]]
    BY <1>0, <2>1
  <2> QED
    BY <1>0, <2>3, <2>4
<1>2. CASE Exec(q)
  <2>1. /\ \E next \in {Advance(q), "500", "SET"} : at' = [at EXCEPT ![q] = next]
        /\ RunCommand(q) \/ \E next \in {"500", "SET"} : at' = [at EXCEPT ![q] = next]
    BY <1>2, ExecIs
  <2>2. /\ at'[q] \in {Advance(q), "500", "SET"}
        /\ RunCommand(q) \/ at'[q] \in {"500", "SET"}
    BY <1>0, <2>1
  <2>3. at[q] \in {"SET", "SADD", "LPUSH", "LTRIM"}
    BY <1>2 DEF Exec, Busy
  <2>4. /\ q \in Registrations =>
             /\ at'[q] \in {"SET", "SADD", "ok", "500"}
             /\ at'[q] = "SADD" => RunCommand(q) /\ at[q] = "SET"
             /\ at'[q] = "ok" => RunCommand(q) /\ at[q] = "SADD"
        /\ q \in Submissions =>
             /\ at'[q] \in {"SET", "LPUSH", "LTRIM", "ok", "500"}
             /\ at'[q] = "LPUSH" => RunCommand(q) /\ at[q] = "SET"
    BY <1>0, <2>2, <2>3, AdvanceIs
  <2>5. /\ \A p \in Requests : p # q => at'[p] = at[p]
        /\ DOMAIN at' = Requests /\ at' = [p \in Requests |-> at'[p]]
    BY <1>0, <2>1
  <2> QED
    BY <1>0, <2>4, <2>5
<1> QED
  BY <1>1, <1>2

\* A listing only changes what it read.
LEMMA ListStep ==
    ASSUME TypeInv, NEW kind \in Kinds, NEW c \in Contestants, BeginList(kind, c) \/ MGet
    PROVE  /\ UNCHANGED <<contestant, contestants, submission, submissions, pushes, at>>
           /\ faults' \in 0..MaxFaults /\ reads' \in 0..MaxReads
<1>1. faults \in 0..MaxFaults /\ reads \in 0..MaxReads
  BY DEF TypeInv, TypeOK
<1>2. faults' \in 0..MaxFaults
  BY <1>1, FaultType DEF BeginList, MGet
<1>3. reads' \in 0..MaxReads
  BY <1>1, RegistryBounds DEF BeginList, MGet
<1> QED
  BY <1>2, <1>3 DEF BeginList, MGet, contestantVars, submissionVars

-----------------------------------------------------------------------------
(***************************************************************************)
(* Types, and indexes that name what is there                              *)
(***************************************************************************)

\* A command keeps every record, and keeps the types.
LEMMA CommandKeeps ==
    ASSUME TypeInv, NEW q \in Requests, RunCommand(q)
    PROVE  /\ contestant' \in [Contestants -> Registrations \cup {None}]
           /\ contestants' \subseteq Contestants
           /\ submission' \subseteq Submissions
           /\ submissions' \in [Contestants -> Seq(Submissions)]
           /\ pushes' \in [Contestants -> Seq(Submissions)]
           /\ \A c \in Contestants : contestant[c] # None => contestant'[c] # None
           /\ contestants \subseteq contestants'
           /\ submission \subseteq submission'
<1>0. /\ contestant \in [Contestants -> Registrations \cup {None}]
      /\ contestants \subseteq Contestants
      /\ submission \subseteq Submissions
      /\ submissions \in [Contestants -> Seq(Submissions)]
      /\ pushes \in [Contestants -> Seq(Submissions)]
      /\ Of[q] \in Contestants
  BY RegistryBounds DEF TypeInv, TypeOK
<1>1. CASE at[q] = "SET" /\ q \in Registrations
  <2>1. /\ contestant' = [contestant EXCEPT ![Of[q]] = q]
        /\ UNCHANGED <<contestants, submission, submissions, pushes>>
    BY <1>1, CommandIs, RegistryBounds
  <2>2. q # None
    BY RegistryBounds
  <2> QED
    BY <1>0, <1>1, <2>1, <2>2
<1>2. CASE at[q] = "SET" /\ q \in Submissions
  <2>1. /\ submission' = submission \cup {q}
        /\ UNCHANGED <<contestant, contestants, submissions, pushes>>
    BY <1>2, CommandIs, RegistryBounds
  <2> QED
    BY <1>0, <1>2, <2>1
<1>3. CASE at[q] = "SADD"
  <2>1. /\ contestants' = contestants \cup {Of[q]}
        /\ UNCHANGED <<contestant, submission, submissions, pushes>>
    BY <1>3, CommandIs
  <2> QED
    BY <1>0, <2>1
<1>4. CASE at[q] = "LPUSH"
  <2>1. /\ submissions' = [submissions EXCEPT ![Of[q]] = <<q>> \o @]
        /\ pushes' = [pushes EXCEPT ![Of[q]] = <<q>> \o @]
        /\ UNCHANGED <<contestant, contestants, submission>>
    BY <1>4, CommandIs
  <2>2. q \in Submissions
    BY <1>4, RegistryBounds DEF TypeInv, FieldsOK, Requests
  <2>3. \A s \in Seq(Submissions) : <<q>> \o s \in Seq(Submissions)
    BY <2>2, ToSetPush
  <2> QED
    BY <1>0, <2>1, <2>3
<1>5. CASE at[q] = "LTRIM"
  <2>1. /\ submissions' = [submissions EXCEPT ![Of[q]] = Trimmed(@, SubCap)]
        /\ UNCHANGED <<contestant, contestants, submission, pushes>>
    BY <1>5, CommandIs
  <2>2. \A s \in Seq(Submissions) : Trimmed(s, SubCap) \in Seq(Submissions)
    BY TrimmedElements, RegistryBounds
  <2> QED
    BY <1>0, <2>1, <2>2
<1> QED
  BY <1>1, <1>2, <1>3, <1>4, <1>5, CommandIs

\* The ids a listing reads, and what it is expected to show.
LEMMA IndexTypes ==
    ASSUME TypeInv, NEW kind \in Kinds, NEW c \in Contestants
    PROVE  /\ Index(kind, c) \subseteq Contestants \cup Submissions
           /\ Expected(kind, c) \subseteq Contestants \cup Submissions
           /\ kind = "contestants" => Index(kind, c) \subseteq Contestants
<1>1. /\ contestants \subseteq Contestants
      /\ submissions[c] \in Seq(Submissions) /\ pushes[c] \in Seq(Submissions)
      /\ SubCap \in Nat /\ \A q \in Registrations : Of[q] \in Contestants
  BY RegistryBounds DEF TypeInv, TypeOK, Requests
<1>2. Trimmed(submissions[c], SubCap) \in Seq(Submissions)
  BY <1>1, TrimmedElements
<1>3. Trimmed(pushes[c], SubCap) \in Seq(Submissions)
  BY <1>1, TrimmedElements
<1>4. ToSet(Newest(c)) \subseteq Submissions
  BY <1>2, ToSetIsRange DEF Newest
<1>5. ToSet(Trimmed(pushes[c], SubCap)) \subseteq Submissions
  BY <1>3, ToSetIsRange
<1> QED
  BY <1>1, <1>4, <1>5 DEF Index, Expected

LEMMA TypeStep == TypeInv /\ [Next]_vars => TypeInv'
<1> SUFFICES ASSUME TypeInv, [Next]_vars PROVE TypeInv'
  OBVIOUS
<1>0. TypeOK /\ FieldsOK
  BY DEF TypeInv
<1>1. ASSUME NEW q \in Requests, Arrive(q) \/ Exec(q) PROVE TypeInv'
  <2>1. /\ at' \in [Requests -> {"new", "SET", "SADD", "LPUSH", "LTRIM", "ok", "404", "409",
                                 "500"}]
        /\ \A p \in Requests : p # q => at'[p] = at[p]
        /\ q \in Registrations => at'[q] \in {"SET", "SADD", "ok", "409", "500"}
        /\ q \in Submissions => at'[q] \in {"SET", "LPUSH", "LTRIM", "ok", "404", "500"}
    BY <1>1, ExecAt
  <2>2. /\ faults' \in 0..MaxFaults /\ UNCHANGED <<read, reads>>
        /\ \/ RunCommand(q)
           \/ UNCHANGED <<contestant, contestants, submission, submissions, pushes>>
    <3>1. CASE Exec(q)
      BY <3>1, ExecIs
    <3>2. CASE Arrive(q)
      BY <1>0, <3>2, FaultType DEF Arrive, contestantVars, submissionVars, readVars, TypeOK
    <3> QED
      BY <1>1, <3>1, <3>2
  <2>3. /\ contestant' \in [Contestants -> Registrations \cup {None}]
        /\ contestants' \subseteq Contestants
        /\ submission' \subseteq Submissions
        /\ submissions' \in [Contestants -> Seq(Submissions)]
        /\ pushes' \in [Contestants -> Seq(Submissions)]
    BY <1>0, <2>2, CommandKeeps DEF TypeOK
  <2>4. TypeOK'
    BY <1>0, <2>1, <2>2, <2>3 DEF TypeOK
  <2>5. FieldsOK'
    BY <1>0, <2>1, <2>2 DEF FieldsOK, Requests
  <2> QED
    BY <2>4, <2>5 DEF TypeInv
<1>2. ASSUME NEW kind \in Kinds, NEW c \in Contestants, BeginList(kind, c) PROVE TypeInv'
  <2>1. /\ UNCHANGED <<contestant, contestants, submission, submissions, pushes, at>>
        /\ faults' \in 0..MaxFaults /\ reads' \in 0..MaxReads
    BY <1>2, ListStep
  <2>2. \/ read' = [kind |-> kind, status |-> "200", ids |-> Index(kind, c), rows |-> {},
                    expected |-> Expected(kind, c)]
        \/ read' = [kind |-> kind, status |-> "500", ids |-> {}, rows |-> {}, expected |-> {}]
    BY <1>2 DEF BeginList
  <2>3. FieldsOK'
    BY <1>0, <2>1, <2>2, IndexTypes DEF FieldsOK
  <2>4. TypeOK'
    BY <1>0, <2>1, <2>3 DEF TypeOK, FieldsOK
  <2> QED
    BY <2>3, <2>4 DEF TypeInv
<1>3. CASE MGet
  <2>1. /\ UNCHANGED <<contestant, contestants, submission, submissions, pushes, at, reads>>
        /\ faults' \in 0..MaxFaults
    BY <1>0, <1>3, FaultType DEF MGet, contestantVars, submissionVars, TypeOK
  <2>2. \/ read' = [read EXCEPT !.ids = {},
                      !.rows = {id \in read.ids : Present(read.kind, id)}]
        \/ read' = [read EXCEPT !.ids = {}, !.status = "500"]
    BY <1>3 DEF MGet
  <2>3. FieldsOK'
    <3> DEFINE found == {id \in read.ids : Present(read.kind, id)}
    <3>1. found \subseteq Contestants \cup Submissions
      BY <1>0 DEF FieldsOK
    <3>2. \/ read' = [read EXCEPT !.ids = {}, !.rows = found]
          \/ read' = [read EXCEPT !.ids = {}, !.status = "500"]
      BY <2>2
    <3> HIDE DEF found
    <3> DEFINE T == [kind : Kinds, status : {"200", "500"},
                     ids : SUBSET (Contestants \cup Submissions),
                     rows : SUBSET (Contestants \cup Submissions),
                     expected : SUBSET (Contestants \cup Submissions)]
    <3>3. read \in T
      BY <1>0 DEF FieldsOK
    <3>4. [read EXCEPT !.ids = {}, !.rows = found] \in T
      BY <3>1, <3>3
    <3>5. [read EXCEPT !.ids = {}, !.status = "500"] \in T
      BY <3>3
    <3>6. read' \in T
      BY <3>2, <3>4, <3>5
    <3> QED
      BY <1>0, <2>1, <3>6 DEF FieldsOK
  <2>4. TypeOK'
    BY <1>0, <2>1, <2>3 DEF TypeOK, FieldsOK
  <2> QED
    BY <2>3, <2>4 DEF TypeInv
<1>4. CASE UNCHANGED vars
  BY <1>0, <1>4 DEF TypeInv, TypeOK, FieldsOK, vars, contestantVars, submissionVars, readVars
<1> QED
  BY <1>1, <1>2, <1>3, <1>4 DEF Next

LEMMA TypeInit == Init => TypeInv
<1> SUFFICES ASSUME Init PROVE TypeInv
  OBVIOUS
<1>1. <<>> \in Seq(Submissions)
  OBVIOUS
<1>2. TypeOK
  BY <1>1, RegistryBounds DEF Init, TypeOK, Kinds
<1>3. FieldsOK
  BY DEF Init, FieldsOK, Kinds, Requests
<1> QED
  BY <1>2, <1>3 DEF TypeInv

LEMMA TypeInvariant == Spec => []TypeInv
BY TypeInit, TypeStep, PTL DEF Spec

\* RegisterContestant, SaveSubmission and the listings keep every key and every
\* answer within its type.
THEOREM RegistryTypeCorrect == Spec => []TypeOK
<1>1. TypeInv => TypeOK
  BY DEF TypeInv
<1> QED
  BY <1>1, TypeInvariant, PTL

LEMMA IndexStep == IndexInv /\ [Next]_vars => IndexInv'
<1> SUFFICES ASSUME IndexInv, [Next]_vars PROVE Written' /\ IndexIsSound'
  BY TypeStep DEF IndexInv
<1>0. TypeInv /\ TypeOK /\ Written /\ IndexIsSound
  BY DEF IndexInv, TypeInv
<1>1. ASSUME UNCHANGED <<contestant, contestants, submission, submissions, pushes, at>>
      PROVE  Written' /\ IndexIsSound'
  BY <1>0, <1>1 DEF Written, IndexIsSound, Newest
<1>2. ASSUME NEW q \in Requests, Arrive(q) \/ Exec(q) PROVE Written'
  <2>1. /\ \A p \in Requests : p # q => at'[p] = at[p]
        /\ q \in Registrations =>
             /\ at'[q] = "SADD" => RunCommand(q) /\ at[q] = "SET"
             /\ at'[q] = "ok" => RunCommand(q) /\ at[q] = "SADD"
        /\ q \in Submissions => (at'[q] = "LPUSH" => RunCommand(q) /\ at[q] = "SET")
    BY <1>0, <1>2, ExecAt
  <2>2. \/ RunCommand(q)
        \/ UNCHANGED <<contestant, contestants, submission, submissions, pushes>>
    BY <1>0, <1>2, ExecIs DEF Arrive, contestantVars, submissionVars
  <2>3. /\ \A c \in Contestants : contestant[c] # None => contestant'[c] # None
        /\ contestants \subseteq contestants'
        /\ submission \subseteq submission'
    BY <1>0, <2>2, CommandKeeps
  <2>4. ASSUME NEW p \in Registrations PROVE /\ at'[p] = "SADD" => contestant'[Of[p]] # None
                                             /\ at'[p] = "ok" => Of[p] \in contestants'
    <3>0. Of[p] \in Contestants /\ p \in Requests /\ p # None /\ p \notin Submissions
      BY RegistryBounds DEF Requests
    <3>1. CASE p # q
      BY <1>0, <2>1, <2>3, <3>0, <3>1 DEF Written
    <3>2. ASSUME p = q, at'[q] = "SADD" PROVE contestant'[Of[p]] # None
      <4>1. RunCommand(q) /\ at[q] = "SET"
        BY <2>1, <3>2
      <4>2. contestant' = [contestant EXCEPT ![Of[q]] = q]
        BY <3>0, <3>2, <4>1, CommandIs
      <4> QED
        BY <1>0, <3>0, <3>2, <4>2 DEF TypeOK
    <3>3. ASSUME p = q, at'[q] = "ok" PROVE Of[p] \in contestants'
      <4>1. RunCommand(q) /\ at[q] = "SADD"
        BY <2>1, <3>3
      <4>2. contestants' = contestants \cup {Of[q]}
        BY <4>1, CommandIs
      <4> QED
        BY <3>3, <4>2
    <3> QED
      BY <3>1, <3>2, <3>3
  <2>5. ASSUME NEW p \in Submissions, at'[p] = "LPUSH" PROVE p \in submission'
    <3>0. p \in Requests /\ p \notin Registrations
      BY RegistryBounds DEF Requests
    <3>1. CASE p # q
      BY <1>0, <2>1, <2>3, <2>5, <3>0, <3>1 DEF Written
    <3>2. CASE p = q
      <4>1. RunCommand(q) /\ at[q] = "SET"
        BY <2>1, <2>5, <3>2
      <4>2. submission' = submission \cup {q}
        BY <3>0, <3>2, <4>1, CommandIs
      <4> QED
        BY <3>2, <4>2
    <3> QED
      BY <3>1, <3>2
  <2> QED
    BY <2>4, <2>5 DEF Written
<1>3. ASSUME NEW q \in Requests, RunCommand(q) PROVE IndexIsSound'
  <2>0. /\ Of[q] \in Contestants /\ SubCap \in Nat
        /\ submissions \in [Contestants -> Seq(Submissions)]
        /\ pushes \in [Contestants -> Seq(Submissions)]
        /\ \A c \in Contestants :
             /\ ToSet(submissions[c]) \subseteq submission
             /\ Trimmed(submissions[c], SubCap) = Trimmed(pushes[c], SubCap)
    BY <1>0, RegistryBounds DEF TypeOK, IndexIsSound, Newest
  <2>1. /\ \A c \in Contestants : contestant[c] # None => contestant'[c] # None
        /\ submission \subseteq submission' /\ contestants' \subseteq Contestants
    BY <1>0, <1>3, CommandKeeps
  <2>2. \A c \in contestants' : contestant'[c] # None
    <3>1. \A c \in contestants : contestant'[c] # None
      BY <1>0, <2>1 DEF IndexIsSound, TypeOK
    <3>2. CASE at[q] = "SADD"
      <4>1. contestants' = contestants \cup {Of[q]} /\ contestant' = contestant
        BY <1>3, <3>2, CommandIs
      <4>2. q \in Registrations
        BY <1>0, <3>2, RegistryBounds DEF TypeInv, FieldsOK, Requests
      <4> QED
        BY <1>0, <3>1, <3>2, <4>1, <4>2 DEF Written
    <3>3. CASE at[q] # "SADD"
      <4>1. contestants' = contestants
        BY <1>3, <3>3, CommandIs
      <4> QED
        BY <3>1, <4>1
    <3> QED
      BY <3>2, <3>3
  <2>3. ASSUME NEW c \in Contestants
        PROVE  /\ ToSet(submissions'[c]) \subseteq submission'
               /\ Trimmed(submissions'[c], SubCap) = Trimmed(pushes'[c], SubCap)
    <3>1. CASE submissions'[c] = submissions[c] /\ pushes'[c] = pushes[c]
      BY <2>0, <2>1, <3>1
    <3>2. CASE at[q] = "LPUSH" /\ c = Of[q]
      <4>1. q \in Submissions /\ q \in submission
        BY <1>0, <3>2, RegistryBounds DEF TypeInv, FieldsOK, Requests, Written
      <4>2. submissions'[c] = <<q>> \o submissions[c] /\ pushes'[c] = <<q>> \o pushes[c]
        BY <1>3, <2>0, <3>2, CommandIs
      <4>3. ToSet(<<q>> \o submissions[c]) = {q} \cup ToSet(submissions[c])
        BY <2>0, <4>1, ToSetPush
      <4>4. Trimmed(<<q>> \o submissions[c], SubCap) = Trimmed(<<q>> \o pushes[c], SubCap)
        <5>1. submissions[c] \in Seq(Submissions) /\ pushes[c] \in Seq(Submissions)
          BY <2>0
        <5> QED
          BY <2>0, <4>1, <5>1, TrimmedPush
      <4> QED
        BY <2>0, <2>1, <4>1, <4>2, <4>3, <4>4
    <3>3. CASE at[q] = "LTRIM" /\ c = Of[q]
      <4>1. submissions'[c] = Trimmed(submissions[c], SubCap) /\ pushes'[c] = pushes[c]
        BY <1>3, <2>0, <3>3, CommandIs
      <4>2. submissions[c] \in Seq(Submissions)
        BY <2>0
      <4>3. Trimmed(Trimmed(submissions[c], SubCap), SubCap) = Trimmed(submissions[c], SubCap)
        BY <2>0, <4>2, TrimmedTwice
      <4>4. ToSet(Trimmed(submissions[c], SubCap)) \subseteq ToSet(submissions[c])
        BY <2>0, <4>2, TrimmedElements
      <4> QED
        BY <2>0, <2>1, <4>1, <4>3, <4>4
    <3>4. ASSUME at[q] \notin {"LPUSH", "LTRIM"} \/ c # Of[q]
          PROVE  submissions'[c] = submissions[c] /\ pushes'[c] = pushes[c]
      BY <1>3, <2>0, <3>4, CommandIs
    <3> QED
      BY <3>1, <3>2, <3>3, <3>4
  <2> QED
    BY <2>2, <2>3 DEF IndexIsSound, Newest
<1>4. ASSUME UNCHANGED <<contestant, contestants, submission, submissions, pushes>>
      PROVE  IndexIsSound'
  BY <1>0, <1>4 DEF IndexIsSound, Newest
<1>5. ASSUME NEW q \in Requests, Arrive(q) \/ Exec(q) PROVE IndexIsSound'
  BY <1>0, <1>3, <1>4, <1>5, ExecIs DEF Arrive, contestantVars, submissionVars
<1>6. ASSUME NEW kind \in Kinds, NEW c \in Contestants, BeginList(kind, c)
      PROVE  Written' /\ IndexIsSound'
  BY <1>0, <1>1, <1>6, ListStep
<1>7. ASSUME MGet \/ UNCHANGED vars
      PROVE  Written' /\ IndexIsSound'
  <2>1. UNCHANGED <<contestant, contestants, submission, submissions, pushes, at>>
    BY <1>7 DEF MGet, vars, contestantVars, submissionVars
  <2> QED
    BY <1>1, <2>1
<1> QED
  BY <1>2, <1>5, <1>6, <1>7 DEF Next

LEMMA IndexInit == Init => IndexInv
<1> SUFFICES ASSUME Init PROVE Written /\ IndexIsSound
  BY TypeInit DEF IndexInv
<1>1. Written
  BY DEF Init, Written, Requests
<1>2. IndexIsSound
  BY ToSetEmpty DEF Init, IndexIsSound, Newest
<1> QED
  BY <1>1, <1>2

LEMMA IndexInvariant == Spec => []IndexInv
BY IndexInit, IndexStep, PTL DEF Spec

\* What the set contestants and the lists submissions:contestant:<id> name has
\* its record, wherever a pipeline was lost, and LRANGE 0 99 reads the newest
\* submissions however many requests are between their LPUSH and their LTRIM.
THEOREM IndexesAreSound == Spec => []IndexIsSound
<1>1. IndexInv => IndexIsSound
  BY DEF IndexInv
<1> QED
  BY <1>1, IndexInvariant, PTL

\* A registration of an id that was answered 201 before is refused by the
\* EXISTS check, whatever else is in flight.
THEOREM DuplicatesAreRefused == Spec => DuplicateRefused
<1> DEFINE Refused == \A q, p \in Registrations :
             at[q] = "new" /\ at'[q] \in {"SET", "SADD"} => ~(Of[p] = Of[q] /\ at[p] = "ok")
<1>1. ASSUME IndexInv, [Next]_vars,
             NEW q \in Registrations, NEW p \in Registrations,
             at[q] = "new", at'[q] \in {"SET", "SADD"}, Of[p] = Of[q], at[p] = "ok"
      PROVE  FALSE
  <2>0. /\ TypeInv /\ q \in Requests /\ contestant[Of[q]] # None
        /\ at \in [Requests -> {"new", "SET", "SADD", "LPUSH", "LTRIM", "ok", "404", "409",
                                "500"}]
    BY <1>1 DEF IndexInv, TypeInv, TypeOK, Written, IndexIsSound, Requests
  <2>1. ASSUME NEW r \in Requests, Arrive(r) \/ Exec(r) PROVE FALSE
    <3>1. r = q
      BY <1>1, <2>0, <2>1, ExecAt
    <3>2. Arrive(q)
      BY <1>1, <2>1, <3>1 DEF Exec, Busy
    <3>3. at' = [at EXCEPT ![q] = Check(q)] \/ at' = [at EXCEPT ![q] = "500"]
      BY <3>2 DEF Arrive
    <3>4. Check(q) = "409"
      BY <2>0, CheckIs
    <3> QED
      BY <1>1, <2>0, <3>3, <3>4
  <2>2. ASSUME at' = at PROVE FALSE
    BY <1>1, <2>2
  <2> QED
    BY <1>1, <2>1, <2>2 DEF Next, BeginList, MGet, vars
<1>2. IndexInv /\ [Next]_vars => Refused
  BY <1>1
<1>3. IndexInv /\ [Next]_vars => [Refused]_vars
  BY <1>2
<1> QED
  BY <1>3, IndexInvariant, PTL DEF Spec, DuplicateRefused

-----------------------------------------------------------------------------
(***************************************************************************)
(* Listings                                                                *)
(***************************************************************************)

\* The index a listing reads holds all the listing should show.
LEMMA IndexIsExpected ==
    ASSUME IndexInv, NEW kind \in Kinds, NEW c \in Contestants
    PROVE  /\ Expected(kind, c) \subseteq Index(kind, c)
           /\ \A id \in Index(kind, c) : Present(kind, id)
<1>1. TypeInv /\ Written /\ IndexIsSound /\ submissions[c] \in Seq(Submissions) /\ SubCap \in Nat
  BY RegistryBounds DEF IndexInv, TypeInv, TypeOK
<1>2. CASE kind = "contestants"
  BY <1>1, <1>2 DEF Expected, Index, Present, Written, IndexIsSound
<1>3. CASE kind # "contestants"
  <2>1. ToSet(Newest(c)) \subseteq submission
    <3>1. ToSet(Newest(c)) \subseteq ToSet(submissions[c])
      BY <1>1, TrimmedElements DEF Newest
    <3> QED
      BY <1>1, <3>1 DEF IndexIsSound
  <2>2. Newest(c) = Trimmed(pushes[c], SubCap)
    BY <1>1 DEF IndexIsSound
  <2> QED
    BY <1>3, <2>1, <2>2 DEF Expected, Index, Present
<1> QED
  BY <1>2, <1>3

LEMMA ReadStep == IndexInv /\ ReadInv /\ [Next]_vars => ReadInv'
<1> SUFFICES ASSUME IndexInv, ReadInv, [Next]_vars PROVE ReadInv'
  OBVIOUS
<1>0. TypeInv /\ TypeOK /\ FieldsOK
  BY DEF IndexInv, TypeInv
<1>1. ASSUME read' = read, submission \subseteq submission',
             \A c \in Contestants : contestant[c] # None => contestant'[c] # None
      PROVE  ReadInv'
  <2>1. \A id \in read.ids : Present(read.kind, id)'
    BY <1>1 DEF ReadInv, Present
  <2> QED
    BY <1>1, <2>1 DEF ReadInv, ListIsComplete, Present
<1>2. ASSUME NEW q \in Requests, Arrive(q) \/ Exec(q) PROVE ReadInv'
  <2>1. /\ read' = read
        /\ \/ RunCommand(q)
           \/ UNCHANGED <<contestant, contestants, submission, submissions, pushes>>
    BY <1>0, <1>2, ExecIs DEF Arrive, contestantVars, submissionVars, readVars
  <2>2. /\ submission \subseteq submission'
        /\ \A c \in Contestants : contestant[c] # None => contestant'[c] # None
    BY <1>0, <2>1, CommandKeeps
  <2> QED
    BY <1>1, <2>1, <2>2
<1>3. ASSUME NEW kind \in Kinds, NEW c \in Contestants, BeginList(kind, c) PROVE ReadInv'
  <2>1. UNCHANGED <<contestant, submission>>
    BY <1>3 DEF BeginList, contestantVars, submissionVars
  <2>2. /\ Expected(kind, c) \subseteq Index(kind, c)
        /\ \A id \in Index(kind, c) : Present(kind, id)
        /\ kind = "contestants" => Index(kind, c) \subseteq Contestants
    BY <1>0, IndexIsExpected, IndexTypes
  <2>3. \A id : Present(kind, id)' <=> Present(kind, id)
    BY <2>1 DEF Present
  <2>4. CASE read' = [kind |-> kind, status |-> "200", ids |-> Index(kind, c), rows |-> {},
                      expected |-> Expected(kind, c)]
    <3>1. /\ read'.kind = kind /\ read'.ids = Index(kind, c) /\ read'.rows = {}
          /\ read'.expected = Expected(kind, c)
      BY <2>4
    <3> QED
      BY <2>2, <2>3, <3>1 DEF ReadInv, ListIsComplete, Present
  <2>5. CASE read' = [kind |-> kind, status |-> "500", ids |-> {}, rows |-> {}, expected |-> {}]
    BY <2>5 DEF ReadInv, ListIsComplete
  <2> QED
    BY <1>3, <2>4, <2>5 DEF BeginList
<1>4. CASE MGet
  <2>1. CASE read' = [read EXCEPT !.ids = {},
                        !.rows = {id \in read.ids : Present(read.kind, id)}]
    <3>1. {id \in read.ids : Present(read.kind, id)} = read.ids
      BY DEF ReadInv
    <3>2. read'.ids = {} /\ read'.rows = read.ids /\ read'.expected = read.expected
      BY <1>0, <2>1, <3>1 DEF FieldsOK
    <3>3. read.expected \subseteq read.ids
      BY <1>4 DEF MGet, ReadInv
    <3> QED
      BY <3>2, <3>3 DEF ReadInv, ListIsComplete
  <2>2. CASE read' = [read EXCEPT !.ids = {}, !.status = "500"]
    <3>1. read'.ids = {} /\ read'.status = "500"
      BY <1>0, <2>2 DEF FieldsOK
    <3> QED
      BY <3>1 DEF ReadInv, ListIsComplete
  <2> QED
    BY <1>4, <2>1, <2>2 DEF MGet
<1>5. CASE UNCHANGED vars
  BY <1>1, <1>5 DEF vars, contestantVars, submissionVars, readVars
<1> QED
  BY <1>2, <1>3, <1>4, <1>5 DEF Next

\* A listing that began after a registration or a submission was answered shows
\* it: nothing another request does between the two reads of the listing hides
\* it.
THEOREM ListingsAreComplete == Spec => []ListIsComplete
<1>1. Init => ReadInv
  BY DEF Init, ReadInv, ListIsComplete
<1>2. ReadInv => ListIsComplete
  BY DEF ReadInv
<1> QED
  BY <1>1, <1>2, ReadStep, IndexInvariant, PTL DEF Spec
=============================================================================
