------------------------------ MODULE Registry ------------------------------
(***************************************************************************)
(* internal/registry/registry.go and the handlers of cmd/judge_api over    *)
(* it: contestants and submissions in Redis, each as records with an index *)
(* (a set or a list of ids) that listings start from.  RunRecords models   *)
(* the records of runs.                                                    *)
(*                                                                         *)
(* A Redis command is one step; a pipeline is a sequence of steps between  *)
(* which other clients' commands run.  When it is lost halfway, or its     *)
(* answer is, the client library sends all of it again or the request      *)
(* answers 500.  A submission's id is the request that made it.            *)
(***************************************************************************)
EXTENDS Integers, Sequences, FiniteSets, SequencesExt

CONSTANTS
    Contestants,
    Registrations,  \* POST /contestants
    Submissions,    \* POST /submissions
    Of,             \* whose request it is, a function on both
    SubCap,         \* length LTRIM leaves of submissions:contestant:<id> (100)
    MaxReads,       \* bound: listings
    MaxFaults,      \* bound: commands that are lost
    None

Requests == Registrations \cup Submissions

ASSUME RegistryBounds ==
    /\ Of \in [Requests -> Contestants]
    /\ Registrations \cap Submissions = {}
    /\ SubCap \in Nat \ {0}
    /\ MaxReads \in Nat /\ MaxFaults \in Nat
    /\ None \notin Requests

VARIABLES
    contestant,  \* Redis: contestant:<id>, by the registration that wrote it
    contestants, \* Redis: the set contestants
    submission,  \* Redis: the submission:<id> there are
    submissions, \* Redis: submissions:contestant:<id>, newest first
    at,          \* where each request is: its next command, or its answer
    pushes,      \* history: what was ever pushed on submissions, newest first
    read,        \* the listing under way, or the last one
    faults,      \* commands lost so far
    reads        \* listings so far

contestantVars == <<contestant, contestants>>
submissionVars == <<submission, submissions, pushes>>
readVars == <<read, reads>>
vars == <<contestantVars, submissionVars, at, readVars, faults>>

Init ==
    /\ contestant = [c \in Contestants |-> None]
    /\ contestants = {}
    /\ submission = {}
    /\ submissions = [c \in Contestants |-> <<>>]
    /\ at = [q \in Requests |-> "new"]
    /\ pushes = [c \in Contestants |-> <<>>]
    /\ read = [kind |-> "contestants", status |-> "200", ids |-> {}, rows |-> {},
               expected |-> {}]
    /\ faults = 0
    /\ reads = 0

\* A command is lost, or its answer is.
Fault == faults < MaxFaults /\ faults' = faults + 1

\* LTRIM 0 cap-1, LRANGE 0 cap-1
Trimmed(list, cap) == SubSeq(list, 1, IF Len(list) < cap THEN Len(list) ELSE cap)

-----------------------------------------------------------------------------
(***************************************************************************)
(* RegisterContestant and SaveSubmission                                   *)
(***************************************************************************)

\* Faulty variant: the index is written before the record.
PipelineIndexFirst(q) ==
    IF q \in Registrations THEN <<"SADD", "SET">> ELSE <<"LPUSH", "SET", "LTRIM">>

\* The commands of a request's pipeline.
Pipeline(q) ==
    IF q \in Registrations THEN <<"SET", "SADD">> ELSE <<"SET", "LPUSH", "LTRIM">>

\* Faulty variant: EXISTS asks for the wrong key.
CheckUnfound(q) ==
    IF q \in Submissions /\ contestant[Of[q]] = None THEN "404" ELSE Head(Pipeline(q))

\* What EXISTS or GetContestant decides: 409 for a contestant that is there,
\* 404 for one that is not, or the pipeline.
Check(q) ==
    CASE q \in Registrations /\ contestant[Of[q]] # None -> "409"
      [] q \in Submissions /\ contestant[Of[q]] = None -> "404"
      [] OTHER -> Head(Pipeline(q))

\* A request arrives and reads the contestant.
Arrive(q) ==
    /\ at[q] = "new"
    /\ \/ at' = [at EXCEPT ![q] = Check(q)] /\ UNCHANGED faults
       \/ Fault /\ at' = [at EXCEPT ![q] = "500"]
    /\ UNCHANGED <<contestantVars, submissionVars, readVars>>

Busy(q) == at[q] \in {"SET", "SADD", "LPUSH", "LTRIM"}

\* SET
Put(q) ==
    /\ at[q] = "SET"
    /\ IF q \in Registrations
         THEN contestant' = [contestant EXCEPT ![Of[q]] = q] /\ UNCHANGED submission
         ELSE submission' = submission \cup {q} /\ UNCHANGED contestant
    /\ UNCHANGED <<contestants, submissions, pushes>>

\* SADD contestants
SAdd(q) ==
    /\ at[q] = "SADD"
    /\ contestants' = contestants \cup {Of[q]}
    /\ UNCHANGED <<contestant, submissionVars>>

\* Faulty variant: the contestant's id is pushed.
PushedOwner(q) == <<Of[q]>>

\* What LPUSH puts in front of submissions:contestant:<id>.
Pushed(q) == <<q>>

LPush(q) ==
    /\ at[q] = "LPUSH"
    /\ submissions' = [submissions EXCEPT ![Of[q]] = Pushed(q) \o @]
    /\ pushes' = [pushes EXCEPT ![Of[q]] = <<q>> \o @]
    /\ UNCHANGED <<contestantVars, submission>>

\* Faulty variant: the list keeps one submission less.
KeptNarrow(list) == Trimmed(list, SubCap - 1)

\* What LTRIM leaves of the list.
Kept(list) == Trimmed(list, SubCap)

LTrim(q) ==
    /\ at[q] = "LTRIM"
    /\ submissions' = [submissions EXCEPT ![Of[q]] = Kept(@)]
    /\ UNCHANGED <<contestantVars, submission, pushes>>

RunCommand(q) == Put(q) \/ SAdd(q) \/ LPush(q) \/ LTrim(q)

\* Faulty variant: the error of the pipeline is not looked at.
LostAnswerUnchecked == "ok"

\* The answer to a request whose pipeline returned an error.
LostAnswer == "500"

\* The command after the current one, or the answer.
Advance(q) ==
    LET p == Pipeline(q)
        k == CHOOSE j \in DOMAIN p : p[j] = at[q]
    IN  IF k = Len(p) THEN "ok" ELSE p[k + 1]

\* The server runs the request's next command, or the rest of the pipeline is
\* lost, or the command's answer is.  In the last two cases Exec returns the error,
\* or go-redis repeats the pipeline (MaxRetries), what was already run included.
Exec(q) ==
    /\ Busy(q)
    /\ \/ RunCommand(q) /\ at' = [at EXCEPT ![q] = Advance(q)] /\ UNCHANGED faults
       \/ /\ Fault
          /\ RunCommand(q) \/ UNCHANGED <<contestantVars, submissionVars>>
          /\ \E next \in {LostAnswer, Head(Pipeline(q))} : at' = [at EXCEPT ![q] = next]
    /\ UNCHANGED readVars

-----------------------------------------------------------------------------
(***************************************************************************)
(* ListContestants and ListSubmissions                                     *)
(***************************************************************************)

Kinds == {"contestants", "submissions"}

\* LRANGE 0 99
Newest(c) == Trimmed(submissions[c], SubCap)

\* SMEMBERS or LRANGE: the ids of a listing.
Index(kind, c) == IF kind = "contestants" THEN contestants ELSE ToSet(Newest(c))

\* What a client that has its answers may expect in a listing begun now.
Expected(kind, c) ==
    IF kind = "contestants"
      THEN {Of[q] : q \in {p \in Registrations : at[p] = "ok"}}
      ELSE {s \in ToSet(Trimmed(pushes[c], SubCap)) : at[s] = "ok"}

\* The index is read, an empty one is the answer; or it cannot be read.
BeginList(kind, c) ==
    /\ read.ids = {}
    /\ reads < MaxReads
    /\ reads' = reads + 1
    /\ \/ /\ read' = [kind |-> kind, status |-> "200", ids |-> Index(kind, c), rows |-> {},
                      expected |-> Expected(kind, c)]
          /\ UNCHANGED faults
       \/ /\ Fault
          /\ read' = [kind |-> kind, status |-> "500", ids |-> {}, rows |-> {},
                      expected |-> {}]
    /\ UNCHANGED <<contestantVars, submissionVars, at>>

\* Is there a record for this id of a listing?
Present(kind, id) ==
    IF kind = "contestants" THEN contestant[id] # None ELSE id \in submission

\* MGET, and the answer: ids whose record is not there are skipped.
MGet ==
    /\ read.ids # {}
    /\ \/ /\ read' = [read EXCEPT !.ids = {},
                        !.rows = {id \in read.ids : Present(read.kind, id)}]
          /\ UNCHANGED faults
       \/ Fault /\ read' = [read EXCEPT !.ids = {}, !.status = "500"]
    /\ UNCHANGED <<contestantVars, submissionVars, at, reads>>

Next ==
    \/ \E q \in Requests : Arrive(q) \/ Exec(q)
    \/ \E kind \in Kinds, c \in Contestants : BeginList(kind, c)
    \/ MGet

Spec == Init /\ [][Next]_vars

-----------------------------------------------------------------------------
(***************************************************************************)
(* Properties                                                              *)
(***************************************************************************)

\* Types: contestant lists hold ids of submissions, requests are at a command or
\* have one of the answers the handlers give.
TypeOK ==
    /\ contestant \in [Contestants -> Registrations \cup {None}]
    /\ contestants \subseteq Contestants
    /\ submission \subseteq Submissions
    /\ submissions \in [Contestants -> Seq(Submissions)]
    /\ pushes \in [Contestants -> Seq(Submissions)]
    /\ at \in [Requests -> {"new", "SET", "SADD", "LPUSH", "LTRIM", "ok", "404", "409", "500"}]
    /\ read.kind \in Kinds /\ read.status \in {"200", "500"}
    /\ faults \in 0..MaxFaults /\ reads \in 0..MaxReads

\* 07_smoke_test.ps1:108 "Duplicate registration returns 409": once a
\* registration was answered 201, no later one of the same id gets through
\* the check, so what the client was told is never overwritten by it.
DuplicateRefused ==
    [][\A q, p \in Registrations :
          at[q] = "new" /\ at'[q] \in {"SET", "SADD"} => ~(Of[p] = Of[q] /\ at[p] = "ok")]_vars

\* A listing begun after a registration or a submission was answered shows it
\* (as long as it is among the newest), whatever other requests do meanwhile.
ListIsComplete ==
    read.ids = {} /\ read.status = "200" => read.expected \subseteq read.rows

\* What an index names has its record, also when a pipeline was lost halfway, so
\* no listing is shorter than its index; and the list always has the newest
\* entries ever pushed (registry.go:113 "keep last 100"; a repeated LPUSH is one
\* more), however the LPUSH and LTRIM of concurrent requests interleave.
IndexIsSound ==
    /\ \A c \in contestants : contestant[c] # None
    /\ \A c \in Contestants :
         /\ ToSet(submissions[c]) \subseteq submission
         /\ Newest(c) = Trimmed(pushes[c], SubCap)
=============================================================================
