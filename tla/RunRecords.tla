----------------------------- MODULE RunRecords -----------------------------
(***************************************************************************)
(* The records of runs in Redis, among three clients: the judge's worker   *)
(* saves a run when it begins and when it ends (saveResult), GET           *)
(* /contestants/{id}/runs lists them (ListRunsForContestant), and DELETE   *)
(* /admin/runs removes them (clearRuns).  One Redis command is one step.   *)
(*                                                                         *)
(* A submission is judged at most once (see JudgeApi), so the run stands   *)
(* for its submission too.                                                 *)
(***************************************************************************)
EXTENDS Integers, Sequences, FiniteSets, SequencesExt

CONSTANTS
    Contestants,
    Runs,
    Of,         \* whose run it is
    RunCap,     \* length LTRIM leaves of runs:contestant:<id> (50)
    Limit,      \* ids a listing reads (20)
    MaxReads,   \* bound: listings
    MaxClears,  \* bound: DELETE /admin/runs
    MaxFaults,  \* bound: commands that are lost
    None

ASSUME RunRecordBounds ==
    /\ Of \in [Runs -> Contestants]
    /\ {RunCap, Limit} \subseteq Nat \ {0}
    /\ {MaxReads, MaxClears, MaxFaults} \subseteq Nat
    /\ None \notin Runs

VARIABLES
    db,      \* Redis: the value of each key; one that is not there is <<>>
    saver,   \* the run being judged, or None
    cmd,     \* the next command of its saves
    over,    \* the runs that are over
    ids,     \* the ids a listing under way has read
    clear,   \* where DELETE /admin/runs is: its pattern, or its answer
    left,    \* the part of the key space its SCAN has not visited
    keys,    \* the keys SCAN returned last
    old,     \* history: the runs that were over when it began
    budget   \* faults, listings and clears so far

saverVars == <<saver, cmd, over>>
clearVars == <<clear, left, keys, old>>
vars == <<db, saverVars, ids, clearVars, budget>>

\* The keys a pattern can match: run:<id>, and two lists of ids, newest first.
KeySpace(pattern) ==
    IF pattern = "run:*"
      THEN {"run"} \X Runs
      ELSE ({"runs:submission"} \X Runs) \cup ({"runs:contestant"} \X Contestants)

Keys == KeySpace("run:*") \cup KeySpace("runs:*")
Exists(key) == db[key] # <<>>

Init ==
    /\ db = [key \in Keys |-> <<>>]
    /\ saver = None /\ cmd = 1 /\ over = {}
    /\ ids = <<>>
    /\ clear = "idle" /\ left = {} /\ keys = {} /\ old = {}
    /\ budget = [faults |-> 0, reads |-> 0, clears |-> 0]

Spend(what, max) == budget[what] < max /\ budget' = [budget EXCEPT ![what] = @ + 1]

\* A command is lost, or its answer is.
Fault == Spend("faults", MaxFaults)

-----------------------------------------------------------------------------
(***************************************************************************)
(* saveResult                                                              *)
(***************************************************************************)

\* Faulty variant: the lists are written before the record.
SaveListsFirst(r, status) ==
    <<[key |-> <<"runs:submission", r>>, op |-> "LPUSH"],
      [key |-> <<"runs:contestant", Of[r]>>, op |-> "LPUSH"],
      [key |-> <<"runs:contestant", Of[r]>>, op |-> "LTRIM"],
      [key |-> <<"run", r>>, op |-> status]>>

\* The commands of saveResult; the operation of the first is SET.
Save(r, status) ==
    <<[key |-> <<"run", r>>, op |-> status],
      [key |-> <<"runs:submission", r>>, op |-> "LPUSH"],
      [key |-> <<"runs:contestant", Of[r]>>, op |-> "LPUSH"],
      [key |-> <<"runs:contestant", Of[r]>>, op |-> "LTRIM"]>>

\* A run is saved when it begins and when it is COMPLETED or FAILED.
SaveCommands(r) == Save(r, "RUNNING") \o Save(r, "FINAL")

\* Faulty variant: LTRIM 0 50, one too many.
KeptWide(list) == SubSeq(list, 1, IF Len(list) <= RunCap THEN Len(list) ELSE RunCap + 1)

\* LTRIM 0 49
Kept(list) == SubSeq(list, 1, IF Len(list) <= RunCap THEN Len(list) ELSE RunCap)

Effect(value, op, r) ==
    CASE op = "LPUSH" -> <<r>> \o value
      [] op = "LTRIM" -> Kept(value)
      [] OTHER -> <<op>>

\* The worker begins a run.
BeginRun(r) ==
    /\ saver = None
    /\ r \notin over
    /\ saver' = r /\ cmd' = 1
    /\ UNCHANGED <<db, over, ids, clearVars, budget>>

\* saveResult goes on whether a command succeeds or not.
SaveStep ==
    /\ saver # None
    /\ LET c == SaveCommands(saver)[cmd]
       IN  \/ db' = [db EXCEPT ![c.key] = Effect(@, c.op, saver)] /\ UNCHANGED budget
           \/ Fault /\ UNCHANGED db
    /\ IF cmd = Len(SaveCommands(saver))
         THEN saver' = None /\ cmd' = 1 /\ over' = over \cup {saver}
         ELSE cmd' = cmd + 1 /\ UNCHANGED <<saver, over>>
    /\ UNCHANGED <<ids, clearVars>>

\* The record of a run lives for 24 hours after it was last written.
ExpireRun(r) ==
    /\ r \in over
    /\ Exists(<<"run", r>>)
    /\ db' = [db EXCEPT ![<<"run", r>>] = <<>>]
    /\ UNCHANGED <<saverVars, ids, clearVars, budget>>

-----------------------------------------------------------------------------
(***************************************************************************)
(* ListRunsForContestant (an error of either read changes nothing)         *)
(***************************************************************************)

\* LRANGE 0 limit-1
Newest(c) ==
    LET list == db[<<"runs:contestant", c>>]
    IN  SubSeq(list, 1, IF Len(list) < Limit THEN Len(list) ELSE Limit)

BeginList(c) ==
    /\ ids = <<>>
    /\ Spend("reads", MaxReads)
    /\ ids' = Newest(c)
    /\ UNCHANGED <<db, saverVars, clearVars>>

\* MGET, and the answer: ids whose record is gone are skipped.
MGet ==
    /\ ids # <<>>
    /\ ids' = <<>>
    /\ UNCHANGED <<db, saverVars, clearVars, budget>>

-----------------------------------------------------------------------------
(***************************************************************************)
(* clearRuns                                                               *)
(***************************************************************************)

\* The request arrives and begins with the first pattern.
BeginClear ==
    /\ clear \in {"idle", "200", "500"}
    /\ Spend("clears", MaxClears)
    /\ clear' = "run:*" /\ left' = KeySpace("run:*") /\ keys' = {} /\ old' = over
    /\ UNCHANGED <<db, saverVars, ids>>

\* An error ends the request halfway.
GiveUp == Fault /\ clear' = "500" /\ left' = {} /\ keys' = {} /\ old' = {}

\* Faulty variant: the first page is taken for the whole key space.
NextPageOnly(rest) ==
    IF clear = "run:*" THEN clear' = "runs:*" /\ left' = KeySpace("runs:*")
                       ELSE clear' = "200" /\ left' = {}

\* The next page of the pattern, the next pattern once the cursor is 0, or the end.
NextPage(rest) ==
    CASE rest # {} -> left' = rest /\ UNCHANGED clear
      [] rest = {} /\ clear = "run:*" -> clear' = "runs:*" /\ left' = KeySpace("runs:*")
      [] rest = {} /\ clear = "runs:*" -> clear' = "200" /\ left' = {}

\* SCAN visits a further part of the key space.
Scan ==
    /\ clear \in {"run:*", "runs:*"} /\ keys = {}
    /\ \/ \E page \in (SUBSET left) \ {{}} :
            /\ keys' = {key \in page : Exists(key)}
            /\ IF keys' = {} THEN NextPage(left \ page)
                             ELSE left' = left \ page /\ UNCHANGED clear
            /\ UNCHANGED <<old, budget>>
       \/ GiveUp
    /\ UNCHANGED <<db, saverVars, ids>>

\* DEL of the keys returned.
Del ==
    /\ keys # {}
    /\ \/ NextPage(left) /\ keys' = {} /\ UNCHANGED <<old, budget>>
       \/ GiveUp
    /\ \/ db' = [key \in Keys |-> IF key \in keys THEN <<>> ELSE db[key]]
       \/ clear' = "500" /\ UNCHANGED db
    /\ UNCHANGED <<saverVars, ids>>

Next ==
    \/ \E r \in Runs : BeginRun(r) \/ ExpireRun(r)
    \/ SaveStep
    \/ \E c \in Contestants : BeginList(c)
    \/ MGet
    \/ BeginClear \/ Scan \/ Del

Spec == Init /\ [][Next]_vars

-----------------------------------------------------------------------------
(***************************************************************************)
(* Properties                                                              *)
(***************************************************************************)

\* Types; runs:contestant:<id> is never longer than saveResult's LTRIM allows,
\* counting the entry just pushed and the commands that were lost.
TypeOK ==
    /\ \A r \in Runs : db[<<"run", r>>] \in {<<>>, <<"RUNNING">>, <<"FINAL">>}
    /\ \A key \in KeySpace("runs:*") : db[key] \in Seq(Runs)
    /\ \A c \in Contestants :
         Len(db[<<"runs:contestant", c>>]) <= RunCap + 1 + budget.faults
    /\ saver \in Runs \cup {None} /\ cmd \in 1..8
    /\ over \cup old \cup ToSet(ids) \subseteq Runs
    /\ clear \in {"idle", "run:*", "runs:*", "200", "500"}
    /\ keys \cup left \subseteq Keys

\* A listing skips a run only when its record expired, was deleted, or was never
\* written because a command was lost: saveResult never lists a run it has yet
\* to write, whatever happens between the listing's two reads.
SkippedIsGone ==
    [][MGet /\ budget.faults = 0 /\ budget.clears = 0 =>
          \A r \in ToSet(ids) : Exists(<<"run", r>>) \/ r \in over]_vars

\* After DELETE /admin/runs has answered 200, nothing is left of a run that was
\* over when it began, neither record nor list entry, although the worker kept
\* saving other runs of the contestant meanwhile and SCAN went page by page.
ClearIsComplete ==
    clear = "200" =>
        \A r \in old :
            /\ ~Exists(<<"run", r>>)
            /\ ~Exists(<<"runs:submission", r>>)
            /\ r \notin ToSet(db[<<"runs:contestant", Of[r]>>])
=============================================================================
