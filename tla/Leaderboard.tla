---------------------------- MODULE Leaderboard -----------------------------
(***************************************************************************)
(* The live leaderboard in Redis and everyone who touches it: the          *)
(* ingesters' flush (cmd/telemetry_ingester), the admin's reset            *)
(* (cmd/judge_api), the reads and the event stream of cmd/leaderboard_api, *)
(* the judge's announcements on the same channel, and the page.            *)
(*                                                                         *)
(* A Redis command is one step; a pipeline is a sequence of steps, between *)
(* which other clients' commands run.  A window is a record of its number  *)
(* and its score (the number is history: it tells old rows from new ones). *)
(***************************************************************************)
EXTENDS Integers, Sequences, FiniteSets, SequencesExt

CONSTANTS
    Contestants,  \* integers, in the order in which Redis sorts their names
    Ingesters,
    Home,         \* who consumes a contestant's partition (records are keyed)
    Scores,
    TopN,         \* -top: leaderboard size (50)
    Limit,        \* ?limit= of GET /leaderboard
    MaxWindows,   \* bound: windows an ingester flushes
    MaxFetches,   \* bound: fetches of the page
    MaxResets,    \* bound: DELETE /leaderboard
    MaxFaults,    \* bound: commands that return an error
    None

ASSUME LeaderboardBounds ==
    /\ Contestants \subseteq Int /\ IsFiniteSet(Contestants)
    /\ Home \in [Contestants -> Ingesters]
    /\ Scores \subseteq Int
    /\ TopN \in Nat /\ Limit \in Nat \ {0}
    /\ MaxWindows \in Nat /\ MaxFetches \in Nat /\ MaxResets \in Nat
    /\ MaxFaults \in Nat

Rows == [ver : 1..MaxWindows, score : Scores]
Fetches == 1..MaxFetches

VARIABLES
    board,     \* Redis: the sorted set leaderboard
    detail,    \* Redis: leaderboard:<contestant>
    phase,     \* where each ingester's flush is
    todo,      \* the commands of its pipeline still to run
    card,      \* what its ZCARD returned, 0 outside of a trim
    windows,   \* windows it has flushed
    reset,     \* where resetLeaderboard is
    left,      \* the part of the key space SCAN has not visited
    keys,      \* the keys SCAN returned last
    floor,     \* history: each contestant's last window written before the reset
    announced, \* each contestant's newest window that was published
    told,      \* history: each contestant's newest window the page heard of
    due,       \* is a refresh of the page due?
    fetch,     \* the page's fetches
    budget     \* faults and resets so far

ingestVars == <<phase, todo, card, windows>>
resetVars == <<reset, left, keys, floor>>
pageVars == <<told, due, fetch>>
vars == <<board, detail, ingestVars, resetVars, announced, pageVars, budget>>

Init ==
    /\ board = [c \in Contestants |-> None]
    /\ detail = [c \in Contestants |-> None]
    /\ phase = [g \in Ingesters |-> "idle"]
    /\ todo = [g \in Ingesters |-> <<>>]
    /\ card = [g \in Ingesters |-> 0]
    /\ windows = [g \in Ingesters |-> 0]
    /\ reset = "idle"
    /\ left = {}
    /\ keys = {}
    /\ floor = [c \in Contestants |-> 0]
    /\ announced = [c \in Contestants |-> 0]
    /\ told = [c \in Contestants |-> 0]
    /\ due = TRUE
    /\ fetch = [f \in Fetches |-> None]
    /\ budget = [faults |-> 0, resets |-> 0]

Members == {c \in Contestants : board[c] # None}

\* The order of the sorted set: by score, then by name.
Below(c, d) ==
    \/ board[c].score < board[d].score
    \/ board[c].score = board[d].score /\ c < d

Rank(c) == Cardinality({d \in Members : Below(d, c)})

\* A command returns an error.
Fault ==
    /\ budget.faults < MaxFaults
    /\ budget' = [budget EXCEPT !.faults = @ + 1]

-----------------------------------------------------------------------------
(***************************************************************************)
(* flush                                                                   *)
(***************************************************************************)

\* Faulty variant: the update is announced before it is written.
CommandsEarly(c, row) ==
    <<[op |-> "PUBLISH", of |-> c, row |-> row],
      [op |-> "ZADD", of |-> c, row |-> row],
      [op |-> "SET", of |-> c, row |-> row]>>

\* The commands of one window in the pipeline.
Commands(c, row) ==
    <<[op |-> "ZADD", of |-> c, row |-> row],
      [op |-> "SET", of |-> c, row |-> row],
      [op |-> "PUBLISH", of |-> c, row |-> row]>>

\* The pipeline of a flush: the commands of each window in turn.
Pipeline(order, rows) ==
    [k \in 1..(3 * Len(order)) |->
        LET c == order[(k + 2) \div 3] IN Commands(c, rows[c])[((k - 1) % 3) + 1]]

\* FlushAndReset: one window for each contestant with records, in any order.
Flush(g) ==
    /\ phase[g] = "idle"
    /\ windows[g] < MaxWindows
    /\ windows' = [windows EXCEPT ![g] = @ + 1]
    /\ \E active \in (SUBSET {c \in Contestants : Home[c] = g}) \ {{}} :
       \E order \in SetToSeqs(active), score \in [active -> Scores] :
          todo' = [todo EXCEPT ![g] =
            Pipeline(order, [c \in active |-> [ver |-> windows'[g], score |-> score[c]]])]
    /\ phase' = [phase EXCEPT ![g] = "pipe"]
    /\ UNCHANGED <<board, detail, card, resetVars, announced, pageVars, budget>>

\* Faulty variant: a detail that exists is not overwritten.
PutNX(c, row) == IF detail[c] = None THEN [detail EXCEPT ![c] = row] ELSE detail

\* SET leaderboard:<id>
Put(c, row) == [detail EXCEPT ![c] = row]

\* What a command does.
RunCommand(command) ==
    LET c == command.of
    IN  /\ board' = IF command.op = "ZADD" THEN [board EXCEPT ![c] = command.row] ELSE board
        /\ detail' = IF command.op = "SET" THEN Put(c, command.row) ELSE detail
        /\ announced' = IF command.op = "PUBLISH"
                          THEN [announced EXCEPT ![c] = command.row.ver] ELSE announced

\* The server runs the next command of the pipeline, or the rest of it is lost;
\* either way the flush goes on to the trim.
Exec(g) ==
    /\ phase[g] = "pipe"
    /\ \/ /\ RunCommand(Head(todo[g]))
          /\ todo' = [todo EXCEPT ![g] = Tail(@)]
          /\ UNCHANGED budget
       \/ /\ Fault
          /\ todo' = [todo EXCEPT ![g] = <<>>]
          /\ UNCHANGED <<board, detail, announced>>
    /\ phase' = [phase EXCEPT ![g] = IF todo'[g] = <<>> THEN "card" ELSE @]
    /\ UNCHANGED <<card, windows, resetVars, pageVars>>

\* ZCARD; nothing is trimmed when it fails or when the board is small enough.
Card(g) ==
    /\ phase[g] = "card"
    /\ \/ /\ LET over == TopN > 0 /\ Cardinality(Members) > TopN
             IN  /\ card' = [card EXCEPT ![g] = IF over THEN Cardinality(Members) ELSE 0]
                 /\ phase' = [phase EXCEPT ![g] = IF over THEN "trim" ELSE "idle"]
          /\ UNCHANGED budget
       \/ /\ Fault
          /\ phase' = [phase EXCEPT ![g] = "idle"]
          /\ UNCHANGED card
    /\ UNCHANGED <<board, detail, todo, windows, resetVars, announced, pageVars>>

\* Faulty variant: one entry too many.
LastTrimmedWide(g) == card[g] - TopN

\* The stop rank of ZREMRANGEBYRANK.
LastTrimmed(g) == card[g] - TopN - 1

\* The lowest entries go, as many as ZCARD said are over.
RemoveSurplus(g) ==
    board' = [c \in Contestants |->
        IF c \in Members /\ Rank(c) <= LastTrimmed(g) THEN None ELSE board[c]]

\* ZREMRANGEBYRANK.  The command may be lost, or its answer, and then the error is
\* dropped or go-redis repeats the command with the ranks it had (MaxRetries).
Trim(g) ==
    /\ phase[g] = "trim"
    /\ \/ /\ RemoveSurplus(g)
          /\ UNCHANGED budget
          /\ phase' = [phase EXCEPT ![g] = "idle"]
          /\ card' = [card EXCEPT ![g] = 0]
       \/ /\ Fault
          /\ RemoveSurplus(g) \/ UNCHANGED board
          /\ \/ UNCHANGED <<phase, card>>
             \/ /\ phase' = [phase EXCEPT ![g] = "idle"]
                /\ card' = [card EXCEPT ![g] = 0]
    /\ UNCHANGED <<detail, todo, windows, resetVars, announced, pageVars>>

Ingester(g) == Flush(g) \/ Exec(g) \/ Card(g) \/ Trim(g)

-----------------------------------------------------------------------------
(***************************************************************************)
(* resetLeaderboard                                                        *)
(***************************************************************************)

\* The last window of c whose commands have all been run.
Written(c) == windows[Home[c]] - (IF phase[Home[c]] = "pipe" THEN 1 ELSE 0)

\* An error ends the request halfway.
GiveUp ==
    /\ reset' = "idle"
    /\ left' = {}
    /\ floor' = [c \in Contestants |-> 0]

Empty == [c \in Contestants |-> None]

\* DEL leaderboard; an error ends the request, its effect done or not.
DelBoard ==
    /\ reset \in {"idle", "done"}
    /\ budget.resets < MaxResets
    /\ \/ /\ budget' = [budget EXCEPT !.resets = @ + 1]
          /\ board' = Empty
          /\ reset' = "scan"
          /\ left' = Contestants
          /\ floor' = [c \in Contestants |-> Written(c)]
       \/ Fault /\ GiveUp /\ board' \in {board, Empty}
    /\ UNCHANGED <<detail, ingestVars, keys, announced, pageVars>>

\* Faulty variant: the first page is taken for the whole key space.
NextPageOnly(rest) == "done"

\* After a page of the SCAN: more pages until the cursor is 0.
NextPage(rest) == IF rest = {} THEN "done" ELSE "scan"

\* SCAN visits a further part of the key space and returns the keys there.
ScanDetails ==
    /\ reset = "scan"
    /\ \/ /\ \E page \in (SUBSET left) \ {{}} :
               /\ left' = left \ page
               /\ keys' = {c \in page : detail[c] # None}
          /\ reset' = IF keys' = {} THEN NextPage(left') ELSE "del"
          /\ UNCHANGED <<floor, budget>>
       \/ Fault /\ GiveUp /\ keys' = {}
    /\ UNCHANGED <<board, detail, ingestVars, announced, pageVars>>

Without(ids) == [c \in Contestants |-> IF c \in ids THEN None ELSE detail[c]]

\* DEL of the keys returned.
DelDetails ==
    /\ reset = "del"
    /\ \/ /\ detail' = Without(keys)
          /\ reset' = NextPage(left)
          /\ UNCHANGED <<left, floor, budget>>
       \/ Fault /\ GiveUp /\ detail' \in {detail, Without(keys)}
    /\ keys' = {}
    /\ UNCHANGED <<board, ingestVars, announced, pageVars>>

Reset == DelBoard \/ ScanDetails \/ DelDetails

-----------------------------------------------------------------------------
(***************************************************************************)
(* GET /leaderboard, GET /stream, and the page                             *)
(***************************************************************************)

\* The relay forwards the newest update of c and the page arms its timer.  An
\* update that nobody is subscribed for, or that a broken stream loses, is one
\* that is never relayed: neither Redis nor the relay keeps it for later.
Relay(c) ==
    /\ announced[c] > told[c]
    /\ told' = [told EXCEPT ![c] = announced[c]]
    /\ due' = TRUE
    /\ UNCHANGED <<board, detail, ingestVars, resetVars, announced, fetch, budget>>

\* The judge announces the end of a run on the channel that announces windows;
\* the relay forwards it and the page arms its timer although no row is new.
Prompt ==
    /\ due' = TRUE
    /\ UNCHANGED <<board, detail, ingestVars, resetVars, announced, told, fetch, budget>>

\* The timer, or the mount of the page: a refresh, not waiting for earlier ones.
StartFetch(f) ==
    /\ due
    /\ fetch[f] = None
    /\ \A e \in 1..(f - 1) : fetch[e] # None
    /\ fetch' = [fetch EXCEPT ![f] = [at |-> "sent", need |-> told, ids |-> {}, rows |-> {}]]
    /\ due' = FALSE
    /\ UNCHANGED <<board, detail, ingestVars, resetVars, announced, told, budget>>

\* A command of the request fails: 500, and the page keeps the rows it has.
FailFetch(f) == Fault /\ fetch' = [fetch EXCEPT ![f].ids = {}, ![f].at = "failed"]

\* ZREVRANGE 0 limit-1
ReadRanks(f) ==
    /\ fetch[f] # None /\ fetch[f].at = "sent"
    /\ \/ /\ LET best == {c \in Members : Cardinality(Members) - Rank(c) <= Limit}
             IN  fetch' = [fetch EXCEPT ![f].ids = best,
                                        ![f].at = IF best = {} THEN "read" ELSE "ranked"]
          /\ UNCHANGED budget
       \/ FailFetch(f)
    /\ UNCHANGED <<board, detail, ingestVars, resetVars, announced, told, due>>

\* Faulty variant: missing keys are not skipped.
FoundAll(ids) == {<<c, detail[c]>> : c \in ids}

\* The rows MGET finds; keys that are gone are skipped.
Found(ids) == {<<c, detail[c]>> : c \in {d \in ids : detail[d] # None}}

\* MGET, and the answer: these are the rows the page gets.
ReadDetails(f) ==
    /\ fetch[f] # None /\ fetch[f].at = "ranked"
    /\ \/ /\ fetch' = [fetch EXCEPT ![f].rows = Found(fetch[f].ids), ![f].ids = {},
                                    ![f].at = "read"]
          /\ UNCHANGED budget
       \/ FailFetch(f)
    /\ UNCHANGED <<board, detail, ingestVars, resetVars, announced, told, due>>

Page ==
    \/ \E c \in Contestants : Relay(c)
    \/ Prompt
    \/ \E f \in Fetches : StartFetch(f) \/ ReadRanks(f) \/ ReadDetails(f)

Next == (\E g \in Ingesters : Ingester(g)) \/ Reset \/ Page

Spec == Init /\ [][Next]_vars

-----------------------------------------------------------------------------
(***************************************************************************)
(* Properties                                                              *)
(***************************************************************************)

TypeOK ==
    /\ board \in [Contestants -> Rows \cup {None}]
    /\ detail \in [Contestants -> Rows \cup {None}]
    /\ phase \in [Ingesters -> {"idle", "pipe", "card", "trim"}]
    /\ card \in [Ingesters -> 0..Cardinality(Contestants)]
    /\ windows \in [Ingesters -> 0..MaxWindows]
    /\ reset \in {"idle", "scan", "del", "done"}
    /\ left \subseteq Contestants /\ keys \subseteq Contestants
    /\ announced \in [Contestants -> 0..MaxWindows]
    /\ told \in [Contestants -> 0..MaxWindows]
    /\ \A f \in Fetches : fetch[f] # None => fetch[f].rows \subseteq Contestants \X Rows

\* When no flush is under way and no command was lost, a ranked contestant's
\* detail is of the window that ranks it, or was taken by a reset that ran into
\* the flush: rank and detail never show two different windows for good.
RankMatchesDetail ==
    \A c \in Contestants :
        phase[Home[c]] # "pipe" /\ budget.faults = 0 /\ board[c] # None =>
            detail[c] = board[c] \/ (detail[c] = None /\ budget.resets > 0)

\* A fetch never shows a contestant's row as it was before an update of its window
\* that the page had heard of, whatever flushes and resets come between the steps of
\* the fetch.  (Fetches only read: one does not change what another gets.  The judge's
\* announcement is of no window: there is no row it could promise.)
RowsAreFresh ==
    \A f \in Fetches : fetch[f] # None =>
        \A row \in fetch[f].rows : row[2].ver >= fetch[f].need[row[1]]

\* After DELETE /leaderboard has answered 200, no row is left of a window whose
\* pipeline was over when the board was deleted, whatever was flushed meanwhile.
ResetIsComplete ==
    reset = "done" =>
        \A c \in Contestants :
            /\ board[c] # None => board[c].ver > floor[c]
            /\ detail[c] # None => detail[c].ver > floor[c]

\* main.go:229 "Trim to top N.": the trim leaves the N best on the board, as long as
\* no command was lost (a trim repeated after a lost answer removes the surplus twice).
TrimKeepsTopN ==
    [][\A g \in Ingesters : Trim(g) /\ budget'.faults = 0 =>
          \A c \in Members : Cardinality(Members) - Rank(c) <= TopN => board'[c] = board[c]]_vars
=============================================================================
