------------------------------ MODULE JudgeApi ------------------------------
(***************************************************************************)
(* cmd/judge_api/main.go: the process that accepts submissions over HTTP,  *)
(* keeps them in an in-memory queue and judges them one at a time with     *)
(* Engine.Run.  Request handlers run concurrently with each other and with *)
(* the worker; the process may be interrupted, may crash, and is restarted *)
(* with an empty queue while Redis and Docker keep their state.            *)
(***************************************************************************)
EXTENDS JudgeEngine, Integers

CONSTANTS
    MaxQueue,    \* capacity of the queue channel (20)
    EngineModes, \* the values main may give to h.eng
    MaxCrashes   \* bound: times the process goes down

ASSUME ApiBounds ==
    /\ EngineModes \subseteq {"docker", "nil"}
    /\ MaxQueue \in Nat \ {0}
    /\ MaxCrashes \in Nat

VARIABLES
    proc,      \* "up", "stopping" (the signal context is cancelled), "down"
    eng,       \* h.eng: "docker", or "nil" when there is no judge engine
    req,       \* the POST /submissions request that creates each submission
    queue,     \* the channel
    pending,   \* the counters of GET /admin/queue
    running,
    worker,    \* where judgeWorker is
    hand,      \* the submission judgeWorker has received
    stored,    \* Redis: submission:<id>
    sent,      \* history: sends to the channel in this life of the process
    begun,     \* history: runs begun in this life of the process
    crashes    \* times the process went down

apiVars == <<proc, eng, req, queue, pending, running, worker, hand, stored, sent, begun,
             crashes>>
vars == <<engineVars, apiVars>>

Init ==
    /\ EngineInit
    /\ proc = "up"
    /\ eng \in EngineModes
    /\ req = [s \in Submissions |-> "none"]
    /\ queue = <<>>
    /\ pending = 0
    /\ running = 0
    /\ worker = "select"
    /\ hand = None
    /\ stored = {}
    /\ sent = <<>>
    /\ begun = <<>>
    /\ crashes = 0

-----------------------------------------------------------------------------
(***************************************************************************)
(* createSubmission, one request per submission                            *)
(***************************************************************************)

\* Decoding, validation and GetContestant; 400, 404 and 500 end the request.
Post(s) ==
    /\ proc = "up"
    /\ req[s] = "none"
    /\ \E outcome \in {"checked", "refused"} : req' = [req EXCEPT ![s] = outcome]
    /\ UNCHANGED <<engineVars, proc, eng, queue, pending, running, worker, hand, stored,
                   sent, begun, crashes>>

\* Faulty variant: the error of SaveSubmission does not end the request.
SaveSubmissionUnchecked(s) ==
    /\ proc # "down"
    /\ req[s] = "checked"
    /\ req' = [req EXCEPT ![s] = "saved"]
    /\ stored' \in {stored, stored \cup {s}}
    /\ UNCHANGED <<engineVars, proc, eng, queue, pending, running, worker, hand, sent,
                   begun, crashes>>

\* SaveSubmission; a pipeline that fails may have written the record.
SaveSubmission(s) ==
    /\ proc # "down"
    /\ req[s] = "checked"
    /\ \/ /\ req' = [req EXCEPT ![s] = "saved"]
          /\ stored' = stored \cup {s}
       \/ /\ req' = [req EXCEPT ![s] = "refused"]
          /\ stored' \in {stored, stored \cup {s}}
    /\ UNCHANGED <<engineVars, proc, eng, queue, pending, running, worker, hand, sent,
                   begun, crashes>>

\* The non-blocking send: 503 when the channel is full; without an engine the
\* submission is accepted and never queued.
Enqueue(s) ==
    /\ proc # "down"
    /\ req[s] = "saved"
    /\ \/ /\ eng = "nil"
          /\ req' = [req EXCEPT ![s] = "accepted"]
          /\ UNCHANGED <<queue, sent>>
       \/ /\ eng = "docker"
          /\ Len(queue) < MaxQueue
          /\ queue' = Append(queue, s)
          /\ sent' = Append(sent, s)
          /\ req' = [req EXCEPT ![s] = "sent"]
       \/ /\ eng = "docker"
          /\ Len(queue) = MaxQueue
          /\ req' = [req EXCEPT ![s] = "queueFull"]
          /\ UNCHANGED <<queue, sent>>
    /\ UNCHANGED <<engineVars, proc, eng, pending, running, worker, hand, stored, begun,
                   crashes>>

\* pending.Add(1) after the send, then 202.
CountPending(s) ==
    /\ proc # "down"
    /\ req[s] = "sent"
    /\ pending' = pending + 1
    /\ req' = [req EXCEPT ![s] = "accepted"]
    /\ UNCHANGED <<engineVars, proc, eng, queue, running, worker, hand, stored, sent,
                   begun, crashes>>

Handler(s) == Post(s) \/ SaveSubmission(s) \/ Enqueue(s) \/ CountPending(s)

-----------------------------------------------------------------------------
(***************************************************************************)
(* judgeWorker                                                             *)
(***************************************************************************)

\* Faulty variant: the submission stays in the queue until it has been judged.
ReceivePeek ==
    /\ proc # "down"
    /\ worker = "select"
    /\ queue # <<>>
    /\ hand' = Head(queue)
    /\ worker' = "received"
    /\ UNCHANGED <<engineVars, proc, eng, req, queue, pending, running, stored, sent,
                   begun, crashes>>

\* Faulty variant: the worker takes the newest submission, as from a stack.
ReceiveNewest ==
    /\ proc # "down"
    /\ worker = "select"
    /\ queue # <<>>
    /\ hand' = queue[Len(queue)]
    /\ queue' = SubSeq(queue, 1, Len(queue) - 1)
    /\ worker' = "received"
    /\ UNCHANGED <<engineVars, proc, eng, req, pending, running, stored, sent, begun,
                   crashes>>

\* The select takes a submission; when the context is cancelled too, the choice
\* between the two cases is random.
Receive ==
    /\ proc # "down"
    /\ worker = "select"
    /\ queue # <<>>
    /\ hand' = Head(queue)
    /\ queue' = Tail(queue)
    /\ worker' = "received"
    /\ UNCHANGED <<engineVars, proc, eng, req, pending, running, stored, sent, begun,
                   crashes>>

\* The select takes ctx.Done.
WorkerStops ==
    /\ proc = "stopping"
    /\ worker = "select"
    /\ worker' = "exited"
    /\ UNCHANGED <<engineVars, proc, eng, req, queue, pending, running, hand, stored, sent,
                   begun, crashes>>

\* Faulty variant: the counter is never decremented.
UncountPendingNot ==
    /\ worker = "received"
    /\ worker' = "counted"
    /\ UNCHANGED <<engineVars, proc, eng, req, queue, pending, running, hand, stored, sent,
                   begun, crashes>>

\* pending.Add(-1)
UncountPending ==
    /\ worker = "received"
    /\ pending' = pending - 1
    /\ worker' = "counted"
    /\ UNCHANGED <<engineVars, proc, eng, req, queue, running, hand, stored, sent, begun,
                   crashes>>

\* running.Add(1) and the call of Run, under a child of the process's context.
StartRun ==
    /\ worker = "counted"
    /\ Begin(hand)
    /\ ctx' = IF proc = "up" THEN "live" ELSE "done"
    /\ runCtx' = ctx'
    /\ running' = running + 1
    /\ worker' = "judging"
    /\ begun' = Append(begun, hand)
    /\ UNCHANGED <<proc, eng, req, queue, pending, hand, stored, sent, crashes>>

\* Faulty variant: running is not decremented.
EndRunUncounted ==
    /\ worker = "judging"
    /\ stage = "idle"
    /\ worker' = "select"
    /\ hand' = None
    /\ UNCHANGED <<engineVars, proc, eng, req, queue, pending, running, stored, sent, begun,
                   crashes>>

\* Run has returned: running.Add(-1), and back to the select.
EndRun ==
    /\ worker = "judging"
    /\ stage = "idle"
    /\ running' = running - 1
    /\ worker' = "select"
    /\ hand' = None
    /\ UNCHANGED <<engineVars, proc, eng, req, queue, pending, stored, sent, begun, crashes>>

Worker == Receive \/ WorkerStops \/ UncountPending \/ StartRun \/ EndRun

-----------------------------------------------------------------------------
(***************************************************************************)
(* The life of the process                                                 *)
(***************************************************************************)

\* os.Interrupt cancels the signal context, and with it ctx and runCtx.
Interrupt ==
    /\ proc = "up"
    /\ crashes < MaxCrashes
    /\ proc' = "stopping"
    /\ IF stage = "idle" THEN UNCHANGED <<ctx, runCtx>>
                         ELSE ctx' = "done" /\ runCtx' = "done"
    /\ UNCHANGED <<stage, callVars, res, cmd, redisVars, containers, faults, eng, req, queue,
                   pending, running, worker, hand, stored, sent, begun, crashes>>

\* The requests that the end of the process cuts off.
Unanswered == {s \in Submissions : req[s] \in {"checked", "saved", "sent"}}

\* A crash, or main returning: ListenAndServe returns as soon as Shutdown is
\* called, and nothing waits for the worker.  All memory is lost.
Down ==
    /\ proc = "stopping" \/ (proc = "up" /\ crashes < MaxCrashes)
    /\ proc' = "down"
    /\ crashes' = crashes + 1
    /\ req' = [s \in Submissions |-> IF s \in Unanswered THEN "cut" ELSE req[s]]
    /\ queue' = <<>>
    /\ pending' = 0
    /\ running' = 0
    /\ worker' = "exited"
    /\ hand' = None
    /\ sent' = <<>>
    /\ begun' = <<>>
    /\ Return
    /\ UNCHANGED <<run, redisVars, containers, faults, eng, stored>>

\* main: a new queue, a new worker, and an engine if Docker can be reached.
Restart ==
    /\ proc = "down"
    /\ proc' = "up"
    /\ eng' \in EngineModes
    /\ worker' = "select"
    /\ UNCHANGED <<engineVars, req, queue, pending, running, hand, stored, sent, begun,
                   crashes>>

Engine == EngineStep /\ UNCHANGED apiVars

\* Nothing left to do: every submission was posted, and the worker waits.
Quiescent ==
    /\ proc = "up"
    /\ worker = "select"
    /\ queue = <<>>
    /\ \A s \in Submissions : req[s] \notin {"none", "checked", "saved", "sent"}
    /\ UNCHANGED vars

Next ==
    \/ \E s \in Submissions : Handler(s)
    \/ Worker
    \/ Engine
    \/ Interrupt
    \/ Down
    \/ Restart
    \/ Quiescent

\* Handlers, the worker and Run keep being scheduled, and every call Run makes
\* ends, by its own timeout or its context's.
Fairness ==
    /\ \A s \in Submissions : WF_vars(SaveSubmission(s) \/ Enqueue(s) \/ CountPending(s))
    /\ WF_vars(Worker)
    /\ WF_vars(RunStep /\ UNCHANGED apiVars)
    /\ WF_vars(Restart)

Spec == Init /\ [][Next]_vars /\ Fairness

-----------------------------------------------------------------------------
(***************************************************************************)
(* Properties                                                              *)
(***************************************************************************)

TypeOK ==
    /\ EngineTypeOK
    /\ proc \in {"up", "stopping", "down"}
    /\ eng \in {"docker", "nil"}
    /\ req \in [Submissions -> {"none", "checked", "refused", "saved", "sent", "accepted",
                                "queueFull", "cut"}]
    /\ queue \in Seq(Submissions) /\ Len(queue) <= MaxQueue
    /\ pending \in Int
    /\ running \in 0..1
    /\ worker \in {"select", "received", "counted", "judging", "exited"}
    /\ hand \in Submissions \cup {None}
    /\ stored \subseteq Submissions
    /\ sent \in Seq(Submissions)
    /\ begun \in Seq(Submissions)
    /\ crashes \in 0..MaxCrashes

\* The pending counter is the queue's length, up to the sends that have not
\* been counted yet and the receive that has not been discounted yet.
PendingAccounting ==
    pending = Len(queue) - Cardinality({s \in Submissions : req[s] = "sent"})
              + (IF worker = "received" THEN 1 ELSE 0)

\* Within one life of the process every submission sent to the queue is judged
\* once, in the order of the sends, or is still waiting for it.
JudgedInOrder ==
    sent = begun \o (IF worker \in {"received", "counted"} THEN <<hand>> ELSE <<>>) \o queue

\* No submission is judged twice, restarts included.
JudgedAtMostOnce ==
    \A r, q \in RunIDs :
        records[r] # None /\ records[q] # None /\ records[r].sub = records[q].sub => r = q

\* A run begins only for a submission that was saved and that was not refused.
OnlyAcceptedRun ==
    \A s \in Submissions :
        subRuns[s] # <<>> => s \in stored /\ req[s] \in {"sent", "accepted", "cut"}

Judged(s) == \E r \in RunIDs : Terminal(r) /\ records[r].sub = s

\* main.go:1-2 "accepts contestant submissions, queues them for judging, and
\* exposes run results": every submission answered with 202 ends with a final
\* result in Redis, whatever fails in the sandbox and whenever runCtx expires.
AcceptedIsJudged ==
    \A s \in Submissions : (req[s] = "accepted" /\ eng = "docker") ~> Judged(s)
=============================================================================
