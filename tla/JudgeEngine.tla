---------------------------- MODULE JudgeEngine -----------------------------
(***************************************************************************)
(* internal/judge/judge.go: Engine.Run, the judging of one submission, with *)
(* the calls it makes to Docker (internal/sandbox/docker.go) and to Redis. *)
(* One step per outside call; each may fail, and the two contexts the      *)
(* calls run under may expire between any two steps or during one.         *)
(*                                                                         *)
(*   ctx      the caller's context (10 minutes, or the process's signal)   *)
(*   runCtx   Run's own, cfg.Duration + 3 minutes, a child of ctx          *)
(*                                                                         *)
(* Redis commands run under ctx, Docker calls and the fleet under runCtx,  *)
(* the deferred StopAndRemove under neither.                               *)
(***************************************************************************)
EXTENDS Naturals, Sequences, FiniteSets

CONSTANTS
    Submissions,
    Contestants,
    Owner,        \* sub.ContestantID, a function on Submissions
    MaxRuns,      \* bound: runs begun
    MaxOrders,    \* bound: orders a fleet measures
    MaxFaults,    \* bound: commands that Redis or Docker loses
    MayExpire,    \* which contexts reach their deadline: "ctx", "runCtx"
    ListCap,      \* length LTRIM leaves of runs:contestant:<id> (50)
    None

ASSUME OwnerAssumption == Owner \in [Submissions -> Contestants]
ASSUME EngineBounds ==
    /\ MaxRuns \in Nat
    /\ MaxOrders \in Nat
    /\ MaxFaults \in Nat
    /\ MayExpire \subseteq {"ctx", "runCtx"}
    /\ ListCap \in Nat \ {0}

RunIDs == 1..MaxRuns
Status == {"RUNNING", "FAILED", "COMPLETED"}
Results == [sub : Submissions, status : Status, orders : 0..MaxOrders]

ASSUME NoneAssumption == None \notin Submissions \cup Results

\* saveResult's four commands, in order.
SaveCommands == <<"SET", "LPUSH submission", "LPUSH contestant", "LTRIM">>

VARIABLES
    stage,       \* where Run is; "idle" outside of a call
    cur,         \* the submission being judged
    run,         \* its run id (the nanosecond clock, hence fresh)
    res,         \* the local RunResult
    cmd,         \* saveResult: index of the next command
    ctx, runCtx, \* "live" or "done"
    fleetErr,    \* what botfleet.Run returned: "nil" or "error"
    teardown,    \* "deferred" once RunSandbox has succeeded, else "none"
    records,     \* Redis: run:<id>
    subRuns,     \* Redis: runs:submission:<id>, newest first
    conRuns,     \* Redis: runs:contestant:<id>, newest first
    published,   \* Redis: contestants announced on leaderboard_updates
    containers,  \* Docker: the container named after each submission
    faults       \* commands lost so far

callVars == <<cur, run, teardown, fleetErr>>
redisVars == <<records, subRuns, conRuns, published>>
engineVars == <<stage, callVars, res, cmd, ctx, runCtx, redisVars, containers, faults>>

EngineInit ==
    /\ stage = "idle"
    /\ cur = None
    /\ run = 0
    /\ res = None
    /\ cmd = 1
    /\ ctx = "live"
    /\ runCtx = "live"
    /\ fleetErr = "nil"
    /\ teardown = "none"
    /\ records = [r \in RunIDs |-> None]
    /\ subRuns = [s \in Submissions |-> <<>>]
    /\ conRuns = [c \in Contestants |-> <<>>]
    /\ published = <<>>
    /\ containers = [s \in Submissions |-> "absent"]
    /\ faults = 0

-----------------------------------------------------------------------------
(***************************************************************************)
(* Redis                                                                   *)
(***************************************************************************)

\* Begin saveResult with the result it is to write.
Save(result) ==
    /\ res' = result
    /\ cmd' = 1
    /\ stage' = "save"

\* Faulty variant: an early return without saving.
FailUnsaved ==
    /\ res' = [res EXCEPT !.status = "FAILED"]
    /\ stage' = "cleanup"
    /\ UNCHANGED cmd

\* e.fail: mark the result FAILED and save it, whatever the error was.
Fail == Save([res EXCEPT !.status = "FAILED"])

Trimmed(list) == SubSeq(list, 1, IF Len(list) < ListCap THEN Len(list) ELSE ListCap)

\* What one command of saveResult does to Redis.
Apply(command) ==
    /\ records' = IF command = "SET" THEN [records EXCEPT ![run] = res] ELSE records
    /\ subRuns' = IF command = "LPUSH submission"
                    THEN [subRuns EXCEPT ![cur] = <<run>> \o @] ELSE subRuns
    /\ conRuns' = CASE command = "LPUSH contestant" ->
                         [conRuns EXCEPT ![Owner[cur]] = <<run>> \o @]
                    [] command = "LTRIM" ->
                         [conRuns EXCEPT ![Owner[cur]] = Trimmed(@)]
                    [] OTHER -> conRuns
    /\ UNCHANGED published

\* A command whose error is thrown away: its context has expired, or it is lost.
Skipped ==
    /\ IF ctx = "done" THEN UNCHANGED faults
                       ELSE faults < MaxFaults /\ faults' = faults + 1
    /\ UNCHANGED redisVars

\* Where Run goes on after saveResult.
AfterSave ==
    CASE res.status = "RUNNING" -> "network"
      [] res.status = "COMPLETED" -> "publish"
      [] res.status = "FAILED" -> "cleanup"

SaveStep ==
    /\ stage = "save"
    /\ \/ ctx = "live" /\ Apply(SaveCommands[cmd]) /\ UNCHANGED faults
       \/ Skipped
    /\ IF cmd = Len(SaveCommands)
         THEN stage' = AfterSave /\ UNCHANGED cmd
         ELSE cmd' = cmd + 1 /\ UNCHANGED stage
    /\ UNCHANGED <<callVars, res, ctx, runCtx, containers>>

-----------------------------------------------------------------------------
(***************************************************************************)
(* Run, from its call to the sandbox                                       *)
(***************************************************************************)

\* Entry of Run: a fresh run id, status RUNNING, and the first saveResult.  The
\* caller says in which state its context is.
Begin(s) ==
    /\ stage = "idle"
    /\ run < MaxRuns
    /\ cur' = s
    /\ run' = run + 1
    /\ Save([sub |-> s, status |-> "RUNNING", orders |-> 0])
    /\ UNCHANGED <<teardown, fleetErr, redisVars, containers, faults>>

\* EnsureInternalNetwork and ParseBytes; then runCtx is derived from ctx.
Network ==
    /\ stage = "network"
    /\ \/ /\ ctx = "live"
          /\ stage' = "create"
          /\ runCtx' = ctx
          /\ UNCHANGED <<res, cmd>>
       \/ Fail /\ UNCHANGED runCtx
    /\ UNCHANGED <<callVars, ctx, redisVars, containers, faults>>

\* The context expires while a call is under way.
CutOff ==
    /\ runCtx = "live"
    /\ runCtx' = "done"
    /\ \/ "ctx" \in MayExpire /\ ctx' = "done"
       \/ "runCtx" \in MayExpire /\ UNCHANGED ctx

\* ContainerCreate.  The name must be free; a call that is cut off may or may
\* not have taken effect.  RunSandbox returns its error as it is.
Create ==
    /\ stage = "create"
    /\ \/ /\ runCtx = "live" /\ containers[cur] = "absent"
          /\ containers' = [containers EXCEPT ![cur] = "created"]
          /\ stage' = "start"
          /\ UNCHANGED <<res, cmd, ctx, runCtx>>
       \/ Fail /\ UNCHANGED <<containers, ctx, runCtx>>
       \/ /\ CutOff /\ Fail
          /\ containers[cur] = "absent"
          /\ containers' = [containers EXCEPT ![cur] = "created"]
    /\ UNCHANGED <<callVars, redisVars, faults>>

\* The host port of the sandbox is fixed, so one container at a time can run.
PortFree == \A s \in Submissions : containers[s] # "running"

\* ContainerStart.  Success registers the deferred teardown of Run.  After a
\* failed start the daemon may have removed the container already (AutoRemove).
Start ==
    /\ stage = "start"
    /\ \/ /\ runCtx = "live" /\ PortFree
          /\ containers' = [containers EXCEPT ![cur] = "running"]
          /\ teardown' = "deferred"
          /\ stage' = "ready"
          /\ UNCHANGED <<ctx, runCtx>>
       \/ /\ stage' = "remove"
          /\ containers' \in {containers} \cup
               (IF runCtx = "live" THEN {[containers EXCEPT ![cur] = "absent"]} ELSE {})
          /\ UNCHANGED <<teardown, ctx, runCtx>>
       \/ /\ CutOff /\ PortFree
          /\ containers' = [containers EXCEPT ![cur] = "running"]
          /\ stage' = "remove"
          /\ UNCHANGED teardown
    /\ UNCHANGED <<cur, run, fleetErr, res, cmd, redisVars, faults>>

\* ContainerRemove under context c, its error ignored.
RemoveContainer(c) ==
    \/ /\ c = "live"
       /\ containers' = [containers EXCEPT ![cur] = "absent"]
       /\ UNCHANGED faults
    \/ /\ IF c = "done" THEN UNCHANGED faults
                        ELSE faults < MaxFaults /\ faults' = faults + 1
       /\ UNCHANGED containers

\* The removal after a failed start, under the same runCtx.
RemoveFailed ==
    /\ stage = "remove"
    /\ Fail
    /\ RemoveContainer(runCtx)
    /\ UNCHANGED <<callVars, ctx, runCtx, redisVars>>

-----------------------------------------------------------------------------
(***************************************************************************)
(* Run, with the sandbox up                                                *)
(***************************************************************************)

\* waitForGRPC, then validateEngine: each needs a live context and an engine.
Probe(from, to) ==
    /\ stage = from
    /\ \/ /\ runCtx = "live" /\ containers[cur] = "running"
          /\ stage' = to
          /\ UNCHANGED <<res, cmd>>
       \/ Fail
    /\ UNCHANGED <<callVars, ctx, runCtx, redisVars, containers, faults>>

WaitForGRPC == Probe("ready", "validate")
ValidateEngine == Probe("validate", "fleet")

\* How many orders drainRingBuffer may find; its statistics are not modelled.
Drained == 0..MaxOrders

\* botfleet.Run: it fails when it cannot dial or has no Kafka producer, and
\* otherwise returns nil when the bots stop, also when runCtx stopped them.
Fleet ==
    /\ stage = "fleet"
    /\ stage' = "finish"
    /\ \/ /\ fleetErr' = "error"
          /\ UNCHANGED res
       \/ /\ runCtx = "live" /\ containers[cur] = "running"
          /\ \E k \in Drained : res' = [res EXCEPT !.orders = k]
          /\ UNCHANGED fleetErr
    /\ UNCHANGED <<cur, run, teardown, cmd, ctx, runCtx, redisVars, containers, faults>>

\* fleetErr != nil && runCtx.Err() == nil fails the run; anything else completes it.
Finish ==
    /\ stage = "finish"
    /\ IF fleetErr = "error" /\ runCtx = "live"
         THEN Fail
         ELSE Save([res EXCEPT !.status = "COMPLETED"])
    /\ UNCHANGED <<callVars, ctx, runCtx, redisVars, containers, faults>>

\* Faulty variant: a lost PUBLISH fails the run.
AnnounceOrFail ==
    /\ stage = "publish"
    /\ \/ /\ ctx = "live"
          /\ published' = Append(published, Owner[cur])
          /\ stage' = "cleanup"
          /\ UNCHANGED <<records, subRuns, conRuns, faults, res, cmd>>
       \/ Skipped /\ Fail
    /\ UNCHANGED <<callVars, ctx, runCtx, containers>>

\* PUBLISH leaderboard_updates, its error ignored.
Announce ==
    /\ stage = "publish"
    /\ stage' = "cleanup"
    /\ \/ /\ ctx = "live"
          /\ published' = Append(published, Owner[cur])
          /\ UNCHANGED <<records, subRuns, conRuns, faults>>
       \/ Skipped
    /\ UNCHANGED <<callVars, res, cmd, ctx, runCtx, containers>>

\* Run's locals are gone when it returns.
Return ==
    /\ stage' = "idle"
    /\ cur' = None
    /\ res' = None
    /\ cmd' = 1
    /\ teardown' = "none"
    /\ fleetErr' = "nil"
    /\ ctx' = "live"
    /\ runCtx' = "live"

\* Faulty variant: the teardown runs under the run's own context.
CleanupUnderRunCtx ==
    /\ stage = "cleanup"
    /\ IF teardown = "deferred" THEN RemoveContainer(runCtx) ELSE UNCHANGED <<containers, faults>>
    /\ Return
    /\ UNCHANGED <<run, redisVars>>

\* The deferred StopAndRemove, on a context of its own.
Cleanup ==
    /\ stage = "cleanup"
    /\ IF teardown = "deferred" THEN RemoveContainer("live") ELSE UNCHANGED <<containers, faults>>
    /\ Return
    /\ UNCHANGED <<run, redisVars>>

RunStep ==
    \/ SaveStep \/ Network \/ Create \/ Start \/ RemoveFailed \/ WaitForGRPC
    \/ ValidateEngine \/ Fleet \/ Finish \/ Announce \/ Cleanup

-----------------------------------------------------------------------------
(***************************************************************************)
(* What happens around Run                                                 *)
(***************************************************************************)

\* The caller's 10-minute deadline passes.
CtxExpires ==
    /\ "ctx" \in MayExpire
    /\ stage # "idle"
    /\ ctx = "live"
    /\ ctx' = "done"
    /\ runCtx' = "done"
    /\ UNCHANGED <<stage, callVars, res, cmd, redisVars, containers, faults>>

\* cfg.Duration + 3 minutes have passed since the sandbox was asked for.
RunCtxExpires ==
    /\ "runCtx" \in MayExpire
    /\ stage \notin {"idle", "network"}
    /\ res.status # "RUNNING" \/ stage # "save"
    /\ runCtx = "live"
    /\ runCtx' = "done"
    /\ UNCHANGED <<stage, callVars, res, cmd, ctx, redisVars, containers, faults>>

\* A contestant's process ends by itself: AutoRemove takes the container away.
ContainerExits(s) ==
    /\ containers[s] = "running"
    /\ containers' = [containers EXCEPT ![s] = "absent"]
    /\ UNCHANGED <<stage, callVars, res, cmd, ctx, runCtx, redisVars, faults>>

EngineStep ==
    \/ RunStep
    \/ CtxExpires
    \/ RunCtxExpires
    \/ \E s \in Submissions : ContainerExits(s)

-----------------------------------------------------------------------------
(***************************************************************************)
(* Properties of a run                                                     *)
(***************************************************************************)

EngineTypeOK ==
    /\ stage \in {"idle", "save", "network", "create", "start", "remove", "ready",
                  "validate", "fleet", "finish", "publish", "cleanup"}
    /\ cur \in Submissions \cup {None}
    /\ run \in 0..MaxRuns
    /\ res \in Results \cup {None}
    /\ cmd \in 1..Len(SaveCommands)
    /\ ctx \in {"live", "done"}
    /\ runCtx \in {"live", "done"}
    /\ fleetErr \in {"nil", "error"}
    /\ teardown \in {"none", "deferred"}
    /\ records \in [RunIDs -> Results \cup {None}]
    /\ subRuns \in [Submissions -> Seq(RunIDs)]
    /\ conRuns \in [Contestants -> Seq(RunIDs)]
    /\ published \in Seq(Contestants)
    /\ containers \in [Submissions -> {"absent", "created", "running"}]
    /\ faults \in 0..MaxFaults

Terminal(r) == records[r] # None /\ records[r].status # "RUNNING"

\* Run returns (the process going down during the teardown is no return).
Returns == Cleanup

\* A run whose caller did not give up, and none of whose commands was lost, has
\* its final result in Redis when Run returns, and is the newest run listed
\* for its submission and for its contestant.
OutcomeSaved ==
    [][Returns /\ ctx = "live" /\ faults = 0 =>
          /\ res.status # "RUNNING"
          /\ records'[run] = res
          /\ Head(subRuns'[cur]) = run
          /\ Head(conRuns'[Owner[cur]]) = run]_engineVars

\* The record of a finished run is final: no later step of any run rewrites it.
OutcomeFinal ==
    [][\A r \in RunIDs : Terminal(r) => records'[r] = records[r]]_engineVars

\* Once RunSandbox has succeeded, or as long as runCtx is live, no container of
\* the submission is left when Run returns, also when the run was cut short
\* afterwards (the deferred teardown has a context of its own).
TornDown ==
    [][Returns /\ (teardown = "deferred" \/ runCtx = "live") /\ faults' = 0 =>
          containers'[cur] = "absent"]_engineVars

\* judge.go:8 "Tear down the container (always, even on failure)."
AlwaysTornDown ==
    [][Returns /\ faults' = 0 => containers'[cur] = "absent"]_engineVars
=============================================================================
