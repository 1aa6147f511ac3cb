---------------------------- MODULE JudgeProofs -----------------------------
(***************************************************************************)
(* Proofs about JudgeApi, for every set of submissions, queue capacity and *)
(* number of runs, faults and restarts.                                    *)
(***************************************************************************)
EXTENDS JudgeApi, SequenceTheorems, FiniteSetTheorems, TLAPS

\* A call of Run is under way exactly while the worker is judging, and then
\* Run's locals are set.
InRun ==
    stage # "idle" =>
        /\ worker = "judging"
        /\ cur \in Submissions
        /\ run \in RunIDs
        /\ res \in Results

\* What the worker holds.
InHand ==
    /\ worker \in {"received", "counted"} => hand \in Submissions
    /\ running = IF worker = "judging" THEN 1 ELSE 0
    /\ proc = "down" => worker = "exited"
    /\ proc = "stopping" => crashes < MaxCrashes

TypeInv == TypeOK /\ InRun /\ InHand

-----------------------------------------------------------------------------
LEMMA SaveLength == Len(SaveCommands) = 4
BY DEF SaveCommands

LEMMA FailIsResult ==
    ASSUME NEW r \in Results
    PROVE  [r EXCEPT !.status = "FAILED"] \in Results
BY DEF Results, Status

LEMMA TrimKeepsType ==
    ASSUME NEW S, NEW list \in Seq(S)
    PROVE  Trimmed(list) \in Seq(S)
BY EngineBounds DEF Trimmed

LEMMA PushKeepsType ==
    ASSUME NEW S, NEW list \in Seq(S), NEW e \in S
    PROVE  <<e>> \o list \in Seq(S)
OBVIOUS

LEMMA TypeInit == Init => TypeInv
<1> SUFFICES ASSUME Init PROVE TypeInv
  OBVIOUS
<1>1. EngineTypeOK
  BY EngineBounds, SaveLength DEF Init, EngineInit, EngineTypeOK
<1>2. TypeOK
  BY <1>1, ApiBounds DEF Init, TypeOK
<1> QED
  BY <1>2, ApiBounds DEF Init, EngineInit, TypeInv, InRun, InHand

LEMMA FailTypes ==
    ASSUME res \in Results, Fail
    PROVE  res' \in Results /\ cmd' = 1 /\ stage' = "save"
BY FailIsResult DEF Fail, Save

LEMMA RemoveTypes ==
    ASSUME EngineTypeOK, cur \in Submissions, NEW c, RemoveContainer(c)
    PROVE  /\ containers' \in [Submissions -> {"absent", "created", "running"}]
           /\ faults' \in 0..MaxFaults
<1>1. CASE containers' = [containers EXCEPT ![cur] = "absent"] /\ faults' = faults
  BY <1>1 DEF EngineTypeOK
<1>2. CASE faults' = faults /\ containers' = containers
  BY <1>2 DEF EngineTypeOK
<1>3. CASE faults < MaxFaults /\ faults' = faults + 1 /\ containers' = containers
  BY <1>3, EngineBounds DEF EngineTypeOK
<1> QED
  BY <1>1, <1>2, <1>3 DEF RemoveContainer

\* Each step of Run keeps the types and stays a call with its locals set, or
\* returns.
LEMMA RunStepTypes ==
    ASSUME EngineTypeOK, stage # "idle" => cur \in Submissions /\ run \in RunIDs /\ res \in Results,
           EngineStep
    PROVE  /\ EngineTypeOK'
           /\ stage' # "idle" => /\ stage # "idle"
                                 /\ cur' \in Submissions /\ run' \in RunIDs /\ res' \in Results
<1> USE EngineBounds, SaveLength
<1>1. CASE SaveStep
  <2>1. cur \in Submissions /\ run \in RunIDs /\ res \in Results /\ Owner[cur] \in Contestants
    BY <1>1, OwnerAssumption DEF SaveStep
  <2>2. \/ Apply(SaveCommands[cmd]) /\ faults' = faults
        \/ Skipped
    BY <1>1 DEF SaveStep
  <2>3. /\ records' \in [RunIDs -> Results \cup {None}]
        /\ subRuns' \in [Submissions -> Seq(RunIDs)]
        /\ conRuns' \in [Contestants -> Seq(RunIDs)]
        /\ published' \in Seq(Contestants)
        /\ faults' \in 0..MaxFaults
    <3>1. CASE Apply(SaveCommands[cmd]) /\ faults' = faults
      <4>1. records' \in [RunIDs -> Results \cup {None}]
        BY <2>1, <3>1 DEF Apply, EngineTypeOK
      <4>2. subRuns' \in [Submissions -> Seq(RunIDs)]
        BY <2>1, <3>1, PushKeepsType DEF Apply, EngineTypeOK
      <4>3. conRuns' \in [Contestants -> Seq(RunIDs)]
        BY <2>1, <3>1, PushKeepsType, TrimKeepsType DEF Apply, EngineTypeOK
      <4> QED
        BY <3>1, <4>1, <4>2, <4>3 DEF Apply, EngineTypeOK
    <3>2. CASE Skipped
      BY <3>2 DEF Skipped, EngineTypeOK, redisVars
    <3> QED
      BY <2>2, <3>1, <3>2
  <2>6. stage' \in {"save", "network", "publish", "cleanup"} /\ cmd' \in 1..4
    BY <1>1, <2>1 DEF SaveStep, AfterSave, EngineTypeOK, Results, Status
  <2> QED
    BY <1>1, <2>1, <2>3, <2>6 DEF SaveStep, EngineTypeOK, callVars
<1>2. CASE Network
  BY <1>2, FailIsResult DEF Network, Fail, Save, EngineTypeOK, callVars, redisVars
<1>3. CASE Create
  <2>1. cur \in Submissions /\ run \in RunIDs /\ res \in Results
    BY <1>3 DEF Create
  <2>2. res' \in Results /\ cmd' \in 1..4 /\ stage' \in {"start", "save"}
    BY <1>3, <2>1, FailTypes DEF Create, EngineTypeOK
  <2>3. containers' \in [Submissions -> {"absent", "created", "running"}]
    BY <1>3, <2>1 DEF Create, EngineTypeOK
  <2>4. ctx' \in {"live", "done"} /\ runCtx' \in {"live", "done"}
    BY <1>3 DEF Create, CutOff, EngineTypeOK
  <2>5. UNCHANGED <<cur, run, teardown, fleetErr, records, subRuns, conRuns, published, faults>>
    BY <1>3 DEF Create, callVars, redisVars
  <2> QED
    BY <1>3, <2>1, <2>2, <2>3, <2>4, <2>5 DEF Create, EngineTypeOK
<1>4. CASE Start
  BY <1>4 DEF Start, CutOff, EngineTypeOK, redisVars
<1>5. CASE RemoveFailed
  <2>1. cur \in Submissions /\ run \in RunIDs /\ res \in Results
    BY <1>5 DEF RemoveFailed
  <2>2. res' \in Results /\ cmd' = 1 /\ stage' = "save"
    BY <1>5, <2>1, FailTypes DEF RemoveFailed
  <2>3. /\ containers' \in [Submissions -> {"absent", "created", "running"}]
        /\ faults' \in 0..MaxFaults
    BY <1>5, <2>1, RemoveTypes DEF RemoveFailed
  <2> QED
    BY <1>5, <2>1, <2>2, <2>3 DEF RemoveFailed, EngineTypeOK, callVars, redisVars
<1>6. CASE WaitForGRPC \/ ValidateEngine
  BY <1>6, FailIsResult
     DEF WaitForGRPC, ValidateEngine, Probe, Fail, Save, EngineTypeOK, callVars, redisVars
<1>7. CASE Fleet
  BY <1>7 DEF Fleet, Drained, EngineTypeOK, Results, Status, redisVars
<1>8. CASE Finish
  <2>1. cur \in Submissions /\ run \in RunIDs /\ res \in Results
    BY <1>8 DEF Finish
  <2>2. res' \in Results /\ cmd' = 1 /\ stage' = "save"
    <3>1. [res EXCEPT !.status = "COMPLETED"] \in Results
      BY <2>1 DEF Results, Status
    <3> QED
      BY <1>8, <2>1, <3>1, FailTypes DEF Finish, Save
  <2> QED
    BY <1>8, <2>1, <2>2 DEF Finish, EngineTypeOK, callVars, redisVars
<1>9. CASE Announce
  <2>1. cur \in Submissions /\ run \in RunIDs /\ res \in Results /\ Owner[cur] \in Contestants
    BY <1>9, OwnerAssumption DEF Announce
  <2>2. /\ published' \in Seq(Contestants) /\ faults' \in 0..MaxFaults
        /\ UNCHANGED <<records, subRuns, conRuns>>
    <3>1. CASE Skipped
      BY <3>1 DEF Skipped, EngineTypeOK, redisVars
    <3>2. CASE /\ published' = Append(published, Owner[cur])
               /\ UNCHANGED <<records, subRuns, conRuns, faults>>
      BY <2>1, <3>2 DEF EngineTypeOK
    <3> QED
      BY <1>9, <3>1, <3>2 DEF Announce
  <2> QED
    BY <1>9, <2>1, <2>2 DEF Announce, EngineTypeOK, callVars
<1>10. CASE Cleanup
  <2>1. /\ containers' \in [Submissions -> {"absent", "created", "running"}]
        /\ faults' \in 0..MaxFaults
    BY <1>10, RemoveTypes DEF Cleanup, EngineTypeOK
  <2> QED
    BY <1>10, <2>1 DEF Cleanup, Return, EngineTypeOK, redisVars
<1>11. CASE CtxExpires \/ RunCtxExpires
  BY <1>11 DEF CtxExpires, RunCtxExpires, EngineTypeOK, callVars, redisVars
<1>12. CASE \E s \in Submissions : ContainerExits(s)
  BY <1>12 DEF ContainerExits, EngineTypeOK, callVars, redisVars
<1> QED
  BY <1>1, <1>2, <1>3, <1>4, <1>5, <1>6, <1>7, <1>8, <1>9, <1>10, <1>11, <1>12
     DEF EngineStep, RunStep

LEMMA TypeStep == TypeInv /\ [Next]_vars => TypeInv'
<1> SUFFICES ASSUME TypeInv, [Next]_vars PROVE TypeInv'
  OBVIOUS
<1>0. TypeOK /\ EngineTypeOK /\ InRun /\ InHand
  BY DEF TypeInv, TypeOK
<1> USE <1>0, ApiBounds
<1>e. ASSUME UNCHANGED engineVars PROVE EngineTypeOK' /\ (InRun' <=> (stage # "idle" => worker' = "judging"))
  BY <1>e DEF engineVars, callVars, redisVars, EngineTypeOK, InRun
<1>1. ASSUME NEW s \in Submissions, Post(s) PROVE TypeInv'
  BY <1>1, <1>e DEF Post, TypeInv, TypeOK, InRun, InHand
<1>2. ASSUME NEW s \in Submissions, SaveSubmission(s) PROVE TypeInv'
  <2>1. /\ req' \in [Submissions -> {"none", "checked", "refused", "saved", "sent", "accepted",
                                    "queueFull", "cut"}]
        /\ stored' \subseteq Submissions
    BY <1>2 DEF SaveSubmission, TypeOK
  <2> QED
    BY <1>2, <1>e, <2>1 DEF SaveSubmission, TypeInv, TypeOK, InRun, InHand
<1>3. ASSUME NEW s \in Submissions, Enqueue(s) PROVE TypeInv'
  <2>1. req' \in [Submissions -> {"none", "checked", "refused", "saved", "sent", "accepted",
                                 "queueFull", "cut"}]
    BY <1>3 DEF Enqueue, TypeOK
  <2>2. queue' \in Seq(Submissions) /\ Len(queue') <= MaxQueue /\ sent' \in Seq(Submissions)
    <3>1. CASE queue' = queue /\ sent' = sent
      BY <3>1 DEF TypeOK
    <3>2. CASE Len(queue) < MaxQueue /\ queue' = Append(queue, s) /\ sent' = Append(sent, s)
      BY <3>2 DEF TypeOK
    <3> QED
      BY <1>3, <3>1, <3>2 DEF Enqueue
  <2> QED
    BY <1>3, <1>e, <2>1, <2>2 DEF Enqueue, TypeInv, TypeOK, InRun, InHand
<1>4. ASSUME NEW s \in Submissions, CountPending(s) PROVE TypeInv'
  BY <1>4, <1>e DEF CountPending, TypeInv, TypeOK, InRun, InHand
<1>5. CASE Receive
  <2>1. /\ Head(queue) \in Submissions /\ Tail(queue) \in Seq(Submissions)
        /\ Len(Tail(queue)) <= MaxQueue
    BY <1>5 DEF Receive, TypeOK
  <2> QED
    BY <1>5, <1>e, <2>1 DEF Receive, TypeInv, TypeOK, InRun, InHand
<1>6. CASE WorkerStops
  BY <1>6, <1>e DEF WorkerStops, TypeInv, TypeOK, InRun, InHand
<1>7. CASE UncountPending
  BY <1>7, <1>e DEF UncountPending, TypeInv, TypeOK, InRun, InHand
<1>8. CASE StartRun
  <2>1. /\ hand \in Submissions
        /\ cur' = hand /\ run' \in RunIDs /\ res' \in Results /\ cmd' = 1 /\ stage' = "save"
        /\ ctx' \in {"live", "done"} /\ runCtx' = ctx'
        /\ UNCHANGED <<teardown, fleetErr, redisVars, containers, faults>>
    BY <1>8, EngineBounds
       DEF StartRun, Begin, Save, InHand, EngineTypeOK, RunIDs, Results, Status
  <2>2. EngineTypeOK'
    BY <2>1, EngineBounds, SaveLength DEF EngineTypeOK, redisVars, RunIDs
  <2> QED
    BY <1>8, <2>1, <2>2 DEF StartRun, TypeInv, TypeOK, InRun, InHand
<1>9. CASE EndRun
  BY <1>9, <1>e DEF EndRun, TypeInv, TypeOK, InRun, InHand
<1>10. CASE Engine
  <2>1. /\ EngineTypeOK'
        /\ stage' # "idle" => /\ stage # "idle"
                              /\ cur' \in Submissions /\ run' \in RunIDs /\ res' \in Results
    BY <1>10, RunStepTypes DEF Engine, InRun
  <2>2. UNCHANGED apiVars
    BY <1>10 DEF Engine
  <2> QED
    BY <2>1, <2>2 DEF apiVars, TypeInv, TypeOK, InRun, InHand
<1>11. CASE Interrupt
  <2>1. EngineTypeOK'
    BY <1>11 DEF Interrupt, EngineTypeOK, callVars, redisVars
  <2> QED
    BY <1>11, <2>1 DEF Interrupt, TypeInv, TypeOK, InRun, InHand, callVars
<1>12. CASE Down
  <2>1. EngineTypeOK'
    BY <1>12, SaveLength DEF Down, Return, EngineTypeOK, redisVars
  <2>2. req' \in [Submissions -> {"none", "checked", "refused", "saved", "sent", "accepted",
                                 "queueFull", "cut"}]
    BY <1>12 DEF Down, TypeOK
  <2>3. crashes' \in 0..MaxCrashes
    BY <1>12 DEF Down, TypeOK, InHand
  <2> QED
    BY <1>12, <2>1, <2>2, <2>3 DEF Down, Return, TypeInv, TypeOK, InRun, InHand
<1>13. CASE Restart
  BY <1>13, <1>e DEF Restart, TypeInv, TypeOK, InRun, InHand
<1>14. CASE UNCHANGED vars
  BY <1>14, <1>e DEF vars, apiVars, TypeInv, TypeOK, InRun, InHand
<1> QED
  BY <1>1, <1>2, <1>3, <1>4, <1>5, <1>6, <1>7, <1>8, <1>9, <1>10, <1>11, <1>12, <1>13, <1>14
     DEF Next, Handler, Worker, Quiescent

LEMMA TypeInvariant == Spec => []TypeInv
BY TypeInit, TypeStep, PTL DEF Spec

\* The API process, its queue and worker, and the engine's records keep their
\* types through every interleaving, failure and restart.
THEOREM JudgeTypeCorrect == Spec => []TypeOK
BY TypeInvariant, PTL DEF TypeInv

-----------------------------------------------------------------------------
(***************************************************************************)
(* The queue and the worker: first in, first judged                        *)
(***************************************************************************)

\* What has left the queue and has not been handed to Run yet.
Held == IF worker \in {"received", "counted"} THEN <<hand>> ELSE <<>>

LEMMA HeldType == TypeInv => Held \in Seq(Submissions)
BY DEF TypeInv, InHand, Held

LEMMA JudgedInOrderIsHeld == JudgedInOrder <=> sent = begun \o Held \o queue
BY DEF JudgedInOrder, Held

LEMMA OrderStep ==
    ASSUME TypeInv, JudgedInOrder, [Next]_vars
    PROVE  JudgedInOrder'
<1> DEFINE Order == sent = begun \o Held \o queue
<1>0. /\ Order
      /\ sent \in Seq(Submissions) /\ begun \in Seq(Submissions)
      /\ queue \in Seq(Submissions) /\ Held \in Seq(Submissions)
  BY JudgedInOrderIsHeld, HeldType DEF TypeInv, TypeOK
<1> SUFFICES Order'
  BY DEF JudgedInOrder, Held
<1>1. ASSUME NEW s \in Submissions, Enqueue(s), queue' = Append(queue, s)
      PROVE  Order'
  <2>0. queue' # queue
    BY <1>0, <1>1, AppendProperties
  <2>1. sent' = Append(sent, s) /\ begun' = begun /\ Held' = Held
    BY <1>1, <2>0 DEF Enqueue, Held
  <2>2. begun \o Held \in Seq(Submissions) /\ <<s>> \in Seq(Submissions)
    BY <1>0, ConcatProperties
  <2>3. (begun \o Held \o queue) \o <<s>> = (begun \o Held) \o (queue \o <<s>>)
    BY <1>0, <2>2, ConcatAssociative
  <2>4. Append(sent, s) = sent \o <<s>> /\ Append(queue, s) = queue \o <<s>>
    BY <1>0, AppendIsConcat
  <2> QED
    BY <1>0, <1>1, <2>1, <2>3, <2>4
<1>2. CASE Receive
  <2>1. Held = <<>> /\ Held' = <<Head(queue)>> /\ queue' = Tail(queue)
    BY <1>2 DEF Receive, Held
  <2>2. begun' = begun /\ sent' = sent
    BY <1>2 DEF Receive
  <2>3. /\ <<Head(queue)>> \in Seq(Submissions) /\ Tail(queue) \in Seq(Submissions)
        /\ <<Head(queue)>> \o Tail(queue) = queue
    BY <1>0, <1>2 DEF Receive
  <2>4. sent = begun \o queue
    BY <1>0, <2>1, ConcatEmptySeq
  <2> QED
    BY <1>0, <2>1, <2>2, <2>3, <2>4, ConcatAssociative
<1>3. CASE StartRun
  <2>1. hand \in Submissions /\ Held = <<hand>> /\ Held' = <<>>
    BY <1>3 DEF StartRun, Held, TypeInv, InHand
  <2>2. begun' = Append(begun, hand) /\ queue' = queue /\ sent' = sent
    BY <1>3 DEF StartRun
  <2>3. begun' = begun \o Held /\ begun' \in Seq(Submissions)
    BY <1>0, <2>1, <2>2, AppendIsConcat, AppendProperties
  <2> QED
    BY <1>0, <2>1, <2>2, <2>3, ConcatEmptySeq
<1>4. CASE Down
  <2>1. sent' = <<>> /\ begun' = <<>> /\ queue' = <<>> /\ Held' = <<>>
    BY <1>4 DEF Down, Held
  <2> QED
    BY <2>1
<1>5. CASE UNCHANGED <<sent, begun, queue>> /\ Held' = Held
  BY <1>0, <1>5
<1>6. ASSUME NEW s \in Submissions, Handler(s), queue' # Append(queue, s)
      PROVE  UNCHANGED <<sent, begun, queue>> /\ Held' = Held
  BY <1>6 DEF Handler, Post, SaveSubmission, Enqueue, CountPending, Held
<1>7. ASSUME NEW s \in Submissions, Handler(s), queue' = Append(queue, s)
      PROVE  Enqueue(s)
  <2>1. queue' # queue
    BY <1>0, <1>7, AppendProperties
  <2> QED
    BY <1>7, <2>1 DEF Handler, Post, SaveSubmission, CountPending
<1>8. ASSUME WorkerStops \/ UncountPending \/ EndRun
      PROVE  UNCHANGED <<sent, begun, queue>> /\ Held' = Held
  BY <1>8 DEF WorkerStops, UncountPending, EndRun, Held
<1>9. ASSUME Engine \/ Interrupt \/ UNCHANGED vars
      PROVE  UNCHANGED <<sent, begun, queue>> /\ Held' = Held
  BY <1>9 DEF Engine, Interrupt, vars, apiVars, Held
<1>10. ASSUME Restart PROVE UNCHANGED <<sent, begun, queue>> /\ Held' = Held
  BY <1>10 DEF Restart, Held, TypeInv, InHand
<1> QED
  BY <1>1, <1>2, <1>3, <1>4, <1>5, <1>6, <1>7, <1>8, <1>9, <1>10
     DEF Next, Worker, Quiescent

\* However handlers and worker interleave, the submissions sent to the queue
\* are judged once each and in the order of the sends, in each life of the
\* process.
THEOREM FirstInFirstJudged == Spec => []JudgedInOrder
<1>1. Init => JudgedInOrder
  BY DEF Init, JudgedInOrder
<1> QED
  BY <1>1, OrderStep, TypeInvariant, PTL DEF Spec

-----------------------------------------------------------------------------
(***************************************************************************)
(* The record of a finished run                                            *)
(***************************************************************************)

\* The final result of the current run may still be written.
Unfinished ==
    /\ stage \notin {"idle", "publish", "cleanup"}
    /\ stage = "save" => res.status = "RUNNING" \/ cmd = 1

\* Runs not begun have no record, and the one under way has no final record
\* before the SET of its final save.
NotYetFinal ==
    /\ \A r \in RunIDs : r > run => records[r] = None
    /\ Unfinished => ~Terminal(run)

LEMMA OnlyFirstIsSet == \A k \in 1..4 : SaveCommands[k] = "SET" => k = 1
<1>1. SaveCommands[2] # "SET" /\ SaveCommands[3] # "SET" /\ SaveCommands[4] # "SET"
  BY DEF SaveCommands
<1> QED
  BY <1>1

\* What a step of Run does to the records.
LEMMA RecordStep ==
    ASSUME TypeInv, NotYetFinal, EngineStep
    PROVE  /\ NotYetFinal'
           /\ \A r \in RunIDs : Terminal(r) => records'[r] = records[r]
<1>0. EngineTypeOK /\ InRun
  BY DEF TypeInv, TypeOK
<1>1. CASE SaveStep
  <2>1. /\ stage = "save" /\ run' = run /\ res' = res /\ run \in RunIDs /\ res \in Results
        /\ cmd \in 1..4
    BY <1>0, <1>1, SaveLength DEF SaveStep, callVars, InRun, EngineTypeOK
  <2>2. \/ records' = records
        \/ cmd = 1 /\ records' = [records EXCEPT ![run] = res]
    BY <1>1, <2>1, OnlyFirstIsSet DEF SaveStep, Apply, Skipped, redisVars
  <2>3. \A r \in RunIDs : r > run => records'[r] = None
    BY <1>0, <2>1, <2>2, EngineBounds DEF NotYetFinal, EngineTypeOK, RunIDs
  <2>4. \A r \in RunIDs : Terminal(r) => records'[r] = records[r]
    BY <1>0, <2>1, <2>2 DEF NotYetFinal, Unfinished, EngineTypeOK
  <2>5. Unfinished' => ~Terminal(run)'
    <3> SUFFICES ASSUME Unfinished' PROVE ~Terminal(run)'
      OBVIOUS
    <3>1. res.status = "RUNNING"
      <4>1. stage' # "save" => stage' = AfterSave
        BY <1>1, <2>1 DEF SaveStep
      <4>2. stage' = "save" => cmd' = cmd + 1
        BY <1>1, <2>1 DEF SaveStep, AfterSave, Results, Status
      <4> QED
        BY <2>1, <4>1, <4>2 DEF Unfinished, AfterSave, Results, Status
    <3>2. ~Terminal(run)
      BY <2>1, <3>1 DEF NotYetFinal, Unfinished
    <3> QED
      BY <1>0, <2>1, <2>2, <3>1, <3>2 DEF Terminal, EngineTypeOK
  <2> QED
    BY <2>1, <2>3, <2>4, <2>5 DEF NotYetFinal
<1>2. CASE ~SaveStep
  <2>1. records' = records /\ run' = run
    BY <1>2 DEF EngineStep, RunStep, Network, Create, Start, RemoveFailed, WaitForGRPC,
       ValidateEngine, Probe, Fleet, Finish, Announce, Skipped, Cleanup, CtxExpires,
       RunCtxExpires, ContainerExits, callVars, redisVars
  <2>2. Unfinished' => Unfinished
    BY <1>2 DEF EngineStep, RunStep, Network, Create, Start, RemoveFailed, WaitForGRPC,
       ValidateEngine, Probe, Fleet, Finish, Announce, Cleanup, Return, CtxExpires,
       RunCtxExpires, ContainerExits, Unfinished, callVars, redisVars
  <2> QED
    BY <2>1, <2>2 DEF NotYetFinal, Terminal
<1> QED
  BY <1>1, <1>2

\* The steps outside of Run: they begin one, end it with the process, expire
\* its contexts, or leave the engine alone.
LEMMA OutsideOfRun ==
    ASSUME [Next]_vars
    PROVE  Engine \/ StartRun \/ Down \/ Interrupt \/ UNCHANGED engineVars
<1>1. ASSUME NEW s \in Submissions, Handler(s) PROVE UNCHANGED engineVars
  BY <1>1 DEF Handler, Post, SaveSubmission, Enqueue, CountPending
<1>2. ASSUME Receive \/ WorkerStops \/ UncountPending \/ EndRun \/ Restart \/ UNCHANGED vars
      PROVE  UNCHANGED engineVars
  BY <1>2 DEF Receive, WorkerStops, UncountPending, EndRun, Restart, vars
<1> QED
  BY <1>1, <1>2 DEF Next, Worker, Quiescent

LEMMA FinalStep ==
    ASSUME TypeInv, NotYetFinal, [Next]_vars
    PROVE  /\ NotYetFinal'
           /\ \A r \in RunIDs : Terminal(r) => records'[r] = records[r]
<1>1. CASE Engine
  BY <1>1, RecordStep DEF Engine
<1>2. CASE StartRun
  <2>1. /\ run' = run + 1 /\ run' \in RunIDs /\ run \in Nat /\ records' = records
    BY <1>2, EngineBounds
       DEF StartRun, Begin, Save, redisVars, TypeInv, TypeOK, EngineTypeOK, RunIDs
  <2>2. records[run'] = None /\ \A r \in RunIDs : r > run' => records[r] = None
    BY <2>1, EngineBounds DEF NotYetFinal, RunIDs
  <2> QED
    BY <2>1, <2>2 DEF NotYetFinal, Terminal
<1>3. CASE Down
  BY <1>3 DEF Down, Return, redisVars, NotYetFinal, Unfinished
<1>4. CASE Interrupt
  BY <1>4 DEF Interrupt, callVars, redisVars, NotYetFinal, Unfinished, Terminal
<1>5. CASE UNCHANGED engineVars
  BY <1>5 DEF engineVars, callVars, redisVars, NotYetFinal, Unfinished, Terminal
<1> QED
  BY <1>1, <1>2, <1>3, <1>4, <1>5, OutsideOfRun

LEMMA FinalInvariant == Spec => [](TypeInv /\ NotYetFinal)
<1>1. Init => NotYetFinal
  BY DEF Init, EngineInit, NotYetFinal, Unfinished
<1>2. TypeInv /\ NotYetFinal /\ [Next]_vars => NotYetFinal'
  BY FinalStep
<1> QED
  BY <1>1, <1>2, TypeInvariant, PTL DEF Spec

\* The final record of a run is never rewritten: not by a later step of the
\* run, not by another run, and not after a crash or a restart.
THEOREM RecordsAreFinal == Spec => OutcomeFinal
<1>1. TypeInv /\ NotYetFinal /\ [Next]_vars =>
        [\A r \in RunIDs : Terminal(r) => records'[r] = records[r]]_engineVars
  BY FinalStep
<1> QED
  BY <1>1, FinalInvariant, PTL DEF Spec, OutcomeFinal

-----------------------------------------------------------------------------
(***************************************************************************)
(* Where a submission is, and what it has left behind                      *)
(***************************************************************************)

Queued(s) == \E j \in 1..Len(queue) : queue[j] = s

\* Received by the worker and not handed to Run yet.
InHands(s) == worker \in {"received", "counted"} /\ hand = s

Judging(s) == stage # "idle" /\ cur = s

\* No run of s has left anything in Redis or in Docker.
Untouched(s) ==
    /\ \A r \in RunIDs : records[r] # None => records[r].sub # s
    /\ subRuns[s] = <<>>
    /\ containers[s] = "absent"

\* The request of s got as far as the queue.
Passed(s) == s \in stored /\ req[s] \in {"sent", "accepted", "cut"}

\* A request goes on only after its submission has been saved.
SavedIsStored == \A s \in Submissions : req[s] = "saved" => s \in stored

\* Only a request that got to the queue is waiting, is judged or has been.
Traced ==
    \A s \in Submissions : Queued(s) \/ InHands(s) \/ Judging(s) \/ ~Untouched(s) => Passed(s)

\* What waits has not been judged: it is in one place, once.
OncePlaced ==
    /\ \A s \in Submissions : Queued(s) \/ InHands(s) => Untouched(s) /\ ~Judging(s)
    /\ \A s \in Submissions : ~(Queued(s) /\ InHands(s))
    /\ \A j, k \in 1..Len(queue) : queue[j] = queue[k] => j = k

\* The run under way is the only one of its submission.
OnlyRun ==
    stage # "idle" =>
        /\ res.sub = cur
        /\ \A r \in RunIDs : records[r] # None /\ records[r].sub = cur => r = run

OnceInv == SavedIsStored /\ Traced /\ OncePlaced /\ OnlyRun /\ JudgedAtMostOnce

(***************************************************************************)
(* What Run has done at each stage                                         *)
(***************************************************************************)

\* The container of the run: absent before ContainerCreate, covered by the
\* deferred teardown once it runs, and otherwise removed, unless runCtx had
\* expired or a removal was lost.
ContainerInv ==
    stage # "idle" =>
        /\ stage \in {"network", "create"} => containers[cur] = "absent"
        /\ stage = "save" /\ res.status = "RUNNING" => containers[cur] = "absent"
        /\ stage \in {"ready", "validate", "fleet", "finish", "publish"} => teardown = "deferred"
        /\ stage = "save" /\ res.status = "COMPLETED" => teardown = "deferred"
        /\ stage = "cleanup" \/ (stage = "save" /\ res.status = "FAILED") =>
              \/ teardown = "deferred"
              \/ runCtx = "done"
              \/ faults > 0
              \/ containers[cur] = "absent"

\* Which of saveResult's commands have been done.
Past(k) == stage \in {"publish", "cleanup"} \/ (stage = "save" /\ cmd > k)

\* What saveResult has written so far, unless ctx had expired or a command
\* was lost.
SavedInv ==
    stage # "idle" /\ ctx = "live" /\ faults = 0 =>
        /\ Past(1) => records[run] = res
        /\ Past(2) => subRuns[cur] # <<>> /\ Head(subRuns[cur]) = run
        /\ Past(3) => conRuns[Owner[cur]] # <<>> /\ Head(conRuns[Owner[cur]]) = run
        /\ stage \in {"publish", "cleanup"} => res.status # "RUNNING"

-----------------------------------------------------------------------------
(***************************************************************************)
(* The pending counter                                                     *)
(***************************************************************************)

\* The requests whose send has not been counted yet.
Uncounted == {s \in Submissions : req[s] = "sent"}

Taken == IF worker = "received" THEN 1 ELSE 0

PendingInv ==
    /\ IsFiniteSet(Uncounted)
    /\ pending = Len(queue) - Cardinality(Uncounted) + Taken

\* A step that leaves the queue, the counter and the requests alone.
LEMMA PendingFrame ==
    ASSUME PendingInv, UNCHANGED <<queue, pending>>, Uncounted' = Uncounted, Taken' = Taken
    PROVE  PendingInv'
BY DEF PendingInv

LEMMA PendingStep == TypeInv /\ PendingInv /\ [Next]_vars => PendingInv'
<1> SUFFICES ASSUME TypeInv, PendingInv, [Next]_vars PROVE PendingInv'
  OBVIOUS
<1>0. /\ TypeOK /\ queue \in Seq(Submissions) /\ pending \in Int
      /\ IsFiniteSet(Uncounted) /\ Cardinality(Uncounted) \in Nat
      /\ pending = Len(queue) - Cardinality(Uncounted) + Taken
  BY FS_CardinalityType DEF TypeInv, TypeOK, PendingInv
<1>1. ASSUME NEW s \in Submissions, Post(s) \/ SaveSubmission(s) PROVE PendingInv'
  <2>1. Uncounted' = Uncounted
    BY <1>0, <1>1 DEF Post, SaveSubmission, Uncounted, TypeOK
  <2> QED
    BY <1>1, <2>1, PendingFrame DEF Post, SaveSubmission, Taken
<1>2. ASSUME NEW s \in Submissions, Enqueue(s) PROVE PendingInv'
  <2>1. CASE req' = [req EXCEPT ![s] = "sent"] /\ queue' = Append(queue, s)
    <3>1. Uncounted' = Uncounted \cup {s} /\ s \notin Uncounted
      BY <1>0, <1>2, <2>1 DEF Enqueue, Uncounted, TypeOK
    <3>2. /\ IsFiniteSet(Uncounted \cup {s})
          /\ Cardinality(Uncounted \cup {s}) = Cardinality(Uncounted) + 1
      BY <1>0, <3>1, FS_AddElement
    <3>3. Len(queue') = Len(queue) + 1
      BY <1>0, <2>1
    <3>4. pending' = pending /\ Taken' = Taken /\ Len(queue) \in Nat /\ Taken \in Nat
      BY <1>0, <1>2 DEF Enqueue, Taken
    <3>5. pending' = Len(queue') - Cardinality(Uncounted') + Taken'
      BY <1>0, <3>1, <3>2, <3>3, <3>4
    <3> QED
      BY <3>1, <3>2, <3>5 DEF PendingInv
  <2>2. CASE /\ queue' = queue
             /\ \/ req' = [req EXCEPT ![s] = "accepted"]
                \/ req' = [req EXCEPT ![s] = "queueFull"]
    <3>1. Uncounted' = Uncounted
      BY <1>0, <1>2, <2>2 DEF Enqueue, Uncounted, TypeOK
    <3> QED
      BY <1>2, <2>2, <3>1, PendingFrame DEF Enqueue, Taken
  <2> QED
    BY <1>2, <2>1, <2>2 DEF Enqueue
<1>3. ASSUME NEW s \in Submissions, CountPending(s) PROVE PendingInv'
  <2>1. Uncounted' = Uncounted \ {s} /\ s \in Uncounted
    BY <1>0, <1>3 DEF CountPending, Uncounted, TypeOK
  <2>2. /\ IsFiniteSet(Uncounted \ {s})
        /\ Cardinality(Uncounted \ {s}) = Cardinality(Uncounted) - 1
    BY <1>0, <2>1, FS_RemoveElement
  <2>3. pending' = pending + 1 /\ queue' = queue /\ Taken' = Taken
    BY <1>3 DEF CountPending, Taken
  <2>4. Len(queue) \in Nat /\ Taken \in Nat
    BY <1>0 DEF Taken
  <2>5. pending' = Len(queue') - Cardinality(Uncounted') + Taken'
    BY <1>0, <2>1, <2>2, <2>3, <2>4
  <2> QED
    BY <2>1, <2>2, <2>5 DEF PendingInv
<1>4. CASE Receive
  <2>1. /\ Len(queue') = Len(queue) - 1 /\ Len(queue) \in Nat
        /\ Taken = 0 /\ Taken' = 1 /\ pending' = pending /\ req' = req
    BY <1>0, <1>4 DEF Receive, Taken
  <2>2. Uncounted' = Uncounted
    BY <2>1 DEF Uncounted
  <2>3. pending' = Len(queue') - Cardinality(Uncounted') + Taken'
    BY <1>0, <2>1, <2>2
  <2> QED
    BY <1>0, <2>2, <2>3 DEF PendingInv
<1>5. CASE UncountPending
  <2>1. /\ queue' = queue /\ Taken = 1 /\ Taken' = 0 /\ pending' = pending - 1 /\ req' = req
    BY <1>5 DEF UncountPending, Taken
  <2>2. Uncounted' = Uncounted
    BY <2>1 DEF Uncounted
  <2>3. pending' = Len(queue') - Cardinality(Uncounted') + Taken'
    BY <1>0, <2>1, <2>2
  <2> QED
    BY <1>0, <2>2, <2>3 DEF PendingInv
<1>6. CASE Down
  <2>1. Uncounted' = {}
    BY <1>0, <1>6 DEF Down, Uncounted, Unanswered, TypeOK
  <2>2. IsFiniteSet({}) /\ Cardinality({}) = 0
    BY FS_EmptySet
  <2>3. pending' = 0 /\ Len(queue') = 0 /\ Taken' = 0
    BY <1>6 DEF Down, Taken
  <2> QED
    BY <2>1, <2>2, <2>3 DEF PendingInv
<1>7. CASE WorkerStops \/ StartRun \/ EndRun \/ Interrupt \/ Restart \/ Engine \/ UNCHANGED vars
  <2>1. UNCHANGED <<queue, pending, req>>
    BY <1>7 DEF WorkerStops, StartRun, EndRun, Interrupt, Restart, Engine, vars, apiVars
  <2>2. Taken' = Taken
    BY <1>7 DEF WorkerStops, StartRun, EndRun, Interrupt, Restart, Engine, vars, apiVars,
                Taken, TypeInv, InHand
  <2> QED
    BY <2>1, <2>2, PendingFrame DEF Uncounted
<1> QED
  BY <1>1, <1>2, <1>3, <1>4, <1>5, <1>6, <1>7 DEF Next, Handler, Worker, Quiescent

\* GET /admin/queue: however sends, receives and the two atomic adds of
\* createSubmission and judgeWorker interleave, the pending counter is the
\* length of the queue up to the adds that are still to come.
THEOREM PendingIsAccounted == Spec => []PendingAccounting
<1>1. Init => PendingInv
  <2> SUFFICES ASSUME Init PROVE PendingInv
    OBVIOUS
  <2>1. Uncounted = {}
    BY DEF Init, Uncounted
  <2>2. IsFiniteSet({}) /\ Cardinality({}) = 0
    BY FS_EmptySet
  <2> QED
    BY <2>1, <2>2 DEF Init, PendingInv, Taken
<1>2. PendingInv => PendingAccounting
  BY DEF PendingInv, PendingAccounting, Uncounted, Taken
<1> QED
  BY <1>1, <1>2, PendingStep, TypeInvariant, PTL DEF Spec

-----------------------------------------------------------------------------
(***************************************************************************)
(* Each submission is judged at most once                                  *)
(***************************************************************************)

\* A step of Run touches what belongs to its own submission and run only.
LEMMA RunTouches ==
    ASSUME TypeInv, EngineStep
    PROVE  /\ stage # "idle" => stage' = "idle" \/ (cur' = cur /\ run' = run)
           /\ stage' # "idle" => stage # "idle" /\ cur' = cur /\ run' = run
           /\ \A s \in Submissions : ~Judging(s) =>
                 subRuns'[s] = subRuns[s] /\ (containers[s] = "absent" => containers'[s] = "absent")
           /\ \/ records' = records
              \/ stage # "idle" /\ records' = [records EXCEPT ![run] = res]
           /\ stage' # "idle" => res'.sub = res.sub
<1>0. EngineTypeOK /\ InRun
  BY DEF TypeInv, TypeOK
<1>1. CASE SaveStep
  <2>1. /\ stage = "save" /\ cur \in Submissions /\ res' = res /\ cur' = cur /\ run' = run
        /\ containers' = containers
    BY <1>0, <1>1 DEF SaveStep, InRun, callVars
  <2>2. subRuns' = subRuns \/ subRuns' = [subRuns EXCEPT ![cur] = <<run>> \o @]
    BY <1>1 DEF SaveStep, Apply, Skipped, redisVars
  <2>3. records' = records \/ records' = [records EXCEPT ![run] = res]
    BY <1>1 DEF SaveStep, Apply, Skipped, redisVars
  <2>4. \A s \in Submissions : ~Judging(s) => subRuns'[s] = subRuns[s]
    BY <1>0, <2>1, <2>2 DEF Judging, EngineTypeOK
  <2> QED
    BY <2>1, <2>3, <2>4
<1>2. CASE ~SaveStep
  <2>1. records' = records /\ subRuns' = subRuns /\ run' = run
    BY <1>2 DEF EngineStep, RunStep, Network, Create, Start, RemoveFailed, WaitForGRPC,
       ValidateEngine, Probe, Fleet, Finish, Announce, Skipped, Cleanup, CtxExpires,
       RunCtxExpires, ContainerExits, callVars, redisVars
  <2>2. \/ stage # "idle" /\ stage' # "idle" /\ cur' = cur
        \/ stage' = "idle"
    BY <1>2 DEF EngineStep, RunStep, Network, Create, Start, RemoveFailed, WaitForGRPC,
       ValidateEngine, Probe, Fleet, Finish, Announce, Cleanup, Return, CtxExpires,
       RunCtxExpires, ContainerExits, callVars, Fail, Save
  <2>3. \/ containers' = containers
        \/ stage # "idle" /\ \E v : containers' = [containers EXCEPT ![cur] = v]
        \/ \E s \in Submissions : containers' = [containers EXCEPT ![s] = "absent"]
    <3>1. ASSUME Cleanup \/ RemoveFailed
          PROVE  containers' = containers \/ containers' = [containers EXCEPT ![cur] = "absent"]
      BY <3>1 DEF Cleanup, RemoveFailed, RemoveContainer
    <3>2. ASSUME Cleanup \/ RemoveFailed PROVE stage # "idle"
      BY <3>2 DEF Cleanup, RemoveFailed
    <3>3. ASSUME Create
          PROVE  /\ stage # "idle"
                 /\ \/ containers' = containers
                    \/ containers' = [containers EXCEPT ![cur] = "created"]
      BY <3>3 DEF Create
    <3>4. ASSUME Start
          PROVE  /\ stage # "idle"
                 /\ \/ containers' = containers
                    \/ containers' = [containers EXCEPT ![cur] = "running"]
                    \/ containers' = [containers EXCEPT ![cur] = "absent"]
      BY <3>4 DEF Start
    <3>5. ASSUME \/ Network \/ WaitForGRPC \/ ValidateEngine \/ Fleet \/ Finish \/ Announce
                 \/ CtxExpires \/ RunCtxExpires
          PROVE  containers' = containers
      BY <3>5 DEF Network, WaitForGRPC, ValidateEngine, Probe, Fleet, Finish, Announce,
                  CtxExpires, RunCtxExpires
    <3>6. ASSUME NEW s \in Submissions, ContainerExits(s)
          PROVE  containers' = [containers EXCEPT ![s] = "absent"]
      BY <3>6 DEF ContainerExits
    <3> QED
      BY <1>2, <3>1, <3>2, <3>3, <3>4, <3>5, <3>6 DEF EngineStep, RunStep
  <2>4. \A s \in Submissions : ~Judging(s) => (containers[s] = "absent" => containers'[s] = "absent")
    BY <1>0, <2>3 DEF Judging, EngineTypeOK, InRun
  <2>5. stage' # "idle" => res'.sub = res.sub
    <3>0. stage' # "idle" => res \in Results
      BY <1>0, <2>2 DEF InRun
    <3>1. ASSUME NEW v, res' = [res EXCEPT !.status = v] \/ res' = [res EXCEPT !.orders = v],
                 res \in Results
          PROVE  res'.sub = res.sub
      BY <3>1 DEF Results
    <3>2. ASSUME Fail PROVE res' = [res EXCEPT !.status = "FAILED"]
      BY <3>2 DEF Fail, Save
    <3>3. ASSUME Cleanup PROVE stage' = "idle"
      BY <3>3 DEF Cleanup, Return
    <3>4. ASSUME Finish PROVE \E v : res' = [res EXCEPT !.status = v]
      BY <3>4 DEF Finish, Fail, Save
    <3>5. ASSUME Fleet PROVE res' = res \/ \E v : res' = [res EXCEPT !.orders = v]
      BY <3>5 DEF Fleet
    <3>6. ASSUME \/ Network \/ Create \/ Start \/ RemoveFailed \/ WaitForGRPC \/ ValidateEngine
                 \/ Announce \/ CtxExpires \/ RunCtxExpires
                 \/ \E s \in Submissions : ContainerExits(s)
          PROVE  res' = res \/ Fail
      BY <3>6 DEF Network, Create, Start, RemoveFailed, WaitForGRPC, ValidateEngine, Probe,
                  Announce, CtxExpires, RunCtxExpires, ContainerExits
    <3> QED
      BY <1>2, <3>0, <3>1, <3>2, <3>3, <3>4, <3>5, <3>6 DEF EngineStep, RunStep
  <2> QED
    BY <2>1, <2>2, <2>4, <2>5
<1> QED
  BY <1>1, <1>2

\* A step of Run keeps each submission in its place.
LEMMA OnceEngine ==
    ASSUME TypeInv, OnceInv, Engine
    PROVE  OnceInv'
<1>0. EngineTypeOK /\ InRun /\ InHand /\ Traced /\ OncePlaced /\ OnlyRun /\ JudgedAtMostOnce
  BY DEF TypeInv, TypeOK, OnceInv
<1>1. EngineStep /\ UNCHANGED <<queue, worker, hand, req, stored>>
  BY DEF Engine, apiVars
<1>2. /\ stage' # "idle" => stage # "idle" /\ cur' = cur /\ run' = run /\ res'.sub = res.sub
      /\ \A s \in Submissions : ~Judging(s) =>
            subRuns'[s] = subRuns[s] /\ (containers[s] = "absent" => containers'[s] = "absent")
      /\ \/ records' = records
         \/ stage # "idle" /\ records' = [records EXCEPT ![run] = res]
  BY <1>1, RunTouches
<1>3. \A s \in Submissions : Judging(s)' => Judging(s)
  BY <1>2 DEF Judging
<1>4. stage # "idle" => run \in RunIDs /\ cur \in Submissions /\ res.sub = cur
  BY <1>0 DEF InRun, OnlyRun
<1>5. \A r \in RunIDs : records'[r] = records[r]
                     \/ (stage # "idle" /\ r = run /\ records'[r] = res)
  BY <1>0, <1>2, <1>4 DEF EngineTypeOK
<1>6. \A s \in Submissions : ~Judging(s) /\ Untouched(s) => Untouched(s)'
  <2> SUFFICES ASSUME NEW s \in Submissions, ~Judging(s), Untouched(s) PROVE Untouched(s)'
    OBVIOUS
  <2>1. ASSUME NEW r \in RunIDs, records'[r] # None PROVE records'[r].sub # s
    BY <1>4, <1>5, <2>1 DEF Untouched, Judging
  <2> QED
    BY <1>2, <2>1 DEF Untouched
<1>7. \A s \in Submissions : (Queued(s)' <=> Queued(s)) /\ (InHands(s)' <=> InHands(s))
                          /\ (Passed(s)' <=> Passed(s))
  BY <1>1 DEF Queued, InHands, Passed
<1>8. Traced'
  BY <1>0, <1>3, <1>6, <1>7 DEF Traced
<1>9. OncePlaced'
  BY <1>0, <1>1, <1>3, <1>6, <1>7 DEF OncePlaced
<1>10. OnlyRun'
  <2> SUFFICES ASSUME stage' # "idle"
               PROVE  /\ res'.sub = cur'
                      /\ \A r \in RunIDs : records'[r] # None /\ records'[r].sub = cur' => r = run'
    BY DEF OnlyRun
  <2> QED
    BY <1>0, <1>2, <1>4, <1>5 DEF OnlyRun
<1>11. JudgedAtMostOnce'
  <2> SUFFICES ASSUME NEW r \in RunIDs, NEW q \in RunIDs,
                      records'[r] # None, records'[q] # None, records'[r].sub = records'[q].sub
               PROVE  r = q
    BY DEF JudgedAtMostOnce
  <2>1. CASE records'[r] = records[r] /\ records'[q] = records[q]
    BY <1>0, <2>1 DEF JudgedAtMostOnce
  <2>2. CASE stage # "idle" /\ r = run /\ records'[r] = res
    <3>1. records'[q].sub = cur
      BY <1>4, <2>2
    <3> QED
      BY <1>0, <1>5, <2>2, <3>1 DEF OnlyRun
  <2>3. CASE stage # "idle" /\ q = run /\ records'[q] = res
    <3>1. records'[r].sub = cur
      BY <1>4, <2>3
    <3> QED
      BY <1>0, <1>5, <2>3, <3>1 DEF OnlyRun
  <2> QED
    BY <1>5, <2>1, <2>2, <2>3
<1>12. SavedIsStored'
  BY <1>1 DEF OnceInv, SavedIsStored
<1> QED
  BY <1>8, <1>9, <1>10, <1>11, <1>12 DEF OnceInv

\* Outside of Run, nothing a run leaves behind changes.
LEMMA OnceFrame ==
    ASSUME OnceInv, UNCHANGED <<records, subRuns, containers>>,
           stage' = "idle" \/ UNCHANGED <<stage, cur, run, res>>,
           SavedIsStored', \A s \in Submissions : Passed(s) => Passed(s)',
           UNCHANGED queue \/ queue' = <<>>,
           \A s \in Submissions : InHands(s)' => InHands(s)
    PROVE  OnceInv'
<1>0. Traced /\ OncePlaced /\ OnlyRun /\ JudgedAtMostOnce
  BY DEF OnceInv
<1>1. \A s \in Submissions : (Judging(s)' => Judging(s)) /\ (Untouched(s)' <=> Untouched(s))
  BY DEF Judging, Untouched
<1>2. \A s \in Submissions : Queued(s)' => Queued(s)
  BY DEF Queued
<1>3. Traced'
  BY <1>0, <1>1, <1>2 DEF Traced
<1>4. OncePlaced'
  BY <1>0, <1>1, <1>2 DEF OncePlaced
<1>5. OnlyRun' /\ JudgedAtMostOnce'
  BY <1>0 DEF OnlyRun, JudgedAtMostOnce
<1> QED
  BY <1>3, <1>4, <1>5 DEF OnceInv

LEMMA OnceStep == TypeInv /\ OnceInv /\ [Next]_vars => OnceInv'
<1> SUFFICES ASSUME TypeInv, OnceInv, [Next]_vars PROVE OnceInv'
  OBVIOUS
<1>0. /\ TypeOK /\ InRun /\ InHand /\ Traced /\ OncePlaced /\ OnlyRun /\ JudgedAtMostOnce
      /\ queue \in Seq(Submissions) /\ SavedIsStored
  BY DEF TypeInv, TypeOK, OnceInv
<1>1. ASSUME NEW s \in Submissions, Post(s) \/ SaveSubmission(s) \/ CountPending(s)
      PROVE  OnceInv'
  <2>1. UNCHANGED <<engineVars, queue, worker, hand>>
    BY <1>1 DEF Post, SaveSubmission, CountPending
  <2>2. UNCHANGED <<records, subRuns, containers, stage, cur, run, res>>
    BY <2>1 DEF engineVars, callVars, redisVars
  <2>3. \A t \in Submissions : Passed(t) => Passed(t)'
    BY <1>0, <1>1 DEF Post, SaveSubmission, CountPending, Passed, TypeOK
  <2>4. SavedIsStored'
    BY <1>0, <1>1 DEF Post, SaveSubmission, CountPending, SavedIsStored, TypeOK
  <2> QED
    BY <2>1, <2>2, <2>3, <2>4, OnceFrame DEF InHands
<1>2. ASSUME NEW s \in Submissions, Enqueue(s) PROVE OnceInv'
  <2>1. UNCHANGED <<engineVars, worker, hand, stored>> /\ req[s] = "saved"
    BY <1>2 DEF Enqueue
  <2>2. UNCHANGED <<records, subRuns, containers, stage, cur, run, res>>
    BY <2>1 DEF engineVars, callVars, redisVars
  <2>3. \A t \in Submissions : Passed(t) => Passed(t)'
    BY <1>0, <1>2, <2>1 DEF Enqueue, Passed, TypeOK
  <2>s. SavedIsStored'
    BY <1>0, <1>2, <2>1 DEF Enqueue, SavedIsStored, TypeOK
  <2>4. CASE queue' = queue
    BY <2>1, <2>2, <2>3, <2>s, <2>4, OnceFrame DEF InHands
  <2>5. CASE queue' = Append(queue, s) /\ req' = [req EXCEPT ![s] = "sent"]
    <3>1. ~Queued(s) /\ ~InHands(s) /\ ~Judging(s) /\ Untouched(s)
      BY <1>0, <2>1 DEF Traced, Passed
    <3>2. Passed(s)'
      <4>1. s \in stored
        BY <1>0, <2>1 DEF SavedIsStored
      <4> QED
        BY <1>0, <2>1, <2>5, <4>1 DEF Passed, TypeOK
    <3>3. /\ Len(queue') = Len(queue) + 1 /\ Len(queue) \in Nat
          /\ queue'[Len(queue) + 1] = s
          /\ \A j \in 1..Len(queue) : queue'[j] = queue[j]
      BY <1>0, <2>5
    <3>4. \A t \in Submissions : Queued(t)' => Queued(t) \/ t = s
      BY <3>3 DEF Queued
    <3>5. \A t \in Submissions : /\ InHands(t)' <=> InHands(t)
                                 /\ Judging(t)' <=> Judging(t)
                                 /\ Untouched(t)' <=> Untouched(t)
      BY <2>1, <2>2 DEF InHands, Judging, Untouched
    <3>6. Traced'
      BY <1>0, <2>3, <3>2, <3>4, <3>5 DEF Traced
    <3>7. OncePlaced'
      <4>1. \A j, k \in 1..(Len(queue) + 1) : queue'[j] = queue'[k] => j = k
        BY <1>0, <3>1, <3>3 DEF OncePlaced, Queued
      <4> QED
        BY <1>0, <3>1, <3>3, <3>4, <3>5, <4>1 DEF OncePlaced
    <3>8. OnlyRun' /\ JudgedAtMostOnce'
      BY <1>0, <2>2 DEF OnlyRun, JudgedAtMostOnce
    <3> QED
      BY <2>s, <3>6, <3>7, <3>8 DEF OnceInv
  <2> QED
    BY <1>2, <2>4, <2>5 DEF Enqueue
<1>3. CASE Receive
  <2>1. UNCHANGED <<engineVars, req, stored>>
    BY <1>3 DEF Receive
  <2>2. UNCHANGED <<records, subRuns, containers, stage, cur, run, res>>
    BY <2>1 DEF engineVars, callVars, redisVars
  <2>3. /\ queue # <<>> /\ Len(queue) \in Nat /\ Len(queue') = Len(queue) - 1
        /\ \A j \in 1..Len(queue') : queue'[j] = queue[j + 1]
        /\ hand' = queue[1] /\ worker' = "received" /\ worker = "select"
    BY <1>0, <1>3, HeadTailProperties DEF Receive
  <2>4. 1 \in 1..Len(queue)
    BY <1>0, <2>3, EmptySeq
  <2>5. \A t \in Submissions : /\ Queued(t)' => Queued(t)
                               /\ InHands(t)' => Queued(t) /\ t = queue[1]
    BY <2>3, <2>4 DEF Queued, InHands
  <2>6. \A t \in Submissions : ~(Queued(t)' /\ InHands(t)')
    <3> SUFFICES ASSUME NEW t \in Submissions, NEW j \in 1..Len(queue'), queue'[j] = t,
                        t = queue[1]
                 PROVE  FALSE
      BY <2>3 DEF Queued, InHands
    <3>1. j + 1 \in 1..Len(queue) /\ queue[j + 1] = queue[1] /\ j + 1 # 1
      BY <2>3
    <3> QED
      BY <1>0, <2>4, <3>1 DEF OncePlaced
  <2>7. \A j, k \in 1..Len(queue') : queue'[j] = queue'[k] => j = k
    BY <1>0, <2>3 DEF OncePlaced
  <2>8. \A t \in Submissions : /\ Passed(t)' <=> Passed(t)
                               /\ Judging(t)' <=> Judging(t)
                               /\ Untouched(t)' <=> Untouched(t)
    BY <2>1, <2>2 DEF Passed, Judging, Untouched
  <2>9. Traced'
    BY <1>0, <2>5, <2>8 DEF Traced
  <2>10. OncePlaced'
    BY <1>0, <2>5, <2>6, <2>7, <2>8 DEF OncePlaced
  <2>11. OnlyRun' /\ JudgedAtMostOnce' /\ SavedIsStored'
    BY <1>0, <2>1, <2>2 DEF OnlyRun, JudgedAtMostOnce, SavedIsStored
  <2> QED
    BY <2>9, <2>10, <2>11 DEF OnceInv
<1>4. CASE StartRun
  <2>1. /\ stage = "idle" /\ stage' = "save" /\ cur' = hand /\ hand \in Submissions
        /\ res'.sub = hand /\ UNCHANGED <<records, subRuns, containers, queue, req, stored>>
        /\ worker = "counted" /\ worker' = "judging"
    BY <1>0, <1>4 DEF StartRun, Begin, Save, redisVars, InHand
  <2>2. InHands(hand) /\ Untouched(hand) /\ ~Queued(hand)
    BY <1>0, <2>1 DEF InHands, OncePlaced
  <2>3. \A t \in Submissions : /\ Queued(t)' <=> Queued(t)
                               /\ ~InHands(t)'
                               /\ Judging(t)' <=> t = hand
                               /\ Passed(t)' <=> Passed(t)
                               /\ Untouched(t)' <=> Untouched(t)
    BY <2>1 DEF Queued, InHands, Judging, Passed, Untouched
  <2>4. Traced'
    BY <1>0, <2>1, <2>2, <2>3 DEF Traced
  <2>5. OncePlaced'
    BY <1>0, <2>1, <2>2, <2>3 DEF OncePlaced
  <2>6. OnlyRun' /\ JudgedAtMostOnce' /\ SavedIsStored'
    BY <1>0, <2>1, <2>2 DEF OnlyRun, JudgedAtMostOnce, Untouched, SavedIsStored
  <2> QED
    BY <2>4, <2>5, <2>6 DEF OnceInv
<1>5. CASE WorkerStops \/ UncountPending \/ EndRun \/ Restart \/ UNCHANGED vars
  <2>1. UNCHANGED <<engineVars, req, stored, queue>>
    BY <1>5 DEF WorkerStops, UncountPending, EndRun, Restart, vars, apiVars
  <2>2. UNCHANGED <<records, subRuns, containers, stage, cur, run, res>>
    BY <2>1 DEF engineVars, callVars, redisVars
  <2>3. \A t \in Submissions : InHands(t)' => InHands(t)
    BY <1>5 DEF WorkerStops, UncountPending, EndRun, Restart, vars, apiVars, InHands
  <2> QED
    BY <1>0, <2>1, <2>2, <2>3, OnceFrame DEF Passed, SavedIsStored
<1>6. CASE Interrupt
  BY <1>0, <1>6, OnceFrame
     DEF Interrupt, callVars, redisVars, Passed, InHands, SavedIsStored
<1>7. CASE Down
  <2>1. /\ stage' = "idle" /\ queue' = <<>> /\ worker' = "exited"
        /\ UNCHANGED <<records, subRuns, containers, stored>>
    BY <1>7 DEF Down, Return, redisVars
  <2>2. \A t \in Submissions : Passed(t) => Passed(t)'
    BY <1>0, <1>7, <2>1 DEF Down, Unanswered, Passed, TypeOK
  <2>3. (\A t \in Submissions : ~InHands(t)') /\ SavedIsStored'
    BY <1>0, <1>7, <2>1 DEF Down, Unanswered, InHands, SavedIsStored, TypeOK
  <2> QED
    BY <2>1, <2>2, <2>3, OnceFrame
<1>8. CASE Engine
  BY <1>8, OnceEngine
<1> QED
  BY <1>1, <1>2, <1>3, <1>4, <1>5, <1>6, <1>7, <1>8 DEF Next, Handler, Worker, Quiescent

LEMMA OnceInvariant == Spec => [](TypeInv /\ OnceInv)
<1>1. Init => OnceInv
  <2> SUFFICES ASSUME Init PROVE OnceInv
    OBVIOUS
  <2>1. \A s \in Submissions : ~Queued(s) /\ ~InHands(s) /\ ~Judging(s) /\ Untouched(s)
    BY DEF Init, EngineInit, Queued, InHands, Judging, Untouched
  <2>2. Traced /\ OncePlaced
    BY <2>1 DEF Init, Traced, OncePlaced
  <2>3. SavedIsStored /\ OnlyRun /\ JudgedAtMostOnce
    BY DEF Init, EngineInit, SavedIsStored, OnlyRun, JudgedAtMostOnce
  <2> QED
    BY <2>2, <2>3 DEF OnceInv
<1> QED
  BY <1>1, OnceStep, TypeInvariant, PTL DEF Spec

\* No two runs of one submission ever get a record, whatever handlers, worker,
\* crashes and restarts do: a submission enters the queue once, leaves it
\* once, and a crash forgets it rather than queueing it again.
THEOREM SubmissionsJudgedOnce == Spec => []JudgedAtMostOnce
BY OnceInvariant, PTL DEF OnceInv

\* A run is listed only for a submission that SaveSubmission stored and whose
\* request reached the queue: a refused or a 503 request is never judged.
THEOREM OnlyAcceptedAreRun == Spec => []OnlyAcceptedRun
<1>1. OnceInv => OnlyAcceptedRun
  BY DEF OnceInv, Traced, Untouched, Passed, OnlyAcceptedRun
<1> QED
  BY <1>1, OnceInvariant, PTL

-----------------------------------------------------------------------------
(***************************************************************************)
(* What Run leaves behind: the container and the record                    *)
(***************************************************************************)

\* Cases in which saving a FAILED result is safe for the container.
Covered ==
    \/ teardown = "deferred"
    \/ runCtx = "done"
    \/ faults > 0
    \/ containers[cur] = "absent"

LEMMA FailIsFailed ==
    ASSUME res \in Results, Fail
    PROVE  stage' = "save" /\ cmd' = 1 /\ res'.status = "FAILED"
BY DEF Fail, Save, Results

LEMMA FailKeepsContainerInv ==
    ASSUME res \in Results, Fail, Covered'
    PROVE  ContainerInv'
<1>1. stage' = "save" /\ res'.status = "FAILED"
  BY FailIsFailed
<1> QED
  BY <1>1 DEF ContainerInv, Covered

LEMMA ContainerEngine ==
    ASSUME TypeInv, ContainerInv, EngineStep
    PROVE  ContainerInv'
<1>0. EngineTypeOK /\ InRun
  BY DEF TypeInv, TypeOK
<1>l. ASSUME stage # "idle" PROVE cur \in Submissions /\ res \in Results
  BY <1>0, <1>l DEF InRun
<1>1. CASE SaveStep
  <2>1. /\ stage = "save" /\ UNCHANGED <<cur, teardown, res, runCtx, containers>>
        /\ faults' = faults \/ faults' > 0
        /\ stage' = "save" \/ stage' = AfterSave
    BY <1>0, <1>1, EngineBounds DEF SaveStep, Skipped, callVars, EngineTypeOK
  <2>2. res.status \in Status
    BY <1>l, <2>1 DEF Results
  <2> QED
    BY <2>1, <2>2 DEF ContainerInv, AfterSave, Status
<1>2. CASE Network
  <2>1. stage = "network" /\ containers[cur] = "absent" /\ UNCHANGED <<containers, cur>>
    BY <1>2 DEF Network, ContainerInv, callVars
  <2>2. CASE Fail
    BY <1>l, <2>1, <2>2, FailKeepsContainerInv DEF Covered
  <2>3. CASE stage' = "create"
    BY <2>1, <2>3 DEF ContainerInv
  <2> QED
    BY <1>2, <2>2, <2>3 DEF Network
<1>3. CASE Create
  <2>1. stage = "create" /\ containers[cur] = "absent" /\ cur' = cur
    BY <1>3 DEF Create, ContainerInv, callVars
  <2>2. CASE Fail /\ UNCHANGED <<containers, ctx, runCtx>>
    BY <1>l, <2>1, <2>2, FailKeepsContainerInv DEF Covered
  <2>3. CASE stage' = "start"
    BY <2>3 DEF ContainerInv
  <2>4. CASE CutOff /\ Fail
    BY <1>l, <2>1, <2>4, FailKeepsContainerInv DEF Covered, CutOff
  <2> QED
    BY <1>3, <2>2, <2>3, <2>4 DEF Create
<1>4. CASE Start
  <2>1. \/ stage' = "ready" /\ teardown' = "deferred"
        \/ stage' = "remove"
    BY <1>4 DEF Start
  <2> QED
    BY <2>1 DEF ContainerInv
<1>5. CASE RemoveFailed
  <2>1. /\ stage = "remove" /\ Fail /\ cur' = cur /\ runCtx' = runCtx
        /\ RemoveContainer(runCtx)
    BY <1>5 DEF RemoveFailed, callVars
  <2>2. CASE containers' = [containers EXCEPT ![cur] = "absent"]
    <3>1. containers'[cur'] = "absent"
      BY <1>0, <1>l, <2>1, <2>2 DEF EngineTypeOK
    <3> QED
      BY <1>l, <2>1, <3>1, FailKeepsContainerInv DEF Covered
  <2>3. CASE runCtx = "done"
    BY <1>l, <2>1, <2>3, FailKeepsContainerInv DEF Covered
  <2>4. CASE faults' = faults + 1
    <3>1. faults' > 0
      BY <1>0, <2>4, EngineBounds DEF EngineTypeOK
    <3> QED
      BY <1>l, <2>1, <3>1, FailKeepsContainerInv DEF Covered
  <2> QED
    BY <2>1, <2>2, <2>3, <2>4 DEF RemoveContainer
<1>6. CASE WaitForGRPC \/ ValidateEngine
  <2>1. teardown = "deferred" /\ teardown' = teardown /\ stage \in {"ready", "validate"}
    BY <1>6 DEF WaitForGRPC, ValidateEngine, Probe, ContainerInv, callVars
  <2>2. CASE Fail
    BY <1>l, <2>1, <2>2, FailKeepsContainerInv DEF Covered
  <2>3. CASE stage' \in {"validate", "fleet"}
    BY <2>1, <2>3 DEF ContainerInv
  <2> QED
    BY <1>6, <2>2, <2>3 DEF WaitForGRPC, ValidateEngine, Probe
<1>7. CASE Fleet
  BY <1>7 DEF Fleet, ContainerInv
<1>8. CASE Finish
  <2>1. teardown = "deferred" /\ teardown' = teardown /\ stage = "finish"
    BY <1>8 DEF Finish, ContainerInv, callVars
  <2>2. CASE Fail
    BY <1>l, <2>1, <2>2, FailKeepsContainerInv DEF Covered
  <2>3. CASE Save([res EXCEPT !.status = "COMPLETED"])
    BY <1>l, <2>1, <2>3 DEF Save, ContainerInv, Results
  <2> QED
    BY <1>8, <2>2, <2>3 DEF Finish
<1>9. CASE Announce
  BY <1>9 DEF Announce, ContainerInv, callVars
<1>10. CASE Cleanup
  BY <1>10 DEF Cleanup, Return, ContainerInv
<1>11. CASE CtxExpires \/ RunCtxExpires
  <2>1. runCtx' = "done" /\ UNCHANGED <<stage, cur, teardown, res, containers, faults>>
    BY <1>11 DEF CtxExpires, RunCtxExpires, callVars
  <2> QED
    BY <2>1 DEF ContainerInv
<1>12. ASSUME NEW s \in Submissions, ContainerExits(s) PROVE ContainerInv'
  <2>1. /\ containers' = [containers EXCEPT ![s] = "absent"]
        /\ UNCHANGED <<stage, cur, teardown, res, runCtx, faults>>
    BY <1>12 DEF ContainerExits, callVars
  <2>2. ASSUME stage # "idle", containers[cur] = "absent" PROVE containers'[cur] = "absent"
    BY <1>0, <1>l, <2>1, <2>2 DEF EngineTypeOK
  <2> QED
    BY <2>1, <2>2 DEF ContainerInv
<1> QED
  BY <1>1, <1>2, <1>3, <1>4, <1>5, <1>6, <1>7, <1>8, <1>9, <1>10, <1>11, <1>12
     DEF EngineStep, RunStep

LEMMA ContainerStep ==
    TypeInv /\ OnceInv /\ ContainerInv /\ [Next]_vars => ContainerInv'
<1> SUFFICES ASSUME TypeInv, OnceInv, ContainerInv, [Next]_vars PROVE ContainerInv'
  OBVIOUS
<1>1. CASE Engine
  BY <1>1, ContainerEngine DEF Engine
<1>2. CASE StartRun
  <2>1. /\ stage' = "save" /\ cur' = hand /\ res'.status = "RUNNING"
        /\ containers' = containers /\ worker = "counted" /\ hand \in Submissions
    BY <1>2 DEF StartRun, Begin, Save, TypeInv, InHand
  <2>2. containers[hand] = "absent"
    BY <2>1 DEF OnceInv, OncePlaced, InHands, Untouched
  <2> QED
    BY <2>1, <2>2 DEF ContainerInv
<1>3. CASE Down
  BY <1>3 DEF Down, Return, ContainerInv
<1>4. CASE Interrupt
  BY <1>4 DEF Interrupt, ContainerInv, callVars
<1>5. CASE UNCHANGED engineVars
  BY <1>5 DEF engineVars, callVars, ContainerInv
<1> QED
  BY <1>1, <1>2, <1>3, <1>4, <1>5, OutsideOfRun

LEMMA ContainerInvariant == Spec => [](TypeInv /\ ContainerInv)
<1>1. Init => ContainerInv
  BY DEF Init, EngineInit, ContainerInv
<1> QED
  BY <1>1, ContainerStep, OnceInvariant, PTL DEF Spec

\* When Run returns, the submission's container is gone if RunSandbox had
\* succeeded or runCtx is still live, on every path through Run and after any
\* number of earlier runs, crashes and restarts.
THEOREM ContainersTornDown == Spec => TornDown
<1>1. ASSUME TypeInv, ContainerInv, Cleanup, teardown = "deferred" \/ runCtx = "live",
             faults' = 0
      PROVE  containers'[cur] = "absent"
  <2>1. cur \in Submissions /\ stage = "cleanup" /\ EngineTypeOK
    BY <1>1 DEF TypeInv, TypeOK, InRun, Cleanup
  <2>2. CASE teardown = "deferred"
    <3>1. RemoveContainer("live")
      BY <1>1, <2>2 DEF Cleanup
    <3>2. containers' = [containers EXCEPT ![cur] = "absent"] \/ faults' = faults + 1
      BY <3>1 DEF RemoveContainer
    <3>3. containers' = [containers EXCEPT ![cur] = "absent"]
      BY <1>1, <2>1, <3>2, EngineBounds DEF EngineTypeOK
    <3> QED
      BY <2>1, <3>3 DEF EngineTypeOK
  <2>3. CASE teardown # "deferred"
    <3>1. containers' = containers /\ faults' = faults
      BY <1>1, <2>3 DEF Cleanup
    <3>2. \/ faults > 0
          \/ containers[cur] = "absent"
      BY <1>1, <2>1, <2>3 DEF ContainerInv
    <3> QED
      BY <1>1, <2>1, <3>1, <3>2 DEF EngineTypeOK
  <2> QED
    BY <2>2, <2>3
<1>2. TypeInv /\ ContainerInv /\ [Next]_vars =>
        [Returns /\ (teardown = "deferred" \/ runCtx = "live") /\ faults' = 0 =>
            containers'[cur] = "absent"]_engineVars
  BY <1>1 DEF Returns
<1> QED
  BY <1>2, ContainerInvariant, PTL DEF Spec, TornDown

\* LTRIM keeps the newest run: the list is cut at the other end.
LEMMA TrimKeepsHead ==
    ASSUME NEW S, NEW list \in Seq(S), list # <<>>
    PROVE  Trimmed(list) # <<>> /\ Head(Trimmed(list)) = Head(list)
<1>1. /\ Len(list) \in Nat /\ Len(list) >= 1
      /\ \A j \in 1..Len(list) : list[j] \in S
  BY EmptySeq, LenProperties
<1> DEFINE m == IF Len(list) < ListCap THEN Len(list) ELSE ListCap
<1>2. m \in Nat /\ m >= 1 /\ m <= Len(list)
  BY <1>1, EngineBounds
<1>3. /\ SubSeq(list, 1, m) \in Seq(S)
      /\ Len(SubSeq(list, 1, m)) = m
      /\ SubSeq(list, 1, m)[1] = list[1]
  <2> HIDE DEF m
  <2>1. \A j \in 1..m : list[j] \in S
    BY <1>1, <1>2
  <2> QED
    BY <1>2, <2>1, SubSeqProperties
<1>4. Trimmed(list) = SubSeq(list, 1, m)
  BY DEF Trimmed
<1> HIDE DEF m
<1> QED
  BY <1>1, <1>2, <1>3, <1>4

\* LPUSH makes the run the newest.
LEMMA PushIsHead ==
    ASSUME NEW S, NEW list \in Seq(S), NEW e \in S
    PROVE  <<e>> \o list # <<>> /\ Head(<<e>> \o list) = e
OBVIOUS

LEMMA CommandNames ==
    /\ SaveCommands[1] = "SET" /\ SaveCommands[2] = "LPUSH submission"
    /\ SaveCommands[3] = "LPUSH contestant" /\ SaveCommands[4] = "LTRIM"
BY DEF SaveCommands

\* One command of saveResult, with a live ctx and nothing lost.
LEMMA SavedBySaveStep ==
    ASSUME TypeInv, SavedInv, SaveStep
    PROVE  SavedInv'
<1>0. EngineTypeOK /\ InRun
  BY DEF TypeInv, TypeOK
<1>1. /\ stage = "save" /\ UNCHANGED <<cur, run, res, ctx>>
      /\ cur \in Submissions /\ run \in RunIDs /\ res \in Results /\ Owner[cur] \in Contestants
      /\ cmd \in 1..4
  BY <1>0, SaveLength, OwnerAssumption DEF SaveStep, InRun, callVars, EngineTypeOK
<1> SUFFICES ASSUME stage' # "idle", ctx' = "live", faults' = 0
             PROVE  /\ Past(1)' => records'[run] = res
                    /\ Past(2)' => subRuns'[cur] # <<>> /\ Head(subRuns'[cur]) = run
                    /\ Past(3)' => /\ conRuns'[Owner[cur]] # <<>>
                                   /\ Head(conRuns'[Owner[cur]]) = run
                    /\ stage' \in {"publish", "cleanup"} => res.status # "RUNNING"
  BY <1>1 DEF SavedInv
<1>2. faults = 0 /\ ctx = "live" /\ Apply(SaveCommands[cmd])
  BY <1>0, <1>1, EngineBounds DEF SaveStep, Skipped, EngineTypeOK
<1>3. stage' \in {"publish", "cleanup"} => res.status # "RUNNING"
  BY <1>1 DEF SaveStep, AfterSave
<1>4. \A k \in 1..3 : Past(k)' => cmd >= k
  <2>1. CASE cmd = 4
    BY <2>1
  <2>2. CASE cmd # 4
    BY <1>1, <2>2, SaveLength DEF SaveStep, Past
  <2> QED
    BY <2>1, <2>2
<1>5. /\ cmd > 1 => records[run] = res
      /\ cmd > 2 => subRuns[cur] # <<>> /\ Head(subRuns[cur]) = run
      /\ cmd > 3 => conRuns[Owner[cur]] # <<>> /\ Head(conRuns[Owner[cur]]) = run
  BY <1>1, <1>2 DEF SavedInv, Past
<1>6. subRuns[cur] \in Seq(RunIDs) /\ conRuns[Owner[cur]] \in Seq(RunIDs)
  BY <1>0, <1>1 DEF EngineTypeOK
<1>7. Past(1)' => records'[run] = res
  <2>1. cmd = 1 => records' = [records EXCEPT ![run] = res]
    BY <1>2, CommandNames DEF Apply
  <2>2. cmd > 1 => records' = records
    <3>1. cmd > 1 => SaveCommands[cmd] # "SET"
      BY <1>1, OnlyFirstIsSet
    <3>2. SaveCommands[cmd] # "SET" => records' = records
      BY <1>2 DEF Apply
    <3> QED
      BY <3>1, <3>2
  <2> QED
    BY <1>0, <1>1, <1>5, <2>1, <2>2 DEF EngineTypeOK
<1>8. Past(2)' => subRuns'[cur] # <<>> /\ Head(subRuns'[cur]) = run
  <2>1. cmd = 2 => subRuns'[cur] = <<run>> \o subRuns[cur]
    BY <1>0, <1>1, <1>2, CommandNames DEF Apply, EngineTypeOK
  <2>2. cmd \in {3, 4} => subRuns' = subRuns
    BY <1>2, CommandNames DEF Apply
  <2>3. Past(2)' => cmd \in {2, 3, 4}
    BY <1>1, <1>4
  <2>4. <<run>> \o subRuns[cur] # <<>> /\ Head(<<run>> \o subRuns[cur]) = run
    BY <1>1, <1>6, PushIsHead
  <2> QED
    BY <1>5, <2>1, <2>2, <2>3, <2>4
<1>9. Past(3)' => conRuns'[Owner[cur]] # <<>> /\ Head(conRuns'[Owner[cur]]) = run
  <2>1. cmd = 3 => conRuns'[Owner[cur]] = <<run>> \o conRuns[Owner[cur]]
    BY <1>0, <1>1, <1>2, CommandNames DEF Apply, EngineTypeOK
  <2>2. cmd = 4 => conRuns'[Owner[cur]] = Trimmed(conRuns[Owner[cur]])
    BY <1>0, <1>1, <1>2, CommandNames DEF Apply, EngineTypeOK
  <2>3. Past(3)' => cmd \in {3, 4}
    BY <1>1, <1>4
  <2>4. <<run>> \o conRuns[Owner[cur]] # <<>> /\ Head(<<run>> \o conRuns[Owner[cur]]) = run
    BY <1>1, <1>6, PushIsHead
  <2>5. cmd = 4 => /\ Trimmed(conRuns[Owner[cur]]) # <<>>
                   /\ Head(Trimmed(conRuns[Owner[cur]])) = Head(conRuns[Owner[cur]])
    BY <1>5, <1>6, TrimKeepsHead
  <2> QED
    BY <1>5, <2>1, <2>2, <2>3, <2>4, <2>5
<1> QED
  BY <1>3, <1>7, <1>8, <1>9

LEMMA SavedStep == TypeInv /\ SavedInv /\ [Next]_vars => SavedInv'
<1> SUFFICES ASSUME TypeInv, SavedInv, [Next]_vars PROVE SavedInv'
  OBVIOUS
<1>0. EngineTypeOK /\ InRun
  BY DEF TypeInv, TypeOK
\* A new save begins with its first command.
<1>f. ASSUME stage' = "save", cmd' = 1 PROVE SavedInv'
  BY <1>f DEF SavedInv, Past
\* Stages at which nothing is claimed.
<1>n. ASSUME stage' \notin {"save", "publish", "cleanup"} PROVE SavedInv'
  BY <1>n DEF SavedInv, Past
<1>u. ASSUME UNCHANGED <<stage, cur, run, res, cmd, records, subRuns, conRuns>>,
             ctx' = ctx \/ ctx' = "done", faults' = faults
      PROVE  SavedInv'
  BY <1>u DEF SavedInv, Past
<1>1. CASE SaveStep
  BY <1>1, SavedBySaveStep
<1>2. CASE Network \/ Create \/ Start \/ RemoveFailed \/ WaitForGRPC \/ ValidateEngine \/ Fleet \/ Finish
  <2>1. \/ stage' = "save" /\ cmd' = 1
        \/ stage' \notin {"save", "publish", "cleanup"}
    BY <1>2 DEF Network, Create, Start, RemoveFailed, WaitForGRPC, ValidateEngine, Probe,
                Fleet, Finish, Fail, Save
  <2> QED
    BY <2>1, <1>f, <1>n
<1>3. CASE Announce
  <2>1. /\ stage = "publish" /\ stage' = "cleanup" /\ UNCHANGED <<cur, run, res, ctx>>
        /\ UNCHANGED <<records, subRuns, conRuns>>
    BY <1>3 DEF Announce, Skipped, callVars, redisVars
  <2>2. faults' = faults \/ faults' # 0
    BY <1>0, <1>3, EngineBounds DEF Announce, Skipped, EngineTypeOK
  <2> QED
    BY <2>1, <2>2 DEF SavedInv, Past
<1>4. CASE Cleanup
  BY <1>4, <1>n DEF Cleanup, Return
<1>5. CASE CtxExpires \/ RunCtxExpires
  BY <1>5, <1>u DEF CtxExpires, RunCtxExpires, callVars, redisVars
<1>6. ASSUME NEW s \in Submissions, ContainerExits(s) PROVE SavedInv'
  BY <1>6, <1>u DEF ContainerExits, callVars, redisVars
<1>7. CASE StartRun
  BY <1>7, <1>f DEF StartRun, Begin, Save
<1>8. CASE Down
  BY <1>8, <1>n DEF Down, Return
<1>9. CASE Interrupt
  BY <1>9, <1>u DEF Interrupt, callVars, redisVars
<1>10. CASE UNCHANGED engineVars
  BY <1>10, <1>u DEF engineVars, callVars, redisVars
<1> QED
  BY <1>1, <1>2, <1>3, <1>4, <1>5, <1>6, <1>7, <1>8, <1>9, <1>10, OutsideOfRun
     DEF Engine, EngineStep, RunStep

LEMMA SavedInvariant == Spec => []SavedInv
<1>1. Init => SavedInv
  BY DEF Init, EngineInit, SavedInv
<1> QED
  BY <1>1, SavedStep, TypeInvariant, PTL DEF Spec

\* A run whose ctx is live and that lost no command returns with its final
\* result in Redis and as the newest entry of both lists, on every path
\* through Run: each early return of Run goes through saveResult.
THEOREM OutcomesAreSaved == Spec => OutcomeSaved
<1>1. ASSUME SavedInv, Cleanup, ctx = "live", faults = 0
      PROVE  /\ res.status # "RUNNING"
             /\ records'[run] = res
             /\ Head(subRuns'[cur]) = run
             /\ Head(conRuns'[Owner[cur]]) = run
  BY <1>1 DEF SavedInv, Past, Cleanup, redisVars
<1>2. SavedInv /\ [Next]_vars =>
        [Returns /\ ctx = "live" /\ faults = 0 =>
            /\ res.status # "RUNNING"
            /\ records'[run] = res
            /\ Head(subRuns'[cur]) = run
            /\ Head(conRuns'[Owner[cur]]) = run]_engineVars
  BY <1>1 DEF Returns
<1> QED
  BY <1>2, SavedInvariant, PTL DEF Spec, OutcomeSaved
-----------------------------------------------------------------------------
(***************************************************************************)
(* No accepted submission is forgotten                                     *)
(***************************************************************************)

\* The process has not been interrupted and has not gone down, the deadline of
\* ctx is beyond the run's own, and no command was lost.
Calm == "ctx" \notin MayExpire /\ faults = 0 /\ crashes = 0 /\ proc = "up"

\* s waits, or the worker has it, or its final result is in Redis.
Kept(s) == Queued(s) \/ hand = s \/ Judged(s)

\* A submission whose request got to the queue is somewhere at every moment.
AcceptedIsKept ==
    Calm => \A s \in Submissions :
              req[s] \in {"sent", "accepted"} /\ eng = "docker" => Kept(s)

\* When the worker lets go of a submission its final result is in Redis.
KeptInv ==
    /\ proc = "down" => crashes > 0
    /\ Calm => ctx = "live"
    /\ Calm /\ worker = "judging" /\ stage = "idle" => Judged(hand)
    /\ stage # "idle" => hand = cur
    /\ worker \in {"select", "exited"} => hand = None
    /\ AcceptedIsKept

\* Lost commands stay counted.
LEMMA FaultsGrow ==
    ASSUME TypeInv, [Next]_vars, faults' = 0
    PROVE  faults = 0
<1>1. faults \in Nat
  BY EngineBounds DEF TypeInv, TypeOK, EngineTypeOK
<1>2. CASE Engine
  <2>1. faults' = faults \/ faults' = faults + 1
    BY <1>2 DEF Engine, EngineStep, RunStep, SaveStep, Network, Create, Start, RemoveFailed,
       WaitForGRPC, ValidateEngine, Probe, Fleet, Finish, Announce, Skipped, Cleanup,
       RemoveContainer, CtxExpires, RunCtxExpires, ContainerExits
  <2> QED
    BY <1>1, <2>1
<1>3. CASE StartRun \/ Down \/ Interrupt \/ UNCHANGED engineVars
  BY <1>3 DEF StartRun, Begin, Down, Interrupt, engineVars
<1> QED
  BY <1>2, <1>3, OutsideOfRun

\* A step never makes the circumstances better.
LEMMA CalmBefore ==
    ASSUME TypeInv, proc = "down" => crashes > 0, [Next]_vars, Calm'
    PROVE  Calm
<1>1. faults = 0
  BY FaultsGrow DEF Calm
<1>2. crashes \in Nat
  BY ApiBounds DEF TypeInv, TypeOK
<1>3. CASE \E s \in Submissions : Handler(s)
  BY <1>1, <1>3 DEF Calm, Handler, Post, SaveSubmission, Enqueue, CountPending
<1>4. CASE Worker
  BY <1>1, <1>4 DEF Calm, Worker, Receive, WorkerStops, UncountPending, StartRun, EndRun
<1>5. CASE Engine
  BY <1>1, <1>5 DEF Calm, Engine, apiVars
<1>6. CASE Interrupt \/ Down
  BY <1>1, <1>6 DEF Calm, Interrupt, Down
<1>7. CASE Restart
  BY <1>2, <1>7 DEF Calm, Restart
<1>8. CASE UNCHANGED vars
  BY <1>1, <1>8 DEF Calm, vars, apiVars
<1> QED
  BY <1>3, <1>4, <1>5, <1>6, <1>7, <1>8 DEF Next, Quiescent

\* A final result stays.
LEMMA JudgedStays ==
    ASSUME TypeInv, NotYetFinal, [Next]_vars, NEW s, Judged(s)
    PROVE  Judged(s)'
<1>1. PICK r \in RunIDs : Terminal(r) /\ records[r].sub = s
  BY DEF Judged
<1>2. records'[r] = records[r]
  BY <1>1, FinalStep
<1> QED
  BY <1>1, <1>2 DEF Judged, Terminal

\* The handlers keep what they have queued.
LEMMA KeptByHandler ==
    ASSUME TypeInv, NotYetFinal, KeptInv, [Next]_vars, NEW t \in Submissions, Handler(t)
    PROVE  KeptInv'
<1>1. /\ UNCHANGED engineVars
      /\ UNCHANGED <<proc, eng, worker, hand, crashes>>
  BY DEF Handler, Post, SaveSubmission, Enqueue, CountPending
<1>2. UNCHANGED <<stage, cur, ctx, records, faults>> /\ Calm' = Calm
  BY <1>1 DEF engineVars, callVars, redisVars, Calm
<1>3. \A s : Judged(s)' = Judged(s)
  BY <1>2 DEF Judged, Terminal
<1>4. /\ req \in [Submissions -> {"none", "checked", "refused", "saved", "sent", "accepted",
                                  "queueFull", "cut"}]
      /\ queue \in Seq(Submissions)
  BY DEF TypeInv, TypeOK
<1>5. AcceptedIsKept'
  <2>1. SUFFICES ASSUME Calm, NEW s \in Submissions, req'[s] \in {"sent", "accepted"}, eng = "docker"
                 PROVE  Kept(s)'
    BY <1>1, <1>2 DEF AcceptedIsKept
  <2>2. ASSUME queue' = Append(queue, t), req' = [req EXCEPT ![t] = "sent"] PROVE Kept(s)'
    <3>1. /\ Len(queue') = Len(queue) + 1 /\ Len(queue) \in Nat
          /\ queue'[Len(queue) + 1] = t
          /\ \A j \in 1..Len(queue) : queue'[j] = queue[j]
      BY <1>4, <2>2, AppendProperties
    <3>2. CASE s = t
      BY <3>1, <3>2 DEF Kept, Queued
    <3>3. CASE s # t
      <4>1. Kept(s)
        BY <1>4, <2>1, <2>2, <3>3 DEF KeptInv, AcceptedIsKept
      <4>2. Queued(s) => Queued(s)'
        BY <3>1 DEF Queued
      <4> QED
        BY <1>1, <1>3, <4>1, <4>2 DEF Kept
    <3> QED
      BY <3>2, <3>3
  <2>3. ASSUME queue' = queue, req[s] \in {"sent", "accepted"} PROVE Kept(s)'
    <3>1. Kept(s)
      BY <2>1, <2>3 DEF KeptInv, AcceptedIsKept
    <3> QED
      BY <1>1, <1>3, <2>3, <3>1 DEF Kept, Queued
  <2>4. \/ queue' = Append(queue, t) /\ req' = [req EXCEPT ![t] = "sent"]
        \/ queue' = queue /\ req[s] \in {"sent", "accepted"}
    <3>1. CASE Post(t) \/ SaveSubmission(t)
      BY <1>4, <2>1, <3>1 DEF Post, SaveSubmission
    <3>2. CASE Enqueue(t)
      BY <1>4, <2>1, <3>2 DEF Enqueue
    <3>3. CASE CountPending(t)
      BY <1>4, <2>1, <3>3 DEF CountPending
    <3> QED
      BY <3>1, <3>2, <3>3 DEF Handler
  <2> QED
    BY <2>2, <2>3, <2>4
<1> QED
  BY <1>1, <1>2, <1>3, <1>5 DEF KeptInv

\* The worker hands a submission on.
LEMMA KeptByWorker ==
    ASSUME TypeInv, NotYetFinal, KeptInv, [Next]_vars, Worker
    PROVE  KeptInv'
<1>0. /\ queue \in Seq(Submissions) /\ crashes \in Nat
      /\ crashes' = crashes /\ proc' = proc
  BY ApiBounds DEF TypeInv, TypeOK, Worker, Receive, WorkerStops, UncountPending, StartRun, EndRun
<1>1. Calm' => Calm
  BY CalmBefore DEF KeptInv
<1>2. \A s : Judged(s) => Judged(s)'
  BY JudgedStays
<1>3. UNCHANGED <<req, eng>>
  BY DEF Worker, Receive, WorkerStops, UncountPending, StartRun, EndRun
\* It is enough that each submission that was kept is still kept.
<1>k. ASSUME \A s \in Submissions : Calm /\ Kept(s) => Kept(s)'
      PROVE  AcceptedIsKept'
  BY <1>1, <1>3, <1>k DEF KeptInv, AcceptedIsKept
<1>4. CASE Receive
  <2>1. /\ UNCHANGED <<stage, ctx, cur, records>> /\ stage = "idle"
        /\ worker' = "received" /\ queue # <<>> /\ hand' = Head(queue) /\ queue' = Tail(queue)
        /\ worker = "select"
    BY <1>4 DEF Receive, engineVars, callVars, redisVars, TypeInv, InRun
  <2>2. ASSUME NEW s \in Submissions, Calm, Kept(s) PROVE Kept(s)'
    <3>1. CASE Judged(s)
      BY <1>2, <3>1 DEF Kept
    <3>2. CASE Queued(s)
      <4>1. PICK j \in 1..Len(queue) : queue[j] = s
        BY <3>2 DEF Queued
      <4>2. CASE j = 1
        BY <2>1, <4>1, <4>2 DEF Kept
      <4>3. CASE j # 1
        <5>1. /\ Len(queue) \in Nat /\ Len(Tail(queue)) = Len(queue) - 1
              /\ Tail(queue)[j - 1] = queue[j] /\ j - 1 \in 1..(Len(queue) - 1)
          BY <1>0, <2>1, <4>1, <4>3, HeadTailProperties
        <5> QED
          BY <2>1, <4>1, <5>1 DEF Kept, Queued
      <4> QED
        BY <4>2, <4>3
    <3>3. CASE hand = s
      <4>1. hand = None
        BY <2>1 DEF TypeInv, InHand, KeptInv
      <4> QED
        BY <3>3, <4>1, NoneAssumption
    <3> QED
      BY <2>2, <3>1, <3>2, <3>3 DEF Kept
  <2> QED
    BY <1>0, <1>1, <1>k, <2>1, <2>2 DEF KeptInv
<1>5. CASE WorkerStops \/ UncountPending
  <2>1. /\ UNCHANGED <<stage, ctx, cur, records, hand, queue>>
        /\ worker' = "counted" \/ (worker' = "exited" /\ worker = "select")
    BY <1>5 DEF WorkerStops, UncountPending, engineVars, callVars, redisVars
  <2>2. \A s \in Submissions : Kept(s) => Kept(s)'
    BY <1>2, <2>1 DEF Kept, Queued
  <2> QED
    BY <1>0, <1>1, <1>k, <2>1, <2>2 DEF KeptInv
<1>6. CASE StartRun
  <2>1. /\ stage' = "save" /\ cur' = hand /\ hand' = hand /\ queue' = queue
        /\ worker' = "judging"
        /\ ctx' = (IF proc = "up" THEN "live" ELSE "done")
    BY <1>6 DEF StartRun, Begin, Save
  <2>2. \A s \in Submissions : Kept(s) => Kept(s)'
    BY <1>2, <2>1 DEF Kept, Queued
  <2>3. Calm' => ctx' = "live"
    BY <1>1, <2>1 DEF Calm
  <2> QED
    BY <1>0, <1>k, <2>1, <2>2, <2>3 DEF KeptInv
<1>7. CASE EndRun
  <2>1. /\ UNCHANGED <<stage, ctx, cur, records, queue>> /\ stage = "idle"
        /\ worker = "judging" /\ worker' = "select" /\ hand' = None
    BY <1>7 DEF EndRun, engineVars, callVars, redisVars
  <2>2. \A s \in Submissions : Calm /\ Kept(s) => Kept(s)'
    BY <1>2, <2>1 DEF Kept, Queued, KeptInv
  <2> QED
    BY <1>0, <1>1, <1>k, <2>1, <2>2 DEF KeptInv
<1> QED
  BY <1>4, <1>5, <1>6, <1>7 DEF Worker

\* Run comes to an end with the final result saved.
LEMMA KeptByEngine ==
    ASSUME TypeInv, NotYetFinal, OnceInv, SavedInv, KeptInv, [Next]_vars, Engine
    PROVE  KeptInv'
<1>0. EngineStep /\ UNCHANGED <<queue, hand, worker, proc, req, eng, crashes>>
  BY DEF Engine, apiVars
<1>1. Calm' => Calm
  BY CalmBefore DEF KeptInv
<1>2. \A s : Judged(s) => Judged(s)'
  BY JudgedStays
<1>3. stage' # "idle" => stage # "idle" /\ cur' = cur
  BY <1>0, RunTouches
<1>4. AcceptedIsKept'
  <2>1. \A s \in Submissions : Kept(s) => Kept(s)'
    BY <1>0, <1>2 DEF Kept, Queued
  <2> QED
    BY <1>0, <1>1, <2>1 DEF KeptInv, AcceptedIsKept
<1>5. Calm' => ctx' = "live"
  <2>1. SUFFICES ASSUME Calm PROVE ctx' = "live"
    BY <1>1
  <2>2. ctx = "live" /\ "ctx" \notin MayExpire
    BY <2>1 DEF KeptInv, Calm
  <2>3. ctx' = ctx \/ ctx' = "live" \/ "ctx" \in MayExpire
    BY <1>0 DEF EngineStep, RunStep, SaveStep, Network, Create, CutOff, Start, RemoveFailed,
       WaitForGRPC, ValidateEngine, Probe, Fleet, Finish, Announce, Cleanup, Return,
       CtxExpires, RunCtxExpires, ContainerExits
  <2> QED
    BY <2>2, <2>3
<1>6. Calm' /\ worker' = "judging" /\ stage' = "idle" => Judged(hand)'
  <2>1. SUFFICES ASSUME Calm, worker = "judging", stage' = "idle" PROVE Judged(hand)'
    BY <1>0, <1>1
  <2>2. CASE stage = "idle"
    BY <1>0, <1>2, <2>1, <2>2 DEF KeptInv
  <2>3. CASE stage # "idle"
    <3>1. stage = "cleanup" /\ records' = records
      <4>1. Cleanup
        <5>1. SaveStep => stage' # "idle"
          <6>1. res \in Results
            BY <2>3 DEF TypeInv, InRun
          <6>2. res.status \in Status
            BY <6>1 DEF Results
          <6> QED
            BY <6>2 DEF SaveStep, AfterSave, Status
        <5> QED
          BY <1>0, <2>1, <2>3, <5>1 DEF EngineStep, RunStep, Network, Create, Start,
             RemoveFailed, WaitForGRPC, ValidateEngine, Probe, Fleet, Finish, Fail, Save,
             Announce, CtxExpires, RunCtxExpires, ContainerExits
      <4> QED
        BY <4>1 DEF Cleanup, redisVars
    <3>2. records[run] = res /\ res.status # "RUNNING"
      BY <2>1, <3>1 DEF SavedInv, Past, KeptInv, Calm
    <3>3. run \in RunIDs /\ res \in Results /\ hand = cur
      BY <2>3 DEF TypeInv, InRun, KeptInv
    <3>4. res.sub = cur
      BY <2>3 DEF OnceInv, OnlyRun
    <3> QED
      BY <1>0, <3>1, <3>2, <3>3, <3>4, NoneAssumption DEF Judged, Terminal
  <2> QED
    BY <2>2, <2>3
<1> QED
  BY <1>0, <1>3, <1>4, <1>5, <1>6 DEF KeptInv

\* The rest of the process's life.
LEMMA KeptStep ==
    ASSUME TypeInv, NotYetFinal, OnceInv, SavedInv, KeptInv, [Next]_vars
    PROVE  KeptInv'
<1>1. crashes \in Nat
  BY ApiBounds DEF TypeInv, TypeOK
<1>2. CASE \E s \in Submissions : Handler(s)
  BY <1>2, KeptByHandler
<1>3. CASE Interrupt
  <2>1. /\ proc' = "stopping"
        /\ UNCHANGED <<stage, cur, hand, worker>>
    BY <1>3 DEF Interrupt, callVars
  <2> QED
    BY <2>1 DEF KeptInv, AcceptedIsKept, Calm
<1>4. CASE Down
  <2>1. crashes' > 0 /\ proc' = "down" /\ stage' = "idle" /\ worker' = "exited" /\ hand' = None
    BY <1>1, <1>4 DEF Down, Return
  <2> QED
    BY <2>1 DEF KeptInv, AcceptedIsKept, Calm
<1>5. CASE Restart
  <2>1. /\ crashes' = crashes /\ crashes > 0 /\ proc' = "up" /\ worker' = "select"
        /\ hand' = hand /\ stage' = stage /\ cur' = cur /\ hand = None
    BY <1>5 DEF Restart, engineVars, callVars, KeptInv, TypeInv, InHand
  <2> QED
    BY <1>1, <2>1 DEF KeptInv, AcceptedIsKept, Calm
<1>6. CASE UNCHANGED vars
  BY <1>6 DEF vars, apiVars, engineVars, callVars, redisVars, KeptInv, AcceptedIsKept, Calm,
              Kept, Queued, Judged, Terminal
<1> QED
  BY <1>2, <1>3, <1>4, <1>5, <1>6, KeptByWorker, KeptByEngine DEF Next, Quiescent

\* As long as the process runs, its context is live and Redis loses no command, a
\* submission answered with 202 is never forgotten: it waits in the channel, the
\* worker has it, or its final result is in Redis, whatever fails in Docker, the
\* sandbox or the fleet, and whenever runCtx expires.
THEOREM AcceptedAreKept == Spec => []AcceptedIsKept
<1>1. Init => KeptInv
  BY DEF Init, EngineInit, KeptInv, AcceptedIsKept, Calm
<1>2. TypeInv /\ NotYetFinal /\ OnceInv /\ SavedInv /\ KeptInv /\ [Next]_vars => KeptInv'
  BY KeptStep
<1>3. KeptInv => AcceptedIsKept
  BY DEF KeptInv
<1> QED
  BY <1>1, <1>2, <1>3, FinalInvariant, OnceInvariant, SavedInvariant, PTL DEF Spec

-----------------------------------------------------------------------------
(***************************************************************************)
(* What a COMPLETED record says                                            *)
(***************************************************************************)

\* The result of a run is RUNNING until the save that ends it; it is COMPLETED only
\* if the fleet returned nil, or runCtx is over and stays so.
CompletedInv ==
    stage # "idle" =>
        /\ stage \notin {"save", "publish", "cleanup"} => res.status = "RUNNING"
        /\ res.status = "COMPLETED" => fleetErr = "nil" \/ runCtx = "done"

LEMMA CompletedStep == TypeInv /\ CompletedInv /\ [Next]_vars => CompletedInv'
<1> SUFFICES ASSUME TypeInv, CompletedInv, [Next]_vars PROVE CompletedInv'
  OBVIOUS
<1>0. EngineTypeOK /\ InRun
  BY DEF TypeInv, TypeOK
<1>l. ASSUME stage # "idle" PROVE res \in Results
  BY <1>0, <1>l DEF InRun
<1>i. ASSUME stage' = "idle" PROVE CompletedInv'
  BY <1>i DEF CompletedInv
\* A FAILED result promises nothing.
<1>f. ASSUME stage # "idle", Fail PROVE CompletedInv'
  <2>1. stage' = "save" /\ res'.status = "FAILED"
    BY <1>f, <1>l, FailIsFailed
  <2> QED
    BY <2>1 DEF CompletedInv
\* Steps that leave the result alone.
<1>u. ASSUME UNCHANGED <<res, fleetErr>>, runCtx' = runCtx \/ runCtx' = "done",
             stage # "idle" \/ stage' = "idle",
             stage' \notin {"save", "publish", "cleanup"} =>
                stage \notin {"save", "publish", "cleanup"}
      PROVE  CompletedInv'
  BY <1>u DEF CompletedInv
<1>1. CASE SaveStep
  <2>1. /\ stage = "save" /\ UNCHANGED <<res, fleetErr, runCtx>>
        /\ stage' = "save" \/ stage' = AfterSave
    BY <1>1 DEF SaveStep, callVars
  <2>2. res.status \in Status
    BY <1>l, <2>1 DEF Results
  <2>3. stage' \notin {"save", "publish", "cleanup"} => res.status = "RUNNING"
    BY <2>1, <2>2 DEF AfterSave, Status
  <2> QED
    BY <2>1, <2>3 DEF CompletedInv
<1>2. CASE Network
  <2>1. stage = "network" /\ res.status = "RUNNING"
    BY <1>2 DEF Network, CompletedInv
  <2>2. CASE Fail
    BY <1>f, <2>1, <2>2
  <2>3. CASE stage' = "create" /\ res' = res
    BY <2>1, <2>3 DEF CompletedInv
  <2> QED
    BY <1>2, <2>2, <2>3 DEF Network
<1>3. CASE Create \/ Start \/ RemoveFailed \/ WaitForGRPC \/ ValidateEngine
  <2>1. stage \notin {"idle", "save", "publish", "cleanup"}
    BY <1>3 DEF Create, Start, RemoveFailed, WaitForGRPC, ValidateEngine, Probe
  <2>2. \/ Fail
        \/ /\ UNCHANGED <<res, fleetErr>> /\ (runCtx' = runCtx \/ runCtx' = "done")
           /\ stage' \notin {"save", "publish", "cleanup"}
    BY <1>3 DEF Create, Start, CutOff, RemoveFailed, WaitForGRPC, ValidateEngine, Probe, callVars
  <2> QED
    BY <1>f, <1>u, <2>1, <2>2
<1>4. CASE Fleet
  <2>1. stage = "fleet" /\ stage' = "finish" /\ res.status = "RUNNING"
    BY <1>4 DEF Fleet, CompletedInv
  <2>2. res'.status = "RUNNING"
    <3>1. res \in Results
      BY <1>l, <2>1
    <3>2. res' = res \/ \E k \in Drained : res' = [res EXCEPT !.orders = k]
      BY <1>4 DEF Fleet
    <3> QED
      BY <2>1, <3>1, <3>2 DEF Results
  <2> QED
    BY <2>1, <2>2 DEF CompletedInv
<1>5. CASE Finish
  <2>1. stage = "finish" /\ UNCHANGED <<fleetErr, runCtx>>
    BY <1>5 DEF Finish, callVars
  <2>2. CASE fleetErr = "error" /\ runCtx = "live"
    BY <1>5, <1>f, <2>1, <2>2 DEF Finish
  <2>3. CASE ~(fleetErr = "error" /\ runCtx = "live")
    <3>1. stage' = "save"
      BY <1>5, <2>3 DEF Finish, Save
    <3>2. fleetErr = "nil" \/ runCtx = "done"
      BY <1>0, <2>3 DEF EngineTypeOK
    <3> QED
      BY <2>1, <3>1, <3>2 DEF CompletedInv
  <2> QED
    BY <2>2, <2>3
<1>6. CASE Announce \/ CtxExpires \/ RunCtxExpires
  <2>1. /\ UNCHANGED <<res, fleetErr>> /\ (runCtx' = runCtx \/ runCtx' = "done")
        /\ stage # "idle" \/ stage' = "idle"
        /\ stage' = stage \/ stage' = "cleanup"
    BY <1>6 DEF Announce, CtxExpires, RunCtxExpires, callVars
  <2> QED
    BY <1>u, <2>1
<1>7. CASE Cleanup \/ Down
  BY <1>7, <1>i DEF Cleanup, Down, Return
<1>8. CASE StartRun
  <2>1. stage' = "save" /\ res'.status = "RUNNING"
    BY <1>8 DEF StartRun, Begin, Save
  <2> QED
    BY <2>1 DEF CompletedInv
<1>9. CASE Interrupt \/ UNCHANGED engineVars \/ \E s \in Submissions : ContainerExits(s)
  <2>1. UNCHANGED <<stage, res, fleetErr>> /\ (stage # "idle" => runCtx' \in {runCtx, "done"})
    BY <1>9 DEF Interrupt, engineVars, callVars, ContainerExits
  <2> QED
    BY <2>1 DEF CompletedInv
<1> QED
  BY <1>1, <1>2, <1>3, <1>4, <1>5, <1>6, <1>7, <1>8, <1>9, OutsideOfRun
     DEF Engine, EngineStep, RunStep

\* A record becomes COMPLETED only by a run whose sandbox had come up and whose fleet
\* returned nil or met the end of runCtx (judge.go:231 counts an error then as the end
\* of the run's time).
CompletedRan ==
    [][\A r \in RunIDs :
          records'[r] # records[r] /\ records'[r].status = "COMPLETED" =>
              teardown = "deferred" /\ (fleetErr = "nil" \/ runCtx = "done")]_vars

\* No run that failed before its fleet had run, on whatever path, is COMPLETED.
THEOREM CompletedRunsRan == Spec => CompletedRan
<1>1. Init => CompletedInv
  BY DEF Init, EngineInit, CompletedInv
<1>2. ASSUME TypeInv, ContainerInv, CompletedInv, [Next]_vars, NEW r \in RunIDs,
             records'[r] # records[r], records'[r].status = "COMPLETED"
      PROVE  teardown = "deferred" /\ (fleetErr = "nil" \/ runCtx = "done")
  <2>1. SaveStep
    BY <1>2, OutsideOfRun DEF Engine, EngineStep, RunStep, Network, Create, Start, RemoveFailed,
       WaitForGRPC, ValidateEngine, Probe, Fleet, Finish, Announce, Skipped, Cleanup, CtxExpires,
       RunCtxExpires, ContainerExits, StartRun, Begin, Down, Interrupt, engineVars, redisVars
  <2>2. stage = "save"
    BY <2>1 DEF SaveStep
  <2>3. records' = records \/ records' = [records EXCEPT ![run] = res]
    <3>1. EngineStep
      BY <2>1 DEF EngineStep, RunStep
    <3> QED
      BY <1>2, <3>1, RunTouches
  <2>4. records'[r] = res
    BY <1>2, <2>3 DEF TypeInv, TypeOK, EngineTypeOK
  <2> QED
    BY <1>2, <2>2, <2>4 DEF ContainerInv, CompletedInv
<1>3. TypeInv /\ ContainerInv /\ CompletedInv /\ [Next]_vars =>
        [\A r \in RunIDs :
            records'[r] # records[r] /\ records'[r].status = "COMPLETED" =>
                teardown = "deferred" /\ (fleetErr = "nil" \/ runCtx = "done")]_vars
  BY <1>2
<1> QED
  BY <1>1, <1>3, CompletedStep, ContainerInvariant, PTL DEF Spec, CompletedRan
=============================================================================
