------------------------- MODULE ScalingQueueProofs -------------------------
(***************************************************************************)
(* For any mains, executions and bounds: what a caller is told and a row   *)
(* says, that no execution is run twice, and that a leader recovers.       *)
(*                                                                         *)
(* An execution never goes back: its job is added once, a job is handed to *)
(* one worker, and the worker only goes forward.  So the place of each of  *)
(* the three parties bounds what the others can have done.                 *)
(***************************************************************************)
EXTENDS ScalingQueue, TLAPS

At ==
    {"none", "adding", "added", "finishing", "failing", "throwing", "reporting", "discarding",
     "over", "gone"}
Step == Working \cup {"idle", "over", "crashed"}

(* The steps of the worker before its run, and after it. *)
Before == {"idle", "find", "start", "prepare"}
After == {"save", "report", "settle", "over", "crashed"}

(* The job of e: added once, dequeued once, completed at the end. *)
JobOnce(e) ==
    /\ at[e] \in {"none", "adding"} => job[e] = "none"
    /\ job[e] \in {"none", "waiting", "removed"} => step[e] = "idle"
    /\ job[e] = "completed" => step[e] = "over"

(* The run of e: started once, its result known once it has ended. *)
RunOnce(e) ==
    /\ runs[e] \in {0, 1}
    /\ step[e] \in Before => runs[e] = 0
    /\ result[e] # "none" => step[e] \in After
    /\ step[e] \in {"save", "report", "settle"} => result[e] # "none"
    /\ e \in news \cup jobResults => result[e] # "none"

(* The row of e: saved before the worker reports, deleted by its main only.  *)
RowFollows(e) ==
    /\ at[e] = "none" <=> row[e] = "none"
    /\ step[e] \in {"report", "settle"} => row[e] \notin {"new", "running"}
    /\ job[e] = "completed" => row[e] \notin {"new", "running"}
    /\ row[e] = "deleted" => at[e] \in {"over", "gone"}

(* Nobody owns, stops or recovers an execution that has no row. *)
Untouched(e) ==
    row[e] = "none" =>
        owner[e] = NoMain /\ e \notin stopping /\ \A m \in Main, k \in Chain : e \notin seen[m][k]

(* What SuccessIsReal says of e. *)
Truthful(e) ==
    /\ row[e] = "success" => result[e] = "success"
    /\ told[e] = "success" => result[e] \in {"success", "waiting"}

ExecutionInv(e) == JobOnce(e) /\ RunOnce(e) /\ RowFollows(e) /\ Untouched(e) /\ Truthful(e)

Inv == TypeOK /\ \A e \in Execution : ExecutionInv(e)

-----------------------------------------------------------------------------
LEMMA ChainFacts == MaxFaults \in Nat /\ 1 \in Chain /\ NoMain \notin Main
BY QueueAssumption DEF QueueAssumption, Chain

LEMMA InvInit == Init => Inv
<1> SUFFICES ASSUME Init PROVE Inv
  OBVIOUS
<1>1. TypeOK
  BY ChainFacts
     DEF Init, TypeOK, Row, Job, Working, Ended, InProgress, Queued, Failed, Outcome
<1>2. ASSUME NEW e \in Execution PROVE ExecutionInv(e)
  BY <1>2 DEF Init, ExecutionInv, JobOnce, RunOnce, RowFollows, Untouched, Truthful, Before, After
<1>3. QED
  BY <1>1, <1>2 DEF Inv

-----------------------------------------------------------------------------
(* A step that changes what is known of execution e only, and that no        *)
(* recovery takes.                                                           *)
Only(e) ==
    /\ seen' = seen
    /\ \A d \in Execution : d # e =>
           /\ row'[d] = row[d] /\ job'[d] = job[d] /\ step'[d] = step[d]
           /\ result'[d] = result[d] /\ runs'[d] = runs[d]
           /\ owner'[d] = owner[d] /\ at'[d] = at[d] /\ told'[d] = told[d]
           /\ d \in stopping' => d \in stopping
           /\ d \in news' => d \in news
           /\ d \in jobResults' => d \in jobResults

LEMMA LocalStep ==
    ASSUME Inv, NEW e \in Execution, TypeOK', ExecutionInv(e)', Only(e)
    PROVE  Inv'
<1>1. ASSUME NEW d \in Execution, d # e PROVE ExecutionInv(d)'
  BY <1>1 DEF Inv, Only, ExecutionInv, JobOnce, RunOnce, RowFollows, Untouched, Truthful
<1>2. QED
  BY <1>1 DEF Inv

(* The enqueuing main. *)
LEMMA MainSteps ==
    ASSUME Inv, NEW e \in Execution,
           mainStep(e) \/ jobFinishedMessage(e) \/ \E m \in Main : add(e, m)
    PROVE  Inv'
<1>1. TypeOK /\ ExecutionInv(e)
  BY DEF Inv
<1> USE DEF mainVars, workVars, rowVars, recoveryVars
<1>2. ASSUME NEW m \in Main, add(e, m) PROVE Inv'
  <2>1. TypeOK'
    BY <1>1, <1>2 DEF add, TypeOK, Row, InProgress
  <2>2. ExecutionInv(e)'
    BY <1>1, <1>2
       DEF add, TypeOK, ExecutionInv, JobOnce, RunOnce, RowFollows, Untouched, Truthful,
           Before, After
  <2>3. Only(e)
    BY <1>1, <1>2 DEF add, TypeOK, Only
  <2>4. QED
    BY <2>1, <2>2, <2>3, LocalStep
<1>3. CASE addJob(e)
  <2>1. TypeOK'
    BY <1>1, <1>3 DEF addJob, TypeOK, Job, Queued
  <2>2. ExecutionInv(e)'
    BY <1>1, <1>3
       DEF addJob, TypeOK, ExecutionInv, JobOnce, RunOnce, RowFollows, Untouched,
           Truthful, Before, After
  <2>3. Only(e)
    BY <1>1, <1>3 DEF addJob, TypeOK, Only
  <2>4. QED
    BY <2>1, <2>2, <2>3, LocalStep
<1>4. CASE attachWorkflowExecution(e) \/ jobFailed(e)
  <2>1. TypeOK'
    BY <1>1, <1>4 DEF attachWorkflowExecution, jobFailed, TypeOK
  <2>2. ExecutionInv(e)'
    BY <1>1, <1>4
       DEF attachWorkflowExecution, jobFailed, TypeOK, ExecutionInv, JobOnce, RunOnce,
           RowFollows, Untouched, Truthful, Before, After
  <2>3. Only(e)
    BY <1>1, <1>4 DEF attachWorkflowExecution, jobFailed, TypeOK, Only
  <2>4. QED
    BY <2>1, <2>2, <2>3, LocalStep
<1>5. CASE jobCompleted(e)
  <2>1. /\ row[e] \in Ended \cup {"waiting"}
        /\ e \in jobResults => result[e] \in Ended \cup {"waiting"}
    BY <1>1, <1>5
       DEF jobCompleted, TypeOK, ExecutionInv, JobOnce, RunOnce, RowFollows, Row, InProgress,
           Outcome, Ended
  <2>2. \E status \in Ended \cup {"waiting"} :
            /\ Finalize(e, status)
            /\ status = "success" => result[e] \in {"success", "waiting"}
    <3>1. CASE e \in jobResults /\ \E status \in Reads(result[e]) : Finalize(e, status)
      BY <2>1, <3>1 DEF Reads, Ended
    <3>2. CASE Finalize(e, row[e])
      BY <1>1, <2>1, <3>2 DEF ExecutionInv, Truthful
    <3>3. QED
      BY <1>5, <2>1, <3>1, <3>2 DEF jobCompleted, Ended
  <2>3. /\ told' \in [Execution -> Ended \cup {"none", "waiting"}] /\ active' \subseteq Execution
        /\ \A d \in Execution : d # e => told'[d] = told[d]
        /\ told'[e] = "success" => result[e] \in {"success", "waiting"}
    BY <1>1, <2>2 DEF Finalize, TypeOK, ExecutionInv, Truthful
  <2>4. /\ at' \in [Execution -> At] /\ at'[e] \in {"discarding", "over"}
        /\ \A d \in Execution : d # e => at'[d] = at[d]
    BY <1>1, <1>5 DEF jobCompleted, TypeOK, At
  <2>5. TypeOK'
    BY <1>1, <1>5, <2>3, <2>4 DEF jobCompleted, TypeOK, At
  <2>6. ExecutionInv(e)'
    BY <1>1, <1>5, <2>1, <2>3, <2>4
       DEF jobCompleted, TypeOK, ExecutionInv, JobOnce, RunOnce, RowFollows, Untouched, Truthful,
           Before, After, Ended
  <2>7. Only(e)
    BY <1>5, <2>3, <2>4 DEF jobCompleted, Only
  <2>8. QED
    BY <2>5, <2>6, <2>7, LocalStep
<1>6. CASE discard(e)
  <2>1. TypeOK'
    BY <1>1, <1>6 DEF discard, TypeOK, Row
  <2>2. ExecutionInv(e)'
    BY <1>1, <1>6
       DEF discard, TypeOK, ExecutionInv, JobOnce, RunOnce, RowFollows, Untouched,
           Truthful, Before, After
  <2>3. Only(e)
    BY <1>1, <1>6 DEF discard, TypeOK, Only
  <2>4. QED
    BY <2>1, <2>2, <2>3, LocalStep
<1>7. CASE processError(e)
  <2>1. /\ told' \in [Execution -> Ended \cup {"none", "waiting"}] /\ active' \subseteq Execution
        /\ \A d \in Execution : d # e => told'[d] = told[d]
        /\ told'[e] \in {told[e], "error"}
    <3>1. told' = told \/ told' = [told EXCEPT ![e] = "error"]
      BY <1>7 DEF processError, Finalize
    <3>2. active' = active \/ active' = active \ {e}
      BY <1>7 DEF processError, Finalize
    <3>3. QED
      BY <1>1, <3>1, <3>2 DEF TypeOK, Ended
  <2>2. /\ at' \in [Execution -> At] /\ at'[e] \in {"reporting", "over"}
        /\ \A d \in Execution : d # e => at'[d] = at[d]
    <3>1. \E l \in {"reporting", "over"} : at' = [at EXCEPT ![e] = l]
      BY <1>7 DEF processError
    <3>2. QED
      BY <1>1, <3>1 DEF TypeOK, At
  <2>3. TypeOK'
    BY <1>1, <1>7, <2>1, <2>2 DEF processError, TypeOK, At
  <2>4. ExecutionInv(e)'
    BY <1>1, <1>7, <2>1, <2>2
       DEF processError, TypeOK, ExecutionInv, JobOnce, RunOnce, RowFollows, Untouched, Truthful,
           Before, After
  <2>5. Only(e)
    BY <1>7, <2>1, <2>2 DEF processError, Only
  <2>6. QED
    BY <2>3, <2>4, <2>5, LocalStep
<1>8. CASE saveError(e)
  <2>1. TypeOK'
    BY <1>1, <1>8 DEF saveError, TypeOK, Write, Row, Ended
  <2>2. ExecutionInv(e)'
    BY <1>1, <1>8
       DEF saveError, Write, TypeOK, ExecutionInv, JobOnce, RunOnce, RowFollows,
           Untouched, Truthful, Before, After
  <2>3. Only(e)
    BY <1>1, <1>8 DEF saveError, Write, TypeOK, Only
  <2>4. QED
    BY <2>1, <2>2, <2>3, LocalStep
<1>9. CASE jobFinishedMessage(e)
  <2>1. TypeOK'
    BY <1>1, <1>9 DEF jobFinishedMessage, TypeOK
  <2>2. ExecutionInv(e)'
    BY <1>1, <1>9
       DEF jobFinishedMessage, TypeOK, ExecutionInv, JobOnce, RunOnce, RowFollows,
           Untouched, Truthful, Before, After
  <2>3. Only(e)
    BY <1>1, <1>9 DEF jobFinishedMessage, TypeOK, Only
  <2>4. QED
    BY <2>1, <2>2, <2>3, LocalStep
<1>10. QED
  BY <1>2, <1>3, <1>4, <1>5, <1>6, <1>7, <1>8, <1>9 DEF mainStep

(* The worker, and Bull. *)
LEMMA WorkerSteps ==
    ASSUME Inv, NEW e \in Execution, workerStep(e) \/ workerCrash(e) \/ stalled(e)
    PROVE  Inv'
<1>1. TypeOK /\ ExecutionInv(e)
  BY DEF Inv
<1> USE DEF mainVars, workVars, rowVars, recoveryVars
<1>2. CASE dequeue(e)
  <2>1. TypeOK'
    BY <1>1, <1>2 DEF dequeue, TypeOK, Job, Queued, Working
  <2>2. ExecutionInv(e)'
    BY <1>1, <1>2
       DEF dequeue, TypeOK, ExecutionInv, JobOnce, RunOnce, RowFollows, Untouched,
           Truthful, Before, After
  <2>3. Only(e)
    BY <1>1, <1>2 DEF dequeue, TypeOK, Only
  <2>4. QED
    BY <2>1, <2>2, <2>3, LocalStep
<1>3. CASE findExecution(e)
  <2>1. TypeOK'
    BY <1>1, <1>3 DEF findExecution, TypeOK, Settle, Job, Failed, Working
  <2>2. ExecutionInv(e)'
    BY <1>1, <1>3
       DEF findExecution, Settle, TypeOK, ExecutionInv, JobOnce, RunOnce, RowFollows,
           Untouched, Truthful, Before, After
  <2>3. Only(e)
    BY <1>1, <1>3 DEF findExecution, Settle, TypeOK, Only
  <2>4. QED
    BY <2>1, <2>2, <2>3, LocalStep
<1>4. CASE setRunning(e)
  <2>1. TypeOK'
    BY <1>1, <1>4 DEF setRunning, TypeOK, Write, Row, InProgress, Working
  <2>2. ExecutionInv(e)'
    BY <1>1, <1>4
       DEF setRunning, Write, TypeOK, ExecutionInv, JobOnce, RunOnce, RowFollows,
           Untouched, Truthful, Before, After
  <2>3. Only(e)
    BY <1>1, <1>4 DEF setRunning, Write, TypeOK, Only
  <2>4. QED
    BY <2>1, <2>2, <2>3, LocalStep
<1>5. CASE prepare(e)
  <2>0. /\ job' \in [Execution -> Job] /\ runs' \in [Execution -> Nat]
        /\ step' \in [Execution -> Step] /\ row' \in [Execution -> Row]
        /\ result' \in [Execution -> Outcome \cup {"none"}]
    <3>1. job' \in [Execution -> Job]
      BY <1>1, <1>5 DEF prepare, TypeOK, Settle, Job, Failed
    <3>2. runs' \in [Execution -> Nat]
      <4>1. runs' = runs \/ runs' = [runs EXCEPT ![e] = @ + 1]
        BY <1>5 DEF prepare
      <4>2. runs \in [Execution -> Nat]
        BY <1>1 DEF TypeOK
      <4>3. QED
        BY <4>1, <4>2
    <3>3. \E l \in {"run", "over", "settle"} : step' = [step EXCEPT ![e] = l]
      BY <1>5 DEF prepare
    <3>4. step \in [Execution -> Step] /\ {"run", "over", "settle"} \subseteq Step
      BY <1>1 DEF TypeOK, Step, Working
    <3>5. step' \in [Execution -> Step]
      BY <3>3, <3>4
    <3>6. row' \in [Execution -> Row] /\ result' \in [Execution -> Outcome \cup {"none"}]
      <4>1. /\ row' = row \/ Write(e, "error")
            /\ result' = result \/ result' = [result EXCEPT ![e] = "error"]
        BY <1>5 DEF prepare
      <4>2. QED
        BY <1>1, <4>1 DEF TypeOK, Write, Row, Ended, Outcome
    <3>7. QED
      BY <3>1, <3>2, <3>5, <3>6
  <2>1. TypeOK'
    BY <1>1, <1>5, <2>0 DEF prepare, TypeOK, Step
  <2>2. ExecutionInv(e)'
    BY <1>1, <1>5
       DEF prepare, Settle, Write, TypeOK, ExecutionInv, JobOnce, RunOnce, RowFollows,
           Untouched, Truthful, Before, After
  <2>3. Only(e)
    BY <1>1, <1>5 DEF prepare, Settle, Write, TypeOK, Only
  <2>4. QED
    BY <2>1, <2>2, <2>3, LocalStep
<1>6. CASE runEnds(e)
  <2>1. TypeOK'
    BY <1>1, <1>6 DEF runEnds, TypeOK, Working, Outcome
  <2>2. ExecutionInv(e)'
    BY <1>1, <1>6
       DEF runEnds, TypeOK, ExecutionInv, JobOnce, RunOnce, RowFollows, Untouched,
           Truthful, Before, After, Outcome
  <2>3. Only(e)
    BY <1>1, <1>6 DEF runEnds, TypeOK, Only
  <2>4. QED
    BY <2>1, <2>2, <2>3, LocalStep
<1>7. CASE saveRun(e)
  <2>0. result[e] \in Row \ {"none", "new", "running", "deleted"}
    BY <1>1, <1>7 DEF saveRun, TypeOK, ExecutionInv, RunOnce, Outcome, Row, Ended
  <2>1. TypeOK'
    BY <1>1, <1>7, <2>0 DEF saveRun, TypeOK, Write, Working
  <2>2. ExecutionInv(e)'
    BY <1>1, <1>7, <2>0
       DEF saveRun, Write, TypeOK, ExecutionInv, JobOnce, RunOnce, RowFollows,
           Untouched, Truthful, Before, After
  <2>3. Only(e)
    BY <1>1, <1>7, <2>0 DEF saveRun, Write, TypeOK, Only
  <2>4. QED
    BY <2>1, <2>2, <2>3, LocalStep
<1>8. CASE report(e)
  <2>0. /\ job' \in [Execution -> Job] /\ news' \subseteq Execution
        /\ step' \in [Execution -> Step]
    <3>1. job' \in [Execution -> Job]
      BY <1>1, <1>8 DEF report, TypeOK, Settle, Job, Failed
    <3>2. news' \subseteq Execution
      BY <1>1, <1>8 DEF report, TypeOK
    <3>3. \E l \in {"over", "settle"} : step' = [step EXCEPT ![e] = l]
      BY <1>8 DEF report
    <3>4. step \in [Execution -> Step] /\ {"over", "settle"} \subseteq Step
      BY <1>1 DEF TypeOK, Step, Working
    <3>5. step' \in [Execution -> Step]
      BY <3>3, <3>4
    <3>6. QED
      BY <3>1, <3>2, <3>5
  <2>1. TypeOK'
    BY <1>1, <1>8, <2>0 DEF report, TypeOK, Step
  <2>2. ExecutionInv(e)'
    BY <1>1, <1>8
       DEF report, Settle, TypeOK, ExecutionInv, JobOnce, RunOnce, RowFollows,
           Untouched, Truthful, Before, After
  <2>3. Only(e)
    BY <1>1, <1>8 DEF report, Settle, TypeOK, Only
  <2>4. QED
    BY <2>1, <2>2, <2>3, LocalStep
<1>9. CASE settle(e)
  <2>1. TypeOK'
    BY <1>1, <1>9 DEF settle, TypeOK, Settle, Working, Job
  <2>2. ExecutionInv(e)'
    BY <1>1, <1>9
       DEF settle, Settle, TypeOK, ExecutionInv, JobOnce, RunOnce, RowFollows,
           Untouched, Truthful, Before, After
  <2>3. Only(e)
    BY <1>1, <1>9 DEF settle, Settle, TypeOK, Only
  <2>4. QED
    BY <2>1, <2>2, <2>3, LocalStep
<1>10. CASE workerCrash(e)
  <2>1. TypeOK'
    BY <1>1, <1>10 DEF workerCrash, TypeOK, Working
  <2>2. ExecutionInv(e)'
    BY <1>1, <1>10
       DEF workerCrash, Working, TypeOK, ExecutionInv, JobOnce, RunOnce, RowFollows,
           Untouched, Truthful, Before, After
  <2>3. Only(e)
    BY <1>1, <1>10 DEF workerCrash, Working, TypeOK, Only
  <2>4. QED
    BY <2>1, <2>2, <2>3, LocalStep
<1>11. CASE stalled(e)
  <2>1. TypeOK'
    BY <1>1, <1>11 DEF stalled, TypeOK, Job, Failed
  <2>2. ExecutionInv(e)'
    BY <1>1, <1>11
       DEF stalled, TypeOK, ExecutionInv, JobOnce, RunOnce, RowFollows, Untouched,
           Truthful, Before, After
  <2>3. Only(e)
    BY <1>1, <1>11 DEF stalled, TypeOK, Only
  <2>4. QED
    BY <2>1, <2>2, <2>3, LocalStep
<1>12. QED
  BY <1>2, <1>3, <1>4, <1>5, <1>6, <1>7, <1>8, <1>9, <1>10, <1>11 DEF workerStep

(* A stop. *)
LEMMA StopSteps ==
    ASSUME Inv, NEW e \in Execution, stop(e) \/ stopStep(e)
    PROVE  Inv'
<1>1. TypeOK /\ ExecutionInv(e)
  BY DEF Inv
<1> USE DEF mainVars, workVars, rowVars, recoveryVars
<1>2. CASE stop(e)
  <2>1. TypeOK'
    BY <1>1, <1>2 DEF stop, TypeOK, Ended
  <2>2. ExecutionInv(e)'
    BY <1>1, <1>2
       DEF stop, InProgress, TypeOK, ExecutionInv, JobOnce, RunOnce, RowFollows,
           Untouched, Truthful, Before, After
  <2>3. Only(e)
    BY <1>1, <1>2 DEF stop, InProgress, TypeOK, Only
  <2>4. QED
    BY <2>1, <2>2, <2>3, LocalStep
<1>3. CASE stopDuringRun(e)
  <2>1. TypeOK'
    BY <1>1, <1>3 DEF stopDuringRun, TypeOK, Write, Row, Ended
  <2>2. ExecutionInv(e)'
    BY <1>1, <1>3
       DEF stopDuringRun, Write, TypeOK, ExecutionInv, JobOnce, RunOnce, RowFollows,
           Untouched, Truthful, Before, After
  <2>3. Only(e)
    BY <1>1, <1>3 DEF stopDuringRun, Write, TypeOK, Only
  <2>4. QED
    BY <2>1, <2>2, <2>3, LocalStep
<1>4. CASE stopJob(e)
  <2>1. TypeOK'
    BY <1>1, <1>4 DEF stopJob, TypeOK, Working
  <2>2. ExecutionInv(e)'
    BY <1>1, <1>4
       DEF stopJob, TypeOK, ExecutionInv, JobOnce, RunOnce, RowFollows, Untouched,
           Truthful, Before, After
  <2>3. Only(e)
    BY <1>1, <1>4 DEF stopJob, TypeOK, Only
  <2>4. QED
    BY <2>1, <2>2, <2>3, LocalStep
<1>5. CASE removeJob(e)
  <2>1. TypeOK'
    BY <1>1, <1>5 DEF removeJob, TypeOK, Job
  <2>2. ExecutionInv(e)'
    BY <1>1, <1>5
       DEF removeJob, TypeOK, ExecutionInv, JobOnce, RunOnce, RowFollows, Untouched,
           Truthful, Before, After
  <2>3. Only(e)
    BY <1>1, <1>5 DEF removeJob, TypeOK, Only
  <2>4. QED
    BY <2>1, <2>2, <2>3, LocalStep
<1>6. QED
  BY <1>2, <1>3, <1>4, <1>5 DEF stopStep

(* What a recovery of chain k of main m does to the variables of recovery. *)
LEMMA ChainUpdate ==
    ASSUME TypeOK, NEW m \in Main, NEW k \in Chain, NEW status \in {"armed", "jobs", "mark"},
           chain' = [chain EXCEPT ![m][k] = status]
    PROVE  chain' \in [Main -> [Chain -> {"off", "armed", "jobs", "mark"}]]
BY DEF TypeOK

LEMMA SeenUpdate ==
    ASSUME TypeOK, NEW m \in Main, NEW k \in Chain, NEW batch \in SUBSET Execution,
           seen' = [seen EXCEPT ![m][k] = batch]
    PROVE  /\ seen' \in [Main -> [Chain -> SUBSET Execution]]
           /\ \A n \in Main, j \in Chain : seen'[n][j] \in {seen[n][j], batch}
BY DEF TypeOK

LEMMA ScheduleUpdate ==
    ASSUME TypeOK, NEW m \in Main, NEW k \in Chain, scheduleQueueRecovery(m, k)
    PROVE  /\ chain' \in [Main -> [Chain -> {"off", "armed", "jobs", "mark"}]]
           /\ timeout' \in [Main -> Chain]
BY ChainUpdate DEF scheduleQueueRecovery, TypeOK

(* Recovery: rows in progress are read, and some of them marked crashed. *)
LEMMA RecoverySteps ==
    ASSUME Inv, NEW m \in Main,
           \/ takeover(m) \/ stopQueueRecovery(m) \/ mainCrash(m) \/ recoveryStep(m)
           \/ \E k \in Chain : recoveryFails(m, k)
    PROVE  Inv'
<1>1. TypeOK /\ \A e \in Execution : ExecutionInv(e)
  BY DEF Inv
<1> USE DEF mainVars, workVars, rowVars, recoveryVars
<1>2. CASE takeover(m) \/ stopQueueRecovery(m)
  <2>1. TypeOK'
    <3>1. CASE takeover(m)
      BY <1>1, <3>1 DEF takeover, scheduleQueueRecovery, TypeOK
    <3>2. CASE stopQueueRecovery(m)
      BY <1>1, <3>2, ChainFacts DEF stopQueueRecovery, Fault, TypeOK
    <3>3. QED
      BY <1>2, <3>1, <3>2
  <2>2. ASSUME NEW e \in Execution PROVE ExecutionInv(e)'
    BY <1>1, <1>2, <2>2
       DEF takeover, stopQueueRecovery, ExecutionInv, JobOnce, RunOnce, RowFollows, Untouched,
           Truthful
  <2>3. QED
    BY <2>1, <2>2 DEF Inv
<1>3. ASSUME NEW k \in Chain, recoveryFails(m, k) PROVE Inv'
  <2>1. TypeOK'
    BY <1>1, <1>3, ChainFacts DEF recoveryFails, scheduleQueueRecovery, Fault, TypeOK
  <2>2. ASSUME NEW e \in Execution PROVE ExecutionInv(e)'
    BY <1>1, <1>3, <2>2
       DEF recoveryFails, TypeOK, ExecutionInv, JobOnce, RunOnce, RowFollows, Untouched, Truthful
  <2>3. QED
    BY <2>1, <2>2 DEF Inv
<1>4. ASSUME NEW k \in Chain, getInProgressExecutionIds(m, k) PROVE Inv'
  <2>1. PICK batch \in SUBSET {e \in Execution : row[e] \in InProgress} :
            IF batch = {}
            THEN scheduleQueueRecovery(m, k) /\ seen' = seen
            ELSE /\ chain' = [chain EXCEPT ![m][k] = "jobs"] /\ timeout' = timeout
                 /\ seen' = [seen EXCEPT ![m][k] = batch]
    BY <1>4 DEF getInProgressExecutionIds
  <2> HIDE DEF mainVars, workVars, rowVars
  <2>2. UNCHANGED <<rowVars, workVars, mainVars, news, up, leader, faults>>
    BY <1>4 DEF getInProgressExecutionIds
  <2>3. /\ chain' \in [Main -> [Chain -> {"off", "armed", "jobs", "mark"}]]
        /\ timeout' \in [Main -> Chain]
    <3>1. CASE batch = {}
      BY <1>1, <2>1, <3>1, ScheduleUpdate
    <3>2. CASE batch # {}
      BY <1>1, <2>1, <3>2, ChainUpdate DEF TypeOK
    <3>3. QED
      BY <3>1, <3>2
  <2>4. /\ seen' \in [Main -> [Chain -> SUBSET Execution]]
        /\ \A n \in Main, j \in Chain : seen'[n][j] \in {seen[n][j], batch}
    <3>1. CASE batch = {}
      BY <1>1, <2>1, <3>1 DEF TypeOK
    <3>2. CASE batch # {}
      <4>1. batch \in SUBSET Execution /\ seen' = [seen EXCEPT ![m][k] = batch]
        BY <2>1, <3>2
      <4>2. QED
        BY <1>1, <4>1, SeenUpdate
    <3>3. QED
      BY <3>1, <3>2
  <2>5. TypeOK'
    BY <1>1, <2>2, <2>3, <2>4 DEF TypeOK, mainVars, workVars, rowVars
  <2>6. ASSUME NEW e \in Execution PROVE ExecutionInv(e)'
    <3>1. row[e] = "none" => e \notin batch
      BY <2>1 DEF InProgress
    <3>2. Untouched(e)'
      BY <1>1, <2>2, <2>4, <2>6, <3>1 DEF ExecutionInv, Untouched, mainVars, rowVars
    <3>3. QED
      BY <1>1, <2>2, <2>6, <3>2
         DEF ExecutionInv, JobOnce, RunOnce, RowFollows, Truthful, mainVars, workVars, rowVars
  <2>7. QED
    BY <2>5, <2>6 DEF Inv
<1>5. ASSUME NEW k \in Chain, findJobsByStatus(m, k) PROVE Inv'
  <2>1. PICK dangling \in SUBSET seen[m][k] : seen' = [seen EXCEPT ![m][k] = dangling]
    BY <1>5 DEF findJobsByStatus
  <2>2. TypeOK'
    <3>1. /\ chain' \in [Main -> [Chain -> {"off", "armed", "jobs", "mark"}]]
          /\ timeout' \in [Main -> Chain]
      <4>1. \/ scheduleQueueRecovery(m, k)
            \/ chain' = [chain EXCEPT ![m][k] = "mark"] /\ timeout' = timeout
        BY <1>5 DEF findJobsByStatus
      <4>2. CASE chain' = [chain EXCEPT ![m][k] = "mark"] /\ timeout' = timeout
        BY <1>1, <4>2, ChainUpdate DEF TypeOK
      <4>3. QED
        BY <1>1, <4>1, <4>2, ScheduleUpdate
    <3>2. seen' \in [Main -> [Chain -> SUBSET Execution]]
      BY <1>1, <2>1 DEF TypeOK
    <3>3. QED
      BY <1>1, <1>5, <3>1, <3>2 DEF findJobsByStatus, TypeOK
  <2>3. ASSUME NEW e \in Execution PROVE ExecutionInv(e)'
    BY <1>1, <1>5, <2>1, <2>3
       DEF findJobsByStatus, TypeOK, ExecutionInv, JobOnce, RunOnce, RowFollows, Untouched, Truthful
  <2>4. QED
    BY <2>2, <2>3 DEF Inv
<1>6. ASSUME NEW k \in Chain, markAsCrashed(m, k) PROVE Inv'
  <2>1. TypeOK'
    BY <1>1, <1>6 DEF markAsCrashed, scheduleQueueRecovery, TypeOK, Row, Ended
  <2>2. ASSUME NEW e \in Execution PROVE ExecutionInv(e)'
    <3>1. e \in seen[m][k] => row[e] # "none"
      BY <1>1, <2>2 DEF ExecutionInv, Untouched
    <3>2. QED
      BY <1>1, <1>6, <2>2, <3>1
         DEF markAsCrashed, TypeOK, ExecutionInv, JobOnce, RunOnce, RowFollows, Untouched, Truthful
  <2>3. QED
    BY <2>1, <2>2 DEF Inv
<1>7. CASE mainCrash(m)
  <2>1. TypeOK'
    BY <1>1, <1>7, ChainFacts DEF mainCrash, Fault, TypeOK
  <2>2. ASSUME NEW e \in Execution PROVE ExecutionInv(e)'
    <3>1. row[e] = "none" => owner[e] # m
      BY <1>1, <2>2, ChainFacts DEF ExecutionInv, Untouched
    <3>2. QED
      BY <1>1, <1>7, <2>2, <3>1
         DEF mainCrash, TypeOK, ExecutionInv, JobOnce, RunOnce, RowFollows, Untouched, Truthful
  <2>3. QED
    BY <2>1, <2>2 DEF Inv
<1>8. QED
  BY <1>2, <1>3, <1>4, <1>5, <1>6, <1>7 DEF recoveryStep

LEMMA InvStep == Inv /\ [Next]_vars => Inv'
<1> SUFFICES ASSUME Inv, [Next]_vars PROVE Inv'
  OBVIOUS
<1>1. CASE UNCHANGED vars
  BY <1>1
     DEF Inv, TypeOK, ExecutionInv, JobOnce, RunOnce, RowFollows, Untouched, Truthful, vars,
         rowVars, workVars, mainVars, recoveryVars
<1>2. CASE Next
  BY <1>2, MainSteps, WorkerSteps, StopSteps, RecoverySteps DEF Next
<1>3. QED
  BY <1>1, <1>2

(* The places of job, run and row bound one another; the results about        *)
(* callers and rows follow.                                                  *)
THEOREM QueueInvariant == Spec => []Inv
BY InvInit, InvStep, PTL DEF Spec

-----------------------------------------------------------------------------
(* Every variable has its type: no caller is told of an execution that is    *)
(* neither over nor waiting, because Bull completes a job only after its     *)
(* worker has saved the row, or has found it crashed.                        *)
THEOREM QueueTypeCorrect == Spec => []TypeOK
BY QueueInvariant, PTL DEF Inv

(* No execution is run by two workers, or twice by one: a job leaves Bull's  *)
(* queue once (maxStalledCount 0), whoever crashes or stalls.                *)
THEOREM ExecutionsRunOnce == Spec => []RunAtMostOnce
<1>1. Inv => RunAtMostOnce
  BY DEF Inv, ExecutionInv, RunOnce, RunAtMostOnce
<1>2. QED
  BY <1>1, QueueInvariant, PTL

(* Success is stored only of a run that ended well on its worker, and told   *)
(* of no other but one that waits: enqueueExecution() does not take a        *)
(* completed job for a successful one.                                       *)
THEOREM SuccessesAreReal == Spec => []SuccessIsReal
<1>1. Inv => SuccessIsReal
  BY DEF Inv, ExecutionInv, Truthful, SuccessIsReal
<1>2. QED
  BY <1>1, QueueInvariant, PTL

-----------------------------------------------------------------------------
(* A leader that is up keeps a chain of recoveries: takeover arms one, each  *)
(* step of a recovery leaves its chain scheduled or under way, and only a    *)
(* stepdown or a crash turns chains off, which also ends the leadership.     *)
THEOREM LeadersRecover == Spec => []LeaderRecovers
<1>1. Init => LeaderRecovers
  BY ChainFacts DEF Init, LeaderRecovers
<1>2. ASSUME TypeOK, LeaderRecovers, [Next]_vars PROVE LeaderRecovers'
  <2> USE DEF mainVars, workVars, rowVars, recoveryVars
  <2>1. CASE UNCHANGED <<leader, chain>> /\ up' \subseteq up
    BY <1>2, <2>1 DEF LeaderRecovers
  <2>2. ASSUME NEW m \in Main, takeover(m) PROVE LeaderRecovers'
    BY <1>2, <2>2 DEF takeover, scheduleQueueRecovery, TypeOK, LeaderRecovers
  <2>3. ASSUME NEW m \in Main, stopQueueRecovery(m) PROVE LeaderRecovers'
    BY <2>3, <1>2, ChainFacts DEF stopQueueRecovery, TypeOK, LeaderRecovers
  <2>4. ASSUME NEW m \in Main, mainCrash(m) PROVE LeaderRecovers'
    BY <1>2, <2>4, ChainFacts DEF mainCrash, TypeOK, LeaderRecovers
  <2>5. ASSUME NEW m \in Main, NEW k \in Chain,
               \/ getInProgressExecutionIds(m, k) \/ findJobsByStatus(m, k)
               \/ markAsCrashed(m, k) \/ recoveryFails(m, k)
        PROVE  LeaderRecovers'
    <3>1. /\ leader' = leader /\ up' = up
          /\ \E status \in {"armed", "jobs", "mark"} : chain' = [chain EXCEPT ![m][k] = status]
      BY <2>5
         DEF getInProgressExecutionIds, findJobsByStatus, markAsCrashed, recoveryFails,
             scheduleQueueRecovery
    <3>2. QED
      BY <1>2, <3>1 DEF TypeOK, LeaderRecovers
  <2>6. CASE UNCHANGED vars
    BY <2>1, <2>6 DEF vars
  <2>7. ASSUME NEW e \in Execution,
               \/ mainStep(e) \/ workerStep(e) \/ workerCrash(e) \/ stalled(e)
               \/ stop(e) \/ stopStep(e) \/ jobFinishedMessage(e) \/ \E m \in Main : add(e, m)
        PROVE  LeaderRecovers'
    <3>1. UNCHANGED <<leader, chain, up>>
      BY <2>7
         DEF mainStep, workerStep, stopStep, add, addJob, attachWorkflowExecution, jobCompleted,
             discard, jobFailed, processError, saveError, jobFinishedMessage, dequeue,
             findExecution, setRunning, prepare, runEnds, saveRun, report, settle, workerCrash,
             stalled, stop, stopDuringRun, stopJob, removeJob
    <3>2. QED
      BY <2>1, <3>1
  <2>8. QED
    BY <1>2, <2>2, <2>3, <2>4, <2>5, <2>6, <2>7 DEF Next, recoveryStep
<1>3. QED
  BY <1>1, <1>2, QueueTypeCorrect, PTL DEF Spec
=============================================================================
