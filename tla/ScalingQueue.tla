---------------------------- MODULE ScalingQueue ----------------------------
(***************************************************************************)
(* Queue mode: mains that enqueue executions (enqueueExecution() of        *)
(* workflow-runner.ts), workers that process them (job-processor.ts), the  *)
(* stop of an execution (execution.service.ts) and the queue recovery of   *)
(* the leader (scaling.service.ts), over the rows of the database and the  *)
(* jobs of Bull.                                                           *)
(*                                                                         *)
(* Every job is taken as the only one of its worker: what two jobs of one  *)
(* worker share is nothing but its crash.  An execution that waits ends    *)
(* its part here; WaitTracker takes it from there.                         *)
(***************************************************************************)
EXTENDS Integers, FiniteSets

CONSTANTS
    Main,          \* the main processes
    Execution,
    NoMain,
    KeepsSuccess,  \* executions of workflows that save successful executions
    KeepsError,    \* ... and failed ones
    MayStop,       \* executions a user may stop
    Unstable,      \* mains that may crash, or step down as the leader
    BatchSize,     \* queueRecoveryContext.batchSize
    MaxFaults      \* bound: stepdowns and crashes of mains, and recoveries that fail

ASSUME QueueAssumption ==
    /\ NoMain \notin Main
    /\ KeepsSuccess \subseteq Execution /\ KeepsError \subseteq Execution
    /\ MayStop \subseteq Execution /\ Unstable \subseteq Main
    /\ BatchSize \in Nat \ {0} /\ MaxFaults \in Nat

(* A main starts one chain of recovery timers for each takeover. *)
Chain == 1..MaxFaults + 1

VARIABLES
    row,         \* the row of an execution
    job,         \* its job in Bull
    step,        \* processJob() on the worker: its next step
    result,      \* how the worker's run ended
    runs,        \* how often a worker started to run it
    owner,       \* the main that enqueues it
    at,          \* enqueueExecution() on that main: its next step
    active,      \* executions with an entry in the owner's ActiveExecutions
    told,        \* what finalizeExecution() gave the caller
    cancel,      \* onCancel(): the next step of stopJob()
    stopping,    \* executions with a stop that has not written the row yet
    news,        \* job-finished messages the owner has not received yet
    jobResults,  \* ScalingService.jobResults of the owners; other mains never read theirs
    up,          \* the mains that have not crashed
    leader,
    faults,
    chain,       \* chain[m][k]: where a chain of recoveries of a main is
    timeout,     \* queueRecoveryContext.timeout: the chain that was armed last
    seen         \* seen[m][k]: the executions a recovery under way works on

rowVars == <<row, job>>
workVars == <<step, result, runs>>
mainVars == <<owner, at, active, told, cancel, stopping, jobResults>>
recoveryVars == <<leader, faults, chain, timeout, seen>>
vars == <<rowVars, workVars, mainVars, news, up, recoveryVars>>

InProgress == {"new", "running"}
Ended == {"success", "error", "canceled", "crashed"}
Row == {"none", "waiting", "deleted"} \cup InProgress \cup Ended
Queued == {"waiting", "active"}
Failed == {"cancelled", "stalled", "threw"}
Job == {"none", "completed", "removed"} \cup Queued \cup Failed
Outcome == {"success", "error", "waiting", "canceled"}

Init ==
    /\ row = [e \in Execution |-> "none"] /\ job = [e \in Execution |-> "none"]
    /\ step = [e \in Execution |-> "idle"] /\ result = [e \in Execution |-> "none"]
    /\ runs = [e \in Execution |-> 0]
    /\ owner = [e \in Execution |-> NoMain] /\ at = [e \in Execution |-> "none"]
    /\ active = {} /\ told = [e \in Execution |-> "none"]
    /\ cancel = [e \in Execution |-> "none"] /\ stopping = {}
    /\ news = {} /\ jobResults = {}
    /\ up = Main /\ faults = 0
    /\ leader \in Main
    /\ chain = [m \in Main |-> [k \in Chain |-> IF m = leader /\ k = 1 THEN "armed" ELSE "off"]]
    /\ timeout = [m \in Main |-> 1]
    /\ seen = [m \in Main |-> [k \in Chain |-> {}]]

Fault == faults < MaxFaults /\ faults' = faults + 1

(* An update of a row that has been deleted matches nothing. *)
Write(e, status) == row' = [row EXCEPT ![e] = IF @ = "deleted" THEN @ ELSE status]

-----------------------------------------------------------------------------
(* A main: enqueueExecution(). *)

(* ActiveExecutions.add(): in queue mode the row stays new. *)
add(e, m) ==
    /\ at[e] = "none" /\ m \in up
    /\ row' = [row EXCEPT ![e] = "new"]
    /\ owner' = [owner EXCEPT ![e] = m]
    /\ active' = active \cup {e}
    /\ at' = [at EXCEPT ![e] = "adding"]
    /\ UNCHANGED <<job, workVars, told, cancel, stopping, jobResults, news, up, recoveryVars>>

(* The call may fail before or after Bull has stored the job; enqueueing     *)
(* then throws.                                                              *)
addJob(e) ==
    /\ at[e] = "adding"
    /\ \/ job' = [job EXCEPT ![e] = "waiting"] /\ at' = [at EXCEPT ![e] = "added"]
       \/ job' \in {job, [job EXCEPT ![e] = "waiting"]} /\ at' = [at EXCEPT ![e] = "throwing"]
    /\ UNCHANGED <<row, workVars, owner, active, told, cancel, stopping, jobResults, news, up, recoveryVars>>

(* The hook workflowExecuteBefore has run: the cancelable promise awaits     *)
(* job.finished() and is attached to the entry.  A hook that throws finds    *)
(* the job in the queue already.                                             *)
attachWorkflowExecution(e) ==
    /\ at[e] = "added"
    /\ \E next \in {"finishing", "throwing"} : at' = [at EXCEPT ![e] = next]
    /\ UNCHANGED <<rowVars, workVars, owner, active, told, cancel, stopping, jobResults, news, up, recoveryVars>>

(* finalizeExecution(): only an execution that still has an entry is told. *)
Finalize(e, status) ==
    /\ told' = IF e \in active THEN [told EXCEPT ![e] = status] ELSE told
    /\ active' = active \ {e}

(* The execution is not to be kept: the hook workflowExecuteAfter for a run   *)
(* without waitTill, of which hookFunctionsFinalizeExecutionStatus has made a *)
(* success if it has no error.                                                *)
Discards(e, status) ==
    IF status \in {"success", "waiting"} THEN e \notin KeepsSuccess ELSE e \notin KeepsError

(* finished() that trusts every completed job to have succeeded. *)
jobCompletedTrusting(e) ==
    /\ at[e] = "finishing" /\ job[e] = "completed"
    /\ Finalize(e, "success")
    /\ at' = [at EXCEPT ![e] = "over"]
    /\ UNCHANGED <<rowVars, workVars, owner, cancel, stopping, jobResults, news, up, recoveryVars>>

(* What the caller reads in the run it is given: without waitTill, the hook  *)
(* hookFunctionsFinalizeExecutionStatus makes a success of a waiting run,    *)
(* before or after the caller looks.                                         *)
Reads(status) == IF status = "waiting" THEN {"waiting", "success"} ELSE {status}

(* job.finished() resolves.  The result the worker has sent is used if it is *)
(* there and enough; it has no waitTill.  Otherwise the row is read, and     *)
(* nobody is told when it is gone.                                           *)
jobCompleted(e) ==
    /\ at[e] = "finishing" /\ job[e] = "completed"
    /\ jobResults' = jobResults \ {e}
    /\ \/ /\ e \in jobResults
          /\ \E status \in Reads(result[e]) : Finalize(e, status)
          /\ at' = [at EXCEPT ![e] = IF Discards(e, result[e]) THEN "discarding" ELSE "over"]
       \/ /\ IF row[e] = "deleted" THEN UNCHANGED <<active, told>> ELSE Finalize(e, row[e])
          /\ at' = [at EXCEPT ![e] =
                 IF row[e] \in Ended /\ Discards(e, row[e]) THEN "discarding" ELSE "over"]
    /\ UNCHANGED <<rowVars, workVars, owner, cancel, stopping, news, up, recoveryVars>>

(* deleteInFlightExecution() of the hook workflowExecuteAfter. *)
discard(e) ==
    /\ at[e] = "discarding"
    /\ row' = [row EXCEPT ![e] = "deleted"]
    /\ at' = [at EXCEPT ![e] = "over"]
    /\ UNCHANGED <<job, workVars, owner, active, told, cancel, stopping, jobResults, news, up, recoveryVars>>

(* job.finished() rejects; processError() returns for a cancelled one. *)
jobFailed(e) ==
    /\ at[e] = "finishing" /\ job[e] \in Failed
    /\ at' = [at EXCEPT ![e] = IF job[e] = "cancelled" THEN "over" ELSE "failing"]
    /\ jobResults' = jobResults \ {e}
    /\ UNCHANGED <<rowVars, workVars, owner, active, told, cancel, stopping, news, up, recoveryVars>>

(* processError() that gives up on every row that has ended. *)
processErrorGivingUp(e) ==
    /\ at[e] \in {"failing", "throwing"}
    /\ IF row[e] \in Ended
       THEN UNCHANGED <<active, told>> /\ at' = [at EXCEPT ![e] = "over"]
       ELSE Finalize(e, "error") /\ at' = [at EXCEPT ![e] = "reporting"]
    /\ UNCHANGED <<rowVars, workVars, owner, cancel, stopping, jobResults, news, up, recoveryVars>>

(* processError(): the sanity check of the row, then finalizeExecution().    *)
(* An error of enqueueing is also thrown to the caller of run().             *)
processError(e) ==
    /\ at[e] \in {"failing", "throwing"}
    /\ IF row[e] = "success"
       THEN /\ told' = IF at[e] = "throwing" THEN [told EXCEPT ![e] = "error"] ELSE told
            /\ active' = active /\ at' = [at EXCEPT ![e] = "over"]
       ELSE Finalize(e, "error") /\ at' = [at EXCEPT ![e] = "reporting"]
    /\ UNCHANGED <<rowVars, workVars, owner, cancel, stopping, jobResults, news, up, recoveryVars>>

(* ... and its hook workflowExecuteAfter, which saves the error. *)
saveError(e) ==
    /\ at[e] = "reporting"
    /\ Write(e, "error")
    /\ at' = [at EXCEPT ![e] = "over"]
    /\ UNCHANGED <<job, workVars, owner, active, told, cancel, stopping, jobResults, news, up, recoveryVars>>

(* The listener of global:progress on the owner. *)
jobFinishedMessage(e) ==
    /\ e \in news
    /\ news' = news \ {e}
    /\ jobResults' = jobResults \cup {e}
    /\ UNCHANGED <<rowVars, workVars, owner, at, active, told, cancel, stopping, up, recoveryVars>>

-----------------------------------------------------------------------------
(* A worker: processJob(). *)

(* Bull gives a waiting job to one worker. *)
dequeue(e) ==
    /\ job[e] = "waiting"
    /\ job' = [job EXCEPT ![e] = "active"]
    /\ step' = [step EXCEPT ![e] = "find"]
    /\ UNCHANGED <<row, result, runs, mainVars, news, up, recoveryVars>>

(* Bull settles a job only for the worker that still has its lock. *)
Settle(e, status) == job' = IF job[e] = "active" THEN [job EXCEPT ![e] = status] ELSE job

(* findSingleExecution(): a crashed execution is not processed, and the job  *)
(* of one that is gone fails.                                                *)
findExecution(e) ==
    /\ step[e] = "find"
    /\ IF row[e] \in {"crashed", "deleted"}
       THEN /\ Settle(e, IF row[e] = "crashed" THEN "completed" ELSE "threw")
            /\ step' = [step EXCEPT ![e] = "over"]
       ELSE job' = job /\ step' = [step EXCEPT ![e] = "start"]
    /\ UNCHANGED <<row, result, runs, mainVars, news, up, recoveryVars>>

setRunning(e) ==
    /\ step[e] = "start"
    /\ Write(e, "running")
    /\ step' = [step EXCEPT ![e] = "prepare"]
    /\ UNCHANGED <<job, result, runs, mainVars, news, up, recoveryVars>>

(* The workflow is set up and entered in runningJobs, or that throws; a      *)
(* workflow with issues is saved as failed, and main gets no message.        *)
prepare(e) ==
    /\ step[e] = "prepare"
    /\ \/ /\ step' = [step EXCEPT ![e] = "run"] /\ runs' = [runs EXCEPT ![e] = @ + 1]
          /\ UNCHANGED <<rowVars, result>>
       \/ /\ step' = [step EXCEPT ![e] = "over"] /\ Settle(e, "threw")
          /\ UNCHANGED <<row, result, runs>>
       \/ /\ step' = [step EXCEPT ![e] = "settle"] /\ Write(e, "error")
          /\ result' = [result EXCEPT ![e] = "error"]
          /\ UNCHANGED <<job, runs>>
    /\ UNCHANGED <<mainVars, news, up, recoveryVars>>

(* The run ends; it is cancelled when it takes too long or was aborted. *)
runEnds(e) ==
    /\ step[e] \in {"run", "aborted"}
    /\ \E outcome \in Outcome :
           /\ step[e] = "aborted" => outcome = "canceled"
           /\ result' = [result EXCEPT ![e] = outcome]
    /\ step' = [step EXCEPT ![e] = "save"]
    /\ UNCHANGED <<rowVars, runs, mainVars, news, up, recoveryVars>>

(* hookFunctionsSaveWorker that does not save the status. *)
saveRunWithoutStatus(e) ==
    /\ step[e] = "save"
    /\ step' = [step EXCEPT ![e] = "report"]
    /\ UNCHANGED <<rowVars, result, runs, mainVars, news, up, recoveryVars>>

(* hookFunctionsSaveWorker *)
saveRun(e) ==
    /\ step[e] = "save"
    /\ Write(e, result[e])
    /\ step' = [step EXCEPT ![e] = "report"]
    /\ UNCHANGED <<job, result, runs, mainVars, news, up, recoveryVars>>

(* A cancelled run throws; of another one job-finished is sent to all mains. *)
report(e) ==
    /\ step[e] = "report"
    /\ IF result[e] = "canceled"
       THEN /\ Settle(e, "cancelled") /\ step' = [step EXCEPT ![e] = "over"]
            /\ news' = news
       ELSE /\ news' = IF owner[e] \in up THEN news \cup {e} ELSE news
            /\ job' = job /\ step' = [step EXCEPT ![e] = "settle"]
    /\ UNCHANGED <<row, result, runs, mainVars, up, recoveryVars>>

settle(e) ==
    /\ step[e] = "settle"
    /\ Settle(e, "completed")
    /\ step' = [step EXCEPT ![e] = "over"]
    /\ UNCHANGED <<row, result, runs, mainVars, news, up, recoveryVars>>

Working == {"find", "start", "prepare", "run", "aborted", "save", "report", "settle"}

workerCrash(e) ==
    /\ step[e] \in Working
    /\ step' = [step EXCEPT ![e] = "crashed"]
    /\ UNCHANGED <<rowVars, result, runs, mainVars, news, up, recoveryVars>>

(* Bull with maxStalledCount 1: a stalled job goes back to the queue. *)
stalledOnce(e) ==
    /\ job[e] = "active" /\ step[e] = "crashed"
    /\ job' = [job EXCEPT ![e] = "waiting"]
    /\ UNCHANGED <<row, workVars, mainVars, news, up, recoveryVars>>

(* Bull with maxStalledCount 0: a job whose worker has crashed, or is too    *)
(* busy to renew its lock, fails; a busy worker goes on all the same.        *)
stalled(e) ==
    /\ job[e] = "active"
    /\ job' = [job EXCEPT ![e] = "stalled"]
    /\ UNCHANGED <<row, workVars, mainVars, news, up, recoveryVars>>

-----------------------------------------------------------------------------
(* A stop: stopInScalingMode() and stopJob(). *)

(* The row has been read.  On the owner the entry is removed and, if the     *)
(* promise is attached, onCancel() begins; another main only has the row.    *)
stop(e) ==
    /\ e \in MayStop /\ e \notin stopping /\ up # {}
    /\ row[e] \in InProgress \cup {"waiting"}
    /\ stopping' = stopping \cup {e}
    /\ \/ /\ e \in active
          /\ active' = active \ {e}
          /\ told' = [told EXCEPT ![e] = "canceled"]
          /\ cancel' = [cancel EXCEPT ![e] = IF at[e] = "finishing" THEN "check" ELSE @]
       \/ UNCHANGED <<active, told, cancel>>
    /\ UNCHANGED <<rowVars, workVars, owner, at, jobResults, news, up, recoveryVars>>

stopDuringRun(e) ==
    /\ e \in stopping
    /\ stopping' = stopping \ {e}
    /\ Write(e, "canceled")
    /\ UNCHANGED <<job, workVars, owner, at, active, told, cancel, jobResults, news, up, recoveryVars>>

(* job.isActive(): the worker is sent abort-job and cancels a run that is in *)
(* runningJobs; one it has not entered yet is not found.                     *)
stopJob(e) ==
    /\ cancel[e] = "check"
    /\ IF job[e] = "active"
       THEN /\ cancel' = [cancel EXCEPT ![e] = "none"]
            /\ step' = IF step[e] = "run" THEN [step EXCEPT ![e] = "aborted"] ELSE step
       ELSE cancel' = [cancel EXCEPT ![e] = "remove"] /\ step' = step
    /\ UNCHANGED <<rowVars, result, runs, owner, at, active, told, stopping, jobResults, news, up, recoveryVars>>

(* job.remove(), which fails for a job that has become active meanwhile. *)
removeJob(e) ==
    /\ cancel[e] = "remove"
    /\ cancel' = [cancel EXCEPT ![e] = "none"]
    /\ job' = IF job[e] = "waiting" THEN [job EXCEPT ![e] = "removed"] ELSE job
    /\ UNCHANGED <<row, workVars, owner, at, active, told, stopping, jobResults, news, up, recoveryVars>>

-----------------------------------------------------------------------------
(* Queue recovery. *)

(* scheduleQueueRecovery() that trusts a timeout it has set before. *)
scheduleUnlessSet(m, k) ==
    IF timeout[m] # k
    THEN chain' = [chain EXCEPT ![m][k] = "armed"] /\ timeout' = [timeout EXCEPT ![m] = k]
    ELSE UNCHANGED <<chain, timeout>>

(* scheduleQueueRecovery(): a timer for chain k of m. *)
scheduleQueueRecovery(m, k) ==
    /\ chain' = [chain EXCEPT ![m][k] = "armed"]
    /\ timeout' = [timeout EXCEPT ![m] = k]

takeover(m) ==
    /\ leader = NoMain /\ m \in up
    /\ leader' = m
    /\ \E k \in Chain :
           /\ chain[m][k] = "off" /\ \A j \in Chain : j < k => chain[m][j] # "off"
           /\ scheduleQueueRecovery(m, k)
    /\ UNCHANGED <<rowVars, workVars, mainVars, news, up, faults, seen>>

(* stopQueueRecovery(): a timer that has fired cannot be cleared. *)
stopQueueRecovery(m) ==
    /\ leader = m /\ m \in Unstable /\ Fault
    /\ leader' = NoMain
    /\ chain' = IF chain[m][timeout[m]] = "armed" THEN [chain EXCEPT ![m][timeout[m]] = "off"] ELSE chain
    /\ UNCHANGED <<rowVars, workVars, mainVars, news, up, timeout, seen>>

(* getInProgressExecutionIds() that overlooks rows no worker has started. *)
getRunningExecutionIds(m, k) ==
    LET stored == {e \in Execution : row[e] = "running"}
    IN  /\ chain[m][k] = "armed"
        /\ chain' = [chain EXCEPT ![m][k] = IF stored = {} THEN @ ELSE "jobs"]
        /\ seen' = [seen EXCEPT ![m][k] = stored]
        /\ UNCHANGED <<rowVars, workVars, mainVars, news, up, leader, faults, timeout>>

(* recoverFromQueue(): a batch of the rows in progress is read, in an order   *)
(* (startedAt DESC) that is left open here, ...                              *)
getInProgressExecutionIds(m, k) ==
    LET stored == {e \in Execution : row[e] \in InProgress}
    IN  /\ chain[m][k] = "armed"
        /\ \E batch \in SUBSET stored :
               /\ Cardinality(batch) = BatchSize \/ (batch = stored /\ Cardinality(stored) < BatchSize)
               /\ IF batch = {}
                  THEN scheduleQueueRecovery(m, k) /\ seen' = seen
                  ELSE /\ chain' = [chain EXCEPT ![m][k] = "jobs"] /\ timeout' = timeout
                       /\ seen' = [seen EXCEPT ![m][k] = batch]
        /\ UNCHANGED <<rowVars, workVars, mainVars, news, up, leader, faults>>

(* ... then the jobs, ... *)
findJobsByStatus(m, k) ==
    LET dangling == {e \in seen[m][k] : job[e] \notin Queued}
    IN  /\ chain[m][k] = "jobs"
        /\ seen' = [seen EXCEPT ![m][k] = dangling]
        /\ IF dangling = {}
           THEN scheduleQueueRecovery(m, k)
           ELSE chain' = [chain EXCEPT ![m][k] = "mark"] /\ timeout' = timeout
        /\ UNCHANGED <<rowVars, workVars, mainVars, news, up, leader, faults>>

(* ... and rows without a job become crashed, whatever they are by then. *)
markAsCrashed(m, k) ==
    /\ chain[m][k] = "mark"
    /\ row' = [e \in Execution |-> IF e \in seen[m][k] /\ row[e] # "deleted" THEN "crashed" ELSE row[e]]
    /\ seen' = [seen EXCEPT ![m][k] = {}]
    /\ scheduleQueueRecovery(m, k)
    /\ UNCHANGED <<job, workVars, mainVars, news, up, leader, faults>>

(* A read or write of a recovery fails: the next cycle is scheduled. *)
recoveryFails(m, k) ==
    /\ chain[m][k] \in {"jobs", "mark"} /\ Fault
    /\ seen' = [seen EXCEPT ![m][k] = {}]
    /\ scheduleQueueRecovery(m, k)
    /\ UNCHANGED <<rowVars, workVars, mainVars, news, up, leader>>

(* A main crashes, with everything it had in memory. *)
mainCrash(m) ==
    /\ m \in up \cap Unstable /\ Fault
    /\ up' = up \ {m}
    /\ leader' = IF leader = m THEN NoMain ELSE leader
    /\ at' = [e \in Execution |-> IF owner[e] = m THEN "gone" ELSE at[e]]
    /\ active' = {e \in active : owner[e] # m}
    /\ cancel' = [e \in Execution |-> IF owner[e] = m THEN "none" ELSE cancel[e]]
    /\ \E lost \in SUBSET stopping : stopping' = stopping \ lost
    /\ news' = {e \in news : owner[e] # m} /\ jobResults' = {e \in jobResults : owner[e] # m}
    /\ chain' = [chain EXCEPT ![m] = [k \in Chain |-> "off"]]
    /\ seen' = [seen EXCEPT ![m] = [k \in Chain |-> {}]]
    /\ UNCHANGED <<rowVars, workVars, owner, told, timeout>>

-----------------------------------------------------------------------------
mainStep(e) ==
    \/ addJob(e) \/ attachWorkflowExecution(e) \/ jobCompleted(e) \/ discard(e)
    \/ jobFailed(e) \/ processError(e) \/ saveError(e)

workerStep(e) ==
    \/ dequeue(e) \/ findExecution(e) \/ setRunning(e) \/ prepare(e) \/ runEnds(e)
    \/ saveRun(e) \/ report(e) \/ settle(e)

stopStep(e) == stopDuringRun(e) \/ stopJob(e) \/ removeJob(e)

recoveryStep(m) ==
    \E k \in Chain : getInProgressExecutionIds(m, k) \/ findJobsByStatus(m, k) \/ markAsCrashed(m, k)

Next ==
    \/ \E e \in Execution, m \in Main : add(e, m)
    \/ \E e \in Execution :
           \/ mainStep(e) \/ workerStep(e) \/ workerCrash(e) \/ stalled(e)
           \/ stop(e) \/ stopStep(e) \/ jobFinishedMessage(e)
    \/ \E m \in Main : takeover(m) \/ stopQueueRecovery(m) \/ mainCrash(m) \/ recoveryStep(m)
    \/ \E m \in Main, k \in Chain : recoveryFails(m, k)

(* Promises and timers go on, workers take jobs and their runs end, Bull     *)
(* finds the jobs of crashed workers, and a leader is elected.               *)
Fairness ==
    /\ \A e \in Execution :
           /\ WF_vars(mainStep(e)) /\ WF_vars(stopStep(e))
           /\ WF_vars(workerStep(e) \/ (stalled(e) /\ step[e] = "crashed"))
    /\ WF_vars(\E m \in Main : takeover(m))
    /\ \A m \in Main : WF_vars(recoveryStep(m))

Spec == Init /\ [][Next]_vars /\ Fairness

-----------------------------------------------------------------------------
(* Every variable has its type; in particular, no caller is told of an        *)
(* execution that is not over or waiting.                                    *)
TypeOK ==
    /\ row \in [Execution -> Row] /\ job \in [Execution -> Job]
    /\ step \in [Execution -> Working \cup {"idle", "over", "crashed"}]
    /\ result \in [Execution -> Outcome \cup {"none"}] /\ runs \in [Execution -> Nat]
    /\ owner \in [Execution -> Main \cup {NoMain}]
    /\ at \in [Execution -> {"none", "adding", "added", "finishing", "failing", "throwing", "reporting",
                             "discarding", "over", "gone"}]
    /\ active \subseteq Execution /\ told \in [Execution -> Ended \cup {"none", "waiting"}]
    /\ cancel \in [Execution -> {"none", "check", "remove"}] /\ stopping \subseteq Execution
    /\ news \subseteq Execution /\ jobResults \subseteq Execution
    /\ up \subseteq Main /\ leader \in Main \cup {NoMain} /\ faults \in 0..MaxFaults
    /\ chain \in [Main -> [Chain -> {"off", "armed", "jobs", "mark"}]]
    /\ timeout \in [Main -> Chain] /\ seen \in [Main -> [Chain -> SUBSET Execution]]

(* No execution is run twice, although its worker may crash, its job may be  *)
(* declared stalled while its worker goes on, and its main may crash.        *)
RunAtMostOnce == \A e \in Execution : runs[e] <= 1

(* A row says success only of a run that a worker has brought to a           *)
(* successful end, and a caller is told so of no other run but one that      *)
(* waits (its waitTill is lost on the way to main).                          *)
SuccessIsReal ==
    \A e \in Execution :
        /\ row[e] = "success" => result[e] = "success"
        /\ told[e] = "success" => result[e] \in {"success", "waiting"}

(* A leader always has a recovery scheduled or under way, whatever timers    *)
(* its earlier stepdowns have cleared or failed to clear.                    *)
LeaderRecovers ==
    \A m \in up : leader = m => \E k \in Chain : chain[m][k] # "off"

(* An execution does not stay new or running for ever when a worker or a     *)
(* main has crashed, a job could not be added, or a stop was lost.           *)
InProgressEnds == \A e \in Execution : row[e] \in InProgress ~> row[e] \notin InProgress

(* The caller of an execution is answered, unless its main crashes or the    *)
(* job ends in one of the two ways for which processError() returns early:   *)
(* the run was cancelled on the worker, or it succeeded although Bull        *)
(* declared the job stalled.                                                 *)
CallerAnswered ==
    \A e \in Execution :
        e \in active ~> \/ e \notin active \/ told[e] # "none"
                        \/ job[e] = "cancelled"
                        \/ job[e] = "stalled" /\ result[e] = "success"

(* An execution that waits is not deleted: the hook that discards executions *)
(* only processes the ones that have reached a terminal status               *)
(* (execution-lifecycle-hooks.ts 792).                                       *)
WaitingKept ==
    [][\A e \in Execution : row[e] = "waiting" => row'[e] # "deleted"]_vars
=============================================================================
