------------------------- MODULE ExecutionLifecycle -------------------------
(***************************************************************************)
(* The life of workflow executions in one main process in regular mode:    *)
(* WorkflowRunner.run with ActiveExecutions.add, the run itself as far as  *)
(* the database row and the active-execution entry go, ExecutionService    *)
(* .stop, the execution timeout, ActiveExecutions.shutdown and             *)
(* Start.runEnqueuedExecutions, on top of ConcurrencyControl.              *)
(*                                                                         *)
(* A run is one call of WorkflowRunner.run: the first run of an execution  *)
(* inserts its row, the others resume it.  It is also the caller that      *)
(* ConcurrencyControl throttles, so Caller is the set of runs and IdOf     *)
(* gives the execution of a run.  An action is what happens between two    *)
(* awaits: a database commit, or the code that follows one.                *)
(***************************************************************************)
EXTENDS ConcurrencyControl

CONSTANTS
    FirstRun,   \* the runs called without an execution id
    MayWait,    \* the executions whose workflow puts itself to wait
    NoRun

Run == Caller
Execution == {IdOf[r] : r \in Run}

(* add() reserves nothing for an evaluation: its test case holds a slot.     *)
ASSUME RunAssumption ==
    /\ FirstRun \subseteq Run
    /\ \A r \in Run : QueueOf[r] # "evaluation"
    /\ MayWait \subseteq Execution
    /\ NoRun \notin Run
    /\ \A r, s \in Run : IdOf[r] = IdOf[s] => QueueOf[r] = QueueOf[s]
    /\ \A r, s \in FirstRun : IdOf[r] = IdOf[s] => r = s

VARIABLES
    row,          \* status column of each execution; "finished": success or error
    pc,           \* how far each run is
    active,       \* ActiveExecutions.activeExecutions: the run whose entry is there
    entry,        \* the status field of the entry of each run
    attached,     \* the run behind the workflowExecution of the entry of a run
    settled,      \* runs whose postExecutePromise is settled
    parked,       \* runs that have set waitTill
    aborted,      \* runs whose workflowExecution was cancelled
    hookPending,  \* cancelled runs whose hook has not written the row yet
    detached,     \* runs that started although their entry was gone
    stopping,     \* where each request to stop an execution is
    stopDone,     \* executions for which a stop has returned; one stop each
    bootPending   \* rows found "new" at startup and not run yet

runVars == <<pc, entry, attached, settled, parked, aborted, hookPending, detached>>
vars == <<ccVars, runVars, row, active, stopping, stopDone, bootPending>>

Status == {"none", "new", "running", "waiting", "finished", "canceled"}
Pc == {"idle", "created", "reserving", "marked", "registered", "executing",
       "saving", "saved", "ended", "rejected", "stranded"}

(* The rows an earlier process can leave for executions not created here. *)
Init ==
    /\ ccInit
    /\ row \in [Execution -> {"none", "new", "waiting"}]
    /\ \A r \in FirstRun : row[IdOf[r]] = "none"
    /\ bootPending = {e \in Execution : row[e] = "new"}
    /\ pc = [r \in Run |-> "idle"]
    /\ active = [e \in Execution |-> NoRun]
    /\ entry = [r \in Run |-> "none"]
    /\ attached = [r \in Run |-> NoRun]
    /\ stopping = [e \in Execution |-> "no"]
    /\ settled = {} /\ parked = {} /\ aborted = {}
    /\ hookPending = {} /\ detached = {} /\ stopDone = {}

Goto(r, l) == pc' = [pc EXCEPT ![r] = l]
SetRow(e, s) == row' = [row EXCEPT ![e] = s]

-----------------------------------------------------------------------------
(* ActiveExecutions.add *)

(* executionPersistence.create() commits a row of status "new". *)
create(r) ==
    /\ r \in FirstRun /\ pc[r] = "idle" /\ row[IdOf[r]] = "none"
    /\ SetRow(IdOf[r], "new")
    /\ Goto(r, "created")
    /\ UNCHANGED <<ccVars, active, entry, attached, settled, parked, aborted,
                   hookPending, detached, stopping, stopDone, bootPending>>

(* WaitTracker.startExecution or a waiting webhook has read a waiting row.   *)
resume(r) ==
    /\ r \notin FirstRun /\ pc[r] = "idle" /\ row[IdOf[r]] = "waiting"
    /\ Goto(r, "created")
    /\ UNCHANGED <<ccVars, row, active, entry, attached, settled, parked, aborted,
                   hookPending, detached, stopping, stopDone, bootPending>>

(* Start.runEnqueuedExecutions calls run() with the id of a row it found.    *)
runEnqueuedExecution(r) ==
    /\ r \notin FirstRun /\ pc[r] = "idle" /\ IdOf[r] \in bootPending
    /\ bootPending' = bootPending \ {IdOf[r]}
    /\ Goto(r, "created")
    /\ UNCHANGED <<ccVars, row, active, entry, attached, settled, parked, aborted,
                   hookPending, detached, stopping, stopDone>>

reserve(r) ==
    /\ pc[r] = "created"
    /\ throttle(r)
    /\ Goto(r, "reserving")
    /\ UNCHANGED <<row, active, entry, attached, settled, parked, aborted,
                   hookPending, detached, stopping, stopDone, bootPending>>

(* A resume that forgets to require a waiting row. *)
MayMarkAnyRow(r) == TRUE

(* The first run overwrites the row; a resume updates it only if it still   *)
(* waits, and otherwise throws ExecutionAlreadyResumingError.               *)
MayMark(r) == r \in FirstRun \/ row[IdOf[r]] = "waiting"

(* A write that is refused or fails gives the reservation back.              *)
markRunning(r) ==
    /\ pc[r] = "reserving" /\ grant[r] = "granted"
    /\ \/ /\ MayMark(r)
          /\ SetRow(IdOf[r], "running")
          /\ Goto(r, "marked")
          /\ UNCHANGED ccVars
       \/ /\ release(r)
          /\ Goto(r, "rejected")
          /\ UNCHANGED row
    /\ UNCHANGED <<active, entry, attached, settled, parked, aborted, hookPending,
                   detached, stopping, stopDone, bootPending>>

(* A registration that keeps the id in place of the entry. *)
registerId(r) ==
    /\ pc[r] = "marked"
    /\ active' = [active EXCEPT ![IdOf[r]] = IdOf[r]]
    /\ Goto(r, "registered")
    /\ UNCHANGED <<ccVars, row, entry, attached, settled, parked, aborted, hookPending,
                   detached, stopping, stopDone, bootPending>>

register(r) ==
    /\ pc[r] = "marked"
    /\ active' = [active EXCEPT ![IdOf[r]] = r]
    /\ entry' = [entry EXCEPT ![r] = "running"]
    /\ Goto(r, "registered")
    /\ UNCHANGED <<ccVars, row, attached, settled, parked, aborted, hookPending,
                   detached, stopping, stopDone, bootPending>>

-----------------------------------------------------------------------------
(* A settle whose finally() forgets the entry's reservation. *)
settleWithoutRelease(x, e) ==
    /\ settled' = settled \cup {x}
    /\ active' = IF entry[x] = "waiting" THEN active ELSE [active EXCEPT ![e] = NoRun]
    /\ UNCHANGED ccVars

(* The postExecutePromise of the entry of run x settles: the finally() of    *)
(* add() gives the slot back and drops the entry unless it waits.            *)
settle(x, e) ==
    \/ /\ x \in settled
       /\ UNCHANGED <<ccVars, settled, active>>
    \/ /\ x \notin settled
       /\ settled' = settled \cup {x}
       /\ active' = IF entry[x] = "waiting" THEN active ELSE [active EXCEPT ![e] = NoRun]
       /\ release(x)

(* ActiveExecutions.stopExecution.  cancel() acts on a pending promise only. *)
stopExecution(e) ==
    LET x == active[e]
        a == attached[x]
        cancels == a # NoRun /\ a \notin aborted /\ pc[a] \in {"executing", "saving", "saved"}
    IN  \/ /\ x = NoRun
           /\ UNCHANGED <<ccVars, active, settled, aborted, hookPending>>
        \/ /\ x # NoRun /\ entry[x] = "waiting"
           /\ active' = [active EXCEPT ![e] = NoRun]
           /\ UNCHANGED <<ccVars, settled, aborted, hookPending>>
        \/ /\ x # NoRun /\ entry[x] # "waiting"
           /\ aborted' = IF cancels THEN aborted \cup {a} ELSE aborted
           /\ hookPending' = IF cancels THEN hookPending \cup {a} ELSE hookPending
           /\ settle(x, e)

-----------------------------------------------------------------------------
(* WorkflowRunner.run after add() *)

(* The credentials check fails: the failed run is saved and finalized. *)
failExecution(r) ==
    /\ pc[r] = "registered"
    /\ Goto(r, "saving")
    /\ UNCHANGED <<ccVars, row, active, entry, attached, settled, parked, aborted,
                   hookPending, detached, stopping, stopDone, bootPending>>

(* runMainProcess: setRunning() writes the row unconditionally, the workflow *)
(* starts, and only then attachWorkflowExecution() looks for the entry.      *)
runMainProcess(r) ==
    LET x == active[IdOf[r]]
    IN  /\ pc[r] = "registered"
        /\ SetRow(IdOf[r], "running")
        /\ Goto(r, "executing")
        /\ attached' = IF x = NoRun THEN attached ELSE [attached EXCEPT ![x] = r]
        /\ detached' = IF x = NoRun THEN detached \cup {r} ELSE detached
        /\ UNCHANGED <<ccVars, active, entry, settled, parked, aborted, hookPending,
                       stopping, stopDone, bootPending>>

(* One of the calls runMainProcess awaits before its try fails (static data, *)
(* the base of additionalData, setRunning): run() rejects, nobody finalizes  *)
(* the execution, and its entry stays until a stop settles it.               *)
runMainProcessThrows(r) ==
    /\ pc[r] = "registered"
    /\ Goto(r, "stranded")
    /\ UNCHANGED <<ccVars, row, active, entry, attached, settled, parked, aborted,
                   hookPending, detached, stopping, stopDone, bootPending>>

(* A node sets waitTill and marks the entry; without an entry it throws and  *)
(* the run ends with that error.                                             *)
putExecutionToWait(r) ==
    LET x == active[IdOf[r]]
    IN  /\ pc[r] = "executing" /\ IdOf[r] \in MayWait
        /\ r \notin parked \cup aborted
        /\ \/ /\ x # NoRun
              /\ parked' = parked \cup {r}
              /\ entry' = [entry EXCEPT ![x] = "waiting"]
              /\ UNCHANGED pc
           \/ /\ x = NoRun
              /\ Goto(r, "saving")
              /\ UNCHANGED <<parked, entry>>
        /\ UNCHANGED <<ccVars, row, active, attached, settled, aborted, hookPending,
                       detached, stopping, stopDone, bootPending>>

(* The node stack is empty, or the loop saw the cancellation, whose own hook *)
(* then replaces the save.                                                   *)
processSuccessExecution(r) ==
    /\ pc[r] = "executing"
    /\ Goto(r, IF r \in aborted THEN "saved" ELSE "saving")
    /\ UNCHANGED <<ccVars, row, active, entry, attached, settled, parked, aborted,
                   hookPending, detached, stopping, stopDone, bootPending>>

(* hookFunctionsSave writes the status the run ended with. *)
saveRun(r) ==
    /\ pc[r] = "saving"
    /\ SetRow(IdOf[r], IF r \in parked THEN "waiting" ELSE "finished")
    /\ Goto(r, "saved")
    /\ UNCHANGED <<ccVars, active, entry, attached, settled, parked, aborted,
                   hookPending, detached, stopping, stopDone, bootPending>>

(* The hook that cancel() started writes its row. *)
saveCanceled(r) ==
    /\ r \in hookPending
    /\ SetRow(IdOf[r], "canceled")
    /\ hookPending' = hookPending \ {r}
    /\ UNCHANGED <<ccVars, pc, active, entry, attached, settled, parked, aborted,
                   detached, stopping, stopDone, bootPending>>

(* finalizeExecution settles whatever entry the execution id has by now. *)
finalizeExecution(r) ==
    LET e == IdOf[r]
    IN  /\ pc[r] = "saved"
        /\ Goto(r, "ended")
        /\ IF r \in detached \/ active[e] = NoRun
           THEN UNCHANGED <<ccVars, active, settled>>
           ELSE settle(active[e], e)
        /\ UNCHANGED <<row, entry, attached, parked, aborted, hookPending, detached,
                       stopping, stopDone, bootPending>>

(* The timer of the running workflow; it is cleared when the run resolves. *)
executionTimeout(r) ==
    /\ pc[r] \in {"executing", "saving", "saved"} /\ r \notin detached
    /\ attached[r] = r
    /\ stopExecution(IdOf[r])
    /\ UNCHANGED <<row, pc, entry, attached, parked, detached, stopping, stopDone,
                   bootPending>>

-----------------------------------------------------------------------------
(* ExecutionService.stop *)

(* The row is read and found stoppable. *)
stop(e) ==
    /\ stopping[e] = "no" /\ e \notin stopDone
    /\ row[e] \in {"new", "running", "waiting"}
    /\ stopping' = [stopping EXCEPT ![e] = "read"]
    /\ UNCHANGED <<ccVars, runVars, row, active, stopDone, bootPending>>

stopInRegularMode(e) ==
    /\ stopping[e] = "read"
    /\ stopping' = [stopping EXCEPT ![e] = "write"]
    /\ \/ /\ has(e)
          /\ \E r \in Run : IdOf[r] = e /\ grant[r] = "queued" /\ remove(QueueOf[r], e)
          /\ UNCHANGED <<active, settled, aborted, hookPending>>
       \/ /\ ~has(e)
          /\ stopExecution(e)
    /\ UNCHANGED <<pc, entry, attached, parked, detached, row, stopDone, bootPending>>

(* stopBeforeRun or stopDuringRun writes the row, whatever it is now. *)
stopWrite(e) ==
    /\ stopping[e] = "write"
    /\ SetRow(e, "canceled")
    /\ stopping' = [stopping EXCEPT ![e] = "no"]
    /\ stopDone' = stopDone \cup {e}
    /\ UNCHANGED <<ccVars, runVars, active, bootPending>>

(* ActiveExecutions.shutdown: the service is disabled, so that removeAll()   *)
(* returns at once; entries that wait are dropped.                           *)
shutdown ==
    /\ ~disabled
    /\ disable
    /\ active' = [e \in Execution |->
                     IF active[e] # NoRun /\ entry[active[e]] = "waiting"
                     THEN NoRun ELSE active[e]]
    /\ UNCHANGED <<runVars, row, stopping, stopDone, bootPending>>

-----------------------------------------------------------------------------
runStep(r) ==
    \/ reserve(r) \/ markRunning(r) \/ register(r) \/ runMainProcess(r)
    \/ processSuccessExecution(r) \/ saveRun(r) \/ saveCanceled(r) \/ finalizeExecution(r)

stopStep(e) == stopInRegularMode(e) \/ stopWrite(e)

Next ==
    \/ \E r \in Run :
          \/ create(r) \/ resume(r) \/ runEnqueuedExecution(r) \/ runStep(r)
          \/ failExecution(r) \/ runMainProcessThrows(r) \/ putExecutionToWait(r)
          \/ executionTimeout(r)
    \/ \E e \in Execution : stop(e) \/ stopStep(e)
    \/ shutdown

(* What is already under way goes on: promises continue, the database        *)
(* answers, nodes return, and startup works through the rows it found.       *)
Fairness ==
    /\ \A r \in Run : WF_vars(runStep(r)) /\ WF_vars(runEnqueuedExecution(r))
    /\ \A e \in Execution : WF_vars(stopStep(e))

Spec == Init /\ [][Next]_vars /\ Fairness

-----------------------------------------------------------------------------
(* Every variable has its type. *)
TypeOK ==
    /\ ccTypeOK
    /\ row \in [Execution -> Status]
    /\ pc \in [Run -> Pc]
    /\ active \in [Execution -> Run \cup {NoRun}]
    /\ entry \in [Run -> {"none", "running", "waiting"}]
    /\ attached \in [Run -> Run \cup {NoRun}]
    /\ settled \subseteq Run /\ parked \subseteq Run /\ aborted \subseteq Run
    /\ hookPending \subseteq Run /\ detached \subseteq Run
    /\ stopping \in [Execution -> {"no", "read", "write"}]
    /\ stopDone \subseteq Execution /\ bootPending \subseteq Execution

(* The conditional update of add() lets one of several resumes through: two  *)
(* runs of an execution never execute at the same time, not even when        *)
(* resumes, stops and timeouts race.                                         *)
OneRunExecutes ==
    \A r, s \in Run :
        IdOf[r] = IdOf[s] /\ pc[r] = "executing" /\ pc[s] = "executing" => r = s

(* The slot of r will be given back: r is still on its way to                *)
(* ActiveExecutions, or is the run whose entry is there, unsettled, and that *)
(* has not been stranded before its workflow started.                        *)
WillRelease(r) ==
    \/ pc[r] \in {"reserving", "marked"}
    \/ active[IdOf[r]] = r /\ r \notin settled /\ pc[r] # "stranded"

(* The slot of r is lost: r was stranded before its workflow started, or its *)
(* entry was marked waiting before its promise settled and is gone since.    *)
Lost(r) ==
    /\ grant[r] = "granted" /\ ~WillRelease(r)
    /\ pc[r] = "stranded" \/ entry[r] = "waiting"

(* Slots are lost in those two ways only.  Whoever else holds a slot will    *)
(* give it back, whatever stops, timeouts, failing writes and rejected       *)
(* resumes have happened.                                                    *)
SlotHasOwner == \A r \in Run : grant[r] = "granted" => WillRelease(r) \/ Lost(r)

(* The runs never wait for each other in vain: while a run is throttled, one *)
(* that will give its slot of the same queue back holds it, unless the queue *)
(* has lost a slot.                                                          *)
ThrottledRunHasHolder ==
    ~disabled =>
        \A r \in Run : grant[r] = "queued" =>
            \E s \in Run :
                /\ QueueOf[s] = QueueOf[r] /\ grant[s] = "granted"
                /\ WillRelease(s) \/ Lost(s)

(* No run is throttled for ever: through stops, timeouts, waits and failed   *)
(* resumes it is admitted or evicted in the end, unless the process shuts    *)
(* down or its queue has lost a slot.                                        *)
ThrottledRunProceeds ==
    \A r \in Run :
        []<>(grant[r] # "queued" \/ disabled \/ \E s \in Run : QueueOf[s] = QueueOf[r] /\ Lost(s))
=============================================================================
