---------------------- MODULE ExecutionLifecycleProofs ----------------------
(***************************************************************************)
(* For any runs, executions and limits: the executions of a main process   *)
(* are well-behaved callers of ConcurrencyControl, so that what is proved  *)
(* of the service holds in their composition; an execution is executed by  *)
(* one run at a time; and a slot is lost only by a run that was stranded   *)
(* or whose entry was marked waiting.                                      *)
(***************************************************************************)
EXTENDS ExecutionLifecycle, ConcurrencyControlProofs

LEMMA RunFacts ==
    /\ NoRun \notin Run
    /\ \A r \in Run : r \in Caller /\ IdOf[r] \in Execution
    /\ FirstRun \subseteq Run
    /\ \A r, s \in FirstRun : IdOf[r] = IdOf[s] => r = s
BY RunAssumption DEF RunAssumption, Run, Execution

-----------------------------------------------------------------------------
(* Type correctness, and the steps of the composed service. *)

LEMMA lcTypeInit == Init => TypeOK
BY TypeInit, RunFacts DEF Init, TypeOK, Status, Pc

(* finally() of add(): a release, or nothing for a promise settled before. *)
LEMMA SettleStep ==
    ASSUME TypeOK, NEW x \in Run, NEW e \in Execution, settle(x, e)
    PROVE  /\ [ccNext]_ccVars
           /\ settled' \subseteq Run
           /\ active' \in [Execution -> Run \cup {NoRun}]
<1>1. CASE x \in settled /\ UNCHANGED <<ccVars, settled, active>>
  BY <1>1 DEF TypeOK
<1>2. CASE settled' = settled \cup {x} /\ release(x) /\
           active' = IF entry[x] = "waiting" THEN active ELSE [active EXCEPT ![e] = NoRun]
  BY <1>2, RunFacts DEF TypeOK, ccNext
<1>3. QED
  BY <1>1, <1>2 DEF settle

LEMMA StopExecutionStep ==
    ASSUME TypeOK, NEW e \in Execution, stopExecution(e)
    PROVE  /\ [ccNext]_ccVars
           /\ settled' \subseteq Run /\ aborted' \subseteq Run /\ hookPending' \subseteq Run
           /\ active' \in [Execution -> Run \cup {NoRun}]
<1> DEFINE x == active[e]
           a == attached[x]
<1>1. CASE x = NoRun \/ entry[x] = "waiting"
  BY <1>1 DEF stopExecution, TypeOK
<1>2. CASE x # NoRun /\ entry[x] # "waiting"
  <2>1. x \in Run /\ a \in Run \cup {NoRun}
    BY <1>2 DEF TypeOK
  <2>2. settle(x, e)
    BY <1>2 DEF stopExecution
  <2>3. /\ aborted' = aborted \/ (a # NoRun /\ aborted' = aborted \cup {a})
        /\ hookPending' = hookPending \/ (a # NoRun /\ hookPending' = hookPending \cup {a})
    BY <1>2 DEF stopExecution
  <2>4. aborted' \subseteq Run /\ hookPending' \subseteq Run
    BY <2>1, <2>3 DEF TypeOK
  <2>5. QED
    BY <2>1, <2>2, <2>4, SettleStep
<1>3. QED
  BY <1>1, <1>2

LEMMA lcTypeStep ==
    ASSUME TypeOK, [Next]_vars PROVE [ccNext]_ccVars /\ TypeOK'
<1> USE RunFacts
<1>1. CASE UNCHANGED vars
  BY <1>1 DEF vars, runVars, ccVars, TypeOK, ccTypeOK
<1>2. ASSUME [ccNext]_ccVars PROVE ccTypeOK'
  BY <1>2, TypeStep DEF TypeOK
<1>3. ASSUME UNCHANGED ccVars PROVE [ccNext]_ccVars /\ ccTypeOK'
  BY <1>2, <1>3
<1>4. ASSUME NEW r \in Run,
             \/ create(r) \/ resume(r) \/ runEnqueuedExecution(r) \/ failExecution(r)
             \/ runMainProcessThrows(r) \/ saveRun(r) \/ saveCanceled(r) \/ processSuccessExecution(r)
      PROVE  [ccNext]_ccVars /\ TypeOK'
  <2>1. UNCHANGED <<ccVars, active, entry, attached, settled, parked, aborted, detached,
                    stopping, stopDone>>
    BY <1>4
       DEF create, resume, runEnqueuedExecution, failExecution, runMainProcessThrows, saveRun, saveCanceled,
           processSuccessExecution
  <2>2. /\ row' \in [Execution -> Status]
        /\ hookPending' \subseteq Run /\ bootPending' \subseteq Execution
    BY <1>4
       DEF create, resume, runEnqueuedExecution, failExecution, runMainProcessThrows, saveRun, saveCanceled,
           processSuccessExecution, SetRow, TypeOK, Status
  <2>3. pc' \in [Run -> Pc]
    BY <1>4
       DEF create, resume, runEnqueuedExecution, failExecution, runMainProcessThrows, saveRun, saveCanceled,
           processSuccessExecution, Goto, TypeOK, Pc
  <2>4. QED
    BY <1>3, <2>1, <2>2, <2>3 DEF TypeOK
<1>5. ASSUME NEW r \in Run, reserve(r) PROVE [ccNext]_ccVars /\ TypeOK'
  <2>1. [ccNext]_ccVars
    BY <1>5 DEF reserve, ccNext
  <2>2. QED
    BY <1>2, <1>5, <2>1 DEF reserve, Goto, TypeOK, Pc
<1>6. ASSUME NEW r \in Run, markRunning(r) PROVE [ccNext]_ccVars /\ TypeOK'
  <2>1. [ccNext]_ccVars
    BY <1>6 DEF markRunning, ccNext
  <2>2. row' \in [Execution -> Status] /\ pc' \in [Run -> Pc]
    BY <1>6 DEF markRunning, SetRow, Goto, TypeOK, Status, Pc
  <2>3. QED
    BY <1>2, <1>6, <2>1, <2>2 DEF markRunning, TypeOK
<1>7. ASSUME NEW r \in Run, register(r) PROVE [ccNext]_ccVars /\ TypeOK'
  BY <1>3, <1>7 DEF register, Goto, TypeOK, Pc
<1>8. ASSUME NEW r \in Run, runMainProcess(r) PROVE [ccNext]_ccVars /\ TypeOK'
  <2>1. attached' \in [Run -> Run \cup {NoRun}] /\ detached' \subseteq Run
    BY <1>8 DEF runMainProcess, TypeOK
  <2>2. row' \in [Execution -> Status] /\ pc' \in [Run -> Pc]
    BY <1>8 DEF runMainProcess, SetRow, Goto, TypeOK, Status, Pc
  <2>3. QED
    BY <1>3, <1>8, <2>1, <2>2 DEF runMainProcess, TypeOK
<1>9. ASSUME NEW r \in Run, putExecutionToWait(r) PROVE [ccNext]_ccVars /\ TypeOK'
  <2>1. /\ parked' \subseteq Run /\ pc' \in [Run -> Pc]
        /\ entry' \in [Run -> {"none", "running", "waiting"}]
    BY <1>9 DEF putExecutionToWait, Goto, TypeOK, Pc
  <2>2. QED
    BY <1>3, <1>9, <2>1 DEF putExecutionToWait, TypeOK
<1>10. ASSUME NEW r \in Run, finalizeExecution(r) PROVE [ccNext]_ccVars /\ TypeOK'
  <2>1. /\ [ccNext]_ccVars /\ settled' \subseteq Run
        /\ active' \in [Execution -> Run \cup {NoRun}]
    <3>1. CASE r \in detached \/ active[IdOf[r]] = NoRun
      BY <1>10, <3>1 DEF finalizeExecution, TypeOK
    <3>2. CASE ~(r \in detached \/ active[IdOf[r]] = NoRun)
      <4>1. active[IdOf[r]] \in Run /\ settle(active[IdOf[r]], IdOf[r])
        BY <1>10, <3>2 DEF finalizeExecution, TypeOK
      <4>2. QED
        BY <4>1, SettleStep
    <3>3. QED
      BY <3>1, <3>2
  <2>2. QED
    BY <1>2, <1>10, <2>1 DEF finalizeExecution, Goto, TypeOK, Pc
<1>11. ASSUME NEW r \in Run, executionTimeout(r) PROVE [ccNext]_ccVars /\ TypeOK'
  <2>1. stopExecution(IdOf[r])
    BY <1>11 DEF executionTimeout
  <2>2. QED
    BY <1>2, <1>11, <2>1, StopExecutionStep DEF executionTimeout, TypeOK
<1>12. ASSUME NEW e \in Execution, stop(e) PROVE [ccNext]_ccVars /\ TypeOK'
  BY <1>3, <1>12 DEF stop, runVars, TypeOK
<1>13. ASSUME NEW e \in Execution, stopInRegularMode(e) PROVE [ccNext]_ccVars /\ TypeOK'
  <2>1. /\ [ccNext]_ccVars
        /\ settled' \subseteq Run /\ aborted' \subseteq Run /\ hookPending' \subseteq Run
        /\ active' \in [Execution -> Run \cup {NoRun}]
    <3>1. CASE stopExecution(e)
      BY <3>1, StopExecutionStep
    <3>2. CASE /\ \E r \in Run : IdOf[r] = e /\ grant[r] = "queued" /\ remove(QueueOf[r], e)
               /\ UNCHANGED <<active, settled, aborted, hookPending>>
      BY <3>2 DEF ccNext, TypeOK
    <3>3. QED
      BY <1>13, <3>1, <3>2 DEF stopInRegularMode
  <2>2. QED
    BY <1>2, <1>13, <2>1 DEF stopInRegularMode, TypeOK
<1>14. ASSUME NEW e \in Execution, stopWrite(e) PROVE [ccNext]_ccVars /\ TypeOK'
  BY <1>3, <1>14 DEF stopWrite, SetRow, runVars, TypeOK, Status
<1>15. CASE shutdown
  <2>1. [ccNext]_ccVars
    BY <1>15 DEF shutdown, ccNext
  <2>2. QED
    BY <1>2, <1>15, <2>1 DEF shutdown, runVars, TypeOK
<1>16. QED
  BY <1>1, <1>4, <1>5, <1>6, <1>7, <1>8, <1>9, <1>10, <1>11, <1>12, <1>13, <1>14, <1>15
     DEF Next, runStep, stopStep

(* Every variable has its type. *)
THEOREM LifecycleTypeCorrect == Spec => []TypeOK
BY lcTypeInit, lcTypeStep, PTL DEF Spec

(* The main process uses the service as it is meant to be used: each of its  *)
(* steps is one call of the service, or none.                                *)
THEOREM LifecycleUsesService == Spec => ccSpec
<1>1. Init => ccInit
  BY DEF Init
<1>2. QED
  BY <1>1, lcTypeStep, LifecycleTypeCorrect, PTL DEF Spec, ccSpec

(* So no slot is lost or invented by runs that are stopped, time out, wait   *)
(* or fail to resume, no run is dropped from the queue, and the limit is     *)
(* exceeded by no more than the runs that were stopped while they waited.    *)
THEOREM LifecycleSlotsAccountedFor ==
    Spec => /\ []CapacityAccounted /\ []NoIdleSlot /\ []PendingIsQueued
            /\ []HoldersWithinLimit
BY LifecycleUsesService, SlotsAccountedFor, NoSlotIdles, NobodyIsForgotten, LimitRespected, PTL

-----------------------------------------------------------------------------
(* One run at a time.  A run is let through by the row: add() marks a        *)
(* waiting row running for one of its resumes, and a first run is the only   *)
(* one there is.                                                             *)

Early == {"idle", "created", "reserving"}
InFlight == {"marked", "registered", "executing", "saving"}

(* At most one run of an execution is in flight, and none while its row      *)
(* waits or its first run has not been let through.                          *)
Exclusive ==
    /\ \A r, s \in Run : IdOf[r] = IdOf[s] /\ pc[r] \in InFlight /\ pc[s] \in InFlight => r = s
    /\ \A r \in Run : pc[r] \in InFlight => row[IdOf[r]] # "waiting"
    /\ \A f \in FirstRun : pc[f] \in Early =>
           /\ row[IdOf[f]] # "waiting"
           /\ \A s \in Run : IdOf[s] = IdOf[f] => pc[s] \notin InFlight

(* What a step does to the position of runs and to rows. *)
Waits == pc' = pc /\ \A e \in Execution : row'[e] \in {row[e], "canceled"}

Approaches(r) ==
    /\ pc[r] \in Early
    /\ \E l \in {"created", "reserving", "rejected"} : pc' = [pc EXCEPT ![r] = l]
    /\ \A e \in Execution : row'[e] \in {row[e], "new"}

Passes(r) ==
    /\ pc[r] = "reserving" /\ MayMark(r)
    /\ pc' = [pc EXCEPT ![r] = "marked"]
    /\ row' = [row EXCEPT ![IdOf[r]] = "running"]

Proceeds(r) ==
    /\ pc[r] \in InFlight
    /\ \E l \in InFlight \ {"marked"} : pc' = [pc EXCEPT ![r] = l]
    /\ \A e \in Execution : row'[e] \in {row[e], "running"}

Leaves(r) ==
    /\ pc[r] \in {"registered", "executing", "saving", "saved"}
    /\ \E l \in {"saved", "ended", "stranded"} : pc' = [pc EXCEPT ![r] = l]
    /\ \A e \in Execution : row'[e] # row[e] => e = IdOf[r] /\ pc[r] = "saving"

LEMMA StepKinds ==
    ASSUME TypeOK, [Next]_vars
    PROVE  Waits \/ \E r \in Run : Approaches(r) \/ Passes(r) \/ Proceeds(r) \/ Leaves(r)
<1> USE RunFacts DEF SetRow, Goto, runVars
<1>1. /\ row \in [Execution -> Status] /\ pc \in [Run -> Pc]
  BY DEF TypeOK
<1>2. CASE UNCHANGED vars
  BY <1>2 DEF vars, Waits
<1>3. ASSUME NEW r \in Run, create(r) \/ resume(r) \/ runEnqueuedExecution(r) \/ reserve(r)
      PROVE  Approaches(r)
  BY <1>1, <1>3 DEF create, resume, runEnqueuedExecution, reserve, Approaches, Early
<1>4. ASSUME NEW r \in Run, markRunning(r) PROVE Approaches(r) \/ Passes(r)
  BY <1>1, <1>4 DEF markRunning, Approaches, Passes, Early
<1>5. ASSUME NEW r \in Run, register(r) \/ failExecution(r) \/ runMainProcess(r) PROVE Proceeds(r)
  BY <1>1, <1>5 DEF register, failExecution, runMainProcess, Proceeds, InFlight
<1>6. ASSUME NEW r \in Run, putExecutionToWait(r) PROVE Waits \/ Proceeds(r)
  BY <1>1, <1>6 DEF putExecutionToWait, Waits, Proceeds, InFlight
<1>7. ASSUME NEW r \in Run, processSuccessExecution(r) PROVE Proceeds(r) \/ Leaves(r)
  BY <1>1, <1>7 DEF processSuccessExecution, Proceeds, Leaves, InFlight
<1>8. ASSUME NEW r \in Run, saveRun(r) \/ finalizeExecution(r) \/ runMainProcessThrows(r)
      PROVE  Leaves(r)
  BY <1>1, <1>8 DEF saveRun, finalizeExecution, runMainProcessThrows, Leaves
<1>9. ASSUME NEW r \in Run, saveCanceled(r) \/ executionTimeout(r) PROVE Waits
  BY <1>1, <1>9 DEF saveCanceled, executionTimeout, Waits
<1>10. ASSUME NEW e \in Execution, stop(e) \/ stopStep(e) PROVE Waits
  BY <1>1, <1>10 DEF stop, stopStep, stopInRegularMode, stopWrite, Waits
<1>11. CASE shutdown
  BY <1>1, <1>11 DEF shutdown, Waits
<1>12. QED
  BY <1>2, <1>3, <1>4, <1>5, <1>6, <1>7, <1>8, <1>9, <1>10, <1>11 DEF Next, runStep

LEMMA ExclusiveStep ==
    ASSUME TypeOK, [Next]_vars, Exclusive
    PROVE  Exclusive'
<1> USE RunFacts
<1>1. /\ row \in [Execution -> Status] /\ pc \in [Run -> Pc]
      /\ Early \cap InFlight = {} /\ {"created", "rejected"} \cap InFlight = {}
  BY DEF TypeOK, InFlight, Early
<1>2. CASE Waits
  BY <1>1, <1>2 DEF Waits, Exclusive
<1>3. ASSUME NEW r \in Run, Approaches(r) PROVE Exclusive'
  <2>1. /\ \A s \in Run : s # r => pc'[s] = pc[s]
        /\ pc'[r] \notin InFlight /\ pc[r] \in Early
        /\ \A e \in Execution : row'[e] \in {row[e], "new"}
    BY <1>1, <1>3 DEF Approaches, Early, InFlight
  <2>2. QED
    BY <1>1, <2>1 DEF Exclusive
<1>4. ASSUME NEW r \in Run, Passes(r) PROVE Exclusive'
  <2>1. /\ \A s \in Run : s # r => pc'[s] = pc[s]
        /\ pc'[r] = "marked" /\ "marked" \in InFlight /\ "marked" \notin Early
        /\ \A e \in Execution : row'[e] \in {row[e], "running"}
        /\ row'[IdOf[r]] = "running"
    BY <1>1, <1>4 DEF Passes, InFlight, Early
  <2>2. \A s \in Run : IdOf[s] = IdOf[r] => pc[s] \notin InFlight
    BY <1>4 DEF Passes, MayMark, Exclusive, Early
  <2>3. ASSUME NEW f \in FirstRun, pc'[f] \in Early PROVE IdOf[f] # IdOf[r]
    BY <1>4, <2>1, <2>3 DEF Passes, MayMark, Exclusive
  <2>4. QED
    BY <1>1, <2>1, <2>2, <2>3 DEF Exclusive
<1>5. ASSUME NEW r \in Run, Proceeds(r) PROVE Exclusive'
  <2>1. /\ \A s \in Run : s # r => pc'[s] = pc[s]
        /\ pc[r] \in InFlight /\ pc'[r] \in InFlight /\ pc'[r] \notin Early
        /\ \A e \in Execution : row'[e] \in {row[e], "running"}
    BY <1>1, <1>5 DEF Proceeds, InFlight, Early
  <2>2. QED
    BY <1>1, <2>1 DEF Exclusive
<1>6. ASSUME NEW r \in Run, Leaves(r) PROVE Exclusive'
  <2>1. /\ \A s \in Run : s # r => pc'[s] = pc[s]
        /\ pc'[r] \notin InFlight /\ pc'[r] \notin Early
        /\ \A e \in Execution : row'[e] # row[e] => e = IdOf[r] /\ pc[r] \in InFlight
    BY <1>1, <1>6 DEF Leaves, Early, InFlight
  <2>2. QED
    BY <1>1, <2>1 DEF Exclusive
<1>7. QED
  BY <1>2, <1>3, <1>4, <1>5, <1>6, StepKinds

LEMMA ExclusiveInit == Init => Exclusive
BY RunFacts DEF Init, Exclusive, InFlight

(* Two runs of an execution never execute at the same time, however many      *)
(* resumes, stops and timeouts race.                                         *)
THEOREM RunsExecuteAlone == Spec => []OneRunExecutes
<1>1. Exclusive => OneRunExecutes
  BY DEF Exclusive, InFlight, OneRunExecutes
<1>2. QED
  BY <1>1, ExclusiveInit, ExclusiveStep, LifecycleTypeCorrect, PTL DEF Spec

-----------------------------------------------------------------------------
(* The owner of a slot.  A run loses its slot to nobody but itself: the entry *)
(* of a run is replaced by that of another run only once it has been marked   *)
(* waiting, because the row waits only then.                                  *)

Registered == {"registered", "executing", "saving", "saved", "ended", "stranded"}

(* Entries, settled promises and runs that wait are of runs that have been    *)
(* registered; who is in a queue of the service is in add(); and the first    *)
(* run of an execution is let through before any other.                       *)
Placed ==
    /\ \A r \in Run : grant[r] = "queued" => pc[r] = "reserving"
    /\ \A e \in Execution : active[e] # NoRun =>
           IdOf[active[e]] = e /\ pc[active[e]] \in Registered
    /\ \A r \in Run : r \in settled => pc[r] \in Registered
    /\ \A r \in Run : r \in parked => pc[r] \in {"executing", "saving", "saved", "ended"}
    /\ \A f \in FirstRun : pc[f] \in Early =>
           \A s \in Run : IdOf[s] = IdOf[f] => pc[s] \notin Registered

(* While the entry of e is not marked waiting, no other run of e is about to  *)
(* replace it, and no run of e is about to make its row wait.                 *)
Undisturbed ==
    \A e \in Execution : active[e] # NoRun /\ entry[active[e]] # "waiting" =>
        /\ row[e] # "waiting"
        /\ \A r \in Run : IdOf[r] = e =>
               pc[r] # "marked" /\ (r \in parked => pc[r] \notin {"executing", "saving"})

Owned ==
    \A r \in Run : grant[r] = "granted" =>
        \/ pc[r] \in {"reserving", "marked"}
        \/ active[IdOf[r]] = r /\ r \notin settled
        \/ entry[r] = "waiting"

OwnerInv == Placed /\ Undisturbed /\ Owned

(* Nothing but rows and the position of one run changes. *)
Moves(r) ==
    /\ UNCHANGED <<grant, active, settled, entry, parked>>
    /\ \A s \in Run : s # r => pc'[s] = pc[s]

LEMMA OwnerMoves ==
    ASSUME TypeOK, OwnerInv, NEW r \in Run, Moves(r),
           \/ pc'[r] = pc[r]
           \/ pc[r] = "idle" /\ pc'[r] = "created"
           \/ pc[r] \in Registered /\ pc'[r] \in Registered \ {"registered", "executing"}
              /\ (r \in parked => pc'[r] # "stranded")
              /\ (r \in parked /\ pc'[r] = "saving" => pc[r] = "executing")
           \/ pc[r] = "registered" /\ pc'[r] = "executing",
           \A e \in Execution : row'[e] = "waiting" =>
               row[e] = "waiting" \/ (e = IdOf[r] /\ r \in parked /\ pc[r] = "saving")
    PROVE  OwnerInv'
<1> USE RunFacts
<1>1. ASSUME NEW s \in Run
      PROVE  /\ pc'[s] \in Registered <=> pc[s] \in Registered
             /\ pc'[s] = "marked" <=> pc[s] = "marked"
             /\ pc'[s] = "reserving" <=> pc[s] = "reserving"
             /\ pc'[s] \in Early <=> pc[s] \in Early
  BY DEF Moves, Registered, Early
<1>2. ASSUME NEW s \in Run, s \in parked
      PROVE  /\ pc'[s] \in {"executing", "saving", "saved", "ended"}
             /\ pc'[s] \in {"executing", "saving"} => pc[s] \in {"executing", "saving"}
  BY <1>2 DEF Moves, OwnerInv, Placed, Registered
<1>3. Placed'
  BY <1>1, <1>2 DEF OwnerInv, Placed, Moves, TypeOK
<1>4. Undisturbed'
  <2> SUFFICES ASSUME NEW e \in Execution, active[e] # NoRun, entry[active[e]] # "waiting"
               PROVE  /\ row'[e] # "waiting"
                      /\ \A s \in Run : IdOf[s] = e =>
                             pc'[s] # "marked" /\ (s \in parked => pc'[s] \notin {"executing", "saving"})
    BY DEF Undisturbed, Moves
  <2>1. /\ row[e] # "waiting"
        /\ \A s \in Run : IdOf[s] = e =>
               pc[s] # "marked" /\ (s \in parked => pc[s] \notin {"executing", "saving"})
    BY DEF OwnerInv, Undisturbed
  <2>2. QED
    BY <1>1, <1>2, <2>1
<1>5. Owned'
  BY <1>1 DEF OwnerInv, Owned, Moves
<1>6. QED
  BY <1>3, <1>4, <1>5 DEF OwnerInv

(* A release or a removal admits somebody who waits in add(), and a rejected  *)
(* run leaves it.                                                             *)
LEMMA OwnerAdmits ==
    ASSUME TypeOK, OwnerInv, UNCHANGED <<row, active, settled, entry, parked>>,
           \A r \in Run : \/ pc'[r] = pc[r]
                          \/ pc[r] = "reserving" /\ pc'[r] = "rejected" /\ grant'[r] = "released",
           \A r \in Run : \/ grant'[r] = grant[r]
                          \/ grant[r] = "queued" /\ grant'[r] \in {"granted", "evicted"}
                          \/ grant'[r] = "released"
    PROVE  OwnerInv'
<1>1. ASSUME NEW s \in Run
      PROVE  /\ pc'[s] \in Registered <=> pc[s] \in Registered
             /\ pc'[s] = "marked" <=> pc[s] = "marked"
             /\ pc'[s] \in Early => pc[s] \in Early
  BY DEF Registered, Early
<1>2. Placed'
  BY <1>1, RunFacts DEF OwnerInv, Placed, TypeOK
<1>3. Undisturbed'
  BY <1>1, RunFacts DEF OwnerInv, Undisturbed, Placed
<1>4. Owned'
  BY DEF OwnerInv, Owned, Placed
<1>5. QED
  BY <1>2, <1>3, <1>4 DEF OwnerInv

(* Entries are dropped: of a run that has given its slot back, or that was    *)
(* marked waiting.                                                            *)
LEMMA OwnerDrops ==
    ASSUME TypeOK, OwnerInv, UNCHANGED <<row, entry, parked>>,
           \A r \in Run : pc'[r] = pc[r] \/ (pc[r] = "saved" /\ pc'[r] = "ended"),
           \A r \in Run : \/ grant'[r] = grant[r]
                          \/ grant[r] = "queued" /\ grant'[r] = "granted"
                          \/ grant'[r] = "released",
           \A e \in Execution :
               \/ active'[e] = active[e]
               \/ /\ active'[e] = NoRun
                  /\ grant'[active[e]] = "released" \/ entry[active[e]] = "waiting",
           \A r \in Run : r \in settled' =>
               r \in settled \/ (grant'[r] = "released" /\ pc[r] \in Registered)
    PROVE  OwnerInv'
<1> USE RunFacts
<1>1. ASSUME NEW s \in Run
      PROVE  /\ pc'[s] \in Registered <=> pc[s] \in Registered
             /\ pc'[s] = "marked" <=> pc[s] = "marked"
             /\ pc'[s] = "reserving" <=> pc[s] = "reserving"
             /\ pc'[s] \in Early <=> pc[s] \in Early
  BY DEF Registered, Early
<1>2. Placed'
  BY <1>1 DEF OwnerInv, Placed, TypeOK
<1>3. Undisturbed'
  BY <1>1 DEF OwnerInv, Undisturbed
<1>4. Owned'
  <2> SUFFICES ASSUME NEW r \in Run, grant'[r] = "granted"
               PROVE  \/ pc'[r] \in {"reserving", "marked"}
                      \/ active'[IdOf[r]] = r /\ r \notin settled'
                      \/ entry[r] = "waiting"
    BY DEF Owned
  <2>1. CASE grant[r] = "queued"
    BY <1>1, <2>1 DEF OwnerInv, Placed
  <2>2. CASE grant[r] = "granted"
    BY <1>1, <2>2 DEF OwnerInv, Owned
  <2>3. QED
    BY <2>1, <2>2
<1>5. QED
  BY <1>2, <1>3, <1>4 DEF OwnerInv

(* finally() of add() gives the slot of the entry back.                      *)
LEMMA OwnerSettles ==
    ASSUME TypeOK, Inv, OwnerInv, NEW e \in Execution,
           active[e] # NoRun, settle(active[e], e), UNCHANGED <<row, entry, parked>>,
           \A r \in Run : pc'[r] = pc[r] \/ (pc[r] = "saved" /\ pc'[r] = "ended")
    PROVE  OwnerInv'
<1> DEFINE x == active[e]
<1>1. x \in Run /\ x \in Caller /\ pc[x] \in Registered
  BY RunFacts DEF TypeOK, OwnerInv, Placed
<1>2. CASE UNCHANGED <<ccVars, settled, active>>
  <2>1. grant' = grant
    BY <1>2 DEF ccVars
  <2>2. QED
    BY <1>2, <2>1, OwnerDrops
<1>3. CASE /\ settled' = settled \cup {x} /\ release(x)
           /\ active' = IF entry[x] = "waiting" THEN active ELSE [active EXCEPT ![e] = NoRun]
  <2>1. /\ grant'[x] = "released"
        /\ \A d \in Run : d # x =>
               grant'[d] = grant[d] \/ (grant[d] = "queued" /\ grant'[d] = "granted")
    BY <1>1, <1>3, ReleaseGrants DEF Run
  <2>2. \A d \in Execution : active'[d] = active[d] \/ (d = e /\ active'[d] = NoRun)
    BY <1>3 DEF TypeOK
  <2>3. \A r \in Run : r \in settled' =>
            r \in settled \/ (grant'[r] = "released" /\ pc[r] \in Registered)
    BY <1>1, <1>3, <2>1
  <2>4. QED
    BY <2>1, <2>2, <2>3, OwnerDrops
<1>4. QED
  BY <1>2, <1>3 DEF settle

LEMMA OwnerStopExecution ==
    ASSUME TypeOK, Inv, OwnerInv, NEW e \in Execution, stopExecution(e),
           UNCHANGED <<row, entry, parked, pc>>
    PROVE  OwnerInv'
<1>1. CASE UNCHANGED <<ccVars, active, settled>>
  <2>1. grant' = grant
    BY <1>1 DEF ccVars
  <2>2. QED
    BY <1>1, <2>1, OwnerDrops
<1>2. CASE /\ active[e] # NoRun /\ entry[active[e]] = "waiting"
           /\ active' = [active EXCEPT ![e] = NoRun] /\ UNCHANGED <<ccVars, settled>>
  <2>1. grant' = grant /\ \A d \in Execution : active'[d] = active[d] \/ (d = e /\ active'[d] = NoRun)
    BY <1>2 DEF ccVars, TypeOK
  <2>2. QED
    BY <1>2, <2>1, OwnerDrops
<1>3. CASE active[e] # NoRun /\ settle(active[e], e)
  BY <1>3, OwnerSettles
<1>4. QED
  BY <1>1, <1>2, <1>3 DEF stopExecution

LEMMA OwnerStep ==
    ASSUME TypeOK, Inv, Exclusive, OwnerInv, [Next]_vars
    PROVE  OwnerInv'
<1> USE RunFacts DEF SetRow, Goto, runVars
<1>1. /\ pc \in [Run -> Pc] /\ grant \in [Run -> Grant] /\ row \in [Execution -> Status]
      /\ active \in [Execution -> Run \cup {NoRun}]
      /\ entry \in [Run -> {"none", "running", "waiting"}]
  BY DEF TypeOK, ccTypeOK, Run
<1>2. CASE UNCHANGED vars
  BY <1>2, OwnerDrops DEF vars, ccVars
<1>3. ASSUME NEW r \in Run, create(r) \/ resume(r) \/ runEnqueuedExecution(r) PROVE OwnerInv'
  <2>1. Moves(r) /\ pc[r] = "idle" /\ pc'[r] = "created"
    BY <1>1, <1>3 DEF create, resume, runEnqueuedExecution, ccVars, Moves
  <2>2. \A e \in Execution : row'[e] = "waiting" => row[e] = "waiting"
    BY <1>1, <1>3 DEF create, resume, runEnqueuedExecution
  <2>3. QED
    BY <2>1, <2>2, OwnerMoves
<1>4. ASSUME NEW r \in Run, runMainProcess(r) PROVE OwnerInv'
  <2>1. /\ Moves(r) /\ pc[r] = "registered" /\ pc'[r] = "executing"
        /\ \A e \in Execution : row'[e] = "waiting" => row[e] = "waiting"
    BY <1>1, <1>4 DEF runMainProcess, ccVars, Moves
  <2>2. QED
    BY <2>1, OwnerMoves
<1>5. ASSUME NEW r \in Run, failExecution(r) \/ runMainProcessThrows(r) PROVE OwnerInv'
  <2>1. /\ Moves(r) /\ pc[r] = "registered" /\ pc'[r] \in {"saving", "stranded"} /\ row' = row
    BY <1>1, <1>5 DEF failExecution, runMainProcessThrows, ccVars, Moves
  <2>2. r \notin parked
    BY <2>1 DEF OwnerInv, Placed
  <2>3. QED
    BY <2>1, <2>2, OwnerMoves DEF Registered
<1>6. ASSUME NEW r \in Run, processSuccessExecution(r) PROVE OwnerInv'
  <2>1. Moves(r) /\ pc[r] = "executing" /\ pc'[r] \in {"saving", "saved"} /\ row' = row
    BY <1>1, <1>6 DEF processSuccessExecution, ccVars, Moves
  <2>2. QED
    BY <2>1, OwnerMoves DEF Registered
<1>7. ASSUME NEW r \in Run, saveRun(r) PROVE OwnerInv'
  <2>1. /\ Moves(r) /\ pc[r] = "saving" /\ pc'[r] = "saved"
        /\ \A e \in Execution : row'[e] = "waiting" =>
               row[e] = "waiting" \/ (e = IdOf[r] /\ r \in parked)
    BY <1>1, <1>7 DEF saveRun, ccVars, Moves
  <2>2. QED
    BY <2>1, OwnerMoves DEF Registered
<1>8. ASSUME NEW r \in Run, saveCanceled(r) PROVE OwnerInv'
  <2>1. /\ Moves(r) /\ pc'[r] = pc[r]
        /\ \A e \in Execution : row'[e] = "waiting" => row[e] = "waiting"
    BY <1>1, <1>8 DEF saveCanceled, ccVars, Moves
  <2>2. QED
    BY <2>1, OwnerMoves
<1>9. ASSUME NEW e \in Execution, stop(e) \/ stopWrite(e) PROVE OwnerInv'
  <2>1. PICK r \in Run : TRUE
    BY <1>9 DEF Execution
  <2>2. /\ Moves(r) /\ pc'[r] = pc[r]
        /\ \A d \in Execution : row'[d] = "waiting" => row[d] = "waiting"
    BY <1>1, <1>9 DEF stop, stopWrite, ccVars, Moves
  <2>3. QED
    BY <2>2, OwnerMoves
<1>10. ASSUME NEW r \in Run, putExecutionToWait(r) PROVE OwnerInv'
  <2> DEFINE x == active[IdOf[r]]
  <2>1. CASE x = NoRun
    <3>1. Moves(r) /\ pc[r] = "executing" /\ pc'[r] = "saving" /\ row' = row
      BY <1>1, <1>10, <2>1 DEF putExecutionToWait, ccVars, Moves
    <3>2. QED
      BY <3>1, OwnerMoves DEF Registered
  <2>2. CASE x # NoRun
    <3>1. /\ pc[r] = "executing" /\ UNCHANGED <<grant, pc, row, active, settled>>
          /\ parked' = parked \cup {r} /\ entry'[x] = "waiting" /\ x \in Run
          /\ \A s \in Run : entry'[s] = entry[s] \/ entry'[s] = "waiting"
      BY <1>1, <1>10, <2>2 DEF putExecutionToWait, ccVars
    <3>2. Placed' /\ Owned'
      BY <1>1, <3>1 DEF OwnerInv, Placed, Owned
    <3>3. Undisturbed'
      <4> SUFFICES ASSUME NEW e \in Execution, active[e] # NoRun, entry'[active[e]] # "waiting"
                   PROVE  /\ row[e] # "waiting"
                          /\ \A s \in Run : IdOf[s] = e =>
                                 /\ pc[s] # "marked"
                                 /\ s \in parked' => pc[s] \notin {"executing", "saving"}
        BY <3>1 DEF Undisturbed
      <4>1. e # IdOf[r] /\ entry[active[e]] # "waiting"
        BY <1>1, <3>1
      <4>2. QED
        BY <3>1, <4>1 DEF OwnerInv, Undisturbed
    <3>4. QED
      BY <3>2, <3>3 DEF OwnerInv
  <2>3. QED
    BY <2>1, <2>2
<1>11. CASE shutdown
  <2>1. /\ UNCHANGED <<grant, pc, row, settled, entry, parked>>
        /\ \A e \in Execution :
               \/ active'[e] = active[e]
               \/ active'[e] = NoRun /\ entry[active[e]] = "waiting"
    BY <1>1, <1>11 DEF shutdown, disable
  <2>2. QED
    BY <2>1, OwnerDrops
<1>12. ASSUME NEW r \in Run, reserve(r) PROVE OwnerInv'
  <2>1. /\ grant'[r] \in {"queued", "granted"} /\ pc[r] = "created" /\ pc'[r] = "reserving"
        /\ \A s \in Run : s # r => grant'[s] = grant[s] /\ pc'[s] = pc[s]
        /\ UNCHANGED <<row, active, settled, entry, parked>>
    BY <1>1, <1>12, ThrottleGrants DEF reserve, Run
  <2>2. \A s \in Run : /\ pc'[s] \in Registered <=> pc[s] \in Registered
                       /\ pc'[s] \in Early <=> pc[s] \in Early
                       /\ pc'[s] = "marked" <=> pc[s] = "marked"
    BY <2>1 DEF Registered, Early
  <2>3. Placed'
    BY <1>1, <2>1, <2>2 DEF OwnerInv, Placed
  <2>4. Undisturbed' /\ Owned'
    BY <2>1, <2>2 DEF OwnerInv, Undisturbed, Owned
  <2>5. QED
    BY <2>3, <2>4 DEF OwnerInv
<1>13. ASSUME NEW r \in Run, markRunning(r) PROVE OwnerInv'
  <2>1. CASE release(r) /\ Goto(r, "rejected") /\ UNCHANGED row
    <3>1. /\ grant'[r] = "released"
          /\ \A s \in Run : s # r =>
                 grant'[s] = grant[s] \/ (grant[s] = "queued" /\ grant'[s] = "granted")
      BY <2>1, ReleaseGrants DEF Run
    <3>2. /\ \A s \in Run : \/ pc'[s] = pc[s]
                            \/ pc[s] = "reserving" /\ pc'[s] = "rejected" /\ grant'[s] = "released"
          /\ UNCHANGED <<row, active, settled, entry, parked>>
      BY <1>1, <1>13, <2>1, <3>1 DEF markRunning
    <3>3. QED
      BY <3>1, <3>2, OwnerAdmits
  <2>2. CASE MayMark(r) /\ SetRow(IdOf[r], "running") /\ Goto(r, "marked") /\ UNCHANGED ccVars
    <3>1. /\ pc[r] = "reserving" /\ pc'[r] = "marked" /\ grant[r] = "granted"
          /\ UNCHANGED <<grant, active, settled, entry, parked>>
          /\ \A s \in Run : s # r => pc'[s] = pc[s]
          /\ \A e \in Execution : row'[e] = "waiting" => row[e] = "waiting"
      BY <1>1, <1>13, <2>2 DEF markRunning, ccVars
    <3>2. \A s \in Run : /\ pc'[s] \in Registered <=> pc[s] \in Registered
                         /\ pc'[s] \in Early => pc[s] \in Early
      BY <3>1 DEF Registered, Early
    <3>3. active[IdOf[r]] # NoRun => entry[active[IdOf[r]]] = "waiting"
      <4>1. CASE r \in FirstRun
        <5>1. \A s \in Run : IdOf[s] = IdOf[r] => pc[s] \notin Registered
          BY <3>1, <4>1 DEF OwnerInv, Placed, Early
        <5>2. QED
          BY <1>1, <5>1 DEF OwnerInv, Placed
      <4>2. CASE row[IdOf[r]] = "waiting"
        BY <4>2 DEF OwnerInv, Undisturbed
      <4>3. QED
        BY <2>2, <4>1, <4>2 DEF MayMark
    <3>4. Placed'
      BY <1>1, <3>1, <3>2 DEF OwnerInv, Placed
    <3>5. Undisturbed'
      BY <3>1, <3>3 DEF OwnerInv, Undisturbed
    <3>6. Owned'
      BY <3>1 DEF OwnerInv, Owned
    <3>7. QED
      BY <3>4, <3>5, <3>6 DEF OwnerInv
  <2>3. QED
    BY <1>13, <2>1, <2>2 DEF markRunning
<1>14. ASSUME NEW r \in Run, register(r) PROVE OwnerInv'
  <2>1. /\ pc[r] = "marked" /\ pc'[r] = "registered" /\ UNCHANGED <<grant, row, settled, parked>>
        /\ \A s \in Run : s # r => pc'[s] = pc[s] /\ entry'[s] = entry[s]
        /\ \A e \in Execution : active'[e] = IF e = IdOf[r] THEN r ELSE active[e]
    BY <1>1, <1>14 DEF register, ccVars
  <2>2. r \notin settled /\ r \notin parked
    BY <2>1 DEF OwnerInv, Placed, Registered
  <2>3. /\ row[IdOf[r]] # "waiting"
        /\ \A s \in Run : IdOf[s] = IdOf[r] /\ pc[s] \in InFlight => s = r
        /\ \A f \in FirstRun : pc[f] \in Early => IdOf[f] # IdOf[r]
    BY <2>1 DEF Exclusive, InFlight
  <2>4. Placed'
    <3>1. \A s \in Run : /\ pc[s] \in Registered => pc'[s] \in Registered
                         /\ pc'[s] \in Early => pc[s] \in Early
      BY <2>1 DEF Registered, Early
    <3>2. ASSUME NEW f \in FirstRun, pc'[f] \in Early, NEW s \in Run, IdOf[s] = IdOf[f]
          PROVE  pc'[s] \notin Registered
      BY <2>1, <2>3, <3>1, <3>2 DEF OwnerInv, Placed
    <3>3. pc'[r] \in Registered
      BY <2>1 DEF Registered
    <3>4. \A s \in Run : grant'[s] = "queued" => pc'[s] = "reserving"
      BY <2>1 DEF OwnerInv, Placed
    <3>5. \A e \in Execution : active'[e] # NoRun =>
              IdOf[active'[e]] = e /\ pc'[active'[e]] \in Registered
      BY <1>1, <2>1, <3>1, <3>3 DEF OwnerInv, Placed
    <3>6. \A s \in Run : s \in parked' => pc'[s] \in {"executing", "saving", "saved", "ended"}
      BY <2>1, <2>2 DEF OwnerInv, Placed
    <3>7. QED
      BY <2>1, <3>1, <3>2, <3>4, <3>5, <3>6 DEF OwnerInv, Placed
  <2>5. Undisturbed'
    <3> SUFFICES ASSUME NEW e \in Execution, active'[e] # NoRun, entry'[active'[e]] # "waiting",
                        NEW s \in Run, IdOf[s] = e
                 PROVE  /\ row[e] # "waiting"
                        /\ pc'[s] # "marked"
                        /\ s \in parked => pc'[s] \notin {"executing", "saving"}
      BY <2>1 DEF Undisturbed, Execution
    <3>1. CASE e = IdOf[r]
      BY <2>1, <2>2, <2>3, <3>1 DEF InFlight
    <3>2. CASE e # IdOf[r]
      <4>1. active'[e] = active[e] /\ active[e] \in Run /\ active[e] # r
        BY <1>1, <2>1, <3>2 DEF OwnerInv, Placed
      <4>2. entry[active[e]] # "waiting"
        BY <2>1, <4>1
      <4>3. QED
        BY <2>1, <3>2, <4>1, <4>2 DEF OwnerInv, Undisturbed
    <3>3. QED
      BY <3>1, <3>2
  <2>6. Owned'
    <3> SUFFICES ASSUME NEW s \in Run, grant[s] = "granted", s # r
                 PROVE  \/ pc'[s] \in {"reserving", "marked"}
                        \/ active'[IdOf[s]] = s /\ s \notin settled
                        \/ entry'[s] = "waiting"
      BY <2>1, <2>2 DEF Owned
    <3>1. CASE IdOf[s] = IdOf[r] /\ active[IdOf[s]] = s
      BY <2>1, <3>1 DEF OwnerInv, Undisturbed
    <3>2. CASE ~(IdOf[s] = IdOf[r] /\ active[IdOf[s]] = s)
      BY <2>1, <3>2 DEF OwnerInv, Owned
    <3>3. QED
      BY <3>1, <3>2
  <2>7. QED
    BY <2>4, <2>5, <2>6 DEF OwnerInv
<1>15. ASSUME NEW r \in Run, finalizeExecution(r) PROVE OwnerInv'
  <2>1. /\ \A s \in Run : pc'[s] = pc[s] \/ (pc[s] = "saved" /\ pc'[s] = "ended")
        /\ UNCHANGED <<row, entry, parked>>
    BY <1>1, <1>15 DEF finalizeExecution
  <2>2. CASE UNCHANGED <<ccVars, active, settled>>
    BY <2>1, <2>2, OwnerDrops DEF ccVars
  <2>3. CASE active[IdOf[r]] # NoRun /\ settle(active[IdOf[r]], IdOf[r])
    BY <2>1, <2>3, OwnerSettles
  <2>4. QED
    BY <1>15, <2>2, <2>3 DEF finalizeExecution
<1>16. ASSUME NEW r \in Run, executionTimeout(r) PROVE OwnerInv'
  <2>1. stopExecution(IdOf[r]) /\ UNCHANGED <<row, entry, parked, pc>>
    BY <1>16 DEF executionTimeout
  <2>2. QED
    BY <2>1, OwnerStopExecution
<1>17. ASSUME NEW e \in Execution, stopInRegularMode(e) PROVE OwnerInv'
  <2>1. UNCHANGED <<row, entry, parked, pc>>
    BY <1>17 DEF stopInRegularMode
  <2>2. CASE stopExecution(e)
    BY <2>1, <2>2, OwnerStopExecution
  <2>3. ASSUME NEW r \in Run, remove(QueueOf[r], e), UNCHANGED <<active, settled>>
        PROVE  OwnerInv'
    <3>1. ASSUME NEW s \in Run
          PROVE  \/ grant'[s] = grant[s]
                 \/ grant[s] = "queued" /\ grant'[s] \in {"granted", "evicted"}
      <4>1. s \in Caller
        BY DEF Run
      <4>2. QED
        BY <2>3, <4>1, RemoveGrants
    <3>2. QED
      BY <2>1, <2>3, <3>1, OwnerAdmits
  <2>4. QED
    BY <1>17, <2>2, <2>3 DEF stopInRegularMode
<1>18. QED
  BY <1>2, <1>3, <1>4, <1>5, <1>6, <1>7, <1>8, <1>9, <1>10, <1>11, <1>12, <1>13, <1>14, <1>15,
     <1>16, <1>17
     DEF Next, runStep, stopStep

(* The inductive invariant of the composition. *)
SlotInv == Inv /\ PendingIsQueued /\ Exclusive /\ OwnerInv

LEMMA SlotInvHolds == Spec => []SlotInv
<1>1. Init => SlotInv
  <2> SUFFICES ASSUME Init PROVE SlotInv
    OBVIOUS
  <2>1. Inv /\ Exclusive
    BY InvInit, ExclusiveInit DEF Init
  <2>2. OwnerInv
    BY RunFacts DEF Init, ccInit, OwnerInv, Placed, Undisturbed, Owned, Run, Registered, Early
  <2>3. PendingIsQueued
    BY DEF Init, ccInit, PendingIsQueued
  <2>4. QED
    BY <2>1, <2>2, <2>3 DEF SlotInv
<1>2. TypeOK /\ SlotInv /\ [Next]_vars => SlotInv'
  <2> SUFFICES ASSUME TypeOK, SlotInv, [Next]_vars PROVE SlotInv'
    OBVIOUS
  <2>1. Inv /\ PendingIsQueued /\ Exclusive /\ OwnerInv
    BY DEF SlotInv
  <2>2. Inv' /\ PendingIsQueued'
    BY <2>1, lcTypeStep, InvStep, PendingStep
  <2>3. Exclusive'
    BY <2>1, ExclusiveStep
  <2>4. OwnerInv'
    BY <2>1, OwnerStep
  <2>5. QED
    BY <2>2, <2>3, <2>4 DEF SlotInv
<1>3. QED
  BY <1>1, <1>2, LifecycleTypeCorrect, PTL DEF Spec

LEMMA OwnedSlots == SlotInv => SlotHasOwner
BY DEF SlotInv, OwnerInv, Owned, SlotHasOwner, Lost, WillRelease

(* A slot is lost only by a run that was stranded before its workflow         *)
(* started, or whose entry was marked waiting before its promise settled:     *)
(* stops, timeouts, failing writes and rejected resumes lose none.            *)
THEOREM SlotsHaveOwners == Spec => []SlotHasOwner
BY OwnedSlots, SlotInvHolds, PTL

(* Throttled runs are never left to themselves: until shutdown, a run that    *)
(* waits in the queue of ConcurrencyControl waits for a run that will give    *)
(* its slot back, or the queue has lost a slot in one of those two ways.      *)
(* This is the part of ThrottledRunProceeds that needs no fairness.           *)
THEOREM ThrottledRunsAreServed == Spec => []ThrottledRunHasHolder
<1>1. SlotInv => ThrottledRunHasHolder
  <2> SUFFICES ASSUME SlotInv, ~disabled, NEW r \in Run, grant[r] = "queued"
               PROVE  \E s \in Run : /\ QueueOf[s] = QueueOf[r] /\ grant[s] = "granted"
                                     /\ WillRelease(s) \/ Lost(s)
    BY DEF ThrottledRunHasHolder
  <2>1. PICK s \in Run : QueueOf[s] = QueueOf[r] /\ grant[s] = "granted"
    BY PendingHasHolder DEF SlotInv, Run
  <2>2. WillRelease(s) \/ Lost(s)
    BY <2>1, OwnedSlots DEF SlotHasOwner
  <2>3. QED
    BY <2>1, <2>2
<1>2. QED
  BY <1>1, SlotInvHolds, PTL
=============================================================================
