---------------------------- MODULE WaitTracker ----------------------------
(***************************************************************************)
(* WaitTracker of packages/cli: the leader polls the database for waiting  *)
(* executions that are due, arms a timer for each and resumes it when the  *)
(* timer fires; a sub-workflow execution that ends after a wait hands over *)
(* to its waiting parent.                                                  *)
(*                                                                         *)
(* Leadership is an input (LeaderElection), as is the run of a resumed     *)
(* execution (ExecutionLifecycle): here it waits again or ends.  Time is   *)
(* abstract: a poll, a timer or an answer of the database may come at any  *)
(* moment.                                                                 *)
(***************************************************************************)
EXTENDS Integers, FiniteSets

CONSTANTS
    Host, Execution, NoParent,
    ParentOf,     \* the execution that waits for a sub-workflow execution
    Booting,      \* hosts whose Start.init() has not come to WaitTracker.init() yet
    MayStop,      \* executions a user may stop
    MayFailEarly, \* executions whose resume can fail before the workflow starts
    MaxTerms,     \* bound on takeovers of one host
    MaxErrors,    \* bound on failing database calls
    MaxPolls,     \* bound on the polls of a host whose result is under way
    MaxStops,     \* bound on the stops under way
    MaxAttempts   \* MAX_PARENT_RESUME_ATTEMPTS

ASSUME TrackerAssumption ==
    /\ ParentOf \in [Execution -> Execution \cup {NoParent}]
    /\ NoParent \notin Execution
    /\ Booting \subseteq Host
    /\ MayStop \subseteq Execution /\ MayFailEarly \subseteq Execution
    /\ MaxTerms \in Nat /\ MaxErrors \in Nat /\ MaxPolls \in Nat /\ MaxStops \in Nat
    /\ MaxAttempts \in Nat \ {0}

(* A parent whose sub-workflow waits is put to wait indefinitely, so that no *)
(* query finds it.                                                           *)
Parents == {ParentOf[e] : e \in Execution} \ {NoParent}

VARIABLES
    leads,      \* hosts that are leader
    terms,      \* takeovers of each host so far
    stage,      \* how far Start.init() is in each host
    intervals,  \* live intervals of each host; mainTimer holds the last one
    results,    \* results of the polls under way in each host
    waitingExecutions,  \* the keys of that map in each host
    timers,     \* the keys whose timer is live in each host
    orphans,    \* per <<host, execution>>: live timers that no entry holds
    starting,   \* <<host, execution>>: startExecution() awaits the database
    row,        \* status of each execution in the database
    dated,      \* executions whose waitTill is a date
    live,       \* per <<host, execution>>: how many runs of it are under way
    runner,     \* the host that has resumed an execution last
    stopping,   \* <<host, execution, step>>: ExecutionService.stop() under way
    handoff,    \* how far resumeParentExecution() of each execution is
    attempts,   \* attempts of the current step of the handoff
    errors

hostVars == <<leads, terms, stage, intervals>>
mapVars == <<results, waitingExecutions, timers, orphans, starting>>
rowVars == <<row, dated, live, runner, stopping>>
handVars == <<handoff, attempts>>
vars == <<hostVars, mapVars, rowVars, handVars, errors>>

Status == {"waiting", "running", "ended", "canceled"}
Handoff == {"no", "child", "read", "write", "start", "done", "dropped", "refused"}

(* The first run of a parent may not have been saved as waiting yet; or an   *)
(* earlier sub-workflow has resumed it, and it waits until a date by now.    *)
Init ==
    /\ leads = {} /\ terms = [h \in Host |-> 0]
    /\ stage = [h \in Host |-> IF h \in Booting THEN "boot" ELSE "ready"]
    /\ intervals = [h \in Host |-> 0]
    /\ results = [h \in Host |-> {}]
    /\ waitingExecutions = [h \in Host |-> {}]
    /\ timers = [h \in Host |-> {}]
    /\ orphans = [x \in Host \X Execution |-> 0]
    /\ starting = {}
    /\ row \in [Execution -> {"waiting", "running"}]
    /\ dated \in SUBSET Execution
    /\ \A e \in Execution \ Parents : row[e] = "waiting" /\ e \in dated
    /\ \A e \in dated : row[e] = "waiting"
    /\ live = [x \in Host \X Execution |-> 0]
    /\ runner \in [Execution -> Host]
    /\ stopping = {}
    /\ handoff = [e \in Execution |-> "no"]
    /\ attempts = [e \in Execution |-> 1]
    /\ errors = 0

-----------------------------------------------------------------------------
(* Leadership events reach the tracker once their handlers are registered.   *)

startTracking(h) == intervals' = [intervals EXCEPT ![h] = @ + 1]

takeover(h) ==
    /\ h \notin leads /\ terms[h] < MaxTerms
    /\ leads' = leads \cup {h}
    /\ terms' = [terms EXCEPT ![h] = @ + 1]
    /\ IF stage[h] = "ready" THEN startTracking(h) ELSE UNCHANGED intervals
    /\ UNCHANGED <<stage, mapVars, rowVars, handVars, errors>>

(* stopTracking() clears the timer of every entry and keeps the entries. *)
stopTracking(h) ==
    /\ intervals' = [intervals EXCEPT ![h] = IF @ > 0 THEN @ - 1 ELSE 0]
    /\ timers' = [timers EXCEPT ![h] = {}]

stepdown(h) ==
    /\ h \in leads
    /\ leads' = leads \ {h}
    /\ IF stage[h] = "ready" THEN stopTracking(h) ELSE UNCHANGED <<intervals, timers>>
    /\ UNCHANGED <<terms, stage, results, waitingExecutions, orphans, starting, rowVars,
                   handVars, errors>>

init(h) ==
    /\ stage[h] = "boot"
    /\ stage' = [stage EXCEPT ![h] = "initialised"]
    /\ IF h \in leads THEN startTracking(h) ELSE UNCHANGED intervals
    /\ UNCHANGED <<leads, terms, mapVars, rowVars, handVars, errors>>

registerEventHandlers(h) ==
    /\ stage[h] = "initialised"
    /\ stage' = [stage EXCEPT ![h] = "ready"]
    /\ UNCHANGED <<leads, terms, intervals, mapVars, rowVars, handVars, errors>>

-----------------------------------------------------------------------------
(* getWaitingExecutions(): the query, and what is done with its result,      *)
(* unless it is empty.                                                       *)
getWaitingExecutions(h) ==
    /\ intervals[h] > 0 /\ Cardinality(results[h]) < MaxPolls
    /\ results' = [results EXCEPT ![h] = @ \cup ({{e \in dated : row[e] = "waiting"}} \ {{}})]
    /\ UNCHANGED <<hostVars, waitingExecutions, timers, orphans, starting, rowVars, handVars, errors>>

setTimers(h, found) ==
    LET added == found \ waitingExecutions[h]
    IN  /\ found \in results[h]
        /\ results' = [results EXCEPT ![h] = @ \ {found}]
        /\ waitingExecutions' = [waitingExecutions EXCEPT ![h] = @ \cup added]
        /\ timers' = [timers EXCEPT ![h] = @ \cup added]
        /\ UNCHANGED <<hostVars, orphans, starting, rowVars, handVars, errors>>

(* A timer whose callback forgets to delete the entry. *)
timerFiresKeepingEntry(h, e) ==
    /\ e \in timers[h]
    /\ timers' = [timers EXCEPT ![h] = @ \ {e}]
    /\ starting' = starting \cup {<<h, e>>}
    /\ UNCHANGED <<hostVars, results, waitingExecutions, orphans, rowVars, handVars, errors>>

(* The timer of an entry fires, and startExecution() deletes the entry. *)
timerFires(h, e) ==
    /\ e \in timers[h]
    /\ timers' = [timers EXCEPT ![h] = @ \ {e}]
    /\ waitingExecutions' = [waitingExecutions EXCEPT ![h] = @ \ {e}]
    /\ starting' = starting \cup {<<h, e>>}
    /\ UNCHANGED <<hostVars, results, orphans, rowVars, handVars, errors>>

(* startExecution() by somebody else deletes the entry and leaves its timer  *)
(* armed: n timers of e without an entry become one more.                    *)
DeleteEntry(h, e, n) ==
    /\ waitingExecutions' = [waitingExecutions EXCEPT ![h] = @ \ {e}]
    /\ timers' = [timers EXCEPT ![h] = @ \ {e}]
    /\ orphans' = [orphans EXCEPT ![<<h, e>>] = IF e \in timers[h] THEN n + 1 ELSE n]

(* A timer that no entry holds fires. *)
orphanFires(h, e) ==
    /\ orphans[<<h, e>>] > 0
    /\ DeleteEntry(h, e, orphans[<<h, e>>] - 1)
    /\ starting' = starting \cup {<<h, e>>}
    /\ UNCHANGED <<hostVars, results, rowVars, handVars, errors>>

(* A resume that does not look at the status of the row. *)
MayResumeAny(e) == row[e] # "ended"

(* ActiveExecutions.add() takes over a waiting row only. *)
MayResume(e) == row[e] = "waiting"

(* The row of e starts running, on host h. *)
Resume(h, e) ==
    /\ row' = [row EXCEPT ![e] = "running"]
    /\ live' = [live EXCEPT ![<<h, e>>] = @ + 1]
    /\ runner' = [runner EXCEPT ![e] = h]

(* startExecution() by a timer: the row may have been resumed, ended or      *)
(* stopped in the meantime; an error is reported and forgotten.              *)
startExecution(h, e) ==
    /\ <<h, e>> \in starting
    /\ starting' = starting \ {<<h, e>>}
    /\ \/ /\ MayResume(e)
          /\ Resume(h, e)
          /\ handoff' = IF ParentOf[e] = NoParent THEN handoff ELSE [handoff EXCEPT ![e] = "child"]
          /\ UNCHANGED errors
       \/ /\ ~MayResume(e)
          /\ UNCHANGED <<row, live, runner, handoff, errors>>
       \/ /\ errors < MaxErrors
          /\ errors' = errors + 1
          /\ UNCHANGED <<row, live, runner, handoff>>
    /\ UNCHANGED <<hostVars, results, waitingExecutions, timers, orphans, dated, stopping, attempts>>

(* stopExecution() of the tracker of host h. *)
stopExecution(h, e) ==
    /\ waitingExecutions' = [waitingExecutions EXCEPT ![h] = @ \ {e}]
    /\ timers' = [timers EXCEPT ![h] = @ \ {e}]

(* ExecutionService.stop() on host h: the row is read, what this host knows  *)
(* of the execution is stopped, the row is written.                          *)
stop(h, e) ==
    /\ e \in MayStop /\ row[e] \in {"waiting", "running"} /\ Cardinality(stopping) < MaxStops
    /\ stopping' = stopping \cup {<<h, e, "stop">>}
    /\ UNCHANGED <<hostVars, mapVars, row, dated, live, runner, handVars, errors>>

(* Stopping a run rejects the promise its handoff waits for. *)
stopLocally(h, e) ==
    /\ <<h, e, "stop">> \in stopping
    /\ stopping' = (stopping \ {<<h, e, "stop">>}) \cup {<<h, e, "write">>}
    /\ stopExecution(h, e)
    /\ handoff' = IF live[<<h, e>>] > 0 /\ handoff[e] = "child"
                  THEN [handoff EXCEPT ![e] = "dropped"] ELSE handoff
    /\ UNCHANGED <<hostVars, results, orphans, starting, row, dated, live, runner, attempts, errors>>

stopDuringRun(h, e) ==
    /\ <<h, e, "write">> \in stopping
    /\ stopping' = stopping \ {<<h, e, "write">>}
    /\ row' = [row EXCEPT ![e] = "canceled"]
    /\ UNCHANGED <<hostVars, mapVars, dated, live, runner, handVars, errors>>

-----------------------------------------------------------------------------
(* The run of e on host h ends and is saved.  A run that failed before its   *)
(* workflow started is finalized without a result.                           *)
runEnds(h, e) ==
    /\ live[<<h, e>>] > 0
    /\ live' = [live EXCEPT ![<<h, e>>] = @ - 1]
    /\ row' = [row EXCEPT ![e] = "ended"]
    /\ \/ /\ handoff[e] = "child"
          /\ handoff' = [handoff EXCEPT ![e] = "read"]
       \/ /\ handoff[e] = "child" /\ e \in MayFailEarly
          /\ handoff' = [handoff EXCEPT ![e] = "dropped"]
       \/ /\ handoff[e] # "child"
          /\ UNCHANGED handoff
    /\ UNCHANGED <<hostVars, mapVars, dated, runner, stopping, attempts, errors>>

(* The run waits again, until a date, or indefinitely for a sub-workflow: the *)
(* result it hands over says so and is ignored.                               *)
runWaits(h, e) ==
    /\ live[<<h, e>>] > 0
    /\ live' = [live EXCEPT ![<<h, e>>] = @ - 1]
    /\ row' = [row EXCEPT ![e] = "waiting"]
    /\ dated' = dated \cup {e} \/ (e \in Parents /\ dated' = dated \ {e})
    /\ handoff' = IF handoff[e] = "child" THEN [handoff EXCEPT ![e] = "no"] ELSE handoff
    /\ UNCHANGED <<hostVars, mapVars, runner, stopping, attempts, errors>>

(* The first run of a parent goes on with its other items before it is saved *)
(* as waiting; it is the run of a running row that nobody has resumed.       *)
parentWaits(e) ==
    /\ e \in Parents /\ row[e] = "running"
    /\ \A h \in Host : live[<<h, e>>] = 0
    /\ row' = [row EXCEPT ![e] = "waiting"]
    /\ UNCHANGED <<hostVars, mapVars, dated, live, runner, stopping, handVars, errors>>

(* resumeParentExecution(): each of its two steps is tried MaxAttempts times.*)
GoOn(c, to) ==
    /\ handoff' = [handoff EXCEPT ![c] = to]
    /\ attempts' = IF to = "start" THEN [attempts EXCEPT ![c] = 1] ELSE attempts

(* A retry that gives up one attempt too early, and one that gives up one    *)
(* too late.                                                                 *)
withOneRetryLess(c, from) ==
    /\ errors < MaxErrors
    /\ errors' = errors + 1
    /\ IF attempts[c] + 1 >= MaxAttempts
       THEN handoff' = [handoff EXCEPT ![c] = "dropped"] /\ UNCHANGED attempts
       ELSE /\ handoff' = [handoff EXCEPT ![c] = from]
            /\ attempts' = [attempts EXCEPT ![c] = @ + 1]

withOneRetryMore(c, from) ==
    /\ errors < MaxErrors
    /\ errors' = errors + 1
    /\ IF attempts[c] > MaxAttempts
       THEN handoff' = [handoff EXCEPT ![c] = "dropped"] /\ UNCHANGED attempts
       ELSE /\ handoff' = [handoff EXCEPT ![c] = from]
            /\ attempts' = [attempts EXCEPT ![c] = @ + 1]

(* A call of the handoff fails.  A UserError or UnexpectedError is not worth *)
(* a retry and ends the handoff at once.                                     *)
withRetry(c, from) ==
    /\ errors < MaxErrors
    /\ errors' = errors + 1
    /\ \/ /\ attempts[c] >= MaxAttempts
          /\ handoff' = [handoff EXCEPT ![c] = "dropped"] /\ UNCHANGED attempts
       \/ /\ attempts[c] < MaxAttempts
          /\ handoff' = [handoff EXCEPT ![c] = from]
          /\ attempts' = [attempts EXCEPT ![c] = @ + 1]
       \/ handoff' = [handoff EXCEPT ![c] = "refused"] /\ UNCHANGED attempts

(* updateParentExecutionWithChildResults(): the parent is read; unless it    *)
(* waits there is nothing to write, nor when the child has no output or the  *)
(* parent nothing to execute.                                                *)
readParent(c) ==
    /\ handoff[c] = "read"
    /\ \/ /\ row[ParentOf[c]] = "waiting"
          /\ GoOn(c, "write")
          /\ UNCHANGED errors
       \/ /\ GoOn(c, "start")
          /\ UNCHANGED errors
       \/ withRetry(c, "read")
    /\ UNCHANGED <<hostVars, mapVars, rowVars>>

(* The data read before are written back, whatever the row holds by now; the *)
(* status is left alone.                                                     *)
writeParent(c) ==
    /\ handoff[c] = "write"
    /\ \/ GoOn(c, "start") /\ UNCHANGED errors
       \/ withRetry(c, "read")
    /\ UNCHANGED <<hostVars, mapVars, rowVars>>

(* startExecution() of the parent, by the host of the child: it deletes the  *)
(* entry of the parent, if there is one; a parent that does not wait is left *)
(* alone.                                                                    *)
startParent(c) ==
    LET p == ParentOf[c]
        h == runner[c]
    IN  /\ handoff[c] = "start"
        /\ DeleteEntry(h, p, orphans[<<h, p>>])
        /\ \/ /\ MayResume(p)
              /\ Resume(h, p)
              /\ GoOn(c, "done")
              /\ UNCHANGED errors
           \/ /\ ~MayResume(p)
              /\ GoOn(c, "done")
              /\ UNCHANGED <<row, live, runner, errors>>
           \/ /\ withRetry(c, "start")
              /\ UNCHANGED <<row, live, runner>>
        /\ UNCHANGED <<hostVars, results, starting, dated, stopping>>

-----------------------------------------------------------------------------
bootStep(h) == init(h) \/ registerEventHandlers(h)
handStep(c) == readParent(c) \/ writeParent(c) \/ startParent(c)

runStep(h, e) == runEnds(h, e) \/ runWaits(h, e)

Next ==
    \/ \E h \in Host : takeover(h) \/ stepdown(h) \/ bootStep(h) \/ getWaitingExecutions(h)
    \/ \E h \in Host, found \in SUBSET Execution : setTimers(h, found)
    \/ \E h \in Host, e \in Execution :
           \/ timerFires(h, e) \/ orphanFires(h, e) \/ startExecution(h, e) \/ runStep(h, e)
           \/ stop(h, e) \/ stopLocally(h, e) \/ stopDuringRun(h, e)
    \/ \E e \in Execution : parentWaits(e) \/ handStep(e)

(* Intervals and timers fire and the database answers.  Nothing is assumed   *)
(* of leadership, of runs, of stops, of a boot that is under way or of       *)
(* timers left behind.                                                       *)
Fairness ==
    /\ \A h \in Host : WF_vars(getWaitingExecutions(h))
    /\ \A h \in Host, found \in SUBSET Execution : WF_vars(setTimers(h, found))
    /\ \A h \in Host, e \in Execution : WF_vars(timerFires(h, e)) /\ WF_vars(startExecution(h, e))
    /\ \A e \in Execution : WF_vars(handStep(e))

Spec == Init /\ [][Next]_vars /\ Fairness

-----------------------------------------------------------------------------
(* Every variable has its type. *)
TypeOK ==
    /\ leads \subseteq Host /\ terms \in [Host -> 0..MaxTerms]
    /\ stage \in [Host -> {"boot", "initialised", "ready"}]
    /\ intervals \in [Host -> 0..(MaxTerms + 1)]
    /\ results \in [Host -> SUBSET SUBSET Execution]
    /\ waitingExecutions \in [Host -> SUBSET Execution]
    /\ timers \in [Host -> SUBSET Execution]
    /\ orphans \in [Host \X Execution -> Nat]
    /\ starting \subseteq Host \X Execution
    /\ row \in [Execution -> Status] /\ dated \subseteq Execution
    /\ live \in [Host \X Execution -> Nat] /\ runner \in [Execution -> Host]
    /\ stopping \subseteq Host \X Execution \X {"stop", "write"}
    /\ handoff \in [Execution -> Handoff]
    /\ attempts \in [Execution -> 1..MaxAttempts]
    /\ errors \in 0..MaxErrors

(* An execution is never run twice at the same time, on one main or on two:  *)
(* neither by timers armed from old queries or left behind without an entry, *)
(* nor by sub-workflows that end, nor by a stop that comes in between.       *)
OneRunAtATime ==
    \A e \in Execution : \A g, h \in Host :
        live[<<g, e>>] > 0 /\ live[<<h, e>>] > 0 => g = h /\ live[<<g, e>>] = 1

(* An entry whose timer the end of an earlier term of the host has cleared:  *)
(* polls take the execution for tracked.                                     *)
LeftOver(h, e) == terms[h] > 1 /\ e \in waitingExecutions[h] /\ e \notin timers[h]

(* A main that goes on polling resumes every waiting execution that is due,  *)
(* or finds it stopped or resumed elsewhere, across changes of leadership    *)
(* before, failing database calls and timers left behind; except those of    *)
(* which an earlier term of its own has left an entry in the map.            *)
DueExecutionsResume ==
    \A h \in Host, e \in Execution :
        []<>(~(row[e] = "waiting" /\ e \in dated) \/ intervals[h] = 0 \/ LeftOver(h, e))

(* A parent that waits when the result of a sub-workflow comes in is resumed *)
(* or stopped, unless MaxAttempts attempts of a step of the handoff failed,  *)
(* or one failed with an error that is not worth a retry.                    *)
ResumedOrExhausted ==
    \A c \in Execution : ParentOf[c] # NoParent =>
        (handoff[c] = "read" /\ row[ParentOf[c]] = "waiting") ~>
            \/ row[ParentOf[c]] # "waiting"
            \/ handoff[c] = "dropped" /\ attempts[c] = MaxAttempts
            \/ handoff[c] = "refused"
=============================================================================
