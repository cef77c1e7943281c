# Verification of the execution control of n8n

This directory holds TLA+ models of the control core of `packages/cli`: how
executions are throttled, registered, run, stopped, parked and resumed, how
evaluation runs share the same slots, how several main processes agree on a
leader, how the task broker hands code to task runners, how executions travel
through the queue to workers and back, and how versions of a workflow are
published. TLC checks the models on small instances; TLAPS proves the most important
facts for every instance. `PROJECT.json` maps each definition to the lines it
models and lists runs, mutants, findings, hazards and theorems.

Node runs the code between two `await`s without interruption. Therefore **an
action is what happens between two awaits**: a database commit or a Redis command
taking effect, or the code that follows its answer. Everything else interleaves.

## 1. Inventory

### Modelled

| Component | State it keeps | Operations | Interacts with | What is hard | What makes it correct |
|---|---|---|---|---|---|
| **Concurrency control** (`concurrency/`) | a counter and a FIFO of promises per queue (production, evaluation), `isEnabled`, the lazily resolved evaluation queue | `throttle`, `release`, `remove`, `disable`, `removeAll` | called by ActiveExecutions, ExecutionService and the test runner | a counter that goes negative, removal from the middle, a flag written by two paths | no slot lost or invented, none idle while somebody waits, arrival order, the limit |
| **Active executions, workflow runner** (`active-executions.ts`, `workflow-runner.ts`) | the map of active executions with their promises, the row of each execution | `add`, `run`, `runMainProcess`, `failExecution`, `finalizeExecution`, `stopExecution`, timeout, `shutdown` | concurrency control, database, engine hooks | stops, timeouts, resumes and the end of a run race over map and row | one run per execution, every slot has somebody who gives it back, throttled runs proceed |
| **Stop, startup** (`executions/execution.service.ts`, `commands/start.ts`) | none | `stop`, `stopMany`, `runEnqueuedExecutions` | active executions, wait tracker, database | reads the row, acts, writes the row | see above |
| **Evaluation fan-out** (`evaluation.ee/test-runner`) | an AbortController per test run, where each case is | start, claim, run and cancel cases | concurrency control (evaluation queue) | an abort races the promise of `throttle` | an ended case holds neither slot nor queue entry (refuted for cancelled runs), cases are served and end |
| **Leader election** (`scaling/multi-main-setup.ee.ts`, `leader-election-client.ts`) | `isLeader`, `leaderCheckInProgress`, a Redis key with TTL | `init`, `checkLeader`, `shutdown` | Redis; the leader events drive wait tracker, triggers, pruning, recovery | timeouts whose command was executed, late and lost commands, expiry, crash | assertions hold, one leader while Redis is healthy, convergence afterwards |
| **Wait tracker** (`wait-tracker.ts`, part of `workflow-helpers.ts`) | a map of timers per main, the interval | poll, timer, `startExecution`, `stopExecution`, `resumeParentExecution`, `startTracking`, `stopTracking` | leader election, database, runner | stale polls, changes of leadership, retries, two children of one parent | due executions are resumed, never twice at a time; parents are resumed |
| **Task broker, requesters, runners** (`task-runners/`, `@n8n/task-runner`) | broker: known runners, pending offers and requests, tasks; runner: open offers, running tasks; a WebSocket between them | `taskOffered`, `taskRequested`, `settleTasks`/`acceptOffer`, accept, reject, done, timeouts, register, deregister, drain; `sendOffers`, `offerAccepted`, `receivedSettings`, `taskCancelled`, `taskTimedOut`, `stop` | requester in the same process, runners over the wire | four timers race with messages; an accept may come after the broker has offered the request elsewhere | a call is executed at most once and ends; a disconnect leaves nothing; promises stay within capacity |
| **Scaling** (`scaling/`, `enqueueExecution` of `workflow-runner.ts`) | the job in Bull, the row, the entry of the enqueuing main, `jobResults`, one chain of recovery timers per takeover | `add`, `addJob`, `processJob`, job messages, `job.finished()`, `processError`, stop, `recoverFromQueue` | Bull, database, workers, leader events | two independent reports of one end, stalled jobs whose worker lives, recovery from stale reads, crashes of either side | one run, no invented success, nothing in progress for ever, every caller answered |
| **Publication outbox, activation** (`workflows/publication`, `active-workflow-manager.ts`) | the outbox table, the published version, the triggers in the memory of the leader, poll cycles | `publish`, `deactivate`, `claim`, `apply` in its steps, `report`, takeover, stepdown, `addActiveWorkflows` | database, pubsub, leader events | records applied across a change of leader, requests that supersede one another, failing steps | publications of a workflow never overlap nor go back; the registered triggers are those of the published version |

### Not modelled

| Component | Why |
|---|---|
| Execution recovery, crash journal | rebuilds the run data of a row from the event log: a conversion of stored data whose only step that changes control state is the row marked as crashed, which ScalingQueue has |
| Workflow execution engine | a sequential traversal of the node graph within one run; its effect on row and entry is part of ExecutionLifecycle and ScalingQueue |
| Webhooks, pubsub, push, collaboration | mostly I/O; the resume of a waiting execution by a webhook is `resume` in ExecutionLifecycle, the two commands that matter (`abort-job`, `remove-triggers-and-pollers`) are in ScalingQueue and WorkflowPublication |
| Event bus, cache, instance registry, database layer | file and database I/O; the row updates are mapped where they are used |
| Nodes, editor, agents, SDKs, tooling | integrations and user interface outside the control core; they are the bulk of the repository's lines |

## 2. Plan

Done in this order: ConcurrencyControl (every execution passes through it),
ExecutionLifecycle and EvaluationFanOut on top of it (both `EXTENDS` it and call
its actions inside theirs), LeaderElection, WaitTracker; then TaskBroker with the
abstract TaskCalls it implements, ScalingQueue and WorkflowPublication.

Then the proofs, component by component: type correctness, the safety invariant
with the strengthening it needs, action properties, and the refinement of
TaskCalls. Every safety property the passing runs check has its theorem (section 5).
Where the code does not do what a comment, a test or a description of the repository
says, the statement is a run that TLC refutes, and what remains of it is a property
that holds, or a theorem.

## 3. Modules

### ConcurrencyControl

`isEnabled`, `evalQueueResolved`, `capacity`, `queue` are the fields of the classes;
`grant` is the state of the promise each call of `throttle()` awaits; `disabled`
remembers that shutdown called `disable()`. Each public method is one operator:
`throttle`, `release`, `remove`, `disable`; `enqueue`, `dequeue`, `removeFromQueue`,
`ResolveNext` are those of ConcurrencyQueue. `ensureEvalQueueResolved` runs inside
each of the three methods, as in the code, and can enable the service. `removeAll()`
does nothing for its only caller, which disables the service first, and has no action
(see section 4 for what follows). The environment of `ccSpec` calls throttle once per
caller, releases only what it holds and removes only what is queued. Limits are
parameters, with `LimitAssumption` stating what `normaliseLimit()` lets through.

### ExecutionLifecycle

One main in regular mode. A *run* is one call of `WorkflowRunner.run`; several runs
can be of one execution (a first run, then resumes by tracker or webhook). `pc` is how
far the run is: `created`, `reserving` (in the queue or with a slot), `marked` (the
row says running), `registered` (in the map), `executing`, `saving`, `saved`, `ended`,
`rejected`, or `stranded`: one of the calls `runMainProcess` awaits before its `try`
has failed, and nobody finalizes the execution. `row` is the status column, `active`,
`entry`, `attached` the map and the fields of its entries, `settled` the promises that
are resolved. Outcome of the workflow, its data and its nodes are abstracted; the only
choice of the workflow is to wait. Stop requests take three steps (read, act, write),
as does the cancel hook of a run. Queue-mode stop, response promises and streaming are
left out.

### EvaluationFanOut

Cases of test runs are the callers of ConcurrencyControl. `step` is where the
callback of a case is; `evictions` are the cases whose abort handler has fired:
their continuations are microtasks, which all run before any other event, so the
other actions require it to be empty. They run in the order in which the handlers
were added, which is that of the queue (`Before`, `FiresNext`): a case that the
eviction of another one has just admitted was at the head. `FanOutAssumption` says
what `executeTestRun()` guarantees: evaluation mode, a tracking id per case, and a
concurrency within the evaluation limit, which each test run has for itself
(`Parallel`). A case whose row cannot be claimed, because the user has cancelled it,
ends at once. Dataset, metrics and configuration are not
modelled.

### LeaderElection

`key` is the Redis key, `wire` the commands of a host on their way, `answer` what
came back; threads of a host are the asynchronous calls under way. A command can
take effect after its caller gave up, or not at all; a TTL may run out for a host
that stopped or, as a fault, for one that works. `checkAreWeStillLeader` and
`checkCanBecomeLeader` have one disjunct per answer of each command they await. A
restarted process has a new host id, so it is another host.

### WaitTracker

Several mains, leadership as an input (a main may gain and lose it at any time,
two may have it at once, which LeaderElection allows after a fault). `intervals`
counts the live intervals of a main, `results` the polls whose answer is not
processed yet, `waitingExecutions` the keys of the map and `timers` the timers
that are live; the two differ after `stopTracking()`. `handoff` is how far
`resumeParentExecution()` is for an ended child: waiting for it (`child`), then the
read and the write of `updateParentExecutionWithChildResults()`, then the start of
the parent. A failing call is retried up to `MaxAttempts` times, or ends the handoff
at once if its error is not worth a retry (`refused`). The start of a parent deletes
its entry and leaves its timer armed: `orphans` counts the timers that no entry
holds. Time is abstract: an execution whose `waitTill` is a date (`dated`) is due; a
parent that waits for a sub-workflow waits indefinitely and is not found by a poll,
but it may have been resumed and wait until a date by then. Resumes by webhooks and
the data a child hands over are not modelled.

### TaskBroker and TaskCalls

A broker, the local requester in the same process, and runners in external mode. A
*request* is one call of `startTask()`, an *offer* is a number within its runner and
also names the task made of it, as each `acceptOffer()` uses up one offer. Broker and
requester call each other synchronously, so everything between two messages or timers
is one action; `settleTasks` with its nested accepts is part of each action that calls
it. `toBroker` and `toRunner` are the ordered WebSockets; `phase` is what the broker
makes of an offer (`accepting`: `acceptOffer()` awaits the runner, `task`: in the
`tasks` map), `call` where a call of the requester is, `run` the status of a task on
its runner. A runner may stop (draining its tasks), crash, or be cut off, and a
message may be on a wire that closes. A deferral differs from a reject in that it
starts the timer of the request again; time is abstract, so that one action stands for
both. A user's cancel of a running task (`task-requester.ts:218`) does what the timer
of the task does, and has no action of its own. Not modelled: several task types,
data, node type and RPC requests of a running task, the idle timer, and the two
seconds `acceptOffer()` gives the requester to answer, which the requester of the same
process always does; a restarted runner has a new id and is another runner.
`Without(s, S)` is what a filter, or a loop of `splice`, leaves of a list; it is a
recursive function, about which the prover can reason.

TaskCalls is what `startTask()` promises: calls that are asked, given to a runner
and ended once, whose work starts at most once, after the call was given, and that
report a result only of finished work. The refinement mapping takes `stage` from
`call` and `work` from the tasks of the request (`WorkOf`).

### ScalingQueue

Mains, workers and Bull over `row` and `job`. Every job is taken as the only one of
its worker: two jobs of a worker share nothing but its crash. `step` is where
`processJob()` is, `result` how the run ended, `at` where `enqueueExecution()` of
the owner is, `told` what its caller was given, `cancel` the steps of `stopJob()`.
`news` are `job-finished` messages on their way and `jobResults` what the owner has
received; other mains keep theirs without reading it. `chain[m][k]` is one chain of
recovery timers: `recoverFromQueue()` reads the rows, then the jobs, then marks,
and each is a step. Bull may declare a job stalled while its worker goes on.
Adding the job may fail before or after Bull has stored it, and the hook after it may
throw (`throwing`): the caller then gets the error although a worker may run the
execution. A workflow with issues is saved as failed without a message. What a caller
reads of a run that waits is open (`Reads`): without `waitTill` the hook that finalizes
the status makes a success of it. Shutdown of a main or worker is taken as a crash; of
an execution that waits the resume is left to WaitTracker. Which rows a batch of the
recovery holds is left open, where the code takes the latest ones.

### WorkflowPublication

`activeVersion`, `published`, `outbox` are the three tables, `cycle[m][k]` one chain
of poll cycles with the record it works on and its next step: `resolve`, `needsOld`,
`needsWorkflow` (the reads of the workflow and of its published version, in either
order), `deactivate`, `advance`, `activate`, `report`. A main has a chain for each
term, since `stopPolling()` does not end a cycle that is under way. Versions are
numbered in the order in which they are requested. Of the triggers, those in memory
are modelled, as a set of `[node, params]`; `unclosed` are triggers that
`addTriggers()` has overwritten without closing them, which run on. A failing
`activate` has rolled back what it added, or fails after it added everything.
`loading` is `addActiveWorkflows()` of a new leader. A workflow may be deactivated and
published again and again; one that is gone is skipped as an inactive one is. Not
modelled: a version whose history row is gone, webhooks as triggers, archiving, the
queue of activation retries, workflows published without the outbox.

The `MC...` modules only give values to constants.

## 4. Runs

Passing runs. Every property has a mutant in `PROJECT.json`: a definition with a
plausible bug under which TLC finds the property violated. The type invariants of
ConcurrencyControl (a part of the `TypeOK` of `lc_runs`), EvaluationFanOut,
LeaderElection and TaskBroker have theorems (section 5) and no run of their own.

| Run | Instance | Properties |
|---|---|---|
| `lc_runs` | one slot; an execution of an earlier process with two competing resumes that may wait again, and a first run of a second one; fairness | `TypeOK`, `OneRunExecutes`, `CapacityAccounted`, `PendingIsQueued`, `SlotHasOwner`, `ThrottledRunHasHolder`, `ThrottledRunProceeds` |
| `fan_cases` | two slots; three test runs with five cases, two of the runs with two cases at a time; fairness | `SlotsKeptOnlyByEviction`, `WaitingCaseHasHolder`, `NoIdleSlot`, `FirstComeFirstServed`, `EveryCaseEnds` |
| `le_recover` | two mains, room for two checks in flight, two faults, fairness | `AssertionsHold`, `HealthyLeaderHoldsKey`, `EventuallyOneLeader` |
| `wt_track` | a main that is starting and leads twice, a child and its parent, two failing calls and two attempts, one stop at a time, fairness | `TypeOK`, `OneRunAtATime`, `DueExecutionsResume`, `ResumedOrExhausted` |
| `tb_calls` | a runner with two slots and two offers, two calls, fairness | `AtMostOnce`, `SettingsFindWaitingTask`, `NothingOfUnknownRunner`, `ImplementsTaskCalls`, `EveryCallEnds`, `TasksForgotten` |
| `sq_ends` | two mains, one of them unstable, one execution that may be stopped, one fault, fairness | `TypeOK`, `RunAtMostOnce`, `SuccessIsReal`, `LeaderRecovers`, `InProgressEnds`, `CallerAnswered` |
| `po_publish` | two mains, one workflow, three versions, one change of leader, one failing step, fairness | `TypeOK`, `SerializedPerWorkflow`, `SettledIsPublished`, `LatestRequestWins`, `ClaimableIsClaimed` |

Runs in which TLC refutes what the repository says of itself; the findings in
`PROJECT.json` quote the lines.

| Run | Refutes | Shows | What remains |
|---|---|---|---|
| `cc_limit` | `WithinLimit`: the limits are the "max ... executions allowed to run concurrently" (`executions.config.ts:20`, `27`) | stopping a *queued* execution admits the next one although no slot is free (`concurrency-queue.ts:52`) | theorem `LimitRespected`: one more for each execution so removed |
| `cc_shutdown` | `NoResumeDuringShutdown`: "throttled executions cannot resume during shutdown" (`active-executions.ts:328`) | resolving the evaluation limit after `disable()` sets `isEnabled` again (`concurrency-control.service.ts:129`), the default configuration | theorem `ShutdownAdmitsNobody`: in no other way |
| `fan_cancel` | `EndedCaseHoldsNothing`: a case evicts itself "so the slot returns to circulation" (`test-runner.service.ee.ts:843`) | cancelling a run with two queued cases: `remove()` of the first admits the second, which has lost its race already and releases nothing | `SlotsKeptOnlyByEviction`: in no other way |
| `sq_waiting` | `WaitingKept`: the hook only processes executions in a terminal status (`execution-lifecycle-hooks.ts:792`) | a main that does not save successful executions deletes one that waits, because the result of the worker reaches it without `waitTill` | |
| `po_retry` | `EveryRequestEnds`: a record whose reporter failed is left "for a later poll cycle to retry" (`workflow-publication-outbox-consumer.ts:115`, test at 162) | records in progress are never claimed again and block later ones of their workflow (`workflow-publication-outbox.repository.ts:110`) | `ClaimableIsClaimed`: every record that can be claimed is |

**Other behaviours the models exhibit.** The properties of the passing runs name
them as exceptions, or leave them open; no comment, test or document was found that
says otherwise, and none has a run of its own. In regular mode:

- A slot is lost for good in two ways (`Lost`, the exception of `SlotHasOwner`,
  `ThrottledRunHasHolder` and `ThrottledRunProceeds`). A stop or timeout of an entry
  marked waiting before its promise settled does not release
  (`active-executions.ts:231`). A call that fails in `runMainProcess` before its `try`
  leaves an entry that nobody finalizes.
- After as many cancellations as in `fan_cancel` as there are slots, queued cases wait
  for ever: the exception of `WaitingCaseHasHolder` and `EveryCaseEnds`.
- Rows found `new` at startup (`start.ts:498`) are refused by `add()`
  (`active-executions.ts:130`), which only takes a row that waits, and stay `new`.
- A stop that lands before `setRunning()`, or between the end of the workflow and
  its save, is overwritten: neither update looks at the row's status.
- `shutdown()` calls `disable()` before `removeAll()`, which then returns at once:
  throttled callers stay in the queue (`active-executions.ts:346`).

In the wait tracker:

- A main in a later term skips what an earlier one has left in its map without a timer
  (`wait-tracker.ts:256`): `LeftOver`, the exception of `DueExecutionsResume`.
- A takeover between `WaitTracker.init()` and `registerEventHandlers()` reaches no
  handler (`start.ts:302`), and the leader does not poll at all; the property speaks of
  mains that poll.
- A child that ends before its parent is saved as waiting does not resume it
  (`active-executions.ts:133`), and a main that crashes after the end of a child
  takes the handoff with it (`wait-tracker.ts:173`): the parent waits for ever.
- A resumed child that fails its preflight is finalized without a result and does
  not resume its parent; that is why `ResumedOrExhausted` speaks of children that
  hand over. An error that is not worth a retry ends the handoff, as the test
  `wait-tracker.test.ts:710` says.
- With two children, the late `writeParent` of one can overwrite the row of a
  parent that the other has resumed and that has ended.

In the task broker:

- A request that times out while a runner is accepting it leaves a task without a
  caller (`task-broker.service.ts:598`), which occupies the runner until the
  runner's own timer; `TasksForgotten` says that it ends.

In queue mode:

- The caller of a run that waits may be told that it succeeded, for the reason
  `sq_waiting` shows; `SuccessIsReal` allows it for such runs and no others.
- When enqueueing fails after Bull has stored the job, the caller gets an error and a
  worker runs the execution all the same (`workflow-runner.ts:535`).
- A run cancelled on the worker, or one that succeeded although Bull declared its
  job stalled, leaves the entry of the main without an end
  (`workflow-runner.ts:104`, `129`): the two exceptions of `CallerAnswered`.
- The recovery marks rows as crashed without looking at their status again
  (`scaling.service.ts:618`): one that finished between the two reads says crashed.
- An `abort-job` that arrives before the run is in `runningJobs` is lost
  (`job-processor.ts:405`), and the execution runs to its end. A stop on a main
  that is not the owner only writes the row.
- A stepdown while a recovery is under way does not end its chain, which goes on
  on a follower (`scaling.service.ts:598`).
- The recovery reads the latest rows only: as many healthy executions as a batch
  holds hide older dangling ones (`execution.repository.ts:1136`).

In publication:

- A deactivation after `apply()` has read the workflow is overtaken: the version is
  published and its triggers registered for an inactive workflow
  (`workflow-publication-applier.ts:60`); one that removes the published version
  after a newer publication removes the newer one.
- A main that steps down during `apply()` registers triggers as a follower
  (`workflow-publication-applier.ts:90`), and a new leader may register a version
  it read before a newer publication beside the newer triggers
  (`active-workflow-manager.ts:429`). `SettledIsPublished` speaks of triggers for
  the first leader only, and of workflows that have never been deactivated. The
  overwritten triggers of such a collision are never closed
  (`active-workflow-triggers.ts:140`).
- A failed activation followed by a publication that succeeds leaves a trigger that
  is the same in both versions unregistered: `Settled` requires that none failed.

**Bounds.** All bounds are constants. Competing resumes need two resumes and a slot
somebody else wants: the three runs of `lc_runs`. Telling head, middle and tail of a
queue apart needs three waiters, which `fan_cases` has behind its two slots; to leak a
slot needs two cases of a run that wait at once. In LeaderElection
`MaxChecks = 2` lets a second check start if the code allowed it, and `MaxFaults`
bounds timeouts and premature expiries: two faults allow two leaders at once and a
key deleted by the wrong host. In WaitTracker `MaxTerms = 2` gives a second term with
entries of the first, `MaxErrors` is the number of attempts, so that giving up occurs;
the code has 3 attempts, the run 2, and the theorems any number. The run has one main;
that two mains never run an execution together is `ExecutionsRunAlone`, proved for any
mains. In TaskBroker `MaxOffers` bounds the life of a runner: two offers for two
calls let an accept come too late and its request be offered again. A capacity that is
exceeded needs more offers than slots and is left to the theorem `OffersFitCapacity`.
In ScalingQueue `MaxFaults` is shared by stepdowns, crashes
of mains and failing recoveries; crashes of workers and stalls are not bounded by
it. One execution is enough for these properties, as executions meet
only in the batch of the recovery. In WorkflowPublication three requests give one
that is applied, one that is pending and one that supersedes it; `MaxTerms = 2` is
one change of leader (to the other main or back to the same, which then has two
chains); `MaxErrors = 1` is one failing `apply()` or `report()`. The proofs of section
5 remove the bounds for the safety properties.

No run uses symmetry. `CHECK_DEADLOCK FALSE` everywhere: all work may be done, or all
hosts gone.

**Fairness.** Weak fairness of continuations (a settled promise runs its
continuation), of intervals and timers that are armed, of commands and queries that
are not lost, and of workflows that end. Node's event loop justifies the first two;
the others are the usual assumption that I/O ends in an answer, an error or a timeout.
Arrivals, stops, timeouts, faults, crashes and changes of leadership have none. In
TaskBroker the timers of broker and runner are fair and user code is not:
`EveryCallEnds` rests on the timers. In ScalingQueue workers, Bull's check for stalled
jobs of a crashed worker, the steps of a main and the recovery timers are fair; in
WorkflowPublication the poll cycles. In both some main that is up becomes leader in
the end, which `le_recover` shows of the election. `lc_runs` and `fan_cases` assume
that the holder of a slot ends. In WaitTracker nothing is assumed of leadership, of
runs, of stops or of timers left behind.

## 5. Proofs

The theorems hold for every value of the constants that satisfies the named
assumptions of the component's module; TLC evaluates the same assumptions in the
runs. Each proof has one lemma per action or group of actions, and first reduces an
action to what it may do to the part of the state the invariant is about (`...Moves`,
`StepKinds`), so that the invariant is argued once and not once per action.

`ConcurrencyControlProofs`, for any finite set of callers, any execution ids, any
limits that `normaliseLimit()` lets through and either source of the evaluation
limit (`CallerAssumption`, `LimitAssumption`):

- `ConcurrencyTypeCorrect`: `ccTypeOK`.
- `SlotsAccountedFor`: `CapacityAccounted`. `NoSlotIdles`: `NoIdleSlot`.
  Neither is inductive. `Inv` adds, per queue, that every entry is a caller of that
  queue that still waits and is there once (`Waiters`): otherwise a shift or a
  splice could change the number of holders by something else than one. It adds
  that while anyone waits the counter is at most minus the length of the queue, so
  that `enqueue()` parks a caller exactly when nobody may be admitted, and that
  before `disable()` every limited queue is found enabled (`EnabledInv`): otherwise
  a release could bypass the counter. `Load`, holders plus waiters, changes by one
  in `enqueue()`, `release` and `splice`, and `resolveNext()` keeps it.
- `LimitRespected`: `HoldersWithinLimit`. With the accounting, the holders are the
  limit less the counter less the length of the queue, so it is enough to follow
  counter and length (`QueueMoves`): `enqueue()` parks a caller or uses a slot that
  is free, `dequeue()` gives a slot back or on, and only a splice adds a holder. It
  evicts one caller with it (`SpliceEvicts`), and nobody evicted returns.
- `NobodyIsForgotten`: `PendingIsQueued`, after `disable()` too. It is inductive
  with `Waiters`: shift and splice drop from a queue one entry and no other, and the
  promise of that entry is resolved or evicted in the same step.
- `ServedInOrder`: `FirstComeFirstServed`, an action property, from `Waiters`: only
  the head of the shifted queue can be admitted, and an entry is in one place.
- `ShutdownAdmitsNobody`: `ResumeNeedsReenabling`, for either source of the
  evaluation limit. `NoResumeDuringShutdown` is false (section 4); what is true is that
  during shutdown a waiting caller is admitted only while the service is enabled again,
  and only the one step that builds the evaluation queue enables it.

`ExecutionLifecycleProofs`, for any runs, executions and limits (`RunAssumption`):

- `LifecycleTypeCorrect`: `TypeOK`.
- `LifecycleUsesService`: `Spec => ccSpec`. Every step of a main is one call of the
  service, or none, and it calls only what `ccSpec` allows its callers. Hence
  `LifecycleSlotsAccountedFor`: what is proved of the service
  (`CapacityAccounted`, `NoIdleSlot`, `PendingIsQueued`, `HoldersWithinLimit`) holds
  in the composition.
- `RunsExecuteAlone`: `OneRunExecutes`. The row lets runs through: `Exclusive` says
  that at most one run of an execution is between `add()` and its end, none while
  the row waits, and none before the first run has passed.
- `SlotsHaveOwners`: `SlotHasOwner`, for workflows that wait too. `OwnerInv` follows a
  run from its slot to its entry and relates entry, attachment and promise, and says of
  a slot that nobody will release that its run was stranded or its entry marked waiting.
- `ThrottledRunsAreServed`: `ThrottledRunHasHolder`. A
  throttled run is in its queue, a queue with an entry has no idle slot and its limit
  is positive, so somebody holds a slot of it; by `SlotsHaveOwners` that run will
  release it, or the queue has lost it. This is the part of `ThrottledRunProceeds` that
  needs no fairness.

`EvaluationFanOutProofs`, for any test runs, cases and limits (`FanOutAssumption`):

- `FanOutTypeCorrect`: `fanTypeOK`.
- `FanOutUsesService`: `fanSpec => ccSpec`. `CaseInv` relates the step of a case to
  its promise, and a case whose abort handler has fired was throttled; `remove()` is
  therefore called for a case that waits, or finds nothing and changes nothing.
  `FanOutKeepsService` carries the properties of the service over.
- `OnlyEvictionsKeepSlots`: `SlotsKeptOnlyByEviction`, for any `Parallel`: the slot
  that `fan_cancel` shows lost is lost in this way only, by a case whose sibling was
  evicted.
- `WaitingCasesAreServed`: `WaitingCaseHasHolder`, for any `Parallel`. A queued case
  finds no idle slot, and every holder is a case that will release or one that has
  ended with its slot; if all are of the second kind, every slot has leaked.

`LeaderElectionProofs`, for any set of hosts and any `MaxChecks`, `MaxFaults`
(`HostAssumption`):

- `LeaderAssertionsHold`: `AssertionsHold` under any faults. Its invariant says, per
  host, that a check in progress is recorded in `leaderCheckInProgress`, that there
  is one at a time and none before `init()` has finished. The content of Redis
  plays no part.
- `LeaderHoldsKey`: `HealthyLeaderHoldsKey`. Its invariant says that before the
  first fault every host that is leader, or has an answer on its way that will make
  it one, holds the key (`ClaimsAreOwned`), and that a `DEL` on the wire belongs to
  the host that holds the key (`DeletesAreOwned`, `OneDelete`): this is why the
  unguarded delete of `shutdown()` does no harm while there is no fault.
- `LeaderTypeCorrect`: `TypeOK`, across the faults too.

`WaitTrackerProofs`, for any mains, executions, parents and bounds
(`TrackerAssumption`):

- `TrackerTypeCorrect`: `TypeOK`. The number of intervals is bounded by the number of
  terms (`IntervalInv`), which is what makes it inductive. That attempts stay within
  `MaxAttempts` is a part of it.
- `ExecutionsRunAlone`: `OneRunAtATime`. Whoever resumes an execution has found its
  row waiting; `LiveRowIsTaken` says that the row of a live run does not wait.

`ScalingQueueProofs`, for any mains, executions and faults (`QueueAssumption`):

- `QueueInvariant`: per execution, where the job, the run, the row and the owner are
  bounds where the others can be (`JobOnce`, `RunOnce`, `RowFollows`, `Untouched`).
  `TypeOK` is not inductive without it: what a caller is told is one of the ends of
  an execution only because Bull completes a job after its row was saved.
- `QueueTypeCorrect`: `TypeOK`. `ExecutionsRunOnce`: `RunAtMostOnce`.
  `SuccessesAreReal`: `SuccessIsReal`, from what main takes as the result of a run
  (`Reads`). `LeadersRecover`: `LeaderRecovers`.

`WorkflowPublicationProofs`, for any mains, workflows, versions and bounds
(`PublicationAssumption`):

- `PublicationInvariant`: of the records of a workflow the last one alone may be
  pending and one at most is in progress (`RecordsInv`), and a chain of poll cycles
  that is under way works on a record in progress that no other chain works on
  (`ChainsInv`).
- `PublicationTypeCorrect`: `TypeOK`. `PublicationSerialized`: `SerializedPerWorkflow`.
  `LatestRequestPublished`: `LatestRequestWins`, an action property.
- `SettledWorkflowsPublished`: `SettledIsPublished`. `FollowInv` adds what a chain has
  already done at each of its steps: which version is published, and which triggers
  the memory of the first leader holds between the removal of the old ones and the
  addition of the new ones (`Reconciling`); nothing is registered over another trigger,
  so that none is left unclosed.

`TaskBrokerProofs`, for any runners, calls, `MaxConcurrency` and `MaxOffers`
(`BrokerAssumption`):

- `WithoutProperties`, what filtering a list keeps. The provers cannot instantiate an
  induction rule; the lemmas take the least prefix for which a statement fails (the
  natural numbers are well-founded) and derive a contradiction.
- `BrokerInvariant`, on `BrokerInv`. Its parts follow one offer: its number is used
  once (`NumberInv`), and it is on the wire, in the list or accepted, never in two of
  these places (`OfferInv`); its settings are sent once, when its task is entered
  (`SettingsInv`); a request is given to one task and is not pending from then on
  (`GivenInv`); a result on the wire or given to a caller is that of finished work
  (`DoneInv`). None is inductive alone: that settings find a waiting task needs that
  an offer cannot be accepted twice, and this needs that it is never listed again.
- `BrokerTypeCorrect`: `TypeOK`. `RequestsExecutedOnce`: `AtMostOnce`.
  `SettingsAssertionHolds`: `SettingsFindWaitingTask`. `UnknownRunnersForgotten`:
  `NothingOfUnknownRunner`. `OffersFitCapacity`: `OffersWithinCapacity`.
- `BrokerImplementsTaskCalls`: `ImplementsTaskCalls`. A step of the broker moves calls
  and changes no work (`BrokerImplements`); a step of a runner changes no call, and
  starts only work that was given to it (`RunnerImplements`).

**Only model-checked.** All liveness properties (`ThrottledRunProceeds`,
`EveryCaseEnds`, `EventuallyOneLeader`, `DueExecutionsResume`, `ResumedOrExhausted`,
`EveryCallEnds`, `TasksForgotten`, `InProgressEnds`, `CallerAnswered`,
`ClaimableIsClaimed`): fairness and `ENABLED` are outside what the prover does. Of
`ThrottledRunProceeds` and `EveryCaseEnds` the proofs have the part that is not about
fairness: whoever waits waits for somebody who holds a slot and will release it. So
nothing but the end of the holder's workflow is assumed.

## 6. Running

    tlc -workers 2 -config lc_runs.cfg MCExecutionLifecycle
    tlapm TaskBrokerProofs.tla

The module of each run is in `PROJECT.json`. Proofs are in the modules whose names
end in `Proofs`.
