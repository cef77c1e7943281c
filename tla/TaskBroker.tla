----------------------------- MODULE TaskBroker -----------------------------
(***************************************************************************)
(* The task broker of a main, the local requester in the same process and  *)
(* the task runners that connect to it (packages/cli/src/task-runners and  *)
(* packages/@n8n/task-runner), in external mode.                           *)
(*                                                                         *)
(* A request is one call of startTask(); an offer is numbered within the   *)
(* runner that makes it and also names the task that is made of it, since  *)
(* each acceptOffer() uses up one offer.  Broker and requester call each   *)
(* other within one process, so that everything between two messages of    *)
(* runners, or two timers, is one action; a runner is reached through a    *)
(* WebSocket, one ordered wire in each direction.  All offers and requests *)
(* are of one task type.                                                   *)
(***************************************************************************)
EXTENDS Integers, FiniteSets, SequencesExt

CONSTANTS
    Runner,          \* the runner processes that ever connect
    Request,         \* the calls of startTask()
    MaxConcurrency,  \* maxConcurrency of a runner
    MaxOffers,       \* bound: the offers a runner makes in its life
    NoRequest

ASSUME BrokerAssumption ==
    /\ NoRequest \notin Request
    /\ MaxConcurrency \in Nat \ {0}
    /\ MaxOffers \in Nat

Number == 1..MaxOffers
Offer == Runner \X Number

VARIABLES
    known,     \* TaskBroker.knownRunners
    offers,    \* TaskBroker.pendingTaskOffers
    requests,  \* TaskBroker.pendingTaskRequests
    phase,     \* what the broker makes of an offer: acceptOffer() awaits the
               \* runner, the tasks map holds it, or it is done with
    forReq,    \* the request an offer was accepted for
    draining,  \* TaskBroker.isDraining
    call,      \* TaskRequester: where each call of startTask() is
    proc,      \* the runner process
    canSend,   \* TaskRunner.canSendOffers
    issued,    \* how many offers the runner has made
    open,      \* TaskRunner.openOffers
    run,       \* TaskRunner.runningTasks: the status of a task
    toBroker,  \* messages of a runner on their way
    toRunner   \* messages of the broker to a runner on their way

brokerVars == <<known, offers, requests, phase, forReq, draining, call>>
runnerVars == <<proc, canSend, issued, open, run>>
wires == <<toBroker, toRunner>>
vars == <<brokerVars, runnerVars, wires>>

Phase == {"free", "accepting", "task", "over"}
Call == {"idle", "asked", "given", "done", "failed", "expired"}
Proc == {"off", "up", "stopping", "gone"}
Executing == {"running", "timeout", "cancelled"}
Active == {"waiting"} \cup Executing
Status == {"none", "dropped", "ran"} \cup Active

Message == ({"registered", "drain", "close"} \X {0})
    \cup ({"accept", "settings", "cancel", "offer", "accepted", "rejected", "done", "error"} \X Number)

Init ==
    /\ known = {} /\ offers = <<>> /\ requests = <<>> /\ draining = FALSE
    /\ phase = [o \in Offer |-> "free"]
    /\ forReq = [o \in Offer |-> NoRequest]
    /\ call = [q \in Request |-> "idle"]
    /\ proc = [r \in Runner |-> "off"]
    /\ canSend = [r \in Runner |-> FALSE]
    /\ issued = [r \in Runner |-> 0]
    /\ open = [r \in Runner |-> {}]
    /\ run = [o \in Offer |-> "none"]
    /\ toBroker = [r \in Runner |-> <<>>]
    /\ toRunner = [r \in Runner |-> <<>>]

-----------------------------------------------------------------------------
(* The broker: matching offers and requests. *)

(* Array.prototype.filter(): the elements of s that are not in S, in order. *)
Without(s, S) ==
    LET kept[i \in 0..Len(s)] ==
            IF i = 0 THEN <<>>
            ELSE IF s[i] \in S THEN kept[i - 1] ELSE Append(kept[i - 1], s[i])
    IN  kept[Len(s)]

Lesser(m, n) == IF m < n THEN m ELSE n

(* request.acceptInProgress: an acceptOffer() for q awaits its runner. *)
AcceptInProgress(q) == \E o \in Offer : phase[o] = "accepting" /\ forReq[o] = q

(* A message to a runner; one whose process has ended loses it. *)
Sent(r, msgs) == IF proc[r] \in {"up", "stopping"} THEN toRunner[r] \o msgs ELSE toRunner[r]

Accepts(s, r) ==
    LET mine == Without(s, {o \in Offer : o[1] # r})
    IN  [i \in DOMAIN mine |-> <<"accept", mine[i][2]>>]

(* settleTasks(): expireTasks() drops the offers that are too old, then the *)
(* requests no acceptOffer() works on take the remaining offers in order.   *)
settleTasks(offs, reqs) ==
    \E expired \in SUBSET ToSet(offs) :
        LET valid == Without(offs, expired)
            idle  == Without(reqs, {q \in Request : AcceptInProgress(q)})
            n     == Lesser(Len(valid), Len(idle))
            taken == SubSeq(valid, 1, n)
        IN  /\ offers' = SubSeq(valid, n + 1, Len(valid))
            /\ phase' = [o \in Offer |-> IF o \in ToSet(taken) THEN "accepting" ELSE phase[o]]
            /\ forReq' = [o \in Offer |->
                   IF o \in ToSet(taken) THEN idle[CHOOSE i \in 1..n : taken[i] = o] ELSE forReq[o]]
            /\ toRunner' = [r \in Runner |-> Sent(r, Accepts(taken, r))]

(* startTask() and taskRequested(). *)
taskRequested(q) ==
    /\ call[q] = "idle"
    /\ IF draining
       THEN /\ call' = [call EXCEPT ![q] = "expired"]
            /\ UNCHANGED <<offers, requests, phase, forReq, toRunner>>
       ELSE /\ call' = [call EXCEPT ![q] = "asked"]
            /\ requests' = Append(requests, q)
            /\ settleTasks(offers, requests')
    /\ UNCHANGED <<known, draining, runnerVars, toBroker>>

(* handleRequestTimeout() without the splice. *)
handleRequestTimeoutKeepingRequest(q) ==
    /\ call[q] = "asked"
    /\ call' = [call EXCEPT ![q] = "expired"]
    /\ UNCHANGED <<known, offers, requests, phase, forReq, draining, runnerVars, wires>>

(* createRequestTimeout(): the timer of a pending request fires. *)
handleRequestTimeout(q) ==
    /\ q \in ToSet(requests)
    /\ requests' = Without(requests, {q})
    /\ call' = [call EXCEPT ![q] = "expired"]
    /\ UNCHANGED <<known, offers, phase, forReq, draining, runnerVars, wires>>

-----------------------------------------------------------------------------
(* The broker: messages of runners. *)

(* A message of r is taken off the wire.  Of a runner that is not known it  *)
(* changes nothing else.                                                    *)
Receives(r, kind) ==
    /\ toBroker[r] # <<>> /\ Head(toBroker[r])[1] = kind
    /\ toBroker' = [toBroker EXCEPT ![r] = Tail(@)]

taskOffered(r) ==
    /\ Receives(r, "offer")
    /\ r \in known
    /\ settleTasks(Append(offers, <<r, Head(toBroker[r])[2]>>), requests)
    /\ UNCHANGED <<known, requests, draining, call, runnerVars>>

(* handleRunnerAccept() that takes late accepts for a call that is not over. *)
handleRunnerAcceptAnyway(r) ==
    LET o == <<r, Head(toBroker[r])[2]>>
        q == forReq[o]
    IN  /\ Receives(r, "accepted")
        /\ r \in known /\ call[q] \in {"asked", "given"}
        /\ phase' = [phase EXCEPT ![o] = "task"]
        /\ requests' = Without(requests, {q})
        /\ call' = [call EXCEPT ![q] = "given"]
        /\ toRunner' = [toRunner EXCEPT ![r] = Sent(r, <<<<"settings", o[2]>>>>)]
        /\ UNCHANGED <<known, offers, forReq, draining, runnerVars>>

(* handleRunnerAccept() with settings sent by the requester and the broker. *)
handleRunnerAcceptTwice(r) ==
    LET o == <<r, Head(toBroker[r])[2]>>
        q == forReq[o]
    IN  /\ Receives(r, "accepted")
        /\ r \in known /\ phase[o] = "accepting" /\ q \in ToSet(requests)
        /\ phase' = [phase EXCEPT ![o] = "task"]
        /\ requests' = Without(requests, {q})
        /\ call' = [call EXCEPT ![q] = "given"]
        /\ toRunner' = [toRunner EXCEPT ![r] = Sent(r, <<<<"settings", o[2]>>, <<"settings", o[2]>>>>)]
        /\ UNCHANGED <<known, offers, forReq, draining, runnerVars>>

(* handleRunnerAccept() and what acceptOffer() goes on to do: the task is    *)
(* entered, the request leaves the list, the requester is told and answers  *)
(* with its settings, which are sent to the runner.  Broker and requester    *)
(* are one process, so that this answer takes no message and its two seconds *)
(* cannot run out.  The request may have timed out; then the task stays      *)
(* without settings.  An accept nobody awaits any more has no effect.        *)
handleRunnerAccept(r) ==
    LET o == <<r, Head(toBroker[r])[2]>>
        q == forReq[o]
    IN  /\ Receives(r, "accepted")
        /\ r \in known
        /\ IF phase[o] # "accepting"
           THEN UNCHANGED <<phase, requests, call, toRunner>>
           ELSE /\ phase' = [phase EXCEPT ![o] = "task"]
                /\ IF q \in ToSet(requests)
                   THEN /\ requests' = Without(requests, {q})
                        /\ call' = [call EXCEPT ![q] = "given"]
                        /\ toRunner' = [toRunner EXCEPT ![r] = Sent(r, <<<<"settings", o[2]>>>>)]
                   ELSE UNCHANGED <<requests, call, toRunner>>
        /\ UNCHANGED <<known, offers, forReq, draining, runnerVars>>

(* handleRunnerReject() and handleRunnerDeferred(): the request may be       *)
(* matched again, when the next offer or request arrives.  A deferral also   *)
(* restarts the request's timer; timers are untimed here, each may fire at   *)
(* any moment while its request is pending, restarted or not.                *)
handleRunnerReject(r) ==
    LET o == <<r, Head(toBroker[r])[2]>>
    IN  /\ Receives(r, "rejected")
        /\ r \in known
        /\ phase' = IF phase[o] = "accepting" THEN [phase EXCEPT ![o] = "over"] ELSE phase
        /\ UNCHANGED <<known, offers, requests, forReq, draining, call, runnerVars, toRunner>>

(* The requester's promise for task o is settled, if it has one. *)
Answered(o, result) ==
    IF phase[o] = "task" /\ call[forReq[o]] = "given"
    THEN [call EXCEPT ![forReq[o]] = result] ELSE call

(* taskDoneHandler() and taskErrorHandler(). *)
taskDoneHandler(r) ==
    LET o == <<r, Head(toBroker[r])[2]>>
        kind == Head(toBroker[r])[1]
    IN  /\ Receives(r, "done") \/ Receives(r, "error")
        /\ r \in known
        /\ call' = Answered(o, IF kind = "done" THEN "done" ELSE "failed")
        /\ phase' = IF phase[o] = "task" THEN [phase EXCEPT ![o] = "over"] ELSE phase
        /\ UNCHANGED <<known, offers, requests, forReq, draining, runnerVars, toRunner>>

messageIgnored(r) ==
    /\ r \notin known /\ toBroker[r] # <<>>
    /\ toBroker' = [toBroker EXCEPT ![r] = Tail(@)]
    /\ UNCHANGED <<brokerVars, runnerVars, toRunner>>

(* The two seconds of acceptOffer() are over. *)
acceptTimeout(o) ==
    /\ phase[o] = "accepting"
    /\ phase' = [phase EXCEPT ![o] = "over"]
    /\ UNCHANGED <<known, offers, requests, forReq, draining, call, runnerVars, wires>>

(* handleTaskTimeout() that deletes the task before it reports the error. *)
handleTaskTimeoutUnreported(o) ==
    /\ phase[o] = "task" /\ call[forReq[o]] = "given"
    /\ toRunner' = [toRunner EXCEPT ![o[1]] = Sent(o[1], <<<<"cancel", o[2]>>>>)]
    /\ phase' = [phase EXCEPT ![o] = "over"]
    /\ UNCHANGED <<known, offers, requests, forReq, draining, call, runnerVars, toBroker>>

(* handleTaskTimeout(): the timer sendTaskSettings() has set.  A cancelled   *)
(* execution has the same effect at any moment (TaskRequester.cancelTask()   *)
(* rejects the caller, and the broker's cancelTask() drops the task and      *)
(* sends the runner its cancellation), so that this action stands for both.  *)
handleTaskTimeout(o) ==
    /\ phase[o] = "task" /\ call[forReq[o]] = "given"
    /\ toRunner' = [toRunner EXCEPT ![o[1]] = Sent(o[1], <<<<"cancel", o[2]>>>>)]
    /\ call' = Answered(o, "failed")
    /\ phase' = [phase EXCEPT ![o] = "over"]
    /\ UNCHANGED <<known, offers, requests, forReq, draining, runnerVars, toBroker>>

-----------------------------------------------------------------------------
(* The broker: connections. *)

(* TaskBrokerWsServer.add(): a runner connects and has sent its info. *)
registerRunner(r) ==
    /\ proc[r] = "off"
    /\ proc' = [proc EXCEPT ![r] = "up"]
    /\ known' = known \cup {r}
    /\ toRunner' = [toRunner EXCEPT ![r] = <<<<"registered", 0>>>>]
    /\ UNCHANGED <<offers, requests, phase, forReq, draining, call, canSend, issued, open, run, toBroker>>

(* deregisterRunner() that leaves the runner's tasks in the map. *)
deregisterRunnerKeepingTasks(r) ==
    /\ known' = known \ {r}
    /\ offers' = Without(offers, {o \in Offer : o[1] = r})
    /\ UNCHANGED <<requests, phase, forReq, draining, call>>

(* The offers of r are removed and its tasks are failed; an acceptOffer()    *)
(* that still awaits r has no task yet and is left to its timeout.          *)
deregisterRunner(r) ==
    LET lost == {o \in Offer : o[1] = r /\ phase[o] = "task"}
    IN  /\ known' = known \ {r}
        /\ offers' = Without(offers, {o \in Offer : o[1] = r})
        /\ phase' = [o \in Offer |-> IF o \in lost THEN "over" ELSE phase[o]]
        /\ call' = [q \in Request |->
               IF call[q] = "given" /\ \E o \in lost : forReq[o] = q THEN "failed" ELSE call[q]]
        /\ UNCHANGED <<requests, forReq, draining>>

(* The connection of a runner that has gone closes. *)
connectionClosed(r) ==
    /\ r \in known /\ proc[r] = "gone" /\ toBroker[r] = <<>>
    /\ deregisterRunner(r)
    /\ UNCHANGED <<runnerVars, wires>>

(* removeConnection() of a failed heartbeat check, or of a stopping server. *)
removeConnection(r) ==
    /\ r \in known
    /\ deregisterRunner(r)
    /\ toRunner' = [toRunner EXCEPT ![r] = Sent(r, <<<<"close", 0>>>>)]
    /\ UNCHANGED <<runnerVars, toBroker>>

(* drainActiveTasks(). *)
startDraining ==
    /\ ~draining /\ draining' = TRUE
    /\ toRunner' = [r \in Runner |-> IF r \in known THEN Sent(r, <<<<"drain", 0>>>>) ELSE toRunner[r]]
    /\ UNCHANGED <<known, offers, requests, phase, forReq, call, runnerVars, toBroker>>

-----------------------------------------------------------------------------
(* A runner: offers. *)

Running(r, status) == {o \in Offer : o[1] = r /\ status[o] \in Active}

(* sendOffers(), after the message sent: deleteStaleOffers(), then as many   *)
(* offers as keep open offers and running tasks within maxConcurrency.      *)
sendOffers(r, opened, status, sent) ==
    \E stale \in SUBSET opened :
        LET fresh == opened \ stale
            room  == MaxConcurrency - (Cardinality(fresh) + Cardinality(Running(r, status)))
            n     == IF canSend[r] /\ room > 0 THEN Lesser(room, MaxOffers - issued[r]) ELSE 0
            made  == issued[r] + 1 .. issued[r] + n
        IN  /\ open' = [open EXCEPT ![r] = fresh \cup made]
            /\ issued' = [issued EXCEPT ![r] = @ + n]
            /\ toBroker' = [toBroker EXCEPT ![r] = @ \o sent \o [i \in 1..n |-> <<"offer", issued[r] + i>>]]

(* The interval of startTaskOffers(), every 250 ms. *)
offerInterval(r) ==
    /\ canSend[r]
    /\ sendOffers(r, open[r], run, <<>>)
    /\ UNCHANGED <<brokerVars, proc, canSend, run, toRunner>>

(* finishTask(), in its two outcomes: the task was executed or it was not. *)
finishTask(o, sent) ==
    /\ run' = [run EXCEPT ![o] = IF @ = "waiting" THEN "dropped" ELSE "ran"]
    /\ sendOffers(o[1], open[o[1]], run', sent)

-----------------------------------------------------------------------------
(* A runner: messages of the broker. *)

Gets(r, kind) ==
    /\ proc[r] \in {"up", "stopping"}
    /\ toRunner[r] # <<>> /\ Head(toRunner[r])[1] = kind
    /\ toRunner' = [toRunner EXCEPT ![r] = Tail(@)]

startTaskOffers(r) ==
    /\ Gets(r, "registered")
    /\ canSend' = [canSend EXCEPT ![r] = TRUE]
    /\ UNCHANGED <<brokerVars, proc, issued, open, run, toBroker>>

stopTaskOffers(r) ==
    /\ Gets(r, "drain")
    /\ canSend' = [canSend EXCEPT ![r] = FALSE]
    /\ UNCHANGED <<brokerVars, proc, issued, open, run, toBroker>>

(* hasOpenTaskSlots() *)
hasOpenTaskSlots(r) == Cardinality(Running(r, run)) < MaxConcurrency

offerAccepted(r) ==
    LET n == Head(toRunner[r])[2]
        taken == proc[r] = "up" /\ hasOpenTaskSlots(r) /\ n \in open[r]
    IN  /\ Gets(r, "accept")
        /\ open' = IF proc[r] = "up" THEN [open EXCEPT ![r] = @ \ {n}] ELSE open
        /\ run' = IF taken THEN [run EXCEPT ![<<r, n>>] = "waiting"] ELSE run
        /\ toBroker' = [toBroker EXCEPT ![r] =
               Append(@, <<IF taken THEN "accepted" ELSE "rejected", n>>)]
        /\ UNCHANGED <<brokerVars, proc, canSend, issued>>

(* A task that is not running any more is not in runningTasks: no effect. *)
taskCancelled(r) ==
    LET o == <<r, Head(toRunner[r])[2]>>
    IN  /\ Gets(r, "cancel")
        /\ IF run[o] = "waiting"
           THEN finishTask(o, <<>>)
           ELSE /\ run' = IF run[o] = "running" THEN [run EXCEPT ![o] = "cancelled"] ELSE run
                /\ UNCHANGED <<issued, open, toBroker>>
        /\ UNCHANGED <<brokerVars, proc, canSend>>

(* receivedSettings(): an unexpected status throws and changes nothing. *)
receivedSettings(r) ==
    LET o == <<r, Head(toRunner[r])[2]>>
    IN  /\ Gets(r, "settings")
        /\ run' = IF run[o] = "waiting" THEN [run EXCEPT ![o] = "running"] ELSE run
        /\ UNCHANGED <<brokerVars, proc, canSend, issued, open, toBroker>>

-----------------------------------------------------------------------------
(* A runner: executions, timers and the end of the process. *)

(* taskTimedOut() that frees the slot and tells nobody. *)
taskTimedOutSilently(o) ==
    /\ run[o] \in {"waiting", "running"}
    /\ IF run[o] = "waiting"
       THEN finishTask(o, <<>>)
       ELSE /\ run' = [run EXCEPT ![o] = "timeout"]
            /\ UNCHANGED <<issued, open, toBroker>>
    /\ UNCHANGED <<brokerVars, proc, canSend, toRunner>>

taskTimedOut(o) ==
    /\ run[o] \in {"waiting", "running"}
    /\ IF run[o] = "waiting"
       THEN finishTask(o, <<<<"error", o[2]>>>>)
       ELSE /\ run' = [run EXCEPT ![o] = "timeout"]
            /\ UNCHANGED <<issued, open, toBroker>>
    /\ UNCHANGED <<brokerVars, proc, canSend, toRunner>>

(* executeTask() settles: taskExecutionSucceeded() or taskExecutionFailed(), *)
(* which send nothing for a cancelled task.                                 *)
executionEnds(o) ==
    /\ run[o] \in Executing
    /\ \E kind \in {"done", "error"} :
           finishTask(o, IF run[o] = "cancelled" THEN <<>> ELSE <<<<kind, o[2]>>>>)
    /\ UNCHANGED <<brokerVars, proc, canSend, toRunner>>

(* stop(): of a signal or of the idle timeout. *)
stop(r) ==
    /\ proc[r] = "up"
    /\ proc' = [proc EXCEPT ![r] = "stopping"]
    /\ canSend' = [canSend EXCEPT ![r] = FALSE]
    /\ open' = [open EXCEPT ![r] = {}]
    /\ UNCHANGED <<brokerVars, issued, run, wires>>

(* The process ends: what runs in it ends, what it has not read is lost. *)
Exits(r) ==
    /\ proc' = [proc EXCEPT ![r] = "gone"]
    /\ canSend' = [canSend EXCEPT ![r] = FALSE]
    /\ open' = [open EXCEPT ![r] = {}]
    /\ run' = [o \in Offer |->
           IF o[1] = r /\ run[o] \in Executing THEN "ran"
           ELSE IF o[1] = r /\ run[o] = "waiting" THEN "dropped" ELSE run[o]]
    /\ toRunner' = [toRunner EXCEPT ![r] = <<>>]
    /\ UNCHANGED <<brokerVars, issued>>

(* waitUntilAllTasksAreDone() and closeConnection(). *)
closeConnection(r) ==
    /\ proc[r] = "stopping" /\ Running(r, run) = {}
    /\ Exits(r)
    /\ UNCHANGED toBroker

(* onConnectionClose(): unless it is stopping, the runner exits at once. *)
onConnectionClose(r) ==
    /\ proc[r] \in {"up", "stopping"}
    /\ toRunner[r] # <<>> /\ Head(toRunner[r])[1] = "close"
    /\ IF proc[r] = "up"
       THEN Exits(r)
       ELSE /\ toRunner' = [toRunner EXCEPT ![r] = Tail(@)]
            /\ UNCHANGED <<brokerVars, runnerVars>>
    /\ UNCHANGED toBroker

(* A crash, or the forced exit of a shutdown that takes too long; messages   *)
(* it has sent may or may not have left the machine.                        *)
crash(r) ==
    /\ proc[r] \in {"up", "stopping"}
    /\ \E n \in 0..Len(toBroker[r]) : toBroker' = [toBroker EXCEPT ![r] = SubSeq(@, 1, n)]
    /\ Exits(r)

-----------------------------------------------------------------------------
brokerStep(r) ==
    \/ taskOffered(r) \/ handleRunnerAccept(r) \/ handleRunnerReject(r) \/ taskDoneHandler(r)
    \/ messageIgnored(r)

brokerTimer(o) == acceptTimeout(o) \/ handleTaskTimeout(o)

runnerStep(r) ==
    \/ startTaskOffers(r) \/ stopTaskOffers(r) \/ offerAccepted(r) \/ taskCancelled(r)
    \/ receivedSettings(r) \/ onConnectionClose(r) \/ closeConnection(r)

Next ==
    \/ \E q \in Request : taskRequested(q) \/ handleRequestTimeout(q)
    \/ \E o \in Offer : brokerTimer(o) \/ taskTimedOut(o) \/ executionEnds(o)
    \/ \E r \in Runner :
           \/ registerRunner(r) \/ connectionClosed(r) \/ removeConnection(r)
           \/ brokerStep(r) \/ runnerStep(r)
           \/ offerInterval(r) \/ stop(r) \/ crash(r)
    \/ startDraining

(* Messages of a live connection arrive, timers fire and closed connections  *)
(* are noticed.  Nobody promises that user code ends, that runners connect,  *)
(* that they offer anything, or that they stop or crash.                     *)
Fairness ==
    /\ \A q \in Request : WF_vars(handleRequestTimeout(q))
    /\ \A o \in Offer : WF_vars(brokerTimer(o)) /\ WF_vars(taskTimedOut(o))
    /\ \A r \in Runner : WF_vars(brokerStep(r)) /\ WF_vars(runnerStep(r)) /\ WF_vars(connectionClosed(r))

Spec == Init /\ [][Next]_vars /\ Fairness

-----------------------------------------------------------------------------
(* Every variable has its type, and offers, requests and wires hold only     *)
(* what exists.                                                              *)
TypeOK ==
    /\ known \subseteq Runner
    /\ offers \in Seq(Offer) /\ requests \in Seq(Request)
    /\ phase \in [Offer -> Phase] /\ forReq \in [Offer -> Request \cup {NoRequest}]
    /\ draining \in BOOLEAN /\ call \in [Request -> Call]
    /\ proc \in [Runner -> Proc] /\ canSend \in [Runner -> BOOLEAN]
    /\ issued \in [Runner -> 0..MaxOffers] /\ open \in [Runner -> SUBSET Number]
    /\ run \in [Offer -> Status]
    /\ toBroker \in [Runner -> Seq(Message)] /\ toRunner \in [Runner -> Seq(Message)]

(* A request is executed by at most one runner, even when the broker offers  *)
(* it again after an accept timed out, was rejected, or came too late.       *)
AtMostOnce ==
    \A o, b \in Offer :
        o # b /\ forReq[o] = forReq[b] =>
            ~(run[o] \in Executing \cup {"ran"} /\ run[b] \in Executing \cup {"ran"})

(* The assertion in receivedSettings(): settings never find a task that is   *)
(* already running or being aborted (throwUnexpectedTaskStatus).             *)
SettingsFindWaitingTask ==
    \A r \in Runner : \A i \in DOMAIN toRunner[r] :
        toRunner[r][i][1] = "settings" => run[<<r, toRunner[r][i][2]>>] \notin Executing

(* A task in the broker's map, and an offer in its list, belong to a runner  *)
(* that is connected: a disconnect leaves nothing a caller would wait for.   *)
NothingOfUnknownRunner ==
    /\ \A o \in Offer : phase[o] = "task" => o[1] \in known
    /\ \A o \in ToSet(offers) : o[1] \in known

(* Open offers and running tasks of a runner together stay within            *)
(* maxConcurrency, so that the broker is never promised a slot that is taken.*)
OffersWithinCapacity ==
    \A r \in Runner : Cardinality(open[r]) + Cardinality(Running(r, run)) <= MaxConcurrency

(* Every call of startTask() ends. *)
EveryCallEnds == \A q \in Request : call[q] # "idle" ~> call[q] \in {"done", "failed", "expired"}

(* The broker does not keep a task forever, not even one whose request had   *)
(* timed out when the runner accepted it and that never gets settings.       *)
TasksForgotten == \A o \in Offer : phase[o] = "task" ~> phase[o] = "over"

(* The broker, the runners and the wires implement TaskCalls. *)
WorkOf(q) ==
    LET of == {run[o] : o \in {b \in Offer : forReq[b] = q}}
    IN  IF "ran" \in of THEN "finished"
        ELSE IF of \cap Executing # {} THEN "started" ELSE "none"

Calls == INSTANCE TaskCalls WITH stage <- call, work <- [q \in Request |-> WorkOf(q)]

(* Every step of the detailed system is a step of the calls it serves, or    *)
(* invisible to them.                                                        *)
ImplementsTaskCalls == Calls!CallsSpec
=============================================================================
