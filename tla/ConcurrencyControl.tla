------------------------- MODULE ConcurrencyControl -------------------------
(***************************************************************************)
(* ConcurrencyControlService and ConcurrencyQueue of packages/cli          *)
(* (concurrency/), in regular mode: the counter and the FIFO queue that    *)
(* throttle production and evaluation executions of one main process.      *)
(*                                                                         *)
(* A caller is one call of throttle(); the promise it awaits is resolved   *)
(* at once, when it leaves the queue by resolveNext(), or never (it was    *)
(* spliced out of the queue by remove()).  Node runs each of these methods *)
(* without interruption, so each is one action.                            *)
(***************************************************************************)
EXTENDS Integers, Sequences, FiniteSets

CONSTANTS
    Caller,            \* the calls of throttle()
    IdOf,              \* the executionId a call names
    QueueOf,           \* getQueue() of the call's mode; "none": never throttled
    Limit,             \* the normalised limit of each queue; -1 is unlimited
    EvalLimitFromEnv   \* the evaluation limit is known when the service is built

QueueType == {"production", "evaluation"}

ASSUME CallerAssumption ==
    /\ IsFiniteSet(Caller)
    /\ QueueOf \in [Caller -> QueueType \cup {"none"}]

(* normaliseLimit() refuses 0 and maps everything below -1 to -1. *)
ASSUME LimitAssumption ==
    /\ Limit \in [QueueType -> Int]
    /\ \A t \in QueueType : Limit[t] = -1 \/ Limit[t] > 0
    /\ EvalLimitFromEnv \in BOOLEAN

VARIABLES
    isEnabled,          \* ConcurrencyControlService.isEnabled
    evalQueueResolved,  \* ConcurrencyControlService.evalQueueResolved
    capacity,           \* ConcurrencyQueue.capacity of each queue
    queue,              \* ConcurrencyQueue.queue of each queue
    grant,              \* what became of the promise each caller awaits
    disabled            \* history: disable() has been called

ccVars == <<isEnabled, evalQueueResolved, capacity, queue, grant, disabled>>

Grant == {"none", "queued", "granted", "released", "evicted"}

-----------------------------------------------------------------------------
(* The callers that hold a slot of queue t, those that were spliced out of   *)
(* it, and the ids waiting in it.                                            *)
Granted(t) == {c \in Caller : QueueOf[c] = t /\ grant[c] = "granted"}

Evicted(t) == {c \in Caller : QueueOf[c] = t /\ grant[c] = "evicted"}

InQueue(t, id) == \E i \in DOMAIN queue[t] : IdOf[queue[t][i]] = id

has(id) ==
    /\ isEnabled
    /\ \E t \in QueueType : InQueue(t, id)

ccInit ==
    /\ evalQueueResolved = (EvalLimitFromEnv /\ Limit["evaluation"] > 0)
    /\ isEnabled = (Limit["production"] > 0 \/ evalQueueResolved)
    /\ capacity = Limit
    /\ queue = [t \in QueueType |-> <<>>]
    /\ grant = [c \in Caller |-> "none"]
    /\ disabled = FALSE

(* Looking up the queue of an evaluation for the first time builds it, and  *)
(* building it enables the service.                                         *)
BuildsEvalQueue(t) ==
    t = "evaluation" /\ ~evalQueueResolved /\ Limit["evaluation"] > 0

ensureEvalQueueResolved(t) ==
    /\ evalQueueResolved' = (evalQueueResolved \/ t = "evaluation")
    /\ isEnabled' = (isEnabled \/ BuildsEvalQueue(t))

(* The test every method makes before it touches the queue: !isEnabled ||   *)
(* isUnlimited(mode) returns early.                                         *)
IsThrottled(t) ==
    /\ isEnabled \/ BuildsEvalQueue(t)
    /\ t \in QueueType
    /\ Limit[t] > 0

(* A shift that forgets to resolve the promise it takes off the queue. *)
ResolveNextSilently(q, g) == g

(* resolveNext(): what shifting the head of q resolves, on top of grants g. *)
ResolveNext(q, g) ==
    IF q = <<>> THEN g ELSE [g EXCEPT ![Head(q)] = "granted"]

Shifted(q) == IF q = <<>> THEN q ELSE Tail(q)

Splice(q, i) == SubSeq(q, 1, i - 1) \o SubSeq(q, i + 1, Len(q))

-----------------------------------------------------------------------------
(* Faulty forms of the queue's methods: the slot is given back without      *)
(* shifting the queue, the newest waiter is popped, the splice forgets the  *)
(* counter.                                                                 *)
dequeueWithoutShift(t, c) ==
    /\ capacity' = [capacity EXCEPT ![t] = @ + 1]
    /\ grant' = [grant EXCEPT ![c] = "released"]
    /\ UNCHANGED queue

dequeueNewest(t, c) ==
    LET n == Len(queue[t])
    IN  /\ capacity' = [capacity EXCEPT ![t] = @ + 1]
        /\ queue' = [queue EXCEPT ![t] = IF n = 0 THEN @ ELSE SubSeq(@, 1, n - 1)]
        /\ grant' = IF n = 0 THEN [grant EXCEPT ![c] = "released"]
                    ELSE [grant EXCEPT ![c] = "released", ![queue[t][n]] = "granted"]

removeWithoutCount(t, i) ==
    LET rest == Splice(queue[t], i)
    IN  /\ queue' = [queue EXCEPT ![t] = Shifted(rest)]
        /\ grant' = ResolveNext(rest, [grant EXCEPT ![queue[t][i]] = "evicted"])
        /\ UNCHANGED capacity

-----------------------------------------------------------------------------
enqueue(t, c) ==
    /\ capacity' = [capacity EXCEPT ![t] = @ - 1]
    /\ IF capacity[t] - 1 < 0
       THEN /\ queue' = [queue EXCEPT ![t] = Append(@, c)]
            /\ grant' = [grant EXCEPT ![c] = "queued"]
       ELSE /\ grant' = [grant EXCEPT ![c] = "granted"]
            /\ UNCHANGED queue

throttle(c) ==
    /\ grant[c] = "none"
    /\ ensureEvalQueueResolved(QueueOf[c])
    /\ IF IsThrottled(QueueOf[c])
       THEN enqueue(QueueOf[c], c)
       ELSE /\ grant' = [grant EXCEPT ![c] = "granted"]
            /\ UNCHANGED <<capacity, queue>>
    /\ UNCHANGED disabled

dequeue(t, c) ==
    /\ capacity' = [capacity EXCEPT ![t] = @ + 1]
    /\ queue' = [queue EXCEPT ![t] = Shifted(@)]
    /\ grant' = ResolveNext(queue[t], [grant EXCEPT ![c] = "released"])

(* The holder c of a slot gives it back. *)
release(c) ==
    /\ grant[c] = "granted"
    /\ ensureEvalQueueResolved(QueueOf[c])
    /\ IF IsThrottled(QueueOf[c])
       THEN dequeue(QueueOf[c], c)
       ELSE /\ grant' = [grant EXCEPT ![c] = "released"]
            /\ UNCHANGED <<capacity, queue>>
    /\ UNCHANGED disabled

(* findIndex(): i is the first entry of queue t with this id. *)
IsFirstIndex(t, id, i) ==
    /\ IdOf[queue[t][i]] = id
    /\ \A j \in 1..(i - 1) : IdOf[queue[t][j]] # id

(* The splice, the counter and the shift of ConcurrencyQueue.remove(). *)
removeFromQueue(t, i) ==
    LET rest == Splice(queue[t], i)
    IN  /\ capacity' = [capacity EXCEPT ![t] = @ + 1]
        /\ queue' = [queue EXCEPT ![t] = Shifted(rest)]
        /\ grant' = ResolveNext(rest, [grant EXCEPT ![queue[t][i]] = "evicted"])

remove(t, id) ==
    /\ ensureEvalQueueResolved(t)
    /\ \/ /\ IsThrottled(t)
          /\ \E i \in DOMAIN queue[t] : IsFirstIndex(t, id, i) /\ removeFromQueue(t, i)
       \/ /\ ~(IsThrottled(t) /\ InQueue(t, id))
          /\ UNCHANGED <<capacity, queue, grant>>
    /\ UNCHANGED disabled

disable ==
    /\ isEnabled' = FALSE
    /\ disabled' = TRUE
    /\ UNCHANGED <<evalQueueResolved, capacity, queue, grant>>

-----------------------------------------------------------------------------
(* The service under any well-behaved callers. *)
ccNext ==
    \/ \E c \in Caller : throttle(c)
    \/ \E c \in Caller : release(c)
    \/ \E c \in Caller : grant[c] = "queued" /\ remove(QueueOf[c], IdOf[c])
    \/ disable

ccSpec == ccInit /\ [][ccNext]_ccVars

-----------------------------------------------------------------------------
(* Every variable has its type. *)
ccTypeOK ==
    /\ isEnabled \in BOOLEAN
    /\ evalQueueResolved \in BOOLEAN
    /\ capacity \in [QueueType -> Int]
    /\ queue \in [QueueType -> Seq(Caller)]
    /\ grant \in [Caller -> Grant]
    /\ disabled \in BOOLEAN

(* Until shutdown disables the service, the counter of each queue accounts  *)
(* for every holder and every waiter: throttle(), release() and remove()    *)
(* together never lose or invent a slot.                                    *)
CapacityAccounted ==
    ~disabled =>
        \A t \in QueueType : Limit[t] > 0 =>
            capacity[t] = Limit[t] - Cardinality(Granted(t)) - Len(queue[t])

(* No slot is idle while an execution waits for one: enqueue() parks a      *)
(* caller only when every slot is taken, and every release passes its slot  *)
(* on.                                                                      *)
NoIdleSlot ==
    ~disabled =>
        \A t \in QueueType : queue[t] # <<>> => Cardinality(Granted(t)) >= Limit[t]

(* Max production (evaluation) executions allowed to run concurrently: no    *)
(* more callers hold a slot than the limit of their queue allows.            *)
WithinLimit ==
    ~disabled =>
        \A t \in QueueType : Limit[t] > 0 => Cardinality(Granted(t)) <= Limit[t]

(* What remains of the limit: each removal from a queue lets at most one     *)
(* execution in beyond it, since remove() resolves the next promise although *)
(* no slot came free; without removals no limit is ever exceeded.            *)
HoldersWithinLimit ==
    ~disabled =>
        \A t \in QueueType : Limit[t] > 0 =>
            Cardinality(Granted(t)) <= Limit[t] + Cardinality(Evicted(t))

(* Nobody is forgotten: a caller whose promise is pending is in a queue,     *)
(* from which a later release() or remove() takes it; neither a splice from  *)
(* the middle nor the shift of the head drops a promise unresolved.          *)
PendingIsQueued ==
    \A c \in Caller : grant[c] = "queued" =>
        \E t \in QueueType : \E i \in DOMAIN queue[t] : queue[t][i] = c

(* Executions are admitted in the order in which they were throttled: one   *)
(* that leaves the queue for a slot leaves nobody ahead of it behind.       *)
FirstComeFirstServed ==
    [][\A t \in QueueType : \A i, j \in DOMAIN queue[t] :
          i < j /\ grant'[queue[t][j]] = "granted" => grant'[queue[t][i]] # "queued"]_ccVars

(* Once shutdown has disabled the service, a release no longer admits an     *)
(* execution that was waiting: throttled executions cannot resume.           *)
NoResumeDuringShutdown ==
    [][disabled => \A c \in Caller : grant[c] = "queued" => grant'[c] # "granted"]_ccVars

(* What remains of it: an execution that waits is admitted during shutdown   *)
(* only while the service is enabled again, and it is enabled again only by  *)
(* the one step that builds the evaluation queue.                            *)
ResumeNeedsReenabling ==
    [][disabled =>
          /\ isEnabled' => isEnabled \/ (~evalQueueResolved /\ evalQueueResolved')
          /\ ~isEnabled' => \A c \in Caller : grant[c] = "queued" => grant'[c] # "granted"]_ccVars
=============================================================================
