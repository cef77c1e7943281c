----------------------- MODULE EvaluationFanOutProofs -----------------------
(***************************************************************************)
(* For any test runs, cases, limits and concurrency of the fan-out: its    *)
(* cases are well-behaved callers of the concurrency service, so that what *)
(* is proved of the service holds under them; no case ends while it is     *)
(* still queued, one that ends with a slot was admitted by the eviction of *)
(* another case of its cancelled run, and a queued case waits for a case   *)
(* that runs, unless such cases have taken every slot.                     *)
(*                                                                         *)
(* The argument ties the step of a case to its promise (CaseInv).  An      *)
(* eviction finds the entry of its case because whoever is pending is      *)
(* queued (PendingIsQueued) and ids differ; the evictions under way are    *)
(* those of one run, so that a case admitted while it gives up was         *)
(* admitted by another one of its run.                                     *)
(***************************************************************************)
EXTENDS EvaluationFanOut, ConcurrencyControlProofs

(* Another case of the same test run was taken out of the queue. *)
SiblingEvicted(c) ==
    \E d \in Case : d # c /\ RunOf[d] = RunOf[c] /\ grant[d] = "evicted"

CaseInv ==
    /\ \A c \in Case : step[c] \in {"limit", "claiming"} => grant[c] = "none"
    /\ \A c \in Case : step[c] = "throttled" => grant[c] \in {"queued", "granted"}
    /\ \A c \in Case : step[c] = "done" => grant[c] # "queued"
    /\ \A c \in Case : step[c] = "done" /\ grant[c] = "granted" => SiblingEvicted(c)
    /\ \A c \in evictions : step[c] = "throttled"
    /\ \A c, d \in evictions : RunOf[c] = RunOf[d]
    /\ \A c \in evictions : grant[c] = "granted" => SiblingEvicted(c)

(* The first throttle() of a case builds the evaluation queue, and nothing   *)
(* of the fan-out disables the service.                                      *)
ServiceReady ==
    /\ ~disabled
    /\ \A c \in Case : grant[c] # "none" => evalQueueResolved

FanInv == fanTypeOK /\ Inv /\ PendingIsQueued /\ ServiceReady /\ CaseInv

-----------------------------------------------------------------------------
(* An eviction evicts the case it is for, and may admit another one.        *)
LEMMA EvictionTakesEntry ==
    ASSUME FanInv, NEW c \in Case, grant[c] = "queued", remove("evaluation", IdOf[c])
    PROVE  /\ grant'[c] = "evicted"
           /\ \A d \in Case : d # c =>
                  grant'[d] = grant[d] \/ (grant[d] = "queued" /\ grant'[d] = "granted")
<1> DEFINE t == "evaluation"
<1>1. /\ t \in QueueType /\ queue[t] \in Seq(Caller) /\ grant \in [Caller -> Grant]
      /\ Waiters(queue[t], grant, t) /\ DOMAIN queue[t] = 1..Len(queue[t])
      /\ c \in Caller
  BY DEF FanInv, Inv, QueueInv, ccTypeOK, QueueType, Case
<1>2. PICK k \in 1..Len(queue[t]) : queue[t][k] = c
  <2>1. PICK u \in QueueType : \E i \in DOMAIN queue[u] : queue[u][i] = c
    BY <1>1 DEF FanInv, PendingIsQueued
  <2>2. Waiters(queue[u], grant, u) /\ DOMAIN queue[u] = 1..Len(queue[u])
    BY DEF FanInv, Inv, QueueInv, ccTypeOK
  <2>3. QueueOf[c] = u /\ QueueOf[c] = t
    BY <2>1, <2>2, FanOutAssumption DEF Waiters, FanOutAssumption
  <2>4. QED
    BY <1>1, <2>1, <2>3
<1>3. Limit[t] > 0 /\ isEnabled
  <2>1. queue[t] # <<>>
    BY <1>1, <1>2
  <2>2. Limit[t] > 0
    BY <1>1, <2>1 DEF FanInv, Inv, QueueInv
  <2>3. QED
    BY <2>2 DEF FanInv, ServiceReady, Inv, EnabledInv
<1>4. IsThrottled(t) /\ InQueue(t, IdOf[c])
  BY <1>1, <1>2, <1>3 DEF IsThrottled, InQueue
<1>5. PICK i \in DOMAIN queue[t] : IsFirstIndex(t, IdOf[c], i) /\ removeFromQueue(t, i)
  BY <1>4 DEF remove
<1>6. i \in 1..Len(queue[t]) /\ queue[t][i] = c
  <2>1. queue[t][i] \in Case /\ IdOf[queue[t][i]] = IdOf[c]
    BY <1>1, <1>5 DEF IsFirstIndex, Case
  <2>2. QED
    BY <1>1, <2>1, FanOutAssumption DEF FanOutAssumption
<1> DEFINE rest == Splice(queue[t], i)
           g == [grant EXCEPT ![c] = "evicted"]
<1>7. grant' = ResolveNext(rest, g)
  BY <1>5, <1>6 DEF removeFromQueue
<1>8. /\ g \in [Caller -> Grant] /\ g[c] = "evicted"
      /\ \A d \in Caller : d # c => g[d] = grant[d]
  BY <1>1 DEF Grant
<1>9. rest \in Seq(Caller) /\ Waiters(rest, g, t)
  BY <1>1, <1>6, SpliceProperties, SpliceSubtracts
<1> HIDE DEF rest, g
<1>10. ASSUME NEW d \in Caller
       PROVE  grant'[d] = g[d] \/ (g[d] = "queued" /\ grant'[d] = "granted")
  BY <1>7, <1>8, <1>9, ResolveNextAdmits DEF Waiters
<1>11. grant'[c] = "evicted"
  BY <1>1, <1>8, <1>10
<1>12. QED
  BY <1>8, <1>10, <1>11 DEF Case

(* remove() of a case that was admitted in the meantime changes nothing.    *)
LEMMA EvictionOfAdmitted ==
    ASSUME FanInv, NEW c \in Case, grant[c] = "granted", remove("evaluation", IdOf[c])
    PROVE  UNCHANGED ccVars
<1> DEFINE t == "evaluation"
<1>1. /\ t \in QueueType /\ queue[t] \in Seq(Caller)
      /\ Waiters(queue[t], grant, t) /\ DOMAIN queue[t] = 1..Len(queue[t])
      /\ isEnabled \in BOOLEAN /\ evalQueueResolved \in BOOLEAN
  BY DEF FanInv, Inv, QueueInv, ccTypeOK, QueueType
<1>2. ~InQueue(t, IdOf[c])
  <2> SUFFICES ASSUME NEW i \in 1..Len(queue[t]), IdOf[queue[t][i]] = IdOf[c] PROVE FALSE
    BY <1>1 DEF InQueue
  <2>1. queue[t][i] = c
    BY <1>1, FanOutAssumption DEF FanOutAssumption, Case
  <2>2. QED
    BY <1>1, <2>1 DEF Waiters
<1>3. UNCHANGED <<capacity, queue, grant, disabled>>
  BY <1>2 DEF remove, IsFirstIndex, InQueue
<1>4. evalQueueResolved
  BY DEF FanInv, ServiceReady
<1>5. UNCHANGED <<isEnabled, evalQueueResolved>>
  <2>1. evalQueueResolved' = (evalQueueResolved \/ t = "evaluation")
    BY DEF remove, ensureEvalQueueResolved
  <2>2. isEnabled' = (isEnabled \/ BuildsEvalQueue(t))
    BY DEF remove, ensureEvalQueueResolved
  <2>3. ~BuildsEvalQueue(t)
    BY <1>4 DEF BuildsEvalQueue
  <2>4. QED
    BY <1>1, <1>4, <2>1, <2>2, <2>3
<1>6. QED
  BY <1>3, <1>5 DEF ccVars

(* Every step of the fan-out is one call of the service, or leaves it alone. *)
LEMMA ServiceStep == FanInv /\ [fanNext]_fanVars => [ccNext]_ccVars
<1> SUFFICES ASSUME FanInv, [fanNext]_fanVars PROVE [ccNext]_ccVars
  OBVIOUS
<1>1. ASSUME NEW c \in Case, startCase(c) PROVE UNCHANGED ccVars
  BY <1>1 DEF startCase
<1>2. ASSUME NEW c \in Case, claimCase(c) PROVE [ccNext]_ccVars
  BY <1>2 DEF claimCase, ccNext, Case
<1>3. ASSUME NEW c \in Case, finishCase(c) PROVE ccNext
  BY <1>3 DEF finishCase, ccNext, Case
<1>4. ASSUME NEW c \in Case, evictCase(c) PROVE [ccNext]_ccVars
  <2>1. c \in evictions /\ remove("evaluation", IdOf[c])
    BY <1>4 DEF evictCase, FiresNext
  <2>2. grant[c] \in {"queued", "granted"}
    BY <2>1 DEF FanInv, CaseInv
  <2>3. CASE grant[c] = "queued"
    <3>1. QueueOf[c] = "evaluation" /\ c \in Caller
      BY FanOutAssumption DEF FanOutAssumption, Case
    <3>2. grant[c] = "queued" /\ remove(QueueOf[c], IdOf[c])
      BY <2>1, <2>3, <3>1
    <3>3. QED
      BY <3>1, <3>2 DEF ccNext
  <2>4. CASE grant[c] = "granted"
    BY <2>1, <2>4, EvictionOfAdmitted
  <2>5. QED
    BY <2>2, <2>3, <2>4
<1>5. ASSUME NEW run \in TestRun, abortRun(run) PROVE UNCHANGED ccVars
  BY <1>5 DEF abortRun
<1>6. CASE UNCHANGED fanVars
  BY <1>6 DEF fanVars
<1>7. QED
  BY <1>1, <1>2, <1>3, <1>4, <1>5, <1>6 DEF fanNext
-----------------------------------------------------------------------------
(* The invariant is inductive.                                              *)
LEMMA FanInit == fanInit => FanInv
<1> SUFFICES ASSUME fanInit PROVE FanInv
  OBVIOUS
<1>1. ccInit /\ Inv /\ ccTypeOK
  BY InvInit, TypeInit DEF fanInit
<1>2. grant = [c \in Caller |-> "none"] /\ ~disabled
  BY <1>1 DEF ccInit
<1>3. step = [c \in Case |-> "limit"] /\ aborted = {} /\ evictions = {}
  BY DEF fanInit
<1>4. fanTypeOK
  BY <1>1, <1>3 DEF fanTypeOK, Step
<1>5. PendingIsQueued /\ ServiceReady
  BY <1>2 DEF PendingIsQueued, ServiceReady, Case
<1>6. CaseInv
  BY <1>2, <1>3 DEF CaseInv, Case
<1>7. QED
  BY <1>1, <1>4, <1>5, <1>6 DEF FanInv

(* The callbacks keep the types of their own variables.                     *)
LEMMA FanTypeStep ==
    ASSUME fanTypeOK, ccTypeOK', [fanNext]_fanVars PROVE fanTypeOK'
<1>1. step \in [Case -> Step] /\ aborted \subseteq TestRun /\ evictions \subseteq Case
  BY DEF fanTypeOK
<1>2. ASSUME NEW c \in Case, startCase(c) \/ claimCase(c) \/ finishCase(c) \/ evictCase(c)
      PROVE  /\ step' \in [Case -> Step] /\ aborted' = aborted
             /\ evictions' \subseteq evictions
  <2>1. \E x \in Step : step' = [step EXCEPT ![c] = x]
    BY <1>2 DEF startCase, claimCase, finishCase, evictCase, Step
  <2>2. QED
    BY <1>1, <1>2, <2>1 DEF startCase, claimCase, finishCase, evictCase
<1>3. ASSUME NEW run \in TestRun, abortRun(run)
      PROVE  step' = step /\ aborted' \subseteq TestRun /\ evictions' \subseteq Case
  BY <1>1, <1>3 DEF abortRun
<1>4. CASE UNCHANGED fanVars
  BY <1>1, <1>4 DEF fanTypeOK, fanVars
<1>5. QED
  BY <1>1, <1>2, <1>3, <1>4 DEF fanNext, fanTypeOK

(* Throttling a case resolves the evaluation limit for good.                *)
LEMMA ReadyStep ==
    ASSUME FanInv, [fanNext]_fanVars PROVE ServiceReady'
<1>1. /\ ~disabled /\ evalQueueResolved \in BOOLEAN
      /\ \A d \in Case : grant[d] # "none" => evalQueueResolved
  BY DEF FanInv, ServiceReady, Inv, ccTypeOK
<1>2. ASSUME disabled' = disabled, ensureEvalQueueResolved("evaluation") PROVE ServiceReady'
  BY <1>1, <1>2 DEF ensureEvalQueueResolved, ServiceReady
<1>3. CASE UNCHANGED ccVars
  BY <1>1, <1>3 DEF ccVars, ServiceReady
<1>4. ASSUME NEW c \in Case, throttle(c) \/ release(c) PROVE ServiceReady'
  <2>1. QueueOf[c] = "evaluation"
    BY FanOutAssumption DEF FanOutAssumption
  <2>2. disabled' = disabled /\ ensureEvalQueueResolved("evaluation")
    BY <1>4, <2>1 DEF throttle, release
  <2>3. QED
    BY <1>2, <2>2
<1>5. ASSUME NEW c \in Case, remove("evaluation", IdOf[c]) PROVE ServiceReady'
  BY <1>2, <1>5 DEF remove
<1>6. CASE UNCHANGED fanVars
  BY <1>3, <1>6 DEF fanVars
<1>7. ASSUME NEW c \in Case, startCase(c) \/ claimCase(c) \/ finishCase(c) \/ evictCase(c)
      PROVE  ServiceReady'
  BY <1>3, <1>4, <1>5, <1>7 DEF startCase, claimCase, finishCase, evictCase
<1>8. ASSUME NEW run \in TestRun, abortRun(run) PROVE ServiceReady'
  BY <1>3, <1>8 DEF abortRun
<1>9. QED
  BY <1>6, <1>7, <1>8 DEF fanNext

(* A case that another call admits or evicts was waiting, and so throttled;  *)
(* only the step of the case the action is about has to be looked at.        *)
LEMMA CaseInvFor ==
    ASSUME FanInv, NEW c \in Case, NEW x, step' = [step EXCEPT ![c] = x],
           step[c] # "done", evictions' \subseteq evictions \ {c},
           \A d \in Case : d # c =>
               \/ grant'[d] = grant[d]
               \/ grant[d] = "queued" /\ grant'[d] = "granted",
           evictions' # {} => c \in evictions /\ (grant'[c] = "evicted" \/ grant' = grant),
           x \in {"limit", "claiming"} => grant'[c] = "none",
           x = "throttled" => grant'[c] \in {"queued", "granted"},
           x = "done" => grant'[c] # "queued",
           x = "done" /\ grant'[c] = "granted" => SiblingEvicted(c)
    PROVE  CaseInv'
<1>1. /\ step \in [Case -> Step] /\ CaseInv /\ evictions \subseteq Case
  BY DEF FanInv, fanTypeOK
<1>2. step'[c] = x /\ \A d \in Case : d # c => step'[d] = step[d]
  BY <1>1
<1>3. grant[c] # "evicted"
  BY <1>1 DEF CaseInv, Step
<1>4. ASSUME NEW d \in Case, SiblingEvicted(d) PROVE SiblingEvicted(d)'
  BY <1>3, <1>4 DEF SiblingEvicted
<1>5. ASSUME NEW d \in Case, d # c
      PROVE  /\ step'[d] \in {"limit", "claiming"} => grant'[d] = "none"
             /\ step'[d] = "throttled" => grant'[d] \in {"queued", "granted"}
             /\ step'[d] = "done" => grant'[d] # "queued"
             /\ step'[d] = "done" /\ grant'[d] = "granted" => SiblingEvicted(d)
  BY <1>1, <1>2, <1>5 DEF CaseInv
<1>6. /\ \A d \in evictions' : step'[d] = "throttled"
      /\ \A d, e \in evictions' : RunOf[d] = RunOf[e]
  BY <1>1, <1>2 DEF CaseInv
<1>7. ASSUME NEW d \in evictions', grant'[d] = "granted" PROVE SiblingEvicted(d)'
  <2>1. d \in Case /\ d \in evictions /\ d # c /\ c \in evictions
    BY <1>1
  <2>2. CASE grant[d] = "granted"
    BY <1>1, <1>4, <2>1, <2>2 DEF CaseInv
  <2>3. CASE grant[d] = "queued"
    <3>1. grant'[c] = "evicted"
      BY <1>7, <2>3
    <3>2. RunOf[c] = RunOf[d]
      BY <1>1, <2>1 DEF CaseInv
    <3>3. QED
      BY <2>1, <3>1, <3>2 DEF SiblingEvicted
  <2>4. QED
    BY <1>7, <2>1, <2>2, <2>3
<1>8. \A d \in Case : step'[d] = "done" /\ grant'[d] = "granted" => SiblingEvicted(d)'
  BY <1>2, <1>4, <1>5
<1>9. QED
  BY <1>2, <1>5, <1>6, <1>7, <1>8 DEF CaseInv

LEMMA CaseStep ==
    ASSUME FanInv, [fanNext]_fanVars PROVE CaseInv'
<1>1. /\ step \in [Case -> Step] /\ grant \in [Case -> Grant] /\ evictions \subseteq Case
      /\ CaseInv /\ Inv
  BY DEF FanInv, fanTypeOK, ccTypeOK, Case
<1>2. ASSUME NEW c \in Case, startCase(c) PROVE CaseInv'
  <2> DEFINE x == IF RunOf[c] \in aborted THEN "done" ELSE "claiming"
  <2>1. /\ step[c] = "limit" /\ step' = [step EXCEPT ![c] = x] /\ grant' = grant
        /\ aborted' = aborted /\ evictions' = evictions /\ evictions = {}
    BY <1>2 DEF startCase, ccVars
  <2>2. grant'[c] = "none" /\ x \in {"done", "claiming"}
    BY <1>1, <2>1 DEF CaseInv
  <2> HIDE DEF x
  <2>3. QED
    BY <2>1, <2>2, CaseInvFor
<1>3. ASSUME NEW c \in Case, claimCase(c) PROVE CaseInv'
  <2>1. /\ step[c] = "claiming" /\ aborted' = aborted
        /\ evictions' = evictions /\ evictions = {}
    BY <1>3 DEF claimCase
  <2>2. CASE step' = [step EXCEPT ![c] = "done"] /\ UNCHANGED ccVars
    <3>1. grant' = grant /\ grant'[c] = "none"
      BY <1>1, <2>1, <2>2 DEF ccVars, CaseInv
    <3>2. QED
      BY <2>1, <2>2, <3>1, CaseInvFor
  <2>3. CASE step' = [step EXCEPT ![c] = "throttled"] /\ throttle(c)
    <3>1. /\ grant'[c] \in {"queued", "granted"}
          /\ \A d \in Case : d # c => grant'[d] = grant[d]
      BY <1>1, <2>3, ThrottleGrants DEF Case
    <3>2. QED
      BY <2>1, <2>3, <3>1, CaseInvFor
  <2>4. QED
    BY <1>3, <2>2, <2>3 DEF claimCase
<1>4. ASSUME NEW c \in Case, finishCase(c) PROVE CaseInv'
  <2>1. /\ step' = [step EXCEPT ![c] = "done"] /\ aborted' = aborted
        /\ evictions' = evictions /\ evictions = {} /\ release(c)
        /\ step[c] = "throttled"
    BY <1>4 DEF finishCase
  <2>2. /\ grant'[c] = "released"
        /\ \A d \in Case : d # c =>
               grant'[d] = grant[d] \/ (grant[d] = "queued" /\ grant'[d] = "granted")
    BY <1>1, <2>1, ReleaseGrants DEF Case
  <2>3. QED
    BY <2>1, <2>2, CaseInvFor
<1>5. ASSUME NEW c \in Case, evictCase(c) PROVE CaseInv'
  <2>1. /\ step' = [step EXCEPT ![c] = "done"] /\ aborted' = aborted
        /\ evictions' = evictions \ {c} /\ c \in evictions
        /\ remove("evaluation", IdOf[c])
    BY <1>5 DEF evictCase, FiresNext
  <2>2. /\ grant[c] \in {"queued", "granted"} /\ step[c] # "done"
        /\ grant[c] = "granted" => SiblingEvicted(c)
    BY <1>1, <2>1 DEF CaseInv
  <2>3. CASE grant[c] = "queued"
    <3>1. /\ grant'[c] = "evicted"
          /\ \A d \in Case : d # c =>
                 grant'[d] = grant[d] \/ (grant[d] = "queued" /\ grant'[d] = "granted")
      BY <2>1, <2>3, EvictionTakesEntry
    <3>2. QED
      BY <2>1, <2>2, <3>1, CaseInvFor
  <2>4. CASE grant[c] = "granted"
    <3>1. grant' = grant
      BY <2>1, <2>4, EvictionOfAdmitted DEF ccVars
    <3>2. QED
      BY <2>1, <2>2, <2>4, <3>1, CaseInvFor
  <2>5. QED
    BY <2>2, <2>3, <2>4
<1>6. ASSUME NEW run \in TestRun, abortRun(run) PROVE CaseInv'
  <2>1. /\ step' = step /\ grant' = grant /\ aborted' = aborted \cup {run}
        /\ evictions' = {c \in Case : RunOf[c] = run /\ grant[c] = "queued"}
    BY <1>6 DEF abortRun, ccVars
  <2>2. /\ \A c \in evictions' : step'[c] = "throttled" /\ grant'[c] # "granted"
        /\ \A c, d \in evictions' : RunOf[c] = RunOf[d]
    BY <1>1, <2>1 DEF CaseInv, Step
  <2>3. \A c \in Case : SiblingEvicted(c) => SiblingEvicted(c)'
    BY <2>1 DEF SiblingEvicted
  <2>4. QED
    BY <1>1, <2>1, <2>2, <2>3 DEF CaseInv
<1>7. CASE UNCHANGED fanVars
  BY <1>1, <1>7 DEF fanVars, ccVars, CaseInv, SiblingEvicted
<1>8. QED
  BY <1>2, <1>3, <1>4, <1>5, <1>6, <1>7 DEF fanNext

LEMMA FanStep == FanInv /\ [fanNext]_fanVars => FanInv'
<1> SUFFICES ASSUME FanInv, [fanNext]_fanVars PROVE FanInv'
  OBVIOUS
<1>1. [ccNext]_ccVars
  BY ServiceStep
<1>2. Inv' /\ PendingIsQueued'
  BY <1>1, InvStep, PendingStep DEF FanInv
<1>3. ccTypeOK'
  BY <1>2 DEF Inv
<1>4. fanTypeOK' /\ ServiceReady' /\ CaseInv'
  BY <1>3, FanTypeStep, ReadyStep, CaseStep DEF FanInv
<1>5. QED
  BY <1>2, <1>4 DEF FanInv

-----------------------------------------------------------------------------
(* The callbacks of the cases and the service keep the types of their
   variables, for any test runs and any concurrency. *)
THEOREM FanOutTypeCorrect == fanSpec => []fanTypeOK
<1>1. FanInv => fanTypeOK
  BY DEF FanInv
<1>2. QED
  BY <1>1, FanInit, FanStep, PTL DEF fanSpec

(* The cases of the fan-out, aborted ones included, call throttle(), release()
   and remove() as the specification of the service expects of its callers: a
   slot is given back once, by its holder, and an entry is removed for a case
   that waits, or nothing happens. *)
THEOREM FanOutUsesService == fanSpec => ccSpec
<1>1. fanInit => ccInit
  BY DEF fanInit
<1>2. QED
  BY <1>1, FanInit, FanStep, ServiceStep, PTL DEF fanSpec, ccSpec

(* Whatever is cancelled, the counter of the evaluation queue accounts for
   every holder and waiter, no slot is idle while a case waits, cases are
   admitted in the order of the queue, none is dropped from it, and each
   eviction admits at most one case beyond the limit. *)
THEOREM FanOutKeepsService ==
    fanSpec => /\ []CapacityAccounted /\ []NoIdleSlot /\ []PendingIsQueued
               /\ []HoldersWithinLimit /\ FirstComeFirstServed
BY FanOutUsesService, SlotsAccountedFor, NoSlotIdles, NobodyIsForgotten, LimitRespected,
   ServedInOrder, PTL

(* Whatever the concurrency of the test runs, a case that has ended is not in
   the queue, and it keeps a slot only if another case of its run was evicted:
   a run none of whose cases was taken out of the queue gives every slot back. *)
THEOREM OnlyEvictionsKeepSlots == fanSpec => []SlotsKeptOnlyByEviction
<1>1. FanInv => SlotsKeptOnlyByEviction
  BY DEF FanInv, CaseInv, SlotsKeptOnlyByEviction, SiblingEvicted
<1>2. QED
  BY <1>1, FanInit, FanStep, PTL DEF fanSpec

(* However many test runs share the queue and are cancelled, and whatever their
   concurrency, a queued case waits for one that holds a slot and has still to
   release it, unless cancelled cases have taken every slot for good.  This is
   the part of EveryCaseEnds that needs no fairness: there is no deadlock. *)
THEOREM WaitingCasesAreServed == fanSpec => []WaitingCaseHasHolder
<1>1. FanInv => WaitingCaseHasHolder
  <2> SUFFICES ASSUME FanInv, NEW c \in Case, grant[c] = "queued",
                      \A d \in Case : ~(grant[d] = "granted" /\ step[d] = "throttled")
               PROVE  Cardinality(Leaked) >= Limit["evaluation"]
    BY DEF WaitingCaseHasHolder
  <2> DEFINE t == "evaluation"
  <2>1. Granted(t) \subseteq Leaked
    <3> SUFFICES ASSUME NEW d \in Case, grant[d] = "granted" PROVE step[d] = "done"
      BY DEF Granted, Leaked, Case
    <3>1. step[d] \in Step /\ step[d] \notin {"limit", "claiming", "throttled"}
      BY DEF FanInv, fanTypeOK, CaseInv
    <3>2. QED
      BY <3>1 DEF Step
  <2>2. queue[t] # <<>>
    <3>1. PICK u \in QueueType : \E i \in DOMAIN queue[u] : queue[u][i] = c
      BY DEF FanInv, PendingIsQueued, Case
    <3>2. Waiters(queue[u], grant, u) /\ DOMAIN queue[u] = 1..Len(queue[u])
      BY DEF FanInv, Inv, QueueInv, ccTypeOK
    <3>3. QueueOf[c] = u /\ QueueOf[c] = t
      BY <3>1, <3>2, FanOutAssumption DEF Waiters, FanOutAssumption
    <3>4. QED
      BY <3>1, <3>2, <3>3
  <2>3. Cardinality(Granted(t)) >= Limit[t]
    BY <2>2, InvImpliesNoIdleSlot DEF FanInv, ServiceReady, NoIdleSlot, QueueType
  <2>4. IsFiniteSet(Leaked)
    <3>1. Leaked \subseteq Caller
      BY DEF Leaked, Case
    <3>2. QED
      BY <3>1, CallerAssumption, FS_Subset DEF CallerAssumption
  <2>5. /\ Cardinality(Granted(t)) <= Cardinality(Leaked)
        /\ Cardinality(Granted(t)) \in Nat /\ Cardinality(Leaked) \in Nat
    BY <2>1, <2>4, FS_Subset, FS_CardinalityType
  <2>6. QED
    BY <2>3, <2>5, LimitAssumption DEF LimitAssumption, QueueType
<1>2. QED
  BY <1>1, FanInit, FanStep, PTL DEF fanSpec
=============================================================================
