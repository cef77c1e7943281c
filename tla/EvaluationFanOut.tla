-------------------------- MODULE EvaluationFanOut --------------------------
(***************************************************************************)
(* The fan-out of TestRunnerService over the cases of evaluation test      *)
(* runs: each case claims its row, waits for a slot of the evaluation      *)
(* queue of ConcurrencyControl, runs its workflow and gives the slot back; *)
(* cancelling a test run evicts the cases of it that still wait.           *)
(*                                                                         *)
(* The continuations of an abort are microtasks: they all run before any   *)
(* other event, one after the other.  evictions is what is left of them.   *)
(***************************************************************************)
EXTENDS ConcurrencyControl

CONSTANTS
    TestRun,
    RunOf,      \* the test run a case (a caller) belongs to
    Parallel    \* effectiveConcurrency of a test run, the size of its pLimit

Case == Caller

(* Every case is throttled in mode "evaluation" under an id of its own, and  *)
(* runTest() caps the requested concurrency by the evaluation limit.         *)
ASSUME FanOutAssumption ==
    /\ RunOf \in [Case -> TestRun]
    /\ \A c \in Case : QueueOf[c] = "evaluation"
    /\ \A c, d \in Case : IdOf[c] = IdOf[d] => c = d
    /\ Parallel \in [TestRun -> Nat \ {0}]
    /\ Limit["evaluation"] > 0 => \A run \in TestRun : Parallel[run] <= Limit["evaluation"]

VARIABLES
    step,       \* where the callback of each case is
    aborted,    \* test runs whose AbortController has fired
    evictions   \* the cases whose abort handler has fired

fanVars == <<ccVars, step, aborted, evictions>>

Step == {"limit", "claiming", "throttled", "done"}

fanInit ==
    /\ ccInit
    /\ step = [c \in Case |-> "limit"]
    /\ aborted = {}
    /\ evictions = {}

InFlight(run) == {c \in Case : RunOf[c] = run /\ step[c] \in {"claiming", "throttled"}}

(* pLimit starts the callback, which asks the database for its row unless    *)
(* the run is aborted.                                                       *)
startCase(c) ==
    /\ evictions = {}
    /\ step[c] = "limit"
    /\ Cardinality(InFlight(RunOf[c])) < Parallel[RunOf[c]]
    /\ step' = [step EXCEPT ![c] = IF RunOf[c] \in aborted THEN "done" ELSE "claiming"]
    /\ UNCHANGED <<ccVars, aborted, evictions>>

(* tryMarkCaseAsRunning() answers.  The row is not claimed when the user has *)
(* cancelled the case, or its run, before; otherwise the case throttles,     *)
(* also when its run was aborted in the meantime.                            *)
claimCase(c) ==
    /\ evictions = {}
    /\ step[c] = "claiming"
    /\ \/ /\ step' = [step EXCEPT ![c] = "done"]
          /\ UNCHANGED ccVars
       \/ /\ throttle(c)
          /\ step' = [step EXCEPT ![c] = "throttled"]
    /\ UNCHANGED <<aborted, evictions>>

(* The case has its slot.  It runs its workflow, or sees the abort and       *)
(* bails out; either way it ends with release().                             *)
finishCase(c) ==
    /\ evictions = {}
    /\ step[c] = "throttled"
    /\ release(c)
    /\ step' = [step EXCEPT ![c] = "done"]
    /\ UNCHANGED <<aborted, evictions>>

(* The abort listeners of the cases that wait for a slot fire. *)
abortRun(run) ==
    /\ evictions = {}
    /\ run \notin aborted
    /\ aborted' = aborted \cup {run}
    /\ evictions' = {c \in Case : RunOf[c] = run /\ grant[c] = "queued"}
    /\ UNCHANGED <<ccVars, step>>

(* Listeners fire in the order in which they were added, that of the queue;  *)
(* a case that another eviction has just admitted was the head of it.        *)
Before(d, c) ==
    LET q == queue["evaluation"]
    IN  \/ d # c /\ grant[d] = "granted"
        \/ \E i, j \in DOMAIN q : i < j /\ q[i] = d /\ q[j] = c

FiresNext(c) == c \in evictions /\ \A d \in evictions : ~Before(d, c)

(* A case that gives up without leaving the queue. *)
evictCaseKeepingEntry(c) ==
    /\ FiresNext(c)
    /\ evictions' = evictions \ {c}
    /\ step' = [step EXCEPT ![c] = "done"]
    /\ UNCHANGED <<ccVars, aborted>>

(* The continuation of the race an abort has won: throttleAcquired is still  *)
(* false, so the case calls remove(), which does nothing for a case that     *)
(* the eviction of another one has just admitted.                            *)
evictCase(c) ==
    /\ FiresNext(c)
    /\ evictions' = evictions \ {c}
    /\ remove("evaluation", IdOf[c])
    /\ step' = [step EXCEPT ![c] = "done"]
    /\ UNCHANGED aborted

fanNext ==
    \/ \E c \in Case : startCase(c) \/ claimCase(c) \/ finishCase(c) \/ evictCase(c)
    \/ \E run \in TestRun : abortRun(run)

(* Callbacks and microtasks run on, and the workflow of a case ends. *)
fanFairness ==
    \A c \in Case : WF_fanVars(startCase(c) \/ claimCase(c) \/ finishCase(c) \/ evictCase(c))

fanSpec == fanInit /\ [][fanNext]_fanVars /\ fanFairness

-----------------------------------------------------------------------------
(* Every variable has its type. *)
fanTypeOK ==
    /\ ccTypeOK
    /\ step \in [Case -> Step]
    /\ aborted \subseteq TestRun
    /\ evictions \subseteq Case

(* If Stop is clicked while a case is queued, it evicts itself so that the   *)
(* slot returns to circulation: a case that has ended holds neither a slot   *)
(* nor an entry of the queue.                                                *)
EndedCaseHoldsNothing ==
    \A c \in Case : step[c] = "done" => grant[c] \notin {"granted", "queued"}

(* The cases that have ended and still hold a slot, for good. *)
Leaked == {c \in Case : step[c] = "done" /\ grant[c] = "granted"}

(* What remains of it, for any concurrency: an ended case is in no queue,    *)
(* and it keeps a slot only if its run was aborted and another case of it    *)
(* was evicted, which admitted this one when it was giving up itself.        *)
SlotsKeptOnlyByEviction ==
    \A c \in Case : step[c] = "done" =>
        /\ grant[c] # "queued"
        /\ grant[c] = "granted" =>
              \E d \in Case : d # c /\ RunOf[d] = RunOf[c] /\ grant[d] = "evicted"

(* The cases never wait for each other in vain: while a case is queued,      *)
(* another one holds a slot and has still to release it, whatever aborts     *)
(* have taken out of the queue in between; unless aborted runs have by then  *)
(* taken every slot of the queue for good.                                   *)
WaitingCaseHasHolder ==
    \A c \in Case : grant[c] = "queued" =>
        \/ \E d \in Case : grant[d] = "granted" /\ step[d] = "throttled"
        \/ Cardinality(Leaked) >= Limit["evaluation"]

(* Every case of every test run ends, of the aborted ones and of the runs    *)
(* that wait behind them, as long as a slot is left in circulation.          *)
EveryCaseEnds ==
    \A c \in Case : <>(step[c] = "done" \/ Cardinality(Leaked) >= Limit["evaluation"])
=============================================================================
