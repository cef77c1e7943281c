------------------------- MODULE WaitTrackerProofs --------------------------
(***************************************************************************)
(* For any mains, executions, parents and bounds: the types, and that no   *)
(* execution is run twice at a time.                                       *)
(*                                                                         *)
(* The second rests on the row:   whoever resumes an execution has found   *)
(* its row waiting, and a row never waits while a run of it is live.       *)
(***************************************************************************)
EXTENDS WaitTracker, TLAPS

(* A live interval was started in a term of its own; none is live before     *)
(* init() of the tracker.                                                    *)
IntervalInv ==
    \A h \in Host :
        /\ intervals[h] <= terms[h]
        /\ stage[h] = "boot" => intervals[h] = 0
        /\ h \in leads => terms[h] > 0

(* Only an execution that has a parent hands over. *)
HandsToParent == \A e \in Execution : handoff[e] # "no" => ParentOf[e] \in Execution

(* A run that is live has taken its row away from everybody else. *)
LiveRowIsTaken == \A h \in Host, e \in Execution : live[<<h, e>>] > 0 => row[e] # "waiting"

TypeInv == TypeOK /\ IntervalInv /\ HandsToParent

Inv == TypeInv /\ LiveRowIsTaken /\ OneRunAtATime

-----------------------------------------------------------------------------
LEMMA TypeInit == Init => TypeInv
<1> SUFFICES ASSUME Init PROVE TypeInv
  OBVIOUS
<1> USE TrackerAssumption DEF TrackerAssumption
<1>1. TypeOK
  BY DEF Init, TypeOK, Status, Handoff
<1>2. IntervalInv
  BY DEF Init, IntervalInv
<1>3. HandsToParent
  BY DEF Init, HandsToParent
<1>4. QED
  BY <1>1, <1>2, <1>3 DEF TypeInv

(* What a handoff step does to its own two variables. *)
LEMMA HandoffType ==
    ASSUME TypeInv, NEW c \in Execution, handoff[c] # "no",
           NEW to \in Handoff \ {"no"},
           (GoOn(c, to) /\ UNCHANGED errors) \/ withRetry(c, to)
    PROVE  /\ handoff' \in [Execution -> Handoff] /\ attempts' \in [Execution -> 1..MaxAttempts]
           /\ errors' \in 0..MaxErrors /\ HandsToParent'
<1>1. /\ handoff \in [Execution -> Handoff] /\ attempts \in [Execution -> 1..MaxAttempts]
      /\ errors \in 0..MaxErrors /\ HandsToParent /\ MaxErrors \in Nat /\ MaxAttempts \in Nat \ {0}
  BY TrackerAssumption DEF TypeInv, TypeOK, TrackerAssumption
<1>2. \E s \in Handoff \ {"no"} : handoff' = [handoff EXCEPT ![c] = s]
  BY DEF GoOn, withRetry, Handoff
<1>3. handoff' \in [Execution -> Handoff] /\ HandsToParent'
  BY <1>1, <1>2 DEF HandsToParent
<1>4. attempts' \in [Execution -> 1..MaxAttempts] /\ errors' \in 0..MaxErrors
  <2>1. CASE GoOn(c, to) /\ UNCHANGED errors
    BY <1>1, <2>1 DEF GoOn
  <2>2. CASE withRetry(c, to)
    <3>1. attempts[c] \in 1..MaxAttempts
      BY <1>1
    <3>2. attempts' \in [Execution -> 1..MaxAttempts]
      BY <1>1, <2>2, <3>1 DEF withRetry
    <3>3. QED
      BY <1>1, <2>2, <3>2 DEF withRetry
  <2>3. QED
    BY <2>1, <2>2
<1>5. QED
  BY <1>3, <1>4

(* What the deletion of an entry does to the map and to the timers. *)
LEMMA DeleteEntryType ==
    ASSUME TypeOK, NEW h \in Host, NEW e \in Execution, NEW n \in Nat, DeleteEntry(h, e, n)
    PROVE  /\ waitingExecutions' \in [Host -> SUBSET Execution]
           /\ timers' \in [Host -> SUBSET Execution]
           /\ orphans' \in [Host \X Execution -> Nat]
  BY DEF TypeOK, DeleteEntry

(* The four groups of variables, typed one by one. *)
HostOK ==
    /\ leads \subseteq Host /\ terms \in [Host -> 0..MaxTerms]
    /\ stage \in [Host -> {"boot", "initialised", "ready"}]
    /\ intervals \in [Host -> 0..(MaxTerms + 1)]

MapOK ==
    /\ results \in [Host -> SUBSET SUBSET Execution]
    /\ waitingExecutions \in [Host -> SUBSET Execution]
    /\ timers \in [Host -> SUBSET Execution]
    /\ orphans \in [Host \X Execution -> Nat]
    /\ starting \subseteq Host \X Execution

RowOK ==
    /\ row \in [Execution -> Status] /\ dated \subseteq Execution
    /\ live \in [Host \X Execution -> Nat] /\ runner \in [Execution -> Host]
    /\ stopping \subseteq Host \X Execution \X {"stop", "write"}

HandOK ==
    /\ handoff \in [Execution -> Handoff]
    /\ attempts \in [Execution -> 1..MaxAttempts]
    /\ errors \in 0..MaxErrors

LEMMA TypeParts ==
    /\ TypeOK <=> HostOK /\ MapOK /\ RowOK /\ HandOK
    /\ TypeOK' <=> HostOK' /\ MapOK' /\ RowOK' /\ HandOK'
  BY DEF TypeOK, HostOK, MapOK, RowOK, HandOK

LEMMA TypeAfterResume ==
    ASSUME RowOK, NEW h \in Host, NEW e \in Execution, UNCHANGED <<dated, stopping>>,
           Resume(h, e) \/ UNCHANGED <<row, live, runner>>
    PROVE  RowOK'
<1>1. CASE Resume(h, e)
  <2>1. live' \in [Host \X Execution -> Nat]
    BY <1>1 DEF Resume, RowOK
  <2>2. row' \in [Execution -> Status] /\ runner' \in [Execution -> Host]
    BY <1>1 DEF Resume, RowOK, Status
  <2>3. QED
    BY <2>1, <2>2 DEF RowOK
<1>2. CASE UNCHANGED <<row, live, runner>>
  BY <1>2 DEF RowOK
<1>3. QED
  BY <1>1, <1>2

LEMMA Untouched ==
    ASSUME TypeInv
    PROVE  /\ UNCHANGED hostVars => HostOK' /\ IntervalInv'
           /\ UNCHANGED mapVars => MapOK'
           /\ UNCHANGED rowVars => RowOK'
           /\ UNCHANGED <<handVars, errors>> => HandOK' /\ HandsToParent'
<1>1. HostOK /\ MapOK /\ RowOK /\ HandOK /\ IntervalInv /\ HandsToParent
  BY TypeParts DEF TypeInv
<1>2. UNCHANGED hostVars => HostOK' /\ IntervalInv'
  BY <1>1 DEF hostVars, HostOK, IntervalInv
<1>3. UNCHANGED mapVars => MapOK'
  BY <1>1 DEF mapVars, MapOK
<1>4. UNCHANGED rowVars => RowOK'
  BY <1>1 DEF rowVars, RowOK
<1>5. UNCHANGED <<handVars, errors>> => HandOK' /\ HandsToParent'
  BY <1>1 DEF handVars, HandOK, HandsToParent
<1>6. QED
  BY <1>2, <1>3, <1>4, <1>5

LEMMA TypeStep == TypeInv /\ [Next]_vars => TypeInv'
<1> SUFFICES ASSUME TypeInv, [Next]_vars PROVE TypeInv'
  OBVIOUS
<1>1. HostOK /\ MapOK /\ RowOK /\ HandOK /\ TypeOK /\ IntervalInv /\ HandsToParent
  BY TypeParts DEF TypeInv
<1>2. SUFFICES HostOK' /\ MapOK' /\ RowOK' /\ HandOK' /\ IntervalInv' /\ HandsToParent'
  BY TypeParts DEF TypeInv
<1>3. ASSUME NEW h \in Host, takeover(h) \/ stepdown(h) \/ init(h) \/ registerEventHandlers(h)
      PROVE  HostOK' /\ MapOK' /\ RowOK' /\ HandOK' /\ IntervalInv' /\ HandsToParent'
  <2>1. HostOK' /\ IntervalInv'
    BY <1>1, <1>3, TrackerAssumption
       DEF takeover, stepdown, init, registerEventHandlers, startTracking, stopTracking,
           HostOK, IntervalInv, TrackerAssumption
  <2>2. MapOK'
    <3>1. CASE stepdown(h)
      BY <1>1, <3>1 DEF stepdown, stopTracking, MapOK
    <3>2. CASE UNCHANGED mapVars
      BY <3>2, Untouched
    <3>3. QED
      BY <1>3, <3>1, <3>2 DEF takeover, init, registerEventHandlers
  <2>3. UNCHANGED rowVars /\ UNCHANGED <<handVars, errors>>
    BY <1>3 DEF takeover, stepdown, init, registerEventHandlers
  <2>4. QED
    BY <2>1, <2>2, <2>3, Untouched
<1>4. ASSUME NEW h \in Host,
             getWaitingExecutions(h) \/ \E found \in SUBSET Execution : setTimers(h, found)
      PROVE  HostOK' /\ MapOK' /\ RowOK' /\ HandOK' /\ IntervalInv' /\ HandsToParent'
  <2>1. MapOK'
    <3>1. {e \in dated : row[e] = "waiting"} \subseteq Execution
      BY <1>1 DEF RowOK
    <3>2. QED
      BY <1>1, <1>4, <3>1 DEF getWaitingExecutions, setTimers, MapOK
  <2>2. UNCHANGED hostVars /\ UNCHANGED rowVars /\ UNCHANGED <<handVars, errors>>
    BY <1>4 DEF getWaitingExecutions, setTimers
  <2>3. QED
    BY <2>1, <2>2, Untouched
<1>5. ASSUME NEW h \in Host, NEW e \in Execution, timerFires(h, e) \/ orphanFires(h, e)
      PROVE  HostOK' /\ MapOK' /\ RowOK' /\ HandOK' /\ IntervalInv' /\ HandsToParent'
  <2>1. CASE timerFires(h, e)
    BY <1>1, <2>1, Untouched DEF timerFires, MapOK
  <2>2. CASE orphanFires(h, e)
    <3>1. orphans[<<h, e>>] - 1 \in Nat /\ DeleteEntry(h, e, orphans[<<h, e>>] - 1)
      BY <1>1, <2>2 DEF orphanFires, MapOK
    <3>2. MapOK'
      BY <1>1, <2>2, <3>1, DeleteEntryType DEF orphanFires, MapOK
    <3>3. QED
      BY <2>2, <3>2, Untouched DEF orphanFires
  <2>3. QED
    BY <1>5, <2>1, <2>2
<1>6. ASSUME NEW h \in Host, NEW e \in Execution, stop(h, e) \/ stopDuringRun(h, e)
      PROVE  HostOK' /\ MapOK' /\ RowOK' /\ HandOK' /\ IntervalInv' /\ HandsToParent'
  <2>1. RowOK'
    BY <1>1, <1>6 DEF stop, stopDuringRun, RowOK, Status
  <2>2. UNCHANGED hostVars /\ UNCHANGED mapVars /\ UNCHANGED <<handVars, errors>>
    BY <1>6 DEF stop, stopDuringRun
  <2>3. QED
    BY <2>1, <2>2, Untouched
<1>7. ASSUME NEW h \in Host, NEW e \in Execution,
             startExecution(h, e) \/ stopLocally(h, e) \/ runEnds(h, e) \/ runWaits(h, e)
      PROVE  HostOK' /\ MapOK' /\ RowOK' /\ HandOK' /\ IntervalInv' /\ HandsToParent'
  <2>1. \/ UNCHANGED handoff
        \/ ParentOf[e] # NoParent /\ handoff' = [handoff EXCEPT ![e] = "child"]
        \/ handoff[e] = "child" /\ \E s \in Handoff : handoff' = [handoff EXCEPT ![e] = s]
    BY <1>7 DEF startExecution, stopLocally, runEnds, runWaits, Handoff
  <2>2. HandOK'
    <3>1. handoff' \in [Execution -> Handoff]
      BY <1>1, <2>1 DEF HandOK, Handoff
    <3>2. UNCHANGED attempts
      BY <1>7 DEF startExecution, stopLocally, runEnds, runWaits
    <3>3. CASE UNCHANGED errors
      BY <1>1, <3>1, <3>2, <3>3 DEF HandOK
    <3>4. CASE startExecution(h, e)
      <4>1. CASE errors < MaxErrors /\ errors' = errors + 1
        BY <1>1, <3>1, <3>2, <4>1, TrackerAssumption DEF HandOK, TrackerAssumption
      <4>2. QED
        BY <3>3, <3>4, <4>1, Zenon DEF startExecution
    <3>5. CASE stopLocally(h, e) \/ runEnds(h, e) \/ runWaits(h, e)
      BY <3>3, <3>5 DEF stopLocally, runEnds, runWaits
    <3>6. QED
      BY <1>7, <3>4, <3>5
  <2>3. HandsToParent'
    BY <1>1, <2>1, TrackerAssumption DEF HandOK, HandsToParent, TrackerAssumption
  <2>4. MapOK'
    BY <1>1, <1>7 DEF startExecution, stopLocally, stopExecution, runEnds, runWaits, mapVars, MapOK
  <2>5. RowOK'
    <3>1. CASE startExecution(h, e)
      <4>1. UNCHANGED <<dated, stopping>> /\ (Resume(h, e) \/ UNCHANGED <<row, live, runner>>)
        BY <3>1 DEF startExecution
      <4>2. QED
        BY <1>1, <4>1, TypeAfterResume
    <3>2. CASE stopLocally(h, e)
      BY <1>1, <3>2 DEF stopLocally, RowOK
    <3>3. CASE runEnds(h, e) \/ runWaits(h, e)
      <4>1. live[<<h, e>>] - 1 \in Nat /\ live' = [live EXCEPT ![<<h, e>>] = @ - 1]
        BY <1>1, <3>3 DEF runEnds, runWaits, RowOK
      <4>2. live' \in [Host \X Execution -> Nat]
        BY <1>1, <4>1 DEF RowOK
      <4>3. row' \in [Execution -> Status] /\ dated' \subseteq Execution
        BY <1>1, <3>3 DEF runEnds, runWaits, RowOK, Status
      <4>4. QED
        BY <1>1, <3>3, <4>2, <4>3 DEF runEnds, runWaits, RowOK
    <3>4. QED
      BY <1>7, <3>1, <3>2, <3>3
  <2>6. UNCHANGED hostVars
    BY <1>7 DEF startExecution, stopLocally, runEnds, runWaits
  <2>7. QED
    BY <2>2, <2>3, <2>4, <2>5, <2>6, Untouched
<1>8. ASSUME NEW e \in Execution, parentWaits(e)
      PROVE  HostOK' /\ MapOK' /\ RowOK' /\ HandOK' /\ IntervalInv' /\ HandsToParent'
  <2>1. RowOK'
    BY <1>1, <1>8 DEF parentWaits, RowOK, Status
  <2>2. QED
    BY <1>8, <2>1, Untouched DEF parentWaits
<1>9. ASSUME NEW c \in Execution, handStep(c)
      PROVE  HostOK' /\ MapOK' /\ RowOK' /\ HandOK' /\ IntervalInv' /\ HandsToParent'
  <2>1. handoff[c] # "no" /\ ParentOf[c] \in Execution /\ runner[c] \in Host
    BY <1>1, <1>9 DEF handStep, readParent, writeParent, startParent, HandsToParent, RowOK
  <2>2. \E to \in Handoff \ {"no"} : (GoOn(c, to) /\ UNCHANGED errors) \/ withRetry(c, to)
    BY <1>9 DEF handStep, readParent, writeParent, startParent, Handoff
  <2>3. HandOK' /\ HandsToParent'
    BY <2>1, <2>2, HandoffType DEF HandOK
  <2>4. CASE startParent(c)
    <3>1. /\ orphans[<<runner[c], ParentOf[c]>>] \in Nat
          /\ DeleteEntry(runner[c], ParentOf[c], orphans[<<runner[c], ParentOf[c]>>])
      BY <1>1, <2>1, <2>4 DEF startParent, MapOK
    <3>2. MapOK'
      BY <1>1, <2>1, <2>4, <3>1, DeleteEntryType DEF startParent, MapOK
    <3>3. /\ UNCHANGED <<dated, stopping>>
          /\ Resume(runner[c], ParentOf[c]) \/ UNCHANGED <<row, live, runner>>
      BY <2>4 DEF startParent
    <3>4. RowOK'
      BY <1>1, <2>1, <3>3, TypeAfterResume
    <3>5. QED
      BY <2>3, <2>4, <3>2, <3>4, Untouched DEF startParent
  <2>5. CASE readParent(c) \/ writeParent(c)
    BY <2>3, <2>5, Untouched DEF readParent, writeParent
  <2>6. QED
    BY <1>9, <2>4, <2>5 DEF handStep
<1>10. CASE UNCHANGED vars
  BY <1>10, Untouched DEF vars
<1>11. QED
  BY <1>3, <1>4, <1>5, <1>6, <1>7, <1>8, <1>9, <1>10 DEF Next, bootStep, runStep

(* Every variable of the tracker, of the rows and of the handoffs keeps its  *)
(* type; in particular a main never has more intervals than terms as leader, *)
(* and no step of the handoff is attempted more often than the code allows.  *)
THEOREM TrackerTypeCorrect == Spec => []TypeOK
<1>1. TypeInv => TypeOK
  BY DEF TypeInv
<1>2. QED
  BY <1>1, TypeInit, TypeStep, PTL DEF Spec

-----------------------------------------------------------------------------
(* A row that is found waiting has no live run, so resuming it adds the only *)
(* one.                                                                      *)
LEMMA ResumeKeepsInv ==
    ASSUME Inv, NEW h \in Host, NEW e \in Execution, MayResume(e), Resume(h, e)
    PROVE  LiveRowIsTaken' /\ OneRunAtATime'
<1>1. row \in [Execution -> Status] /\ row[e] = "waiting"
  BY DEF Inv, TypeInv, TypeOK, MayResume
<1>2. live \in [Host \X Execution -> Nat] /\ \A g \in Host : live[<<g, e>>] = 0
  BY <1>1 DEF Inv, TypeInv, TypeOK, LiveRowIsTaken
<1>3. row' = [row EXCEPT ![e] = "running"] /\ live' = [live EXCEPT ![<<h, e>>] = @ + 1]
  BY DEF Resume
<1>4. \A g \in Host, d \in Execution :
        live'[<<g, d>>] = IF g = h /\ d = e THEN 1 ELSE live[<<g, d>>]
  BY <1>2, <1>3
<1>5. LiveRowIsTaken'
  BY <1>1, <1>3, <1>4 DEF Inv, LiveRowIsTaken
<1>6. OneRunAtATime'
  BY <1>2, <1>4 DEF Inv, OneRunAtATime
<1>7. QED
  BY <1>5, <1>6

(* A run that ends or waits again was the only one of its execution. *)
LEMMA EndKeepsInv ==
    ASSUME Inv, NEW h \in Host, NEW e \in Execution, runEnds(h, e) \/ runWaits(h, e)
    PROVE  LiveRowIsTaken' /\ OneRunAtATime'
<1>1. row \in [Execution -> Status] /\ live \in [Host \X Execution -> Nat]
  BY DEF Inv, TypeInv, TypeOK
<1>2. /\ live[<<h, e>>] > 0 /\ live' = [live EXCEPT ![<<h, e>>] = @ - 1]
      /\ row' = [row EXCEPT ![e] = "ended"] \/ row' = [row EXCEPT ![e] = "waiting"]
  BY DEF runEnds, runWaits
<1>3. \A g \in Host : live'[<<g, e>>] = 0
  BY <1>1, <1>2 DEF Inv, OneRunAtATime
<1>4. QED
  BY <1>1, <1>2, <1>3 DEF Inv, LiveRowIsTaken, OneRunAtATime

LEMMA LiveStep == Inv /\ [Next]_vars => LiveRowIsTaken' /\ OneRunAtATime'
<1> SUFFICES ASSUME Inv, [Next]_vars PROVE LiveRowIsTaken' /\ OneRunAtATime'
  OBVIOUS
<1>1. TypeOK /\ LiveRowIsTaken /\ OneRunAtATime /\ HandsToParent
  BY DEF Inv, TypeInv
<1>2. CASE UNCHANGED <<row, live>>
  BY <1>1, <1>2 DEF LiveRowIsTaken, OneRunAtATime
<1>3. ASSUME NEW h \in Host, NEW e \in Execution, startExecution(h, e)
      PROVE  LiveRowIsTaken' /\ OneRunAtATime'
  BY <1>2, <1>3, ResumeKeepsInv DEF startExecution
<1>4. ASSUME NEW h \in Host, NEW e \in Execution, runStep(h, e)
      PROVE  LiveRowIsTaken' /\ OneRunAtATime'
  BY <1>4, EndKeepsInv DEF runStep
<1>5. ASSUME NEW h \in Host, NEW e \in Execution, stopDuringRun(h, e)
      PROVE  LiveRowIsTaken' /\ OneRunAtATime'
  BY <1>1, <1>5 DEF stopDuringRun, TypeOK, LiveRowIsTaken, OneRunAtATime
<1>6. ASSUME NEW e \in Execution, parentWaits(e) PROVE LiveRowIsTaken' /\ OneRunAtATime'
  BY <1>1, <1>6 DEF parentWaits, TypeOK, LiveRowIsTaken, OneRunAtATime
<1>7. ASSUME NEW c \in Execution, startParent(c) PROVE LiveRowIsTaken' /\ OneRunAtATime'
  <2>1. ParentOf[c] \in Execution
    BY <1>1, <1>7 DEF startParent, HandsToParent
  <2>2. runner[c] \in Host
    BY <1>1 DEF TypeOK
  <2>3. CASE MayResume(ParentOf[c]) /\ Resume(runner[c], ParentOf[c])
    BY <2>1, <2>2, <2>3, ResumeKeepsInv
  <2>4. QED
    BY <1>2, <1>7, <2>3 DEF startParent
<1>8. ASSUME NEW c \in Execution, readParent(c) \/ writeParent(c) PROVE UNCHANGED <<row, live>>
  BY <1>8 DEF readParent, writeParent, rowVars
<1>9. ASSUME NEW h \in Host,
             takeover(h) \/ stepdown(h) \/ bootStep(h) \/ getWaitingExecutions(h)
      PROVE  UNCHANGED <<row, live>>
  BY <1>9
     DEF takeover, stepdown, bootStep, init, registerEventHandlers, getWaitingExecutions, rowVars
<1>10. ASSUME NEW h \in Host, NEW found, setTimers(h, found) PROVE UNCHANGED <<row, live>>
  BY <1>10 DEF setTimers, rowVars
<1>11. ASSUME NEW h \in Host, NEW e \in Execution,
              timerFires(h, e) \/ orphanFires(h, e) \/ stop(h, e) \/ stopLocally(h, e)
       PROVE  UNCHANGED <<row, live>>
  BY <1>11 DEF timerFires, orphanFires, stop, stopLocally, rowVars
<1>12. CASE UNCHANGED vars
  BY <1>2, <1>12 DEF vars, rowVars
<1>13. QED
  BY <1>2, <1>3, <1>4, <1>5, <1>6, <1>7, <1>8, <1>9, <1>10, <1>11, <1>12 DEF Next, handStep

(* Whatever timers several mains have armed from old queries or left behind  *)
(* without an entry, whatever sub-workflows end and whatever stops come in   *)
(* between, startExecution() never runs an execution that is being run, on   *)
(* the same main or on another.                                              *)
THEOREM ExecutionsRunAlone == Spec => []OneRunAtATime
<1>1. Init => Inv
  BY TypeInit DEF Init, Inv, LiveRowIsTaken, OneRunAtATime
<1>2. Inv /\ [Next]_vars => Inv'
  BY TypeStep, LiveStep DEF Inv
<1>3. Inv => OneRunAtATime
  BY DEF Inv
<1>4. QED
  BY <1>1, <1>2, <1>3, PTL DEF Spec
=============================================================================
