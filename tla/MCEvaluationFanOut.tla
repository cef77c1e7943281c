------------------------- MODULE MCEvaluationFanOut -------------------------
(* Three test runs share two slots of the evaluation queue; two of them run  *)
(* two cases at a time, the third one after the other.                       *)
EXTENDS EvaluationFanOut

CONSTANTS x1, x2, y1, y2, z1, X, Y, Z

MCIdOf == [c \in Caller |->
    CASE c = x1 -> 1 [] c = x2 -> 2 [] c = y1 -> 3 [] c = y2 -> 4 [] OTHER -> 5]
MCQueueOf == [c \in Caller |-> "evaluation"]
MCRunOf == [c \in Caller |->
    CASE c \in {x1, x2} -> X [] c \in {y1, y2} -> Y [] OTHER -> Z]
MCParallel == [run \in TestRun |-> IF run = Z THEN 1 ELSE 2]
TwoSlots == [t \in QueueType |-> IF t = "evaluation" THEN 2 ELSE -1]
=============================================================================
