------------------------ MODULE MCConcurrencyControl ------------------------
(* Instances of ConcurrencyControl: production callers, an evaluation caller *)
(* and one slot in each queue.                                               *)
EXTENDS ConcurrencyControl

CONSTANTS p1, p2, p3, v1

MCIdOf == [c \in Caller |-> CASE c = p1 -> 1 [] c = p2 -> 2 [] c = p3 -> 3 [] OTHER -> 4]
MCQueueOf == [c \in Caller |-> IF c = v1 THEN "evaluation" ELSE "production"]
OneEach == [t \in QueueType |-> 1]
=============================================================================
