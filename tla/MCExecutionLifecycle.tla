------------------------ MODULE MCExecutionLifecycle ------------------------
(* One slot: e1, of an earlier process, is resumed by a2 and a3, and may put  *)
(* itself to wait again; e2 is created by b1.                                 *)
EXTENDS ExecutionLifecycle

CONSTANTS e1, e2, a2, a3, b1

MCIdOf == [r \in Caller |-> IF r = b1 THEN e2 ELSE e1]
MCQueueOf == [r \in Caller |-> "production"]
OneSlot == [t \in QueueType |-> IF t = "production" THEN 1 ELSE -1]
=============================================================================
