--------------------------- MODULE MCWaitTracker ---------------------------
(* c1 is a sub-workflow execution of pa that waits until a date. *)
EXTENDS WaitTracker

CONSTANTS h1, c1, pa

MCParentOf == [e \in Execution |-> IF e = c1 THEN pa ELSE NoParent]
=============================================================================
