---------------------------- MODULE MCTaskBroker ----------------------------
(* A runner of two slots that may stop, crash or be cut off at any time, and *)
(* two calls that compete for its two offers.                                *)
EXTENDS TaskBroker

CONSTANTS r1, q1, q2
=============================================================================
