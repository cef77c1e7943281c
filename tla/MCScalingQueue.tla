--------------------------- MODULE MCScalingQueue ---------------------------
(* Two mains and an execution. *)
EXTENDS ScalingQueue

CONSTANTS m1, m2, e1
=============================================================================
