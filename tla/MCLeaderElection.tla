-------------------------- MODULE MCLeaderElection --------------------------
(* Two mains. *)
EXTENDS LeaderElection

CONSTANTS m1, m2
=============================================================================
