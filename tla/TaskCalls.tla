----------------------------- MODULE TaskCalls ------------------------------
(***************************************************************************)
(* What startTask() promises its caller, whatever the runners, their       *)
(* connections and the timers of the broker do: a call is asked at most    *)
(* once, its work is started at most once, only after a runner was given   *)
(* to it, and the call ends exactly once - with a result only when its     *)
(* work has finished.  Calls are independent of each other, and several of *)
(* them may move in one step.                                              *)
(***************************************************************************)
CONSTANT Request

VARIABLES
    stage,  \* stage[q]: where the call is
    work    \* work[q]: what the runners have done of it

Stage == {"idle", "asked", "given", "done", "failed", "expired"}
Work == {"none", "started", "finished"}

CallsInit == stage = [q \in Request |-> "idle"] /\ work = [q \in Request |-> "none"]

(* The call moves: it is asked or refused, runs out of time, is given to a   *)
(* runner, and ends.                                                        *)
Moves(q) ==
    \/ stage[q] = "idle" /\ stage'[q] \in {"asked", "expired"}
    \/ stage[q] = "asked" /\ stage'[q] \in {"given", "expired"}
    \/ stage[q] = "given" /\ stage'[q] = "failed"
    \/ stage[q] = "given" /\ stage'[q] = "done" /\ work[q] = "finished"

(* Its work moves: it may start late, when the call has already failed. *)
Works(q) ==
    \/ work[q] = "none" /\ work'[q] = "started" /\ stage[q] \in {"given", "failed"}
    \/ work[q] = "started" /\ work'[q] = "finished"

CallsNext ==
    /\ stage' \in [Request -> Stage] /\ work' \in [Request -> Work]
    /\ \A q \in Request :
           /\ Moves(q) \/ stage'[q] = stage[q]
           /\ Works(q) \/ work'[q] = work[q]

CallsSpec == CallsInit /\ [][CallsNext]_<<stage, work>>
=============================================================================
