--------------------------- MODULE LeaderElection ---------------------------
(***************************************************************************)
(* MultiMainSetup and LeaderElectionClient (packages/cli/src/scaling):     *)
(* several main processes elect a leader through one Redis key with a TTL. *)
(*                                                                         *)
(* A host is one process (a restart has a new hostId).  Its threads are    *)
(* the asynchronous calls that can be under way in it: 0 is init() or      *)
(* shutdown(), the others are calls of checkLeader() by the interval.      *)
(* Each awaits at most one Redis command.  A command can be executed long  *)
(* before its answer is seen, after its caller gave up (commandTimeout),   *)
(* or never.  Timeouts, and expiries that a working host would have        *)
(* prevented by renewing, are faults, of which there are at most MaxFaults.*)
(***************************************************************************)
EXTENDS Integers, Sequences

CONSTANTS
    Host, NoHost,
    MaxChecks,   \* bound on calls of checkLeader() in flight in one host
    MaxFaults    \* bound on faults

ASSUME HostAssumption ==
    /\ NoHost \notin Host
    /\ MaxChecks \in Nat \ {0}
    /\ MaxFaults \in Nat

Check == 1..MaxChecks
Thread == 0..MaxChecks
Nobody == -1   \* the caller of a command that was given up

VARIABLES
    key,         \* the host in the leader key, external: kept by Redis
    leaders,     \* hosts whose InstanceSettings.isLeader is true
    checking,    \* hosts whose leaderCheckInProgress is true
    life,        \* how far each process is
    pc,          \* what each thread of each host awaits
    answer,      \* the result of the command each thread awaits
    wire,        \* commands of each host that Redis has not executed yet
    faults

hostVars == <<leaders, checking, life>>
vars == <<key, leaders, checking, life, pc, answer, wire, faults>>

Life == {"off", "starting", "up", "halting", "gone"}
Pc == {"idle", "init", "renew", "reclaim", "get", "claim", "clear"}
Op == {"SET", "RENEW", "GET", "DEL"}
Answer == {"pending", "failed", "true", "false", "success", "missing", "other",
           "self", "vacant", "cleared"}
Command == [op : Op, by : Thread \cup {Nobody}]

(* The hosts that take part: started, not shutting down. *)
Alive == {h \in Host : life[h] = "up"}

Init ==
    /\ key = NoHost
    /\ leaders = {} /\ checking = {}
    /\ life = [h \in Host |-> "off"]
    /\ pc = [h \in Host |-> [t \in Thread |-> "idle"]]
    /\ answer = [h \in Host |-> [t \in Thread |-> "pending"]]
    /\ wire = [h \in Host |-> <<>>]
    /\ faults = 0

-----------------------------------------------------------------------------
(* LeaderElectionClient: sending a command and Redis executing it. *)

Send(h, t, op, label) ==
    /\ wire' = [wire EXCEPT ![h] = Append(@, [op |-> op, by |-> t])]
    /\ answer' = [answer EXCEPT ![h][t] = "pending"]
    /\ pc' = [pc EXCEPT ![h][t] = label]

(* Thread t has the result a of the command it awaited under this label. *)
Answered(h, t, label, a) ==
    pc[h][t] = label /\ answer[h][t] = a /\ a # "pending"

(* A SET that forgets NX. *)
KeyAfterPlainSet(op, h) ==
    CASE op = "SET" -> h [] op = "DEL" -> NoHost [] OTHER -> key

(* What executing the command of h makes of the key. *)
KeyAfter(op, h) ==
    CASE op = "SET" -> IF key = NoHost THEN h ELSE key
      [] op = "DEL" -> NoHost
      [] OTHER -> key

(* What the methods of the client make of the reply. *)
Result(op, h) ==
    CASE op = "SET" -> IF key = NoHost THEN "true" ELSE "false"
      [] op = "RENEW" -> IF key = NoHost THEN "missing"
                         ELSE IF key = h THEN "success" ELSE "other"
      [] op = "GET" -> IF key = NoHost THEN "vacant"
                       ELSE IF key = h THEN "self" ELSE "other"
      [] OTHER -> "cleared"

(* Redis executes the commands of a connection in the order they were sent. *)
execute(h) ==
    /\ wire[h] # <<>>
    /\ LET c == Head(wire[h])
       IN  /\ key' = KeyAfter(c.op, h)
           /\ answer' = IF c.by = Nobody \/ life[h] = "gone" THEN answer
                        ELSE [answer EXCEPT ![h][c.by] = Result(c.op, h)]
    /\ wire' = [wire EXCEPT ![h] = Tail(@)]
    /\ UNCHANGED <<hostVars, pc, faults>>

(* The commands of h after the caller t has given up the one it awaits,      *)
(* unless Redis has executed it; loses: it never reaches Redis.              *)
GivenUp(h, t, loses) ==
    LET w == wire[h]
        i == CHOOSE i \in DOMAIN w : w[i].by = t
    IN  IF \A k \in DOMAIN w : w[k].by # t THEN w
        ELSE IF loses THEN SubSeq(w, 1, i - 1) \o SubSeq(w, i + 1, Len(w))
        ELSE [w EXCEPT ![i].by = Nobody]

(* commandTimeout: the command fails for its caller, executed or not. *)
commandTimeout(h, t, loses) ==
    /\ faults < MaxFaults
    /\ pc[h][t] # "idle" /\ answer[h][t] # "failed"
    /\ answer' = [answer EXCEPT ![h][t] = "failed"]
    /\ wire' = [wire EXCEPT ![h] = GivenUp(h, t, loses)]
    /\ faults' = faults + 1
    /\ UNCHANGED <<key, hostVars, pc>>

(* A host that no longer renews its lease, with nothing of it under way. *)
Lapses(h) == life[h] \in {"halting", "gone"} /\ wire[h] = <<>>

(* The TTL runs out, of a lease that still should be renewed by a fault. *)
expire ==
    /\ key # NoHost
    /\ key' = NoHost
    /\ \/ Lapses(key) /\ UNCHANGED faults
       \/ ~Lapses(key) /\ faults < MaxFaults /\ faults' = faults + 1
    /\ UNCHANGED <<hostVars, pc, answer, wire>>

-----------------------------------------------------------------------------
(* MultiMainSetup *)

init(h) ==
    /\ life[h] = "off"
    /\ life' = [life EXCEPT ![h] = "starting"]
    /\ Send(h, 0, "SET", "init")
    /\ UNCHANGED <<key, leaders, checking, faults>>

(* The role is set and the interval started. *)
initDone(h) ==
    /\ \E a \in {"true", "false", "failed"} :
          /\ Answered(h, 0, "init", a)
          /\ leaders' = IF a = "true" THEN leaders \cup {h} ELSE leaders
    /\ life' = [life EXCEPT ![h] = "up"]
    /\ pc' = [pc EXCEPT ![h][0] = "idle"]
    /\ UNCHANGED <<key, checking, answer, wire, faults>>

(* An interval that does not skip a check while one is in progress. *)
MayCheckAlways(h) == TRUE

MayCheck(h) == h \notin checking

checkLeader(h, s) ==
    /\ life[h] = "up"
    /\ pc[h][s] = "idle" /\ \A u \in Check : u < s => pc[h][u] # "idle"
    /\ MayCheck(h)
    /\ checking' = checking \cup {h}
    /\ IF h \in leaders THEN Send(h, s, "RENEW", "renew") ELSE Send(h, s, "GET", "get")
    /\ UNCHANGED <<key, leaders, life, faults>>

(* checkLeader() returns, with this set of leaders. *)
EndCheck(h, s, newLeaders) ==
    /\ leaders' = newLeaders
    /\ checking' = checking \ {h}
    /\ pc' = [pc EXCEPT ![h][s] = "idle"]
    /\ UNCHANGED <<key, life, answer, wire, faults>>

(* A leader that does not step down when another host holds the key. *)
stillLeaderIgnoringOther(h, s) ==
    \/ /\ \E a \in {"failed", "success", "other"} : Answered(h, s, "renew", a)
       /\ EndCheck(h, s, leaders)
    \/ /\ Answered(h, s, "renew", "missing")
       /\ Send(h, s, "SET", "reclaim")
       /\ UNCHANGED <<key, hostVars, faults>>
    \/ /\ \E a \in {"failed", "false"} : Answered(h, s, "reclaim", a)
       /\ EndCheck(h, s, leaders \ {h})
    \/ /\ Answered(h, s, "reclaim", "true")
       /\ EndCheck(h, s, leaders)

(* The leader stays leader when the renewal fails or succeeds, steps down    *)
(* for another host, and claims a missing key again or else steps down.      *)
checkAreWeStillLeader(h, s) ==
    \/ /\ \E a \in {"failed", "success"} : Answered(h, s, "renew", a)
       /\ EndCheck(h, s, leaders)
    \/ /\ Answered(h, s, "renew", "other")
       /\ EndCheck(h, s, leaders \ {h})
    \/ /\ Answered(h, s, "renew", "missing")
       /\ Send(h, s, "SET", "reclaim")
       /\ UNCHANGED <<key, hostVars, faults>>
    \/ /\ \E a \in {"failed", "false"} : Answered(h, s, "reclaim", a)
       /\ EndCheck(h, s, leaders \ {h})
    \/ /\ Answered(h, s, "reclaim", "true")
       /\ EndCheck(h, s, leaders)

checkCanBecomeLeader(h, s) ==
    \/ /\ \E a \in {"failed", "other"} : Answered(h, s, "get", a)
       /\ EndCheck(h, s, leaders)
    \/ /\ Answered(h, s, "get", "self")
       /\ EndCheck(h, s, leaders \cup {h})
    \/ /\ Answered(h, s, "get", "vacant")
       /\ Send(h, s, "SET", "claim")
       /\ UNCHANGED <<key, hostVars, faults>>
    \/ /\ \E a \in {"failed", "false"} : Answered(h, s, "claim", a)
       /\ EndCheck(h, s, leaders)
    \/ /\ Answered(h, s, "claim", "true")
       /\ EndCheck(h, s, leaders \cup {h})

(* The process ends; what it has sent may still reach Redis. *)
Gone(h, loses) ==
    /\ life' = [life EXCEPT ![h] = "gone"]
    /\ leaders' = leaders \ {h}
    /\ checking' = checking \ {h}
    /\ pc' = [pc EXCEPT ![h] = [t \in Thread |-> "idle"]]
    /\ wire' = [wire EXCEPT ![h] = IF loses THEN <<>> ELSE @]
    /\ UNCHANGED <<key, answer, faults>>

(* The interval is cleared, and a leader deletes the key, whoever holds it. *)
shutdown(h) ==
    /\ life[h] = "up"
    /\ \/ /\ h \in leaders
          /\ life' = [life EXCEPT ![h] = "halting"]
          /\ Send(h, 0, "DEL", "clear")
          /\ UNCHANGED <<key, leaders, checking, faults>>
       \/ /\ h \notin leaders
          /\ \E loses \in BOOLEAN : Gone(h, loses)

destroy(h) ==
    /\ \E a \in {"cleared", "failed"} : Answered(h, 0, "clear", a)
    /\ \E loses \in BOOLEAN : Gone(h, loses)

crash(h) ==
    /\ life[h] \in {"starting", "up", "halting"}
    /\ \E loses \in BOOLEAN : Gone(h, loses)

-----------------------------------------------------------------------------
hostStep(h) ==
    \/ initDone(h) \/ destroy(h)
    \/ \E s \in Check : checkAreWeStillLeader(h, s) \/ checkCanBecomeLeader(h, s)

tick(h) == \E s \in Check : checkLeader(h, s)

Next ==
    \/ \E h \in Host : init(h) \/ hostStep(h) \/ tick(h) \/ shutdown(h) \/ crash(h) \/ execute(h)
    \/ \E h \in Host, t \in Thread, loses \in BOOLEAN : commandTimeout(h, t, loses)
    \/ expire

(* Promises continue, intervals fire, Redis executes what reaches it, and a  *)
(* TTL that nobody renews runs out.                                          *)
Fairness ==
    /\ \A h \in Host : WF_vars(hostStep(h)) /\ WF_vars(tick(h)) /\ WF_vars(execute(h))
    /\ WF_vars(expire /\ UNCHANGED faults)

Spec == Init /\ [][Next]_vars /\ Fairness

-----------------------------------------------------------------------------
(* Every variable has its type. *)
TypeOK ==
    /\ key \in Host \cup {NoHost}
    /\ leaders \subseteq Host /\ checking \subseteq Host
    /\ life \in [Host -> Life]
    /\ pc \in [Host -> [Thread -> Pc]]
    /\ answer \in [Host -> [Thread -> Answer]]
    /\ wire \in [Host -> Seq(Command)]
    /\ faults \in 0..MaxFaults

(* The assertions of MultiMainSetup never fail: a check that started as the  *)
(* leader's (a follower's) still finds its host leader (follower) after each *)
(* await, so that takeover and stepdown events alternate.                    *)
AssertionsHold ==
    \A h \in Host, s \in Check :
        /\ pc[h][s] \in {"renew", "reclaim"} => h \in leaders
        /\ pc[h][s] \in {"get", "claim"} => h \notin leaders

(* As long as no command times out and no lease of a working host runs out,  *)
(* a leader holds the key, whatever other hosts start, stop or crash: there  *)
(* is at most one leader.                                                    *)
HealthyLeaderHoldsKey ==
    faults = 0 => \A h \in leaders \cap Alive : key = h

(* Once timeouts and expiries have stopped, the hosts that are left agree:   *)
(* exactly one of them is the leader, the one that holds the key.            *)
EventuallyOneLeader ==
    <>[](Alive # {} => key \in Alive /\ leaders \cap Alive = {key})
=============================================================================
