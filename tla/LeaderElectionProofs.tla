------------------------ MODULE LeaderElectionProofs ------------------------
(***************************************************************************)
(* Three results, for any hosts and any number of checks in flight.        *)
(*                                                                         *)
(* The assertions of MultiMainSetup hold under any faults, because a check *)
(* cannot overlap another one of its host, nor init(); what Redis answers, *)
(* loses or executes late plays no part.                                   *)
(*                                                                         *)
(* Before the first fault a leader holds the key, because whoever has read *)
(* "it is mine" still holds it, and a deletion on its way is the deletion  *)
(* of its sender's own key.                                                *)
(*                                                                         *)
(* And every variable has its type, across the faults too.                 *)
(***************************************************************************)
EXTENDS LeaderElection, SequenceTheorems, TLAPS

CheckPc == {"idle", "renew", "reclaim", "get", "claim"}

(* The part of the state the assertions depend on has its type. *)
ControlType == pc \in [Host -> [Thread -> Pc]] /\ life \in [Host -> Life]

(* Why the assertions hold in one host: a check is recorded in               *)
(* leaderCheckInProgress, there is one at a time, and none before init() has *)
(* started the interval.                                                     *)
HostInv(h) ==
    /\ \A s \in Check : pc[h][s] \in CheckPc
    /\ \A s \in Check : h \notin checking => pc[h][s] = "idle"
    /\ \A s, u \in Check : pc[h][s] # "idle" /\ pc[h][u] # "idle" => s = u
    /\ life[h] \in {"off", "starting"} => h \notin checking
    /\ pc[h][0] = "init" => life[h] = "starting"
    /\ \A s \in Check : pc[h][s] \in {"renew", "reclaim"} => h \in leaders
    /\ \A s \in Check : pc[h][s] \in {"get", "claim"} => h \notin leaders

Inv == ControlType /\ \A h \in Host : HostInv(h)

-----------------------------------------------------------------------------
(* Thread 0 starts and stops a host, the others are its checks. *)
LEMMA ThreadFacts ==
    0 \in Thread /\ Check \subseteq Thread /\ 0 \notin Check
BY HostAssumption DEF HostAssumption, Thread, Check

(* One thread of one host moves to another label. *)
LEMMA MoveProperties ==
    ASSUME NEW p \in [Host -> [Thread -> Pc]], NEW q, NEW h \in Host,
           NEW t \in Thread, NEW label \in Pc, q = [p EXCEPT ![h][t] = label]
    PROVE  /\ q \in [Host -> [Thread -> Pc]]
           /\ q[h][t] = label
           /\ \A g \in Host, u \in Thread : ~(g = h /\ u = t) => q[g][u] = p[g][u]
<1>1. q = [p EXCEPT ![h] = [p[h] EXCEPT ![t] = label]]
  OBVIOUS
<1>2. [p[h] EXCEPT ![t] = label] \in [Thread -> Pc]
  OBVIOUS
<1>3. QED
  BY <1>1, <1>2

(* A step of one host leaves the invariant of the others alone. *)
LEMMA LocalStep ==
    ASSUME Inv, NEW h \in Host, ControlType', HostInv(h)',
           \A g \in Host, u \in Thread : g # h => pc'[g][u] = pc[g][u],
           \A g \in Host : g # h => life'[g] = life[g],
           \A g \in Host : g # h => (g \in checking' <=> g \in checking),
           \A g \in Host : g # h => (g \in leaders' <=> g \in leaders)
    PROVE  Inv'
<1>1. ASSUME NEW g \in Host, g # h PROVE HostInv(g)'
  <2>1. HostInv(g)
    BY DEF Inv
  <2>2. /\ \A s \in Check : pc'[g][s] = pc[g][s]
        /\ pc'[g][0] = pc[g][0]
        /\ life'[g] = life[g]
        /\ g \in checking' <=> g \in checking
        /\ g \in leaders' <=> g \in leaders
    BY <1>1, ThreadFacts
  <2>3. QED
    BY <2>1, <2>2 DEF HostInv
<1>2. QED
  BY <1>1 DEF Inv

(* Initially nothing is under way. *)
LEMMA InvInit == Init => Inv
<1> SUFFICES ASSUME Init PROVE Inv
  OBVIOUS
<1>1. ControlType
  BY DEF Init, ControlType, Pc, Life
<1>2. ASSUME NEW h \in Host PROVE HostInv(h)
  BY <1>2, ThreadFacts DEF Init, HostInv, CheckPc
<1>3. QED
  BY <1>1, <1>2 DEF Inv

(* A check of host h that goes on to the next command of the same kind. *)
LEMMA InvNextCommand ==
    ASSUME Inv, NEW h \in Host, NEW s \in Check, NEW label \in {"reclaim", "claim"},
           label = "reclaim" => pc[h][s] = "renew",
           label = "claim" => pc[h][s] = "get",
           pc' = [pc EXCEPT ![h][s] = label],
           UNCHANGED <<leaders, checking, life>>
    PROVE  Inv'
<1>1. s \in Thread /\ 0 \in Thread /\ s # 0 /\ Check \subseteq Thread /\ label \in Pc
  BY ThreadFacts DEF Pc
<1>2. ControlType /\ HostInv(h)
  BY DEF Inv
<1>3. /\ pc' \in [Host -> [Thread -> Pc]] /\ pc'[h][s] = label
      /\ \A g \in Host, u \in Thread : ~(g = h /\ u = s) => pc'[g][u] = pc[g][u]
  BY <1>1, <1>2, MoveProperties DEF ControlType
<1>4. ControlType'
  BY <1>2, <1>3 DEF ControlType
<1>5. HostInv(h)'
  BY <1>1, <1>2, <1>3 DEF HostInv, CheckPc
<1>6. QED
  BY <1>3, <1>4, <1>5, LocalStep

(* A check that ends, whatever it makes of the role of its host. *)
LEMMA InvEndCheck ==
    ASSUME Inv, NEW h \in Host, NEW s \in Check, pc[h][s] # "idle",
           NEW L, L \in {leaders, leaders \cup {h}, leaders \ {h}},
           EndCheck(h, s, L)
    PROVE  Inv'
<1>1. s \in Thread /\ 0 \in Thread /\ s # 0 /\ Check \subseteq Thread /\ "idle" \in Pc
  BY ThreadFacts DEF Pc
<1>2. ControlType /\ HostInv(h)
  BY DEF Inv
<1>3. /\ pc' = [pc EXCEPT ![h][s] = "idle"]
      /\ checking' = checking \ {h} /\ life' = life
      /\ \A g \in Host : g # h => (g \in leaders' <=> g \in leaders)
  BY DEF EndCheck
<1>4. /\ pc' \in [Host -> [Thread -> Pc]] /\ pc'[h][s] = "idle"
      /\ \A g \in Host, u \in Thread : ~(g = h /\ u = s) => pc'[g][u] = pc[g][u]
  <2>1. pc' = [pc EXCEPT ![h][s] = "idle"]
    BY <1>3
  <2>2. s \in Thread /\ "idle" \in Pc /\ ControlType
    BY <1>1, <1>2
  <2>3. QED
    BY <2>1, <2>2, MoveProperties DEF ControlType
<1>5. \A u \in Check : pc'[h][u] = "idle"
  BY <1>1, <1>2, <1>4 DEF HostInv
<1>6. ControlType'
  BY <1>2, <1>3, <1>4 DEF ControlType
<1>7. HostInv(h)'
  BY <1>1, <1>2, <1>3, <1>4, <1>5 DEF HostInv, CheckPc
<1>8. QED
  BY <1>3, <1>4, <1>6, <1>7, LocalStep

(* The end of a process. *)
LEMMA InvGone ==
    ASSUME Inv, NEW h \in Host, NEW loses, Gone(h, loses)
    PROVE  Inv'
<1>1. Check \subseteq Thread /\ 0 \in Thread /\ "idle" \in Pc /\ "gone" \in Life
  BY ThreadFacts DEF Pc, Life
<1>2. /\ pc' \in [Host -> [Thread -> Pc]]
      /\ \A u \in Thread : pc'[h][u] = "idle"
      /\ \A g \in Host : g # h => pc'[g] = pc[g]
  BY <1>1 DEF Gone, Inv, ControlType
<1>3. /\ life' \in [Host -> Life] /\ life'[h] = "gone"
      /\ \A g \in Host : g # h => life'[g] = life[g]
  BY <1>1 DEF Gone, Inv, ControlType
<1>4. checking' = checking \ {h} /\ leaders' = leaders \ {h}
  BY DEF Gone
<1>5. ControlType'
  BY <1>2, <1>3 DEF ControlType
<1>6. HostInv(h)'
  BY <1>1, <1>2, <1>3, <1>4 DEF HostInv, CheckPc
<1>7. QED
  BY <1>2, <1>3, <1>4, <1>5, <1>6, LocalStep

-----------------------------------------------------------------------------
(* Every step keeps the invariant. *)
LEMMA InvStep == Inv /\ [Next]_vars => Inv'
<1> SUFFICES ASSUME Inv, [Next]_vars PROVE Inv'
  OBVIOUS
<1> USE ThreadFacts
<1>0. ControlType
  BY DEF Inv
<1>1. ASSUME NEW h \in Host, init(h) PROVE Inv'
  <2>1. /\ pc' \in [Host -> [Thread -> Pc]] /\ pc'[h][0] = "init"
        /\ \A g \in Host, u \in Thread : ~(g = h /\ u = 0) => pc'[g][u] = pc[g][u]
    BY <1>0, <1>1, MoveProperties DEF ControlType, init, Send, Pc
  <2>2. /\ life' \in [Host -> Life] /\ life'[h] = "starting" /\ life[h] = "off"
        /\ \A g \in Host : g # h => life'[g] = life[g]
    BY <1>0, <1>1 DEF init, ControlType, Life
  <2>3. checking' = checking /\ leaders' = leaders
    BY <1>1 DEF init
  <2>4. ControlType'
    BY <2>1, <2>2 DEF ControlType
  <2>5. HostInv(h)'
    BY <1>0, <2>1, <2>2, <2>3 DEF Inv, HostInv, CheckPc
  <2>6. QED
    BY <2>1, <2>2, <2>3, <2>4, <2>5, LocalStep
<1>2. ASSUME NEW h \in Host, initDone(h) PROVE Inv'
  <2>1. /\ pc' \in [Host -> [Thread -> Pc]] /\ pc'[h][0] = "idle" /\ pc[h][0] = "init"
        /\ \A g \in Host, u \in Thread : ~(g = h /\ u = 0) => pc'[g][u] = pc[g][u]
    <3>1. pc[h][0] = "init" /\ pc' = [pc EXCEPT ![h][0] = "idle"] /\ "idle" \in Pc
      BY <1>2 DEF initDone, Answered, Pc
    <3>2. QED
      BY <1>0, <3>1, MoveProperties DEF ControlType
  <2>2. /\ life' \in [Host -> Life] /\ life'[h] = "up"
        /\ \A g \in Host : g # h => life'[g] = life[g]
    BY <1>0, <1>2 DEF initDone, ControlType, Life
  <2>3. \A u \in Check : pc[h][u] = "idle"
    BY <2>1 DEF Inv, HostInv
  <2>4. checking' = checking /\ \A g \in Host : g # h => (g \in leaders' <=> g \in leaders)
    BY <1>2 DEF initDone
  <2>5. ControlType'
    BY <2>1, <2>2 DEF ControlType
  <2>6. HostInv(h)'
    BY <2>1, <2>2, <2>3, <2>4 DEF Inv, HostInv, CheckPc
  <2>7. QED
    BY <2>1, <2>2, <2>4, <2>5, <2>6, LocalStep
<1>3. ASSUME NEW h \in Host, NEW s \in Check, checkLeader(h, s) PROVE Inv'
  <2> DEFINE label == IF h \in leaders THEN "renew" ELSE "get"
  <2>1. pc' = [pc EXCEPT ![h][s] = label]
    BY <1>3 DEF checkLeader, Send
  <2>2. label \in Pc
    BY DEF Pc
  <2>3. \/ label = "renew" /\ h \in leaders
        \/ label = "get" /\ h \notin leaders
    OBVIOUS
  <2> HIDE DEF label
  <2>4. /\ pc' \in [Host -> [Thread -> Pc]] /\ pc'[h][s] = label
        /\ \A g \in Host, u \in Thread : ~(g = h /\ u = s) => pc'[g][u] = pc[g][u]
    <3>1. s \in Thread
      OBVIOUS
    <3>2. QED
      BY <1>0, <2>1, <2>2, <3>1, MoveProperties DEF ControlType
  <2>5. \A u \in Check : pc[h][u] = "idle"
    BY <1>3 DEF checkLeader, MayCheck, Inv, HostInv
  <2>6. /\ life[h] = "up" /\ life' = life /\ leaders' = leaders
        /\ checking' = checking \cup {h}
    BY <1>3 DEF checkLeader
  <2>7. ControlType'
    BY <1>0, <2>4, <2>6 DEF ControlType
  <2>8. HostInv(h)'
    BY <2>3, <2>4, <2>5, <2>6 DEF Inv, HostInv, CheckPc
  <2>9. QED
    BY <2>4, <2>6, <2>7, <2>8, LocalStep
<1>4. ASSUME NEW h \in Host, NEW s \in Check, checkAreWeStillLeader(h, s) PROVE Inv'
  <2>1. CASE Answered(h, s, "renew", "missing") /\ Send(h, s, "SET", "reclaim")
             /\ UNCHANGED <<key, hostVars, faults>>
    BY <2>1, InvNextCommand DEF Answered, Send, hostVars
  <2>2. CASE pc[h][s] \in {"renew", "reclaim"}
             /\ (EndCheck(h, s, leaders) \/ EndCheck(h, s, leaders \ {h}))
    BY <2>2, InvEndCheck
  <2>3. QED
    BY <1>4, <2>1, <2>2 DEF checkAreWeStillLeader, Answered
<1>5. ASSUME NEW h \in Host, NEW s \in Check, checkCanBecomeLeader(h, s) PROVE Inv'
  <2>1. CASE Answered(h, s, "get", "vacant") /\ Send(h, s, "SET", "claim")
             /\ UNCHANGED <<key, hostVars, faults>>
    BY <2>1, InvNextCommand DEF Answered, Send, hostVars
  <2>2. CASE pc[h][s] \in {"get", "claim"}
             /\ (EndCheck(h, s, leaders) \/ EndCheck(h, s, leaders \cup {h}))
    BY <2>2, InvEndCheck
  <2>3. QED
    BY <1>5, <2>1, <2>2 DEF checkCanBecomeLeader, Answered
<1>6. ASSUME NEW h \in Host, shutdown(h) PROVE Inv'
  <2>1. CASE h \in leaders
    <3>1. /\ pc' \in [Host -> [Thread -> Pc]] /\ pc'[h][0] = "clear"
          /\ \A g \in Host, u \in Thread : ~(g = h /\ u = 0) => pc'[g][u] = pc[g][u]
      <4>1. pc' = [pc EXCEPT ![h][0] = "clear"] /\ "clear" \in Pc
        BY <1>6, <2>1 DEF shutdown, Send, Pc
      <4>2. QED
        BY <1>0, <4>1, MoveProperties DEF ControlType
    <3>2. /\ life' \in [Host -> Life] /\ life'[h] = "halting"
          /\ \A g \in Host : g # h => life'[g] = life[g]
      BY <1>0, <1>6, <2>1 DEF shutdown, ControlType, Life
    <3>3. checking' = checking /\ leaders' = leaders
      BY <1>6, <2>1 DEF shutdown
    <3>4. ControlType'
      BY <3>1, <3>2 DEF ControlType
    <3>5. HostInv(h)'
      BY <3>1, <3>2, <3>3 DEF Inv, HostInv, CheckPc
    <3>6. QED
      BY <3>1, <3>2, <3>3, <3>4, <3>5, LocalStep
  <2>2. CASE h \notin leaders
    BY <1>6, <2>2, InvGone DEF shutdown
  <2>3. QED
    BY <2>1, <2>2
<1>7. ASSUME NEW h \in Host, destroy(h) \/ crash(h) PROVE Inv'
  BY <1>7, InvGone DEF destroy, crash
<1>8. ASSUME UNCHANGED <<pc, leaders, checking, life>> PROVE Inv'
  BY <1>8 DEF Inv, ControlType, HostInv
<1>9. ASSUME NEW h \in Host, execute(h) PROVE Inv'
  BY <1>8, <1>9 DEF execute, hostVars
<1>10. ASSUME NEW h \in Host, NEW t \in Thread, NEW loses \in BOOLEAN,
              commandTimeout(h, t, loses)
       PROVE  Inv'
  BY <1>8, <1>10 DEF commandTimeout, hostVars
<1>11. ASSUME expire PROVE Inv'
  BY <1>8, <1>11 DEF expire, hostVars
<1>12. ASSUME UNCHANGED vars PROVE Inv'
  BY <1>8, <1>12 DEF vars
<1>13. QED
  BY <1>1, <1>2, <1>3, <1>4, <1>5, <1>6, <1>7, <1>9, <1>10, <1>11, <1>12
     DEF Next, hostStep, tick

(* The assertions of takeOverAsLeader, stepDownToFollower and the two checks *)
(* never fail: AssertionsHold is an invariant of every behaviour.            *)
THEOREM LeaderAssertionsHold == Spec => []AssertionsHold
<1>1. Inv => AssertionsHold
  BY DEF Inv, HostInv, AssertionsHold
<1>2. QED
  BY <1>1, InvInit, InvStep, PTL DEF Spec

-----------------------------------------------------------------------------
(* h acts as the owner of the key, or is about to: an answer that makes it   *)
(* leader has been given and not been seen yet.                              *)
Claims(h) ==
    \/ h \in leaders
    \/ \E t \in Thread : pc[h][t] # "idle" /\ answer[h][t] \in {"true", "self"}

Working(h) == life[h] \in {"starting", "up"}

(* The DELs on their way from h. *)
Deletes(h) == {i \in DOMAIN wire[h] : wire[h][i].op = "DEL"}

KeyType ==
    /\ ControlType
    /\ key \in Host \cup {NoHost}
    /\ answer \in [Host -> [Thread -> Answer]]
    /\ wire \in [Host -> Seq(Command)]

OffDoesNothing == \A h \in Host : life[h] = "off" => ~Claims(h) /\ wire[h] = <<>>
ClaimsAreOwned == \A h \in Host : Working(h) /\ Claims(h) => key = h
DeletesAreOwned == \A h \in Host : Deletes(h) # {} => ~Working(h) /\ life[h] # "off" /\ key = h
OneDelete == \A h \in Host : \A i, j \in Deletes(h) : i = j

KeyInv == KeyType /\ OffDoesNothing /\ ClaimsAreOwned /\ DeletesAreOwned /\ OneDelete
HealthyInv == faults \in Nat /\ (faults = 0 => KeyInv)

(* The answer of one thread of one host changes. *)
LEMMA AnswerProperties ==
    ASSUME NEW p \in [Host -> [Thread -> Answer]], NEW q, NEW h \in Host,
           NEW t \in Thread, NEW a \in Answer, q = [p EXCEPT ![h][t] = a]
    PROVE  /\ q \in [Host -> [Thread -> Answer]]
           /\ q[h][t] = a
           /\ \A g \in Host, u \in Thread : ~(g = h /\ u = t) => q[g][u] = p[g][u]
<1>1. q = [p EXCEPT ![h] = [p[h] EXCEPT ![t] = a]]
  OBVIOUS
<1>2. [p[h] EXCEPT ![t] = a] \in [Thread -> Answer]
  OBVIOUS
<1>3. QED
  BY <1>1, <1>2

(* A step that changes neither the key nor who owns what. *)
LEMMA KeyInvKept ==
    ASSUME KeyInv, KeyType', key' = key,
           \A g \in Host : Claims(g)' => Claims(g),
           \A g \in Host : Deletes(g)' \subseteq Deletes(g),
           \A g \in Host : life'[g] = "off" => wire'[g] = wire[g],
           \A g \in Host : \/ life'[g] = life[g]
                           \/ life[g] = "off" /\ life'[g] = "starting"
                           \/ life[g] = "starting" /\ life'[g] = "up"
                           \/ life'[g] = "gone"
    PROVE  KeyInv'
<1>1. OffDoesNothing'
  BY DEF KeyInv, OffDoesNothing
<1>2. ClaimsAreOwned'
  BY DEF KeyInv, OffDoesNothing, ClaimsAreOwned, Working
<1>3. DeletesAreOwned'
  <2>1. SUFFICES ASSUME NEW g \in Host, Deletes(g)' # {}
                 PROVE  ~Working(g)' /\ life'[g] # "off" /\ key' = g
    BY DEF DeletesAreOwned
  <2>2. Deletes(g) # {}
    BY <2>1
  <2>3. ~Working(g) /\ life[g] # "off" /\ key = g
    BY <2>2 DEF KeyInv, DeletesAreOwned
  <2>4. QED
    BY <2>3 DEF Working
<1>4. OneDelete'
  <2>1. SUFFICES ASSUME NEW g \in Host, NEW i \in Deletes(g)', NEW j \in Deletes(g)'
                 PROVE  i = j
    BY DEF OneDelete
  <2>2. i \in Deletes(g) /\ j \in Deletes(g)
    BY <2>1
  <2>3. QED
    BY <2>2 DEF KeyInv, OneDelete
<1>5. QED
  BY <1>1, <1>2, <1>3, <1>4 DEF KeyInv

(* Sending a command: nothing is claimed by it, and only a DEL deletes. *)
LEMMA SendProperties ==
    ASSUME KeyType, NEW h \in Host, NEW t \in Thread, NEW op \in Op, NEW label \in Pc,
           Send(h, t, op, label), leaders' = leaders
    PROVE  /\ pc' \in [Host -> [Thread -> Pc]]
           /\ answer' \in [Host -> [Thread -> Answer]]
           /\ wire' \in [Host -> Seq(Command)]
           /\ \A g \in Host : Claims(g)' => Claims(g)
           /\ \A g \in Host : g # h => Deletes(g)' = Deletes(g) /\ wire'[g] = wire[g]
           /\ op # "DEL" => Deletes(h)' = Deletes(h)
           /\ Deletes(h)' \subseteq Deletes(h) \cup {Len(wire[h]) + 1}
<1> DEFINE c == [op |-> op, by |-> t]
<1>1. /\ wire' = [wire EXCEPT ![h] = Append(@, c)]
      /\ answer' = [answer EXCEPT ![h][t] = "pending"]
      /\ pc' = [pc EXCEPT ![h][t] = label]
  BY DEF Send
<1>2. c \in Command /\ c.op = op
  BY DEF Command
<1> HIDE DEF c
<1>3. /\ pc \in [Host -> [Thread -> Pc]]
      /\ answer \in [Host -> [Thread -> Answer]]
      /\ wire \in [Host -> Seq(Command)] /\ wire[h] \in Seq(Command)
  BY DEF KeyType, ControlType
<1>4. /\ pc' \in [Host -> [Thread -> Pc]]
      /\ \A g \in Host, u \in Thread : ~(g = h /\ u = t) => pc'[g][u] = pc[g][u]
  BY <1>1, <1>3, MoveProperties
<1>5. /\ answer' \in [Host -> [Thread -> Answer]]
      /\ answer'[h][t] = "pending"
      /\ \A g \in Host, u \in Thread : ~(g = h /\ u = t) => answer'[g][u] = answer[g][u]
  <2>1. "pending" \in Answer
    BY DEF Answer
  <2>2. QED
    BY <1>1, <1>3, <2>1, AnswerProperties
<1>6. /\ wire' \in [Host -> Seq(Command)]
      /\ wire'[h] = Append(wire[h], c)
      /\ \A g \in Host : g # h => wire'[g] = wire[g]
  BY <1>1, <1>2, <1>3
<1>7. ASSUME NEW g \in Host, Claims(g)' PROVE Claims(g)
  BY <1>4, <1>5, <1>7 DEF Claims
<1>8. \A g \in Host : g # h => Deletes(g)' = Deletes(g)
  BY <1>6 DEF Deletes
<1>9. /\ Len(wire[h]) \in Nat /\ DOMAIN wire[h] = 1..Len(wire[h])
      /\ DOMAIN wire'[h] = 1..(Len(wire[h]) + 1)
      /\ \A i \in 1..Len(wire[h]) : wire'[h][i] = wire[h][i]
      /\ wire'[h][Len(wire[h]) + 1] = c
  BY <1>2, <1>3, <1>6
<1>10. Deletes(h)' \subseteq Deletes(h) \cup {Len(wire[h]) + 1}
  BY <1>9 DEF Deletes
<1>11. op # "DEL" => Deletes(h)' = Deletes(h)
  BY <1>2, <1>9 DEF Deletes
<1>12. QED
  BY <1>4, <1>5, <1>6, <1>7, <1>8, <1>10, <1>11

(* A process that sends a command other than DEL keeps the invariant. *)
LEMMA KeyInvSend ==
    ASSUME KeyInv, NEW h \in Host, NEW t \in Thread, NEW op \in {"SET", "RENEW", "GET"},
           NEW label \in Pc, Send(h, t, op, label), UNCHANGED <<key, leaders>>,
           life' \in [Host -> Life], life'[h] # "off",
           \A g \in Host : \/ life'[g] = life[g]
                           \/ life[g] = "off" /\ life'[g] = "starting"
    PROVE  KeyInv'
<1>1. KeyType /\ op \in Op /\ op # "DEL"
  BY DEF KeyInv, Op
<1>2. /\ pc' \in [Host -> [Thread -> Pc]]
      /\ answer' \in [Host -> [Thread -> Answer]]
      /\ wire' \in [Host -> Seq(Command)]
      /\ \A g \in Host : Claims(g)' => Claims(g)
      /\ \A g \in Host : Deletes(g)' = Deletes(g)
      /\ \A g \in Host : g # h => wire'[g] = wire[g]
  BY <1>1, SendProperties
<1>3. KeyType'
  BY <1>1, <1>2 DEF KeyType, ControlType
<1>4. QED
  BY <1>2, <1>3, KeyInvKept

(* A check that ends: its host may be leader only if it claimed the key.     *)
LEMMA KeyInvEndCheck ==
    ASSUME KeyInv, NEW h \in Host, NEW s \in Check, NEW L, EndCheck(h, s, L),
           L \subseteq leaders \cup {h}, h \in L => Claims(h)
    PROVE  KeyInv'
<1>1. s \in Thread /\ "idle" \in Pc /\ KeyType /\ pc \in [Host -> [Thread -> Pc]]
  BY ThreadFacts DEF Pc, KeyInv, KeyType, ControlType
<1>2. /\ pc' = [pc EXCEPT ![h][s] = "idle"] /\ leaders' = L
      /\ key' = key /\ life' = life /\ answer' = answer /\ wire' = wire
  BY DEF EndCheck
<1>3. /\ pc' \in [Host -> [Thread -> Pc]] /\ pc'[h][s] = "idle"
      /\ \A g \in Host, u \in Thread : ~(g = h /\ u = s) => pc'[g][u] = pc[g][u]
  <2>1. pc' = [pc EXCEPT ![h][s] = "idle"]
    BY <1>2
  <2>2. QED
    BY <1>1, <2>1, MoveProperties
<1>4. KeyType'
  BY <1>1, <1>2, <1>3 DEF KeyType, ControlType
<1>5. ASSUME NEW g \in Host, Claims(g)' PROVE Claims(g)
  BY <1>1, <1>2, <1>3, <1>5 DEF Claims
<1>6. \A g \in Host : Deletes(g)' = Deletes(g)
  BY <1>2 DEF Deletes
<1>7. QED
  BY <1>2, <1>4, <1>5, <1>6, KeyInvKept

(* The end of a process. *)
LEMMA KeyInvGone ==
    ASSUME KeyInv, NEW h \in Host, NEW loses, Gone(h, loses)
    PROVE  KeyInv'
<1>1. KeyType /\ ControlType /\ "idle" \in Pc /\ "gone" \in Life
  BY DEF KeyInv, KeyType, Pc, Life
<1>2. /\ pc' \in [Host -> [Thread -> Pc]]
      /\ \A u \in Thread : pc'[h][u] = "idle"
      /\ \A g \in Host : g # h => pc'[g] = pc[g]
  BY <1>1 DEF Gone, ControlType
<1>3. /\ life' \in [Host -> Life] /\ life'[h] = "gone"
      /\ \A g \in Host : g # h => life'[g] = life[g]
  BY <1>1 DEF Gone, ControlType
<1>4. leaders' = leaders \ {h} /\ key' = key /\ answer' = answer
  BY DEF Gone
<1>5. /\ wire' \in [Host -> Seq(Command)]
      /\ \A g \in Host : g # h => wire'[g] = wire[g]
      /\ wire'[h] = wire[h] \/ wire'[h] = <<>>
  BY <1>1 DEF Gone, KeyType
<1>6. KeyType'
  BY <1>1, <1>2, <1>3, <1>4, <1>5 DEF KeyType, ControlType
<1>7. ASSUME NEW g \in Host, Claims(g)' PROVE Claims(g)
  BY <1>2, <1>4, <1>7 DEF Claims
<1>8. ASSUME NEW g \in Host PROVE Deletes(g)' \subseteq Deletes(g)
  <2>1. CASE wire'[g] = wire[g]
    BY <2>1 DEF Deletes
  <2>2. CASE wire'[g] = <<>>
    BY <2>2 DEF Deletes
  <2>3. QED
    BY <1>5, <2>1, <2>2
<1>9. QED
  BY <1>3, <1>4, <1>5, <1>6, <1>7, <1>8, KeyInvKept

(* A leader that shuts down sends a DEL of the key it holds. *)
LEMMA KeyInvShutdown ==
    ASSUME KeyInv, NEW h \in Host, shutdown(h)
    PROVE  KeyInv'
<1>1. CASE h \notin leaders
  BY <1>1, KeyInvGone DEF shutdown
<1>2. CASE h \in leaders
  <2>1. /\ Send(h, 0, "DEL", "clear") /\ key' = key /\ leaders' = leaders
        /\ life[h] = "up" /\ life' = [life EXCEPT ![h] = "halting"]
    BY <1>2 DEF shutdown
  <2>2. KeyType /\ 0 \in Thread /\ "DEL" \in Op /\ "clear" \in Pc /\ "halting" \in Life
    BY ThreadFacts DEF KeyInv, Op, Pc, Life
  <2>3. /\ pc' \in [Host -> [Thread -> Pc]]
        /\ answer' \in [Host -> [Thread -> Answer]]
        /\ wire' \in [Host -> Seq(Command)]
        /\ \A g \in Host : Claims(g)' => Claims(g)
        /\ \A g \in Host : g # h => Deletes(g)' = Deletes(g) /\ wire'[g] = wire[g]
        /\ Deletes(h)' \subseteq Deletes(h) \cup {Len(wire[h]) + 1}
    BY <2>1, <2>2, SendProperties
  <2>4. /\ life' \in [Host -> Life] /\ life'[h] = "halting"
        /\ \A g \in Host : g # h => life'[g] = life[g]
    BY <2>1, <2>2 DEF KeyType, ControlType
  <2>5. Deletes(h) = {} /\ key = h
    BY <1>2, <2>1 DEF KeyInv, DeletesAreOwned, ClaimsAreOwned, Working, Claims
  <2>6. KeyType'
    BY <2>1, <2>2, <2>3, <2>4 DEF KeyType, ControlType
  <2>7. OffDoesNothing' /\ ClaimsAreOwned'
    BY <2>1, <2>3, <2>4 DEF KeyInv, OffDoesNothing, ClaimsAreOwned, Working
  <2>8. DeletesAreOwned'
    BY <2>1, <2>3, <2>4, <2>5 DEF KeyInv, DeletesAreOwned, Working
  <2>9. OneDelete'
    <3>1. ASSUME NEW i \in Deletes(h)', NEW j \in Deletes(h)' PROVE i = j
      BY <2>3, <2>5, <3>1
    <3>2. ASSUME NEW g \in Host, g # h, NEW i \in Deletes(g)', NEW j \in Deletes(g)'
          PROVE  i = j
      <4>1. i \in Deletes(g) /\ j \in Deletes(g)
        BY <2>3, <3>2
      <4>2. QED
        BY <4>1 DEF KeyInv, OneDelete
    <3>3. QED
      BY <3>1, <3>2 DEF OneDelete
  <2>10. QED
    BY <2>6, <2>7, <2>8, <2>9 DEF KeyInv
<1>3. QED
  BY <1>1, <1>2

(* Redis executes a command: a SET takes a key nobody claims, a DEL deletes  *)
(* the key of its sender, which claims it no more.                           *)
LEMMA KeyInvExecute ==
    ASSUME KeyInv, NEW h \in Host, execute(h)
    PROVE  KeyInv'
<1> DEFINE c == Head(wire[h])
           r == Result(c.op, h)
<1>1. KeyType /\ ControlType /\ wire[h] \in Seq(Command) /\ wire[h] # <<>>
  BY DEF KeyInv, KeyType, execute
<1>2. c \in Command /\ c = wire[h][1] /\ 1 \in DOMAIN wire[h]
  BY <1>1
<1>3. /\ key' = KeyAfter(c.op, h)
      /\ answer' = IF c.by = Nobody \/ life[h] = "gone" THEN answer
                   ELSE [answer EXCEPT ![h][c.by] = r]
      /\ wire' = [wire EXCEPT ![h] = Tail(@)]
      /\ UNCHANGED <<leaders, life, pc>>
  BY DEF execute, hostVars
<1>4. /\ c.op \in Op /\ r \in Answer
      /\ c.by # Nobody => c.by \in Thread
  BY <1>2 DEF Command, Result, Answer, Op
<1>5. /\ key' \in Host \cup {NoHost}
      /\ key # NoHost /\ c.op # "DEL" => key' = key
      /\ c.op = "DEL" => key' = NoHost
      /\ r \in {"true", "self"} => key' = h
  BY <1>1, <1>3, <1>4, HostAssumption DEF KeyAfter, Result, KeyType, Op, HostAssumption
<1> HIDE DEF c, r
<1>6. /\ wire' \in [Host -> Seq(Command)] /\ wire'[h] = Tail(wire[h])
      /\ \A g \in Host : g # h => wire'[g] = wire[g]
  BY <1>1, <1>3 DEF KeyType
<1>7. /\ answer' \in [Host -> [Thread -> Answer]]
      /\ \A g \in Host, u \in Thread : g # h => answer'[g][u] = answer[g][u]
      /\ \A u \in Thread : answer'[h][u] = answer[h][u] \/ answer'[h][u] = r
  <2>1. CASE c.by = Nobody \/ life[h] = "gone"
    BY <1>1, <1>3, <2>1 DEF KeyType
  <2>2. CASE ~(c.by = Nobody \/ life[h] = "gone")
    <3>1. answer' = [answer EXCEPT ![h][c.by] = r] /\ c.by \in Thread
      BY <1>3, <1>4, <2>2
    <3>2. answer \in [Host -> [Thread -> Answer]]
      BY <1>1 DEF KeyType
    <3>3. /\ answer' \in [Host -> [Thread -> Answer]] /\ answer'[h][c.by] = r
          /\ \A g \in Host, u \in Thread :
                ~(g = h /\ u = c.by) => answer'[g][u] = answer[g][u]
      BY <1>4, <3>1, <3>2, AnswerProperties
    <3>4. QED
      BY <3>3
  <2>3. QED
    BY <2>1, <2>2
<1>8. KeyType'
  BY <1>1, <1>3, <1>5, <1>6, <1>7 DEF KeyType, ControlType
<1>9. \A g \in Host : g # h => Deletes(g)' = Deletes(g)
  BY <1>6 DEF Deletes
<1>10. /\ \A i \in Deletes(h)' : i \in Nat /\ i # 0 /\ i + 1 \in Deletes(h)
       /\ c.op = "DEL" => 1 \in Deletes(h)
  <2>1. /\ Len(wire[h]) \in Nat /\ Len(wire[h]) # 0
        /\ DOMAIN wire[h] = 1..Len(wire[h])
        /\ DOMAIN wire'[h] = 1..(Len(wire[h]) - 1)
        /\ \A i \in 1..(Len(wire[h]) - 1) : wire'[h][i] = wire[h][i + 1]
    BY <1>1, <1>6
  <2>2. QED
    BY <1>2, <2>1 DEF Deletes
<1>11. OneDelete'
  <2>1. ASSUME NEW i \in Deletes(h)', NEW j \in Deletes(h)' PROVE i = j
    <3>1. i \in Nat /\ j \in Nat /\ i + 1 \in Deletes(h) /\ j + 1 \in Deletes(h)
      BY <1>10, <2>1
    <3>2. i + 1 = j + 1
      BY <3>1 DEF KeyInv, OneDelete
    <3>3. QED
      BY <3>1, <3>2
  <2>2. QED
    BY <1>9, <2>1 DEF KeyInv, OneDelete
<1>12. c.op = "DEL" => Deletes(h)' = {}
  <2>1. SUFFICES ASSUME c.op = "DEL", NEW i \in Deletes(h)' PROVE FALSE
    OBVIOUS
  <2>2. i \in Nat /\ i # 0 /\ i + 1 \in Deletes(h) /\ 1 \in Deletes(h)
    BY <1>10, <2>1
  <2>3. i + 1 = 1
    BY <2>2 DEF KeyInv, OneDelete
  <2>4. QED
    BY <2>2, <2>3
<1>13. c.op = "DEL" => key = h /\ ~Working(h) /\ life[h] # "off"
  BY <1>10 DEF KeyInv, DeletesAreOwned
<1>14. \A g \in Host : Deletes(g)' # {} => Deletes(g) # {}
  BY <1>9, <1>10
<1>15. DeletesAreOwned'
  <2>1. SUFFICES ASSUME NEW g \in Host, Deletes(g)' # {}
                 PROVE  ~Working(g)' /\ life'[g] # "off" /\ key' = g
    BY DEF DeletesAreOwned
  <2>2. ~Working(g) /\ life[g] # "off" /\ key = g
    BY <1>14, <2>1 DEF KeyInv, DeletesAreOwned
  <2>3. key # NoHost
    BY <2>2, HostAssumption DEF HostAssumption
  <2>4. c.op # "DEL"
    BY <1>12, <1>13, <2>1, <2>2
  <2>5. QED
    BY <1>3, <1>5, <2>2, <2>3, <2>4 DEF Working
<1>16. ASSUME NEW g \in Host, g # h PROVE Claims(g)' => Claims(g)
  BY <1>3, <1>7, <1>16 DEF Claims
<1>17. Claims(h)' => Claims(h) \/ key' = h
  BY <1>3, <1>5, <1>7 DEF Claims
<1>18. ASSUME NEW g \in Host, Working(g), Claims(g) PROVE key' = g
  <2>1. key = g /\ key # NoHost
    BY <1>18, HostAssumption DEF KeyInv, ClaimsAreOwned, HostAssumption
  <2>2. c.op # "DEL"
    BY <1>13, <1>18, <2>1
  <2>3. QED
    BY <1>5, <2>1, <2>2
<1>19. ClaimsAreOwned'
  <2>1. SUFFICES ASSUME NEW g \in Host, Working(g)', Claims(g)' PROVE key' = g
    BY DEF ClaimsAreOwned
  <2>2. Working(g)
    BY <1>3, <2>1 DEF Working
  <2>3. QED
    BY <1>16, <1>17, <1>18, <2>1, <2>2
<1>20. OffDoesNothing'
  <2>1. SUFFICES ASSUME NEW g \in Host, life'[g] = "off"
                 PROVE  ~Claims(g)' /\ wire'[g] = <<>>
    BY DEF OffDoesNothing
  <2>2. ~Claims(g) /\ wire[g] = <<>>
    BY <1>3, <2>1 DEF KeyInv, OffDoesNothing
  <2>3. g # h
    BY <1>1, <2>2
  <2>4. QED
    BY <1>6, <1>16, <2>2, <2>3
<1>21. QED
  BY <1>8, <1>11, <1>15, <1>19, <1>20 DEF KeyInv

(* A lease that lapses belongs to a host that claims nothing any more. *)
LEMMA KeyInvExpire ==
    ASSUME KeyInv, expire, faults' = 0, faults = 0
    PROVE  KeyInv'
<1>1. /\ key \in Host /\ Lapses(key) /\ key' = NoHost
      /\ UNCHANGED <<leaders, life, pc, answer, wire>>
  BY DEF expire, hostVars, KeyInv, KeyType
<1>2. KeyType'
  BY <1>1 DEF KeyInv, KeyType, ControlType
<1>3. \A g \in Host : (Claims(g)' <=> Claims(g)) /\ Deletes(g)' = Deletes(g)
  BY <1>1 DEF Claims, Deletes
<1>4. OffDoesNothing' /\ OneDelete'
  BY <1>1, <1>3 DEF KeyInv, OffDoesNothing, OneDelete
<1>5. Deletes(key) = {} /\ ~Working(key)
  BY <1>1 DEF Lapses, Deletes, Working
<1>6. \A g \in Host : Deletes(g) = {}
  BY <1>5 DEF KeyInv, DeletesAreOwned
<1>7. \A g \in Host : ~(Working(g) /\ Claims(g))
  BY <1>5 DEF KeyInv, ClaimsAreOwned
<1>8. DeletesAreOwned'
  BY <1>3, <1>6 DEF DeletesAreOwned
<1>9. ClaimsAreOwned'
  BY <1>1, <1>3, <1>7 DEF ClaimsAreOwned, Working
<1>10. QED
  BY <1>2, <1>4, <1>8, <1>9 DEF KeyInv

(* Initially nobody claims anything. *)
LEMMA HealthyInit == Init => HealthyInv
<1> SUFFICES ASSUME Init PROVE HealthyInv
  OBVIOUS
<1>1. KeyType
  BY DEF Init, KeyType, ControlType, Pc, Life, Answer
<1>2. ASSUME NEW h \in Host PROVE Deletes(h) = {} /\ ~Claims(h)
  <2>1. wire[h] = <<>> /\ h \notin leaders /\ \A t \in Thread : pc[h][t] = "idle"
    BY DEF Init
  <2>2. QED
    BY <2>1 DEF Deletes, Claims
<1>3. QED
  BY <1>1, <1>2
     DEF Init, HealthyInv, KeyInv, OffDoesNothing, ClaimsAreOwned, DeletesAreOwned, OneDelete

(* Every step keeps it, given the invariant of the checks. *)
LEMMA HealthyStep == Inv /\ HealthyInv /\ [Next]_vars => HealthyInv'
<1> SUFFICES ASSUME Inv, HealthyInv, [Next]_vars PROVE HealthyInv'
  OBVIOUS
<1>1. faults' \in Nat /\ (faults' = 0 => faults = 0)
  <2>1. faults \in Nat
    BY DEF HealthyInv
  <2>2. faults' = faults \/ faults' = faults + 1
    <3>1. ASSUME NEW h \in Host,
                 init(h) \/ initDone(h) \/ destroy(h) \/ shutdown(h) \/ crash(h) \/ execute(h)
          PROVE  faults' = faults
      BY <3>1 DEF init, initDone, destroy, shutdown, crash, execute, Gone
    <3>2. ASSUME NEW h \in Host, NEW s \in Check,
                 checkLeader(h, s) \/ checkAreWeStillLeader(h, s) \/ checkCanBecomeLeader(h, s)
          PROVE  faults' = faults
      BY <3>2 DEF checkLeader, checkAreWeStillLeader, checkCanBecomeLeader, EndCheck
    <3>3. ASSUME NEW h \in Host, NEW t \in Thread, NEW loses \in BOOLEAN,
                 commandTimeout(h, t, loses)
          PROVE  faults' = faults + 1
      BY <3>3 DEF commandTimeout
    <3>4. ASSUME expire PROVE faults' = faults \/ faults' = faults + 1
      BY <3>4 DEF expire
    <3>5. ASSUME UNCHANGED vars PROVE faults' = faults
      BY <3>5 DEF vars
    <3>6. QED
      BY <3>1, <3>2, <3>3, <3>4, <3>5 DEF Next, hostStep, tick
  <2>3. QED
    BY <2>1, <2>2
<1>2. SUFFICES ASSUME faults = 0, faults' = 0 PROVE KeyInv'
  BY <1>1 DEF HealthyInv
<1>3. KeyInv /\ KeyType /\ ControlType
  BY <1>2 DEF HealthyInv, KeyInv, KeyType
<1> USE ThreadFacts
<1>4. ASSUME NEW h \in Host, init(h) PROVE KeyInv'
  <2>1. /\ life' \in [Host -> Life] /\ life'[h] = "starting" /\ life[h] = "off"
        /\ \A g \in Host : g # h => life'[g] = life[g]
    BY <1>3, <1>4 DEF init, ControlType, Life
  <2>2. Send(h, 0, "SET", "init") /\ UNCHANGED <<key, leaders>> /\ "init" \in Pc
    BY <1>4 DEF init, Pc
  <2>3. QED
    BY <1>3, <2>1, <2>2, KeyInvSend
<1>5. ASSUME NEW h \in Host, initDone(h) PROVE KeyInv'
  <2>1. /\ pc' = [pc EXCEPT ![h][0] = "idle"] /\ "idle" \in Pc
        /\ pc[h][0] = "init" /\ leaders' \subseteq leaders \cup {h}
        /\ h \in leaders' => h \in leaders \/ answer[h][0] = "true"
        /\ UNCHANGED <<key, answer, wire>>
    BY <1>5 DEF initDone, Answered, Pc
  <2>2. /\ pc' \in [Host -> [Thread -> Pc]] /\ pc'[h][0] = "idle"
        /\ \A g \in Host, u \in Thread : ~(g = h /\ u = 0) => pc'[g][u] = pc[g][u]
    <3>1. pc' = [pc EXCEPT ![h][0] = "idle"]
      BY <2>1
    <3>2. QED
      BY <1>3, <2>1, <3>1, MoveProperties DEF ControlType
  <2>3. /\ life' \in [Host -> Life] /\ life'[h] = "up"
        /\ \A g \in Host : g # h => life'[g] = life[g]
    BY <1>3, <1>5 DEF initDone, ControlType, Life
  <2>4. life[h] = "starting"
    BY <2>1 DEF Inv, HostInv
  <2>5. KeyType'
    BY <1>3, <2>1, <2>2, <2>3 DEF KeyType, ControlType
  <2>6. ASSUME NEW g \in Host, Claims(g)' PROVE Claims(g)
    BY <2>1, <2>2, <2>6 DEF Claims
  <2>7. \A g \in Host : Deletes(g)' = Deletes(g)
    BY <2>1 DEF Deletes
  <2>8. QED
    BY <1>3, <2>1, <2>3, <2>4, <2>5, <2>6, <2>7, KeyInvKept
<1>6. ASSUME NEW h \in Host, NEW s \in Check, checkLeader(h, s) PROVE KeyInv'
  <2>1. /\ UNCHANGED <<key, leaders, life>> /\ life'[h] # "off" /\ life' \in [Host -> Life]
        /\ "renew" \in Pc /\ "get" \in Pc
    BY <1>3, <1>6 DEF checkLeader, ControlType, Pc
  <2>2. Send(h, s, "RENEW", "renew") \/ Send(h, s, "GET", "get")
    BY <1>6 DEF checkLeader
  <2>3. QED
    BY <1>3, <2>1, <2>2, KeyInvSend
<1>7. ASSUME NEW h \in Host, NEW s \in Check, NEW label \in {"reclaim", "claim"},
             Send(h, s, "SET", label), UNCHANGED <<key, hostVars, faults>>, pc[h][s] # "idle"
      PROVE  KeyInv'
  <2>1. /\ UNCHANGED <<key, leaders, life>> /\ life' \in [Host -> Life] /\ label \in Pc
    BY <1>3, <1>7 DEF hostVars, ControlType, Pc
  <2>2. life[h] # "off"
    BY <1>7 DEF Inv, HostInv
  <2>3. QED
    BY <1>3, <1>7, <2>1, <2>2, KeyInvSend
<1>8. ASSUME NEW h \in Host, NEW s \in Check, checkAreWeStillLeader(h, s) PROVE KeyInv'
  <2>1. CASE EndCheck(h, s, leaders)
    BY <1>3, <2>1, KeyInvEndCheck DEF Claims
  <2>2. CASE EndCheck(h, s, leaders \ {h})
    BY <1>3, <2>2, KeyInvEndCheck
  <2>3. CASE Answered(h, s, "renew", "missing") /\ Send(h, s, "SET", "reclaim")
             /\ UNCHANGED <<key, hostVars, faults>>
    BY <1>7, <2>3 DEF Answered
  <2>4. QED
    BY <1>8, <2>1, <2>2, <2>3 DEF checkAreWeStillLeader
<1>9. ASSUME NEW h \in Host, NEW s \in Check, checkCanBecomeLeader(h, s) PROVE KeyInv'
  <2>1. CASE EndCheck(h, s, leaders)
    BY <1>3, <2>1, KeyInvEndCheck DEF Claims
  <2>2. CASE EndCheck(h, s, leaders \cup {h})
             /\ (Answered(h, s, "get", "self") \/ Answered(h, s, "claim", "true"))
    <3>1. Claims(h)
      BY <2>2 DEF Claims, Answered
    <3>2. QED
      BY <1>3, <2>2, <3>1, KeyInvEndCheck
  <2>3. CASE Answered(h, s, "get", "vacant") /\ Send(h, s, "SET", "claim")
             /\ UNCHANGED <<key, hostVars, faults>>
    BY <1>7, <2>3 DEF Answered
  <2>4. QED
    BY <1>9, <2>1, <2>2, <2>3 DEF checkCanBecomeLeader
<1>10. ASSUME NEW h \in Host, shutdown(h) PROVE KeyInv'
  BY <1>3, <1>10, KeyInvShutdown
<1>11. ASSUME NEW h \in Host, destroy(h) \/ crash(h) PROVE KeyInv'
  BY <1>3, <1>11, KeyInvGone DEF destroy, crash
<1>12. ASSUME NEW h \in Host, execute(h) PROVE KeyInv'
  BY <1>3, <1>12, KeyInvExecute
<1>13. ASSUME expire PROVE KeyInv'
  BY <1>2, <1>3, <1>13, KeyInvExpire
<1>14. ASSUME NEW h \in Host, NEW t \in Thread, NEW loses \in BOOLEAN,
              commandTimeout(h, t, loses)
       PROVE  KeyInv'
  BY <1>2, <1>14 DEF commandTimeout
<1>15. ASSUME UNCHANGED vars PROVE KeyInv'
  BY <1>3, <1>15
     DEF vars, KeyInv, KeyType, ControlType, OffDoesNothing, ClaimsAreOwned,
         DeletesAreOwned, OneDelete, Claims, Deletes, Working
<1>16. QED
  BY <1>4, <1>5, <1>6, <1>8, <1>9, <1>10, <1>11, <1>12, <1>13, <1>14, <1>15
     DEF Next, hostStep, tick

(* Until a command times out or a lease runs out early, a leader holds the   *)
(* key, whatever hosts start, stop or crash and however their commands and   *)
(* answers interleave; so there is at most one leader.                       *)
THEOREM LeaderHoldsKey == Spec => []HealthyLeaderHoldsKey
<1>1. HealthyInv => HealthyLeaderHoldsKey
  BY DEF HealthyInv, KeyInv, ClaimsAreOwned, Claims, Working, HealthyLeaderHoldsKey, Alive
<1>2. QED
  BY <1>1, InvInit, InvStep, HealthyInit, HealthyStep, PTL DEF Spec
-----------------------------------------------------------------------------
(* Type correctness, which unlike the key's part of HealthyInv has to hold   *)
(* across the faults: what a caller that gave up leaves on the wire are      *)
(* still commands.                                                           *)
Types == TypeOK /\ KeyType

LEMMA GivenUpType ==
    ASSUME NEW h \in Host, NEW t \in Thread, NEW loses \in BOOLEAN,
           wire[h] \in Seq(Command)
    PROVE  GivenUp(h, t, loses) \in Seq(Command)
<1> DEFINE w == wire[h]
           i == CHOOSE i \in DOMAIN w : w[i].by = t
           a == SubSeq(w, 1, i - 1)
           b == SubSeq(w, i + 1, Len(w))
           g == [w EXCEPT ![i].by = Nobody]
<1>1. \/ GivenUp(h, t, loses) = w
      \/ /\ \E k \in DOMAIN w : w[k].by = t
         /\ GivenUp(h, t, loses) = IF loses THEN a \o b ELSE g
  BY DEF GivenUp
<1>2. CASE \E k \in DOMAIN w : w[k].by = t
  <2>1. i \in DOMAIN w
    BY <1>2
  <2> HIDE DEF i
  <2>2. i \in 1..Len(w) /\ Len(w) \in Nat /\ w[i] \in Command
    BY <2>1
  <2>3. a \o b \in Seq(Command)
    <3>1. a \in Seq(Command) /\ b \in Seq(Command)
      BY <2>2
    <3> HIDE DEF a, b
    <3>2. QED
      BY <3>1, ConcatProperties
  <2>4. g \in Seq(Command)
    <3>1. [w[i] EXCEPT !.by = Nobody] \in Command
      BY <2>2 DEF Command
    <3>2. g = [w EXCEPT ![i] = [w[i] EXCEPT !.by = Nobody]]
      OBVIOUS
    <3> HIDE DEF w, g
    <3>3. w \in [1..Len(w) -> Command]
      BY DEF w
    <3>4. g \in [1..Len(w) -> Command]
      BY <2>2, <3>1, <3>2, <3>3
    <3>5. QED
      BY <2>2, <3>4, SeqDef
  <2>5. QED
    BY <1>1, <2>3, <2>4
<1>3. CASE ~ \E k \in DOMAIN w : w[k].by = t
  BY <1>1, <1>3
<1>4. QED
  BY <1>2, <1>3

(* The role and the progress of a check stay those of hosts. *)
LEMMA RoleTypes ==
    ASSUME TypeOK, [Next]_vars
    PROVE  leaders' \subseteq Host /\ checking' \subseteq Host
<1>1. leaders \subseteq Host /\ checking \subseteq Host
  BY DEF TypeOK
<1>2. ASSUME NEW h \in Host,
             init(h) \/ initDone(h) \/ destroy(h) \/ shutdown(h) \/ crash(h) \/ execute(h)
      PROVE  leaders' \subseteq Host /\ checking' \subseteq Host
  BY <1>1, <1>2 DEF init, initDone, destroy, shutdown, crash, execute, Gone, hostVars
<1>3. ASSUME NEW h \in Host, NEW s \in Check, checkLeader(h, s)
      PROVE  leaders' \subseteq Host /\ checking' \subseteq Host
  BY <1>1, <1>3 DEF checkLeader
<1>4. ASSUME NEW h \in Host, NEW s \in Check,
             checkAreWeStillLeader(h, s) \/ checkCanBecomeLeader(h, s)
      PROVE  leaders' \subseteq Host /\ checking' \subseteq Host
  BY <1>1, <1>4 DEF checkAreWeStillLeader, checkCanBecomeLeader, EndCheck, hostVars
<1>5. ASSUME NEW h \in Host, NEW t \in Thread, NEW loses \in BOOLEAN,
             commandTimeout(h, t, loses)
      PROVE  leaders' \subseteq Host /\ checking' \subseteq Host
  BY <1>1, <1>5 DEF commandTimeout, hostVars
<1>6. ASSUME expire PROVE leaders' \subseteq Host /\ checking' \subseteq Host
  BY <1>1, <1>6 DEF expire, hostVars
<1>7. ASSUME UNCHANGED vars PROVE leaders' \subseteq Host /\ checking' \subseteq Host
  BY <1>1, <1>7 DEF vars
<1>8. QED
  BY <1>2, <1>3, <1>4, <1>5, <1>6, <1>7 DEF Next, hostStep, tick

(* What Redis makes of a command is a key and an answer. *)
LEMMA ExecuteTypes ==
    ASSUME KeyType, NEW h \in Host, execute(h)
    PROVE  /\ key' \in Host \cup {NoHost}
           /\ answer' \in [Host -> [Thread -> Answer]]
           /\ wire' \in [Host -> Seq(Command)]
<1> DEFINE c == Head(wire[h])
           r == Result(c.op, h)
<1>1. wire[h] \in Seq(Command) /\ wire[h] # <<>>
  BY DEF KeyType, execute
<1>2. c \in Command
  BY <1>1
<1>3. /\ key' = KeyAfter(c.op, h)
      /\ answer' = IF c.by = Nobody \/ life[h] = "gone" THEN answer
                   ELSE [answer EXCEPT ![h][c.by] = r]
      /\ wire' = [wire EXCEPT ![h] = Tail(@)]
  BY DEF execute
<1>4. /\ c.op \in Op /\ r \in Answer
      /\ c.by # Nobody => c.by \in Thread
  BY <1>2 DEF Command, Result, Answer, Op
<1>5. key' \in Host \cup {NoHost}
  BY <1>3, <1>4 DEF KeyAfter, KeyType, Op
<1> HIDE DEF c, r
<1>6. wire' \in [Host -> Seq(Command)]
  BY <1>1, <1>3 DEF KeyType
<1>7. answer' \in [Host -> [Thread -> Answer]]
  <2>1. CASE c.by = Nobody \/ life[h] = "gone"
    BY <1>3, <2>1 DEF KeyType
  <2>2. CASE ~(c.by = Nobody \/ life[h] = "gone")
    <3>1. answer' = [answer EXCEPT ![h][c.by] = r] /\ c.by \in Thread
      BY <1>3, <1>4, <2>2
    <3>2. answer \in [Host -> [Thread -> Answer]]
      BY DEF KeyType
    <3>3. QED
      BY <1>4, <3>1, <3>2, AnswerProperties
  <2>3. QED
    BY <2>1, <2>2
<1>8. QED
  BY <1>5, <1>6, <1>7

(* So does what the commands and their answers are. *)
LEMMA WireTypes ==
    ASSUME KeyType, ControlType', [Next]_vars
    PROVE  /\ key' \in Host \cup {NoHost}
           /\ answer' \in [Host -> [Thread -> Answer]]
           /\ wire' \in [Host -> Seq(Command)]
<1> DEFINE Goal == /\ key' \in Host \cup {NoHost}
                   /\ answer' \in [Host -> [Thread -> Answer]]
                   /\ wire' \in [Host -> Seq(Command)]
<1> USE ThreadFacts
<1>1. /\ key \in Host \cup {NoHost}
      /\ answer \in [Host -> [Thread -> Answer]]
      /\ wire \in [Host -> Seq(Command)]
  BY DEF KeyType
<1>2. ASSUME NEW h \in Host, NEW t \in Thread, NEW op \in Op, NEW label \in Pc,
             Send(h, t, op, label), UNCHANGED <<key, leaders>>
      PROVE  Goal
  BY <1>1, <1>2, SendProperties
<1>3. ASSUME UNCHANGED <<key, answer, wire>> PROVE Goal
  BY <1>1, <1>3
<1>4. ASSUME NEW h \in Host, NEW loses \in BOOLEAN, Gone(h, loses) PROVE Goal
  <2>1. /\ wire' = [wire EXCEPT ![h] = IF loses THEN <<>> ELSE @]
        /\ UNCHANGED <<key, answer>>
    BY <1>4 DEF Gone
  <2>2. QED
    BY <1>1, <2>1
<1>5. ASSUME NEW h \in Host, init(h) PROVE Goal
  BY <1>2, <1>5 DEF init, Op, Pc
<1>6. ASSUME NEW h \in Host, initDone(h) PROVE Goal
  BY <1>3, <1>6 DEF initDone
<1>7. ASSUME NEW h \in Host, NEW s \in Check, checkLeader(h, s) PROVE Goal
  BY <1>2, <1>7 DEF checkLeader, Op, Pc
<1>8. ASSUME NEW h \in Host, NEW s \in Check,
             checkAreWeStillLeader(h, s) \/ checkCanBecomeLeader(h, s)
      PROVE  Goal
  <2>1. CASE \E label \in {"reclaim", "claim"} :
                Send(h, s, "SET", label) /\ UNCHANGED <<key, hostVars, faults>>
    BY <1>2, <2>1 DEF hostVars, Op, Pc
  <2>2. CASE \E L : EndCheck(h, s, L)
    BY <1>3, <2>2 DEF EndCheck
  <2>3. QED
    BY <1>8, <2>1, <2>2 DEF checkAreWeStillLeader, checkCanBecomeLeader
<1>9. ASSUME NEW h \in Host, shutdown(h) PROVE Goal
  BY <1>2, <1>4, <1>9 DEF shutdown, Op, Pc
<1>10. ASSUME NEW h \in Host, destroy(h) \/ crash(h) PROVE Goal
  BY <1>4, <1>10 DEF destroy, crash
<1>11. ASSUME NEW h \in Host, execute(h) PROVE Goal
  BY <1>11, ExecuteTypes
<1>12. ASSUME NEW h \in Host, NEW t \in Thread, NEW loses \in BOOLEAN,
              commandTimeout(h, t, loses)
       PROVE  Goal
  <2>1. /\ answer' = [answer EXCEPT ![h][t] = "failed"] /\ "failed" \in Answer
        /\ wire' = [wire EXCEPT ![h] = GivenUp(h, t, loses)] /\ key' = key
    BY <1>12 DEF commandTimeout, Answer
  <2>2. answer' \in [Host -> [Thread -> Answer]]
    <3>1. answer' = [answer EXCEPT ![h][t] = "failed"] /\ "failed" \in Answer
      BY <2>1
    <3>2. QED
      BY <1>1, <3>1, AnswerProperties
  <2>3. GivenUp(h, t, loses) \in Seq(Command)
    BY <1>1, GivenUpType
  <2>4. QED
    BY <1>1, <2>1, <2>2, <2>3
<1>13. ASSUME expire PROVE Goal
  BY <1>1, <1>13 DEF expire
<1>14. ASSUME UNCHANGED vars PROVE Goal
  BY <1>3, <1>14 DEF vars
<1> HIDE DEF Goal
<1>15. Goal
  BY <1>5, <1>6, <1>7, <1>8, <1>9, <1>10, <1>11, <1>12, <1>13, <1>14 DEF Next, hostStep, tick
<1>16. QED
  BY <1>15 DEF Goal

(* Faults are counted up to their bound. *)
LEMMA FaultsCounted ==
    ASSUME faults \in 0..MaxFaults, [Next]_vars PROVE faults' \in 0..MaxFaults
<1>1. faults' = faults \/ (faults < MaxFaults /\ faults' = faults + 1)
  <2>1. ASSUME NEW h \in Host,
               init(h) \/ initDone(h) \/ destroy(h) \/ shutdown(h) \/ crash(h) \/ execute(h)
        PROVE  faults' = faults
    BY <2>1 DEF init, initDone, destroy, shutdown, crash, execute, Gone
  <2>2. ASSUME NEW h \in Host, NEW s \in Check,
               checkLeader(h, s) \/ checkAreWeStillLeader(h, s) \/ checkCanBecomeLeader(h, s)
        PROVE  faults' = faults
    BY <2>2 DEF checkLeader, checkAreWeStillLeader, checkCanBecomeLeader, EndCheck
  <2>3. ASSUME NEW h \in Host, NEW t \in Thread, NEW loses \in BOOLEAN,
               commandTimeout(h, t, loses)
        PROVE  faults < MaxFaults /\ faults' = faults + 1
    BY <2>3 DEF commandTimeout
  <2>4. ASSUME expire PROVE faults' = faults \/ (faults < MaxFaults /\ faults' = faults + 1)
    BY <2>4 DEF expire
  <2>5. ASSUME UNCHANGED vars PROVE faults' = faults
    BY <2>5 DEF vars
  <2>6. QED
    BY <2>1, <2>2, <2>3, <2>4, <2>5 DEF Next, hostStep, tick
<1>2. QED
  BY <1>1, HostAssumption DEF HostAssumption

(* Whatever is lost, late or given up, the key holds a host, the wire holds  *)
(* commands and every answer is one that its caller knows how to read.       *)
THEOREM LeaderTypeCorrect == Spec => []TypeOK
<1>1. Init => Types
  BY HostAssumption
     DEF Init, Types, TypeOK, KeyType, ControlType, Pc, Life, Answer, HostAssumption
<1>2. Inv' /\ Types /\ [Next]_vars => Types'
  <2> SUFFICES ASSUME Inv', Types, [Next]_vars PROVE Types'
    OBVIOUS
  <2>1. ControlType' /\ TypeOK /\ KeyType /\ faults \in 0..MaxFaults
    BY DEF Inv, Types, TypeOK
  <2>2. leaders' \subseteq Host /\ checking' \subseteq Host
    BY <2>1, RoleTypes
  <2>3. /\ key' \in Host \cup {NoHost}
        /\ answer' \in [Host -> [Thread -> Answer]]
        /\ wire' \in [Host -> Seq(Command)]
    BY <2>1, WireTypes
  <2>4. faults' \in 0..MaxFaults
    BY <2>1, FaultsCounted
  <2>5. QED
    BY <2>1, <2>2, <2>3, <2>4 DEF Types, TypeOK, KeyType, ControlType
<1>3. Types => TypeOK
  BY DEF Types
<1>4. QED
  BY <1>1, <1>2, <1>3, InvInit, InvStep, PTL DEF Spec
=============================================================================
