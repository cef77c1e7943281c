--------------------- MODULE WorkflowPublicationProofs ---------------------
(***************************************************************************)
(* For any mains, workflows, versions, terms and failures: a workflow is   *)
(* published by one chain of poll cycles at a time, the published version  *)
(* never goes back, and when every request has completed the requested     *)
(* version is published, with its triggers in the memory of the first      *)
(* leader.                                                                 *)
(*                                                                         *)
(* The argument is about the outbox: of the records of a workflow only the *)
(* last one is pending, and one at most is in progress, namely the one a   *)
(* chain works on unless it was abandoned.                                 *)
(***************************************************************************)
EXTENDS WorkflowPublication, NaturalsInduction, WellFoundedInduction, TLAPS

(* The least of the ids is chosen (ORDER BY id LIMIT 1). *)
LEMMA OldestIsOne ==
    ASSUME NEW S \in SUBSET Nat, S # {}
    PROVE  Oldest(S) \in S
<1>1. PICK x \in S : \A y \in S : ~(<<y, x>> \in OpToRel(<, Nat))
  BY NatLessThanWellFounded, WFMin, Zenon
<1>2. ASSUME NEW y \in S PROVE ~(y < x)
  <2>1. y < x => <<y, x>> \in OpToRel(<, Nat)
    BY Zenon DEF OpToRel
  <2>2. QED
    BY <1>1, <2>1, Zenon
<1>3. \E i \in S : \A j \in S : i <= j
  BY <1>2
<1>4. QED
  BY <1>3 DEF Oldest

-----------------------------------------------------------------------------
(* Types. *)

ChainState ==
    [at : Busy \cup {"off", "armed", "claim"}, id : Nat, old : Version \cup {NoVersion},
     result : Terminal \cup {"none"}]

Trigger == UNION {TriggersOf[v] : v \in Version}

OnePerNode(ts) == \A s, t \in ts : s.node = t.node => s = t

DbType ==
    /\ activeVersion \in [Workflow -> Version \cup {NoVersion}]
    /\ published \in [Workflow -> Version \cup {NoVersion}]
    /\ outbox \in Seq(Record) /\ publishes \in 0..MaxPublishes
    /\ unpublishing \in [Workflow -> {"never", "row", "published", "done"}]
    /\ removals \subseteq Workflow

(* A main that has lost its leadership leaves a term for the next one. *)
LeaderType ==
    /\ leader \in Main \cup {NoMain} /\ terms \in 1..MaxTerms /\ up \subseteq Main
    /\ leader = NoMain => terms < MaxTerms
    /\ polling \in [Main -> BOOLEAN] /\ errors \in 0..MaxErrors

CycleType == cycle \in [Main -> [Cycle -> ChainState]]

LoadType ==
    /\ loading \in [Main -> [Workflow ->
           [at : {"no", "find", "add"}, version : Version \cup {NoVersion}]]]
    /\ \A m \in Main, w \in Workflow : loading[m][w].at = "add" => loading[m][w].version \in Version

TriggerType ==
    /\ triggers \in [Main -> [Workflow -> SUBSET Trigger]]
    /\ \A m \in Main, w \in Workflow : OnePerNode(triggers[m][w])

UnclosedType == unclosed \in [Main -> [Workflow -> SUBSET Trigger]]

Types == DbType /\ LeaderType /\ CycleType /\ LoadType /\ TriggerType /\ UnclosedType

LEMMA ConstantFacts ==
    /\ NoMain \notin Main /\ FirstLeader \in Main
    /\ MaxPublishes \in Nat /\ MaxTerms \in Nat \ {0} /\ MaxErrors \in Nat
    /\ Version \subseteq Nat /\ NoVersion \notin Version /\ NoVersion = 0 /\ 1 \in Cycle
    /\ \A v \in Version : TriggersOf[v] \subseteq Trigger /\ OnePerNode(TriggersOf[v])
BY PublicationAssumption DEF PublicationAssumption, Version, NoVersion, Cycle, Trigger, OnePerNode

LEMMA IdleType ==
    ASSUME NEW at \in Busy \cup {"off", "armed", "claim"}
    PROVE  Idle(at) \in ChainState /\ Idle(at).at = at /\ Idle(at).id = 0
BY ConstantFacts DEF Idle, ChainState

LEMMA TypesInit == Init => Types
<1> SUFFICES ASSUME Init PROVE Types
  OBVIOUS
<1> USE ConstantFacts
<1>1. DbType
  BY DEF Init, DbType
<1>2. LeaderType
  BY DEF Init, LeaderType
<1>3. CycleType
  BY IdleType DEF Init, CycleType, Busy
<1>4. LoadType
  BY DEF Init, LoadType, NotLoading, Load
<1>5. TriggerType
  BY DEF Init, TriggerType, Nothing, OnePerNode
<1>6. UnclosedType
  BY DEF Init, UnclosedType, Nothing
<1>7. QED
  BY <1>1, <1>2, <1>3, <1>4, <1>5, <1>6 DEF Types

-----------------------------------------------------------------------------
(* What a step does to the chains. *)

(* Chain k of m becomes c; of the others, some that were armed are cleared.  *)
Becomes(m, k, c) ==
    /\ CycleType' /\ cycle'[m][k] = c
    /\ \A n \in Main, j \in Cycle : n # m \/ j # k => cycle'[n][j] \in {cycle[n][j], Idle("off")}

AllQuiet ==
    /\ CycleType'
    /\ \A n \in Main, j \in Cycle : cycle'[n][j] \in {cycle[n][j], Idle("off")}

LEMMA ScheduledChains ==
    ASSUME CycleType, NEW m \in Main, NEW k \in Cycle,
           cycle' = [cycle EXCEPT ![m] = Scheduled(m, k)]
    PROVE  Becomes(m, k, Idle("armed"))
<1>1. Idle("armed") \in ChainState /\ Idle("off") \in ChainState
  BY IdleType
<1>2. /\ Scheduled(m, k) \in [Cycle -> ChainState]
      /\ Scheduled(m, k)[k] = Idle("armed")
      /\ \A j \in Cycle : j # k => Scheduled(m, k)[j] \in {cycle[m][j], Idle("off")}
  BY <1>1 DEF Scheduled, CycleType
<1>3. QED
  BY <1>2 DEF Becomes, CycleType

LEMMA OneChain ==
    ASSUME CycleType, NEW m \in Main, NEW k \in Cycle, NEW c \in ChainState,
           cycle' = [cycle EXCEPT ![m][k] = c]
    PROVE  Becomes(m, k, c)
BY DEF Becomes, CycleType

(* A chain goes on with the record it has. *)
LEMMA GoingChain ==
    ASSUME CycleType, NEW m \in Main, NEW k \in Cycle,
           NEW at \in Busy, Goes(m, k, at)
    PROVE  Becomes(m, k, [cycle[m][k] EXCEPT !.at = at])
<1> DEFINE c == [cycle[m][k] EXCEPT !.at = at]
<1>1. c \in ChainState
  <2>1. cycle[m][k] \in ChainState
    BY DEF CycleType
  <2>2. QED
    BY <2>1 DEF ChainState
<1>2. cycle' = [cycle EXCEPT ![m][k] = c]
  BY DEF Goes
<1>3. Becomes(m, k, c)
  <2> HIDE DEF c
  <2>1. QED
    BY <1>1, <1>2, OneChain
<1>4. QED
  BY <1>3

LEMMA ReturningChain ==
    ASSUME CycleType, NEW m \in Main, NEW k \in Cycle,
           NEW result \in Terminal, Returns(m, k, result)
    PROVE  Becomes(m, k, [cycle[m][k] EXCEPT !.at = "report", !.result = result])
<1> DEFINE c == [cycle[m][k] EXCEPT !.at = "report", !.result = result]
<1>1. c \in ChainState
  <2>1. cycle[m][k] \in ChainState
    BY DEF CycleType
  <2>2. QED
    BY <2>1 DEF ChainState, Busy
<1>2. cycle' = [cycle EXCEPT ![m][k] = c]
  BY DEF Returns, CycleType
<1>3. Becomes(m, k, c)
  <2> HIDE DEF c
  <2>1. QED
    BY <1>1, <1>2, OneChain
<1>4. QED
  BY <1>3

-----------------------------------------------------------------------------
(* The records of the outbox. *)

Same(i, j) == outbox[i].workflow = outbox[j].workflow

(* Later records of a workflow have later versions; a record that is not     *)
(* the last one is not pending, and while one is in progress the later ones  *)
(* are pending.                                                              *)
RecordsInv ==
    /\ \A i \in DOMAIN outbox : outbox[i].version <= publishes
    /\ \A i, j \in DOMAIN outbox : i < j /\ Same(i, j) =>
           /\ outbox[i].version < outbox[j].version
           /\ outbox[i].status # "pending"
           /\ outbox[i].status = "in_progress" => outbox[j].status = "pending"

(* A workflow with records has a last one. *)
LastExists ==
    \A w \in Workflow :
        (\E i \in DOMAIN outbox : outbox[i].workflow = w) =>
            \E i \in DOMAIN outbox :
                outbox[i].workflow = w /\ \A j \in DOMAIN outbox : outbox[j].workflow = w => j <= i

(* A chain that works has a record in progress of its own. *)
ChainsInv ==
    /\ \A m \in Main, k \in Cycle : cycle[m][k].at \in Busy =>
           /\ cycle[m][k].id \in DOMAIN outbox
           /\ outbox[cycle[m][k].id].status = "in_progress"
           /\ cycle[m][k].at = "report" => cycle[m][k].result \in Terminal
    /\ \A m, n \in Main : \A j, k \in Cycle :
           /\ cycle[m][j].at \in Busy /\ cycle[n][k].at \in Busy
           /\ cycle[m][j].id = cycle[n][k].id
           => m = n /\ j = k

OutboxInv == RecordsInv /\ LastExists /\ ChainsInv

LEMMA OutboxFacts ==
    ASSUME DbType
    PROVE  /\ outbox \in Seq(Record) /\ DOMAIN outbox = 1..Len(outbox) /\ Len(outbox) \in Nat
           /\ \A i \in DOMAIN outbox :
                  /\ outbox[i] \in Record /\ i \in Nat
                  /\ outbox[i].workflow \in Workflow
                  /\ outbox[i].version \in Version /\ outbox[i].version \in Nat
<1>1. outbox \in Seq(Record) /\ DOMAIN outbox = 1..Len(outbox) /\ Len(outbox) \in Nat
  BY DEF DbType
<1>2. \A i \in DOMAIN outbox : outbox[i] \in Record /\ i \in Nat
  BY <1>1
<1>3. \A r \in Record : r.workflow \in Workflow /\ r.version \in Version
  BY DEF Record
<1>4. QED
  BY <1>1, <1>2, <1>3, ConstantFacts

LEMMA VersionUpdate ==
    ASSUME NEW r \in Record, NEW v \in Version, NEW u, u = [r EXCEPT !.version = v]
    PROVE  u \in Record /\ u.workflow = r.workflow /\ u.version = v /\ u.status = r.status
BY DEF Record

LEMMA StatusUpdate ==
    ASSUME NEW r \in Record, NEW status \in Open \cup Terminal, NEW u, u = [r EXCEPT !.status = status]
    PROVE  u \in Record /\ u.workflow = r.workflow /\ u.version = r.version /\ u.status = status
BY DEF Record

(* A request: a record is appended, or the pending one takes the version.    *)
Added(w, v) ==
    /\ \A i \in DOMAIN outbox : outbox[i].workflow = w => outbox[i].status # "pending"
    /\ outbox' = Append(outbox, [workflow |-> w, version |-> v, status |-> "pending"])

Updated(w, v, p) ==
    /\ p \in DOMAIN outbox /\ outbox[p].workflow = w /\ outbox[p].status = "pending"
    /\ outbox' \in Seq(Record) /\ DOMAIN outbox' = DOMAIN outbox
    /\ outbox'[p] = [outbox[p] EXCEPT !.version = v]
    /\ \A i \in DOMAIN outbox : i # p => outbox'[i] = outbox[i]

LEMMA RequestKinds ==
    ASSUME DbType, RecordsInv, NEW w \in Workflow, NEW v \in Version, enqueue(w, v)
    PROVE  Added(w, v) \/ \E p \in DOMAIN outbox : Updated(w, v, p)
<1> DEFINE pending == {i \in DOMAIN outbox : outbox[i].workflow = w /\ outbox[i].status = "pending"}
<1>1. outbox \in Seq(Record) /\ DOMAIN outbox = 1..Len(outbox) /\ Len(outbox) \in Nat
  BY DEF DbType
<1>2. CASE pending = {}
  BY <1>2 DEF enqueue, Added
<1>3. ASSUME NEW p \in pending PROVE Updated(w, v, p)
  <2>1. \A i \in pending : i = p
    BY <1>1, <1>3 DEF RecordsInv, Same
  <2>2. outbox' = [i \in DOMAIN outbox |->
                      IF i \in pending THEN [outbox[i] EXCEPT !.version = v] ELSE outbox[i]]
    BY <1>3 DEF enqueue
  <2>3. \A i \in DOMAIN outbox : outbox[i] \in Record /\ [outbox[i] EXCEPT !.version = v] \in Record
    BY OutboxFacts, VersionUpdate
  <2>4. outbox' \in [1..Len(outbox) -> Record]
    BY <1>1, <2>2, <2>3
  <2>5. outbox' \in Seq(Record)
    BY <1>1, <2>4
  <2>6. QED
    BY <1>3, <2>1, <2>2, <2>5 DEF Updated
<1>4. QED
  BY <1>2, <1>3

(* The status of one record changes. *)
Restatus(i, status) ==
    /\ i \in DOMAIN outbox /\ outbox' \in Seq(Record) /\ DOMAIN outbox' = DOMAIN outbox
    /\ outbox'[i] = [outbox[i] EXCEPT !.status = status]
    /\ \A j \in DOMAIN outbox : j # i => outbox'[j] = outbox[j]

LEMMA RestatusStep ==
    ASSUME DbType, NEW i \in DOMAIN outbox, NEW status \in Open \cup Terminal,
           outbox' = [outbox EXCEPT ![i].status = status]
    PROVE  Restatus(i, status)
<1>1. outbox \in Seq(Record) /\ DOMAIN outbox = 1..Len(outbox) /\ Len(outbox) \in Nat
  BY DEF DbType
<1>2. outbox[i] \in Record /\ [outbox[i] EXCEPT !.status = status] \in Record
  BY OutboxFacts, StatusUpdate
<1>3. outbox' = [outbox EXCEPT ![i] = [outbox[i] EXCEPT !.status = status]]
  OBVIOUS
<1>4. outbox' \in Seq(Record) /\ DOMAIN outbox' = DOMAIN outbox
  BY <1>1, <1>2, <1>3
<1>5. QED
  BY <1>1, <1>3, <1>4 DEF Restatus

LEMMA RecordsAdded ==
    ASSUME DbType, RecordsInv, LastExists, NEW w \in Workflow, publishes < MaxPublishes,
           publishes' = publishes + 1, Added(w, publishes')
    PROVE  /\ outbox' \in Seq(Record) /\ DOMAIN outbox \subseteq DOMAIN outbox'
           /\ \A i \in DOMAIN outbox : outbox'[i] = outbox[i]
           /\ Len(outbox) + 1 \in DOMAIN outbox'
           /\ outbox'[Len(outbox) + 1] =
                  [workflow |-> w, version |-> publishes', status |-> "pending"]
           /\ \A j \in DOMAIN outbox' : j \in DOMAIN outbox \/ j = Len(outbox) + 1
           /\ RecordsInv' /\ LastExists'
<1> DEFINE r == [workflow |-> w, version |-> publishes', status |-> "pending"]
           n == Len(outbox) + 1
<1>1. outbox \in Seq(Record) /\ DOMAIN outbox = 1..Len(outbox) /\ Len(outbox) \in Nat
  BY DEF DbType
<1>2. publishes' \in Version /\ publishes \in Nat /\ r \in Record
  BY ConstantFacts DEF DbType, Version, Record, Open
<1>3. outbox' = Append(outbox, r)
  BY DEF Added
<1>4. /\ outbox' \in Seq(Record) /\ Len(outbox') = n /\ DOMAIN outbox' = 1..n
      /\ \A i \in DOMAIN outbox : outbox'[i] = outbox[i]
      /\ outbox'[n] = r
  <2> HIDE DEF r
  <2>1. QED
    BY <1>1, <1>2, <1>3
<1>5. \A i \in DOMAIN outbox : outbox[i].version \in Nat
  BY OutboxFacts
<1>6. RecordsInv'
  BY <1>1, <1>2, <1>4, <1>5 DEF RecordsInv, Same, Added
<1>7. LastExists'
  <2>1. ASSUME NEW x \in Workflow, NEW i \in DOMAIN outbox', outbox'[i].workflow = x
        PROVE  \E l \in DOMAIN outbox' :
                   outbox'[l].workflow = x /\ \A j \in DOMAIN outbox' : outbox'[j].workflow = x => j <= l
    <3>1. CASE x = w
      <4>1. n \in DOMAIN outbox' /\ outbox'[n].workflow = x /\ \A j \in DOMAIN outbox' : j <= n
        BY <1>1, <1>4, <3>1
      <4>2. QED
        BY <4>1
    <3>2. CASE x # w
      <4>1. i \in DOMAIN outbox /\ outbox[i].workflow = x
        BY <1>1, <1>4, <2>1, <3>2
      <4>2. PICK l \in DOMAIN outbox :
                outbox[l].workflow = x /\ \A j \in DOMAIN outbox : outbox[j].workflow = x => j <= l
        BY <4>1 DEF LastExists
      <4>3. \A j \in DOMAIN outbox' : outbox'[j].workflow = x => j \in DOMAIN outbox /\ outbox[j].workflow = x
        BY <1>1, <1>4, <3>2
      <4>4. l \in DOMAIN outbox' /\ outbox'[l].workflow = x
        BY <1>1, <1>4, <4>2
      <4>5. QED
        BY <4>2, <4>3, <4>4
    <3>3. QED
      BY <3>1, <3>2
  <2>2. QED
    BY <2>1 DEF LastExists
<1>8. QED
  BY <1>1, <1>4, <1>6, <1>7

LEMMA RecordsUpdated ==
    ASSUME DbType, RecordsInv, LastExists, NEW w \in Workflow, publishes < MaxPublishes,
           publishes' = publishes + 1, NEW p \in DOMAIN outbox, Updated(w, publishes', p)
    PROVE  RecordsInv' /\ LastExists'
<1>1. outbox \in Seq(Record) /\ DOMAIN outbox = 1..Len(outbox) /\ Len(outbox) \in Nat
  BY DEF DbType
<1>2. publishes' \in Nat /\ publishes \in Nat /\ publishes' \in Version
  BY ConstantFacts DEF DbType, Version
<1>3. \A i \in DOMAIN outbox : outbox[i] \in Record /\ outbox[i].version \in Nat
  BY OutboxFacts
<1>4. /\ DOMAIN outbox' = DOMAIN outbox
      /\ \A i \in DOMAIN outbox :
             /\ outbox'[i].workflow = outbox[i].workflow
             /\ outbox'[i].status = outbox[i].status
             /\ i # p => outbox'[i].version = outbox[i].version
      /\ outbox'[p].version = publishes'
  <2>1. outbox[p] \in Record /\ outbox'[p] = [outbox[p] EXCEPT !.version = publishes']
    BY <1>3 DEF Updated
  <2>2. /\ outbox'[p].workflow = outbox[p].workflow /\ outbox'[p].version = publishes'
        /\ outbox'[p].status = outbox[p].status
    BY <1>2, <2>1, VersionUpdate
  <2>3. DOMAIN outbox' = DOMAIN outbox /\ \A i \in DOMAIN outbox : i # p => outbox'[i] = outbox[i]
    BY DEF Updated
  <2>4. QED
    BY <2>2, <2>3
<1>5. RecordsInv'
  <2>1. outbox[p].status = "pending"
    BY DEF Updated
  <2>2. \A i \in DOMAIN outbox : Same(p, i) => i <= p
    BY <1>1, <2>1 DEF RecordsInv
  <2>3. \A i \in DOMAIN outbox : outbox'[i].version <= publishes'
    BY <1>2, <1>3, <1>4 DEF RecordsInv
  <2>4. ASSUME NEW i \in DOMAIN outbox, NEW j \in DOMAIN outbox, i < j, Same(i, j)
        PROVE  /\ outbox'[i].version < outbox'[j].version
               /\ outbox'[i].status # "pending"
               /\ outbox'[i].status = "in_progress" => outbox'[j].status = "pending"
    <3>1. i # p
      BY <1>1, <2>2, <2>4
    <3>2. /\ outbox[i].version < outbox[j].version /\ outbox[i].version <= publishes
          /\ outbox[i].status # "pending"
          /\ outbox[i].status = "in_progress" => outbox[j].status = "pending"
      BY <2>4 DEF RecordsInv
    <3>3. outbox'[i].version < outbox'[j].version
      BY <1>2, <1>3, <1>4, <3>1, <3>2
    <3>4. QED
      BY <1>4, <3>2, <3>3
  <2>5. \A i, j \in DOMAIN outbox : Same(i, j)' => Same(i, j)
    BY <1>4 DEF Same
  <2>6. QED
    BY <1>4, <2>3, <2>4, <2>5 DEF RecordsInv
<1>6. LastExists'
  BY <1>4 DEF LastExists
<1>7. QED
  BY <1>5, <1>6

LEMMA RecordsRestatus ==
    ASSUME DbType, RecordsInv, LastExists, publishes' = publishes,
           NEW i \in DOMAIN outbox, NEW status \in Open \cup Terminal, Restatus(i, status),
           \/ i \in Claimable /\ status = "in_progress"
           \/ outbox[i].status = "in_progress" /\ status \in Terminal
    PROVE  RecordsInv' /\ LastExists'
<1>1. outbox \in Seq(Record) /\ DOMAIN outbox = 1..Len(outbox) /\ Len(outbox) \in Nat
  BY DEF DbType
<1>2. \A j \in DOMAIN outbox : outbox[j] \in Record
  BY OutboxFacts
<1>3. /\ DOMAIN outbox' = DOMAIN outbox
      /\ \A j \in DOMAIN outbox :
             /\ outbox'[j].workflow = outbox[j].workflow
             /\ outbox'[j].version = outbox[j].version
             /\ j # i => outbox'[j].status = outbox[j].status
      /\ outbox'[i].status = status
  <2>1. outbox[i] \in Record /\ outbox'[i] = [outbox[i] EXCEPT !.status = status]
    BY <1>2 DEF Restatus
  <2>2. /\ outbox'[i].workflow = outbox[i].workflow /\ outbox'[i].version = outbox[i].version
        /\ outbox'[i].status = status
    BY <2>1, StatusUpdate
  <2>3. DOMAIN outbox' = DOMAIN outbox /\ \A j \in DOMAIN outbox : j # i => outbox'[j] = outbox[j]
    BY DEF Restatus
  <2>4. QED
    BY <2>2, <2>3
<1>4. RecordsInv'
  <2>1. CASE i \in Claimable /\ status = "in_progress"
    BY <1>1, <1>3, <2>1 DEF RecordsInv, Same, Claimable, Pending
  <2>2. CASE outbox[i].status = "in_progress" /\ status \in Terminal
    BY <1>1, <1>3, <2>2 DEF RecordsInv, Same, Terminal
  <2>3. QED
    BY <2>1, <2>2
<1>5. LastExists'
  BY <1>3 DEF LastExists
<1>6. QED
  BY <1>4, <1>5

-----------------------------------------------------------------------------
(* What a step does to the outbox and the chains. *)

Requests(w) ==
    /\ publishViaOutbox(w) /\ publishes < MaxPublishes /\ publishes' = publishes + 1
    /\ enqueue(w, publishes') /\ cycle' = cycle

Rests == UNCHANGED <<outbox, publishes>> /\ AllQuiet

Ceases(m, k) ==
    /\ UNCHANGED <<outbox, publishes>>
    /\ \E at \in {"off", "armed", "claim"} : Becomes(m, k, Idle(at))

Claims(m, k, i) ==
    /\ claimNextPendingRecord(m, k) /\ i \in Claimable /\ cycle[m][k].at \notin Busy
    /\ Restatus(i, "in_progress") /\ publishes' = publishes
    /\ Becomes(m, k, [Idle("resolve") EXCEPT !.id = i])

Acts(m, k) ==
    \/ resolveVersions(m, k) \/ deactivate(m, k) \/ advancePublishedVersion(m, k)
    \/ activate(m, k) \/ applyFails(m, k)

Works(m, k) ==
    /\ Acts(m, k) /\ UNCHANGED <<outbox, publishes>>
    /\ cycle[m][k].at \in Busy
    /\ \E c \in ChainState :
           /\ Becomes(m, k, c) /\ c.id = cycle[m][k].id /\ c.at \in Busy
           /\ c.at = "report" => c.result \in Terminal

Reports(m, k) ==
    /\ report(m, k) /\ cycle[m][k].at = "report" /\ Becomes(m, k, Idle("claim"))
    /\ Restatus(cycle[m][k].id, cycle[m][k].result) /\ publishes' = publishes

LEMMA ClaimKind ==
    ASSUME Types, OutboxInv, NEW m \in Main, NEW k \in Cycle, claimNextPendingRecord(m, k)
    PROVE  Ceases(m, k) \/ \E i \in DOMAIN outbox : Claims(m, k, i)
<1>1. DbType /\ CycleType /\ publishes' = publishes /\ cycle[m][k].at \notin Busy
  BY DEF Types, claimNextPendingRecord, dbVars, Polls, Busy
<1>2. CASE outbox' = outbox /\ cycle' = [cycle EXCEPT ![m] = Scheduled(m, k)]
  BY <1>1, <1>2, ScheduledChains DEF Ceases
<1>3. CASE Claimable # {} /\ Claim(m, k, Oldest(Claimable))
  <2> DEFINE i == Oldest(Claimable)
             c == [Idle("resolve") EXCEPT !.id = i]
  <2>1. Claimable \subseteq DOMAIN outbox /\ Claimable \subseteq Nat
    BY <1>1, OutboxFacts DEF Claimable, Pending
  <2>2. i \in Claimable /\ i \in DOMAIN outbox /\ i \in Nat
    BY <1>3, <2>1, OldestIsOne
  <2> HIDE DEF i
  <2>3. Restatus(i, "in_progress")
    BY <1>1, <1>3, <2>2, RestatusStep DEF i, Claim, Open
  <2>4. c \in ChainState
    BY <2>2, IdleType DEF Idle, ChainState, Busy
  <2>5. Becomes(m, k, c)
    BY <1>1, <1>3, <2>4, OneChain DEF i, Claim
  <2>6. QED
    BY <1>1, <2>2, <2>3, <2>5 DEF Claims
<1>4. QED
  BY <1>2, <1>3 DEF claimNextPendingRecord

LEMMA WorkKinds ==
    ASSUME Types, OutboxInv, NEW m \in Main, NEW k \in Cycle, Acts(m, k)
    PROVE  Works(m, k)
<1>1. CycleType /\ cycle[m][k] \in ChainState
  BY DEF Types, CycleType
<1>2. UNCHANGED <<outbox, publishes>>
  BY DEF Acts, resolveVersions, findWorkflow, findPublishedVersion,
         deactivate, advancePublishedVersion, activate, applyFails, dbVars
<1>3. cycle[m][k].at \in Busy
  BY DEF Acts, resolveVersions, findWorkflow, findPublishedVersion,
         deactivate, advancePublishedVersion, activate, applyFails, Busy
<1>4. ASSUME NEW at \in Busy \ {"report"}, Goes(m, k, at) PROVE Works(m, k)
  <2> DEFINE c == [cycle[m][k] EXCEPT !.at = at]
  <2>1. c \in ChainState /\ c.id = cycle[m][k].id /\ c.at \in Busy \ {"report"}
    BY <1>1, <1>4 DEF ChainState
  <2>2. Becomes(m, k, c)
    BY <1>1, <1>4, GoingChain
  <2> HIDE DEF c
  <2>3. QED
    BY <1>2, <1>3, <2>1, <2>2 DEF Works
<1>5. ASSUME NEW result \in Terminal, Returns(m, k, result) PROVE Works(m, k)
  <2> DEFINE c == [cycle[m][k] EXCEPT !.at = "report", !.result = result]
  <2>1. c \in ChainState /\ c.id = cycle[m][k].id /\ c.at \in Busy /\ c.result \in Terminal
    BY <1>1, <1>5 DEF ChainState, Busy
  <2>2. Becomes(m, k, c)
    BY <1>1, <1>5, ReturningChain
  <2> HIDE DEF c
  <2>3. QED
    BY <1>2, <1>3, <2>1, <2>2 DEF Works
<1>6. CASE findWorkflow(m, k)
  <2>1. Returns(m, k, "completed") \/ \E at \in Busy \ {"report"} : Goes(m, k, at)
    BY <1>6 DEF findWorkflow, Diffed, Busy
  <2>2. QED
    BY <1>4, <1>5, <2>1 DEF Terminal
<1>7. CASE findPublishedVersion(m, k)
  <2> DEFINE old == published[record(m, k).workflow]
  <2>1. old \in Version \cup {NoVersion}
    <3>1. record(m, k).workflow \in Workflow
      BY <1>3, OutboxFacts DEF record, OutboxInv, ChainsInv, Types
    <3>2. QED
      BY <3>1 DEF Types, DbType
  <2>2. PICK at \in Busy \ {"report"} : cycle' = [cycle EXCEPT ![m][k].old = old, ![m][k].at = at]
    <3>1. cycle' = [cycle EXCEPT ![m][k].old = old,
                                 ![m][k].at = IF cycle[m][k].at = "resolve" THEN "needsWorkflow"
                                              ELSE Diffed(old, record(m, k).version)]
      BY <1>1, <1>7 DEF findPublishedVersion, CycleType, ChainState
    <3>2. QED
      BY <3>1 DEF Diffed, Busy
  <2> HIDE DEF old
  <2> DEFINE c == [cycle[m][k] EXCEPT !.old = old, !.at = at]
  <2>3. c \in ChainState /\ c.id = cycle[m][k].id /\ c.at \in Busy \ {"report"}
    BY <1>1, <2>1 DEF ChainState
  <2>4. cycle' = [cycle EXCEPT ![m][k] = c]
    BY <1>1, <2>2 DEF CycleType
  <2> HIDE DEF c
  <2>5. Becomes(m, k, c)
    BY <1>1, <2>3, <2>4, OneChain
  <2>6. QED
    BY <1>2, <1>3, <2>3, <2>5 DEF Works
<1>8. QED
  BY <1>4, <1>5, <1>6, <1>7
     DEF Acts, resolveVersions, deactivate, advancePublishedVersion, activate, applyFails, Busy, Terminal

LEMMA ChainKinds ==
    ASSUME Types, OutboxInv, [Next]_vars
    PROVE  \/ \E w \in Workflow : Requests(w)
           \/ Rests
           \/ \E m \in Main, k \in Cycle :
                  \/ Ceases(m, k) \/ Works(m, k) \/ Reports(m, k)
                  \/ \E i \in DOMAIN outbox : Claims(m, k, i)
<1> USE DEF dbVars
<1>1. CycleType /\ DbType
  BY DEF Types
<1>2. ASSUME cycle' = cycle, UNCHANGED <<outbox, publishes>> PROVE Rests
  BY <1>1, <1>2 DEF Rests, AllQuiet, CycleType
<1>3. CASE UNCHANGED vars
  BY <1>2, <1>3 DEF vars
<1>4. ASSUME NEW w \in Workflow, publishViaOutbox(w) PROVE Requests(w)
  BY <1>4 DEF publishViaOutbox, Requests
<1>5. ASSUME NEW w \in Workflow, deactivateWorkflow(w) \/ userStep(w) PROVE Rests
  BY <1>2, <1>5
     DEF deactivateWorkflow, userStep, clearActiveVersion, removePublishedVersion,
         handleRemoveNonWebhookTriggers
<1>6. ASSUME NEW m \in Main, NEW w \in Workflow, findById(m, w) \/ addNonWebhookTriggers(m, w) PROVE Rests
  BY <1>2, <1>6 DEF findById, addNonWebhookTriggers
<1>7. ASSUME NEW m \in Main, NEW k \in Cycle, pollFails(m, k) PROVE Ceases(m, k)
  BY <1>1, <1>7, ScheduledChains DEF pollFails, Ceases
<1>8. ASSUME NEW m \in Main, NEW k \in Cycle, stopCycle(m, k) \/ reportFails(m, k) PROVE Ceases(m, k)
  <2>1. PICK at \in {"off", "claim"} : cycle' = [cycle EXCEPT ![m][k] = Idle(at)]
    BY <1>8 DEF stopCycle, reportFails
  <2>2. Idle(at) \in ChainState
    BY IdleType
  <2>3. Becomes(m, k, Idle(at))
    BY <1>1, <2>1, <2>2, OneChain
  <2>4. QED
    BY <1>8, <2>3 DEF stopCycle, reportFails, Ceases
<1>9. ASSUME NEW m \in Main, NEW k \in Cycle, report(m, k) PROVE Reports(m, k)
  <2>1. /\ cycle[m][k].id \in DOMAIN outbox /\ cycle[m][k].result \in Open \cup Terminal
        /\ cycle[m][k].at = "report"
    BY <1>9 DEF report, OutboxInv, ChainsInv, Busy
  <2>2. Restatus(cycle[m][k].id, cycle[m][k].result)
    BY <1>1, <1>9, <2>1, RestatusStep DEF report
  <2>3. Becomes(m, k, Idle("claim"))
    BY <1>1, <1>9, IdleType, OneChain DEF report
  <2>4. QED
    BY <1>9, <2>1, <2>2, <2>3 DEF report, Reports
<1>10. ASSUME NEW m \in Main, takeover(m) PROVE \E k \in Cycle : Ceases(m, k)
  BY <1>1, <1>10, ScheduledChains DEF takeover, Ceases
<1>11. ASSUME NEW m \in Main, stopPolling(m) \/ mainCrash(m) PROVE Rests
  <2>1. /\ Idle("off") \in ChainState
        /\ \E chains \in [Cycle -> ChainState] :
               /\ cycle' = [cycle EXCEPT ![m] = chains]
               /\ \A k \in Cycle : chains[k] \in {cycle[m][k], Idle("off")}
    <3>1. Idle("off") \in ChainState /\ cycle[m] \in [Cycle -> ChainState]
      BY <1>1, IdleType DEF CycleType
    <3>2. CASE stopPolling(m)
      <4>1. Unarmed(cycle[m]) \in [Cycle -> ChainState]
        BY <3>1 DEF Unarmed
      <4>2. \A k \in Cycle : Unarmed(cycle[m])[k] \in {cycle[m][k], Idle("off")}
        BY DEF Unarmed
      <4>3. QED
        BY <3>1, <3>2, <4>1, <4>2 DEF stopPolling
    <3>3. CASE mainCrash(m)
      <4>1. [k \in Cycle |-> Idle("off")] \in [Cycle -> ChainState]
        BY <3>1
      <4>2. QED
        BY <3>1, <3>3, <4>1 DEF mainCrash
    <3>4. QED
      BY <1>11, <3>2, <3>3
  <2>2. AllQuiet
    BY <1>1, <2>1 DEF AllQuiet, CycleType
  <2>3. QED
    BY <1>11, <2>2 DEF stopPolling, mainCrash, Rests
<1>12. QED
  BY <1>3, <1>4, <1>5, <1>6, <1>7, <1>8, <1>9, <1>10, <1>11, ClaimKind, WorkKinds
     DEF Next, pollStep, Acts

LEMMA OutboxStep ==
    ASSUME Types, OutboxInv, [Next]_vars
    PROVE  OutboxInv' /\ outbox' \in Seq(Record) /\ CycleType'
<1>1. DbType /\ CycleType /\ RecordsInv /\ LastExists /\ ChainsInv /\ outbox \in Seq(Record)
  BY DEF Types, OutboxInv, DbType
<1>2. Idle("off").at \notin Busy
  BY IdleType DEF Busy
<1>3. CASE Rests
  <2>1. RecordsInv' /\ LastExists'
    BY <1>1, <1>3 DEF Rests, RecordsInv, Same, LastExists
  <2>2. ChainsInv'
    BY <1>1, <1>2, <1>3 DEF Rests, AllQuiet, ChainsInv
  <2>3. QED
    BY <1>1, <1>3, <2>1, <2>2 DEF OutboxInv, Rests, AllQuiet
<1>4. ASSUME NEW w \in Workflow, Requests(w)
      PROVE  OutboxInv' /\ outbox' \in Seq(Record) /\ CycleType'
  <2>1. publishes' \in Version
    BY <1>1, <1>4, ConstantFacts DEF Requests, DbType, Version
  <2>2. CycleType'
    BY <1>1, <1>4 DEF Requests, CycleType
  <2>3. CASE Added(w, publishes')
    <3>1. /\ outbox' \in Seq(Record) /\ DOMAIN outbox \subseteq DOMAIN outbox'
          /\ \A i \in DOMAIN outbox : outbox'[i] = outbox[i]
          /\ RecordsInv' /\ LastExists'
      BY <1>1, <1>4, <2>3, RecordsAdded DEF Requests
    <3>2. ChainsInv'
      BY <1>1, <1>4, <3>1 DEF Requests, ChainsInv
    <3>3. QED
      BY <2>2, <3>1, <3>2 DEF OutboxInv
  <2>4. ASSUME NEW p \in DOMAIN outbox, Updated(w, publishes', p)
        PROVE  OutboxInv' /\ outbox' \in Seq(Record) /\ CycleType'
    <3>1. RecordsInv' /\ LastExists'
      BY <1>1, <1>4, <2>4, RecordsUpdated DEF Requests
    <3>2. /\ DOMAIN outbox' = DOMAIN outbox /\ outbox' \in Seq(Record)
          /\ \A i \in DOMAIN outbox : outbox[i].status = "in_progress" => outbox'[i] = outbox[i]
      BY <2>4 DEF Updated
    <3>3. ChainsInv'
      BY <1>1, <1>4, <3>2 DEF Requests, ChainsInv
    <3>4. QED
      BY <2>2, <3>1, <3>2, <3>3 DEF OutboxInv
  <2>5. QED
    BY <1>1, <1>4, <2>1, <2>3, <2>4, RequestKinds DEF Requests
<1>5. ASSUME NEW m \in Main, NEW k \in Cycle, Ceases(m, k)
      PROVE  OutboxInv' /\ outbox' \in Seq(Record) /\ CycleType'
  <2>1. RecordsInv' /\ LastExists'
    BY <1>1, <1>5 DEF Ceases, RecordsInv, Same, LastExists
  <2>2. CycleType' /\ cycle'[m][k].at \notin Busy
    BY <1>5, IdleType DEF Ceases, Becomes, Busy
  <2>3. \A n \in Main, j \in Cycle : cycle'[n][j].at \in Busy => cycle'[n][j] = cycle[n][j]
    BY <1>2, <1>5, <2>2 DEF Ceases, Becomes
  <2>4. ChainsInv'
    BY <1>1, <1>5, <2>3, SMTT(30) DEF Ceases, ChainsInv
  <2>5. QED
    BY <1>1, <1>5, <2>1, <2>2, <2>4 DEF OutboxInv, Ceases
<1>6. ASSUME NEW m \in Main, NEW k \in Cycle, Works(m, k)
      PROVE  OutboxInv' /\ outbox' \in Seq(Record) /\ CycleType'
  <2>1. RecordsInv' /\ LastExists'
    BY <1>1, <1>6 DEF Works, RecordsInv, Same, LastExists
  <2>2. /\ CycleType' /\ cycle[m][k].at \in Busy /\ cycle'[m][k].id = cycle[m][k].id
        /\ cycle'[m][k].at = "report" => cycle'[m][k].result \in Terminal
    BY <1>6 DEF Works, Becomes
  <2>3. \A n \in Main, j \in Cycle :
            (n # m \/ j # k) /\ cycle'[n][j].at \in Busy => cycle'[n][j] = cycle[n][j]
    BY <1>2, <1>6 DEF Works, Becomes
  <2>4. ChainsInv'
    <3>1. \A n \in Main, j \in Cycle : cycle'[n][j].at \in Busy =>
              cycle[n][j].at \in Busy /\ cycle'[n][j].id = cycle[n][j].id
      BY <2>2, <2>3
    <3>2. outbox' = outbox
      BY <1>6 DEF Works
    <3>3. \A n \in Main, j \in Cycle : cycle'[n][j].at = "report" => cycle'[n][j].result \in Terminal
      BY <1>1, <2>2, <2>3 DEF ChainsInv, Busy
    <3>4. QED
      BY <1>1, <3>1, <3>2, <3>3 DEF ChainsInv
  <2>5. QED
    BY <1>1, <1>6, <2>1, <2>2, <2>4 DEF OutboxInv, Works
<1>7. ASSUME NEW m \in Main, NEW k \in Cycle, Reports(m, k)
      PROVE  OutboxInv' /\ outbox' \in Seq(Record) /\ CycleType'
  <2> DEFINE i == cycle[m][k].id
  <2>1. /\ i \in DOMAIN outbox /\ outbox[i].status = "in_progress"
        /\ cycle[m][k].at \in Busy /\ cycle[m][k].result \in Terminal
        /\ cycle[m][k].result \in Open \cup Terminal
    BY <1>1, <1>7 DEF Reports, ChainsInv, Busy
  <2>2. RecordsInv' /\ LastExists'
    BY <1>1, <1>7, <2>1, RecordsRestatus DEF Reports
  <2>3. CycleType' /\ cycle'[m][k].at \notin Busy
    BY <1>7, IdleType DEF Reports, Becomes, Busy
  <2>4. \A n \in Main, j \in Cycle :
            cycle'[n][j].at \in Busy => (n # m \/ j # k) /\ cycle'[n][j] = cycle[n][j]
    BY <1>2, <1>7, <2>3 DEF Reports, Becomes
  <2>5. /\ DOMAIN outbox' = DOMAIN outbox /\ outbox' \in Seq(Record)
        /\ \A j \in DOMAIN outbox : j # i => outbox'[j] = outbox[j]
    BY <1>7 DEF Reports, Restatus
  <2>6. ChainsInv'
    BY <1>1, <2>1, <2>4, <2>5, SMTT(30) DEF ChainsInv
  <2>7. QED
    BY <2>2, <2>3, <2>5, <2>6 DEF OutboxInv
<1>8. ASSUME NEW m \in Main, NEW k \in Cycle, NEW i \in DOMAIN outbox, Claims(m, k, i)
      PROVE  OutboxInv' /\ outbox' \in Seq(Record) /\ CycleType'
  <2>1. RecordsInv' /\ LastExists'
    BY <1>1, <1>8, RecordsRestatus DEF Claims, Open
  <2>2. /\ CycleType' /\ cycle'[m][k].at = "resolve" /\ cycle'[m][k].id = i
    BY <1>8 DEF Claims, Becomes, Idle
  <2>3. \A n \in Main, j \in Cycle :
            (n # m \/ j # k) /\ cycle'[n][j].at \in Busy => cycle'[n][j] = cycle[n][j]
    BY <1>2, <1>8 DEF Claims, Becomes
  <2>4. /\ DOMAIN outbox' = DOMAIN outbox /\ outbox' \in Seq(Record)
        /\ outbox[i].status = "pending" /\ outbox'[i].status = "in_progress"
        /\ \A j \in DOMAIN outbox : j # i => outbox'[j] = outbox[j]
    <3>1. outbox[i] \in Record /\ outbox'[i] = [outbox[i] EXCEPT !.status = "in_progress"]
      BY <1>1, <1>8, OutboxFacts DEF Claims, Restatus
    <3>2. outbox'[i].status = "in_progress"
      BY <3>1, StatusUpdate DEF Open
    <3>3. QED
      BY <1>8, <3>2 DEF Claims, Restatus, Claimable, Pending
  <2>5. ChainsInv'
    BY <1>1, <2>2, <2>3, <2>4, SMTT(30) DEF ChainsInv
  <2>6. QED
    BY <2>1, <2>2, <2>4, <2>5 DEF OutboxInv
<1>9. QED
  BY <1>3, <1>4, <1>5, <1>6, <1>7, <1>8, ChainKinds

-----------------------------------------------------------------------------
(* Types of the rest. *)

LEMMA DbStep ==
    ASSUME Types, OutboxInv, [Next]_vars, outbox' \in Seq(Record)
    PROVE  DbType'
<1> USE ConstantFacts DEF dbVars, userVars
<1>1. DbType
  BY DEF Types
<1>2. CASE UNCHANGED <<activeVersion, published, publishes, unpublishing, removals>>
  BY <1>1, <1>2 DEF DbType
<1>3. ASSUME NEW w \in Workflow, publishViaOutbox(w) PROVE DbType'
  <2>1. publishes' \in 0..MaxPublishes /\ publishes' \in Version
    BY <1>1, <1>3 DEF publishViaOutbox, DbType, Version
  <2>2. QED
    BY <1>1, <1>3, <2>1 DEF publishViaOutbox, DbType
<1>4. ASSUME NEW w \in Workflow, deactivateWorkflow(w) \/ userStep(w) PROVE DbType'
  BY <1>1, <1>4
     DEF deactivateWorkflow, userStep, clearActiveVersion, removePublishedVersion,
         handleRemoveNonWebhookTriggers, DbType
<1>5. ASSUME NEW m \in Main, NEW k \in Cycle, advancePublishedVersion(m, k) PROVE DbType'
  <2>1. record(m, k).workflow \in Workflow /\ record(m, k).version \in Version
    BY <1>1, <1>5, OutboxFacts DEF advancePublishedVersion, OutboxInv, ChainsInv, Busy, record
  <2>2. QED
    BY <1>1, <1>5, <2>1 DEF advancePublishedVersion, DbType
<1>6. ASSUME NEW m \in Main, NEW k \in Cycle,
             \/ claimNextPendingRecord(m, k) \/ stopCycle(m, k) \/ resolveVersions(m, k)
             \/ deactivate(m, k) \/ activate(m, k) \/ report(m, k) \/ pollFails(m, k)
             \/ applyFails(m, k) \/ reportFails(m, k)
      PROVE  DbType'
  BY <1>2, <1>6
     DEF claimNextPendingRecord, stopCycle, resolveVersions, findWorkflow, findPublishedVersion,
         deactivate, activate, report,
         pollFails, applyFails, reportFails
<1>7. ASSUME NEW m \in Main, takeover(m) \/ stopPolling(m) \/ mainCrash(m) PROVE DbType'
  BY <1>2, <1>7 DEF takeover, stopPolling, mainCrash
<1>8. ASSUME NEW m \in Main, NEW w \in Workflow, findById(m, w) \/ addNonWebhookTriggers(m, w)
      PROVE  DbType'
  BY <1>2, <1>8 DEF findById, addNonWebhookTriggers
<1>9. QED
  BY <1>2, <1>3, <1>4, <1>5, <1>6, <1>7, <1>8 DEF Next, pollStep, vars

LEMMA LeaderStep == ASSUME Types, [Next]_vars PROVE LeaderType'
<1> USE ConstantFacts DEF leaderVars
<1>1. LeaderType
  BY DEF Types
<1>2. CASE UNCHANGED <<leaderVars, errors>>
  BY <1>1, <1>2 DEF LeaderType
<1>3. CASE UNCHANGED leaderVars /\ Error
  BY <1>1, <1>3 DEF LeaderType, Error
<1>4. ASSUME NEW m \in Main, takeover(m) PROVE LeaderType'
  <2>1. polling' \in [Main -> BOOLEAN]
    BY <1>1, <1>4, Zenon DEF LeaderType, takeover
  <2>2. QED
    BY <1>1, <1>4, <2>1 DEF LeaderType, takeover
<1>5. ASSUME NEW m \in Main, stopPolling(m) \/ mainCrash(m) PROVE LeaderType'
  <2>1. polling' \in [Main -> BOOLEAN]
    BY <1>1, <1>5, Zenon DEF LeaderType, stopPolling, mainCrash
  <2>2. QED
    BY <1>1, <1>5, <2>1 DEF LeaderType, stopPolling, mainCrash
<1>6. ASSUME NEW w \in Workflow, publishViaOutbox(w) \/ deactivateWorkflow(w) \/ userStep(w) PROVE LeaderType'
  BY <1>2, <1>6
     DEF publishViaOutbox, deactivateWorkflow, userStep, clearActiveVersion,
         removePublishedVersion, handleRemoveNonWebhookTriggers
<1>7. ASSUME NEW m \in Main, NEW k \in Cycle, pollStep(m, k) \/ pollFails(m, k) PROVE LeaderType'
  BY <1>2, <1>7
     DEF pollStep, claimNextPendingRecord, stopCycle, resolveVersions, findWorkflow, findPublishedVersion,
         deactivate,
         advancePublishedVersion, activate, report, pollFails
<1>8. ASSUME NEW m \in Main, NEW k \in Cycle, applyFails(m, k) \/ reportFails(m, k) PROVE LeaderType'
  BY <1>3, <1>8 DEF applyFails, reportFails
<1>9. ASSUME NEW m \in Main, NEW w \in Workflow, findById(m, w) \/ addNonWebhookTriggers(m, w)
      PROVE  LeaderType'
  BY <1>2, <1>9 DEF findById, addNonWebhookTriggers
<1>10. QED
  BY <1>2, <1>4, <1>5, <1>6, <1>7, <1>8, <1>9 DEF Next, vars

LEMMA LoadStep == ASSUME Types, [Next]_vars PROVE LoadType'
<1> USE ConstantFacts DEF triggerVars
<1>1. LoadType /\ DbType
  BY DEF Types
<1>2. CASE UNCHANGED loading
  BY <1>1, <1>2 DEF LoadType
<1> DEFINE LoadState == [at : {"no", "find", "add"}, version : Version \cup {NoVersion}]
<1>3. /\ \A at \in {"no", "find"} : Load(at, NoVersion) \in LoadState /\ Load(at, NoVersion).at # "add"
      /\ \A v \in Version : Load("add", v) \in LoadState /\ Load("add", v).version \in Version
  BY DEF Load
<1>4. ASSUME NEW m \in Main, NEW ls \in [Workflow -> LoadState], loading' = [loading EXCEPT ![m] = ls],
             \A w \in Workflow : ls[w].at = "add" => ls[w].version \in Version
      PROVE  LoadType'
  BY <1>1, <1>4 DEF LoadType
<1>5. ASSUME NEW m \in Main, NEW w \in Workflow, NEW l \in LoadState,
             l.at = "add" => l.version \in Version, loading' = [loading EXCEPT ![m][w] = l]
      PROVE  LoadType'
  BY <1>1, <1>5 DEF LoadType
<1>6. NotLoading \in [Workflow -> LoadState] /\ \A w \in Workflow : NotLoading[w].at # "add"
  BY <1>3 DEF NotLoading
<1>7. ASSUME NEW m \in Main, takeover(m) PROVE LoadType'
  <2> DEFINE ls == [w \in Workflow |->
                       Load(IF activeVersion[w] = NoVersion THEN "no" ELSE "find", NoVersion)]
  <2>1. ls \in [Workflow -> LoadState] /\ \A w \in Workflow : ls[w].at # "add"
    BY <1>3
  <2>2. loading' = loading \/ loading' = [loading EXCEPT ![m] = ls]
    BY <1>7 DEF takeover
  <2> HIDE DEF ls
  <2>3. QED
    BY <1>2, <1>4, <2>1, <2>2
<1>8. ASSUME NEW m \in Main, mainCrash(m) PROVE LoadType'
  BY <1>4, <1>6, <1>8 DEF mainCrash
<1>9. ASSUME NEW m \in Main, NEW w \in Workflow, findById(m, w) PROVE LoadType'
  <2> DEFINE l == IF activeVersion[w] = NoVersion \/ leader # m
                  THEN Load("no", NoVersion) ELSE Load("add", activeVersion[w])
  <2>1. l \in LoadState /\ (l.at = "add" => l.version \in Version)
    BY <1>1, <1>3 DEF DbType
  <2>2. loading' = [loading EXCEPT ![m][w] = l]
    BY <1>9 DEF findById
  <2> HIDE DEF l
  <2>3. QED
    BY <1>5, <2>1, <2>2
<1>10. ASSUME NEW m \in Main, NEW w \in Workflow, addNonWebhookTriggers(m, w) PROVE LoadType'
  BY <1>3, <1>5, <1>10 DEF addNonWebhookTriggers
<1>11. ASSUME NEW w \in Workflow, publishViaOutbox(w) \/ deactivateWorkflow(w) \/ userStep(w) PROVE LoadType'
  BY <1>2, <1>11
     DEF publishViaOutbox, deactivateWorkflow, userStep, clearActiveVersion,
         removePublishedVersion, handleRemoveNonWebhookTriggers
<1>12. ASSUME NEW m \in Main, NEW k \in Cycle,
              pollStep(m, k) \/ pollFails(m, k) \/ applyFails(m, k) \/ reportFails(m, k)
       PROVE  LoadType'
  BY <1>2, <1>12
     DEF pollStep, claimNextPendingRecord, stopCycle, resolveVersions, findWorkflow, findPublishedVersion,
         deactivate,
         advancePublishedVersion, activate, report, pollFails, applyFails, reportFails
<1>13. ASSUME NEW m \in Main, stopPolling(m) PROVE LoadType'
  BY <1>2, <1>13 DEF stopPolling
<1>14. QED
  BY <1>2, <1>7, <1>8, <1>9, <1>10, <1>11, <1>12, <1>13 DEF Next, vars

-----------------------------------------------------------------------------
(* Sets of triggers with one element per node. *)

LEMMA RemovedProperties ==
    ASSUME NEW ts \in SUBSET Trigger, OnePerNode(ts), NEW nodes
    PROVE  Removed(ts, nodes) \in SUBSET Trigger /\ OnePerNode(Removed(ts, nodes))
BY DEF Removed, OnePerNode

LEMMA RegisteredProperties ==
    ASSUME NEW ts \in SUBSET Trigger, OnePerNode(ts), NEW added \in SUBSET Trigger, OnePerNode(added)
    PROVE  LET rs == Removed(ts, {t.node : t \in added}) \cup added
           IN  rs \in SUBSET Trigger /\ OnePerNode(rs)
BY DEF Removed, OnePerNode

LEMMA EnabledProperties ==
    ASSUME NEW v \in Version \cup {NoVersion}
    PROVE  Enabled(v) \in SUBSET Trigger /\ OnePerNode(Enabled(v))
BY ConstantFacts DEF Enabled, OnePerNode

(* computeTriggerDiff(): removing the nodes that have gone or changed leaves *)
(* what the versions share, and adding the new ones gives the new version.   *)
LEMMA DiffReconciles ==
    ASSUME NEW old \in Version \cup {NoVersion}, NEW new \in Version \cup {NoVersion}
    PROVE  LET kept == Removed(Enabled(old), toRemove(old, new))
               added == toAdd(old, new)
           IN  /\ kept = Enabled(old) \cap Enabled(new)
               /\ Removed(kept, {t.node : t \in added}) \cup added = Enabled(new)
               /\ {t \in kept : t.node \in {s.node : s \in added}} = {}
<1> DEFINE a == Enabled(old)
           b == Enabled(new)
           kept == Removed(a, {t.node : t \in a \ b})
           added == b \ a
<1>1. OnePerNode(a) /\ OnePerNode(b)
  BY EnabledProperties
<1> HIDE DEF a, b
<1>2. kept = a \cap b
  BY <1>1 DEF Removed, OnePerNode
<1>3. Removed(a \cap b, {t.node : t \in added}) \cup added = b
  BY <1>1 DEF Removed, OnePerNode
<1> HIDE DEF kept
<1>4. /\ Removed(kept, {t.node : t \in added}) \cup added = b
      /\ {t \in kept : t.node \in {s.node : s \in added}} = {}
  <2>1. {t \in a \cap b : t.node \in {s.node : s \in added}} = {}
    BY <1>1 DEF OnePerNode
  <2>2. QED
    BY <1>2, <1>3, <2>1
<1>5. kept = Removed(Enabled(old), toRemove(old, new)) /\ added = toAdd(old, new)
  BY DEF kept, a, b, toRemove, toAdd
<1>6. QED
  BY <1>2, <1>4, <1>5 DEF a, b

(* What is registered for w on m becomes ts; nothing else changes. *)
Registers(m, w, ts) ==
    /\ TriggerType' /\ triggers'[m][w] = ts
    /\ \A n \in Main, x \in Workflow : n # m \/ x # w => triggers'[n][x] = triggers[n][x]

LEMMA TriggersUpdate ==
    ASSUME TriggerType, NEW m \in Main, NEW w \in Workflow,
           NEW ts \in SUBSET Trigger, OnePerNode(ts), triggers' = [triggers EXCEPT ![m][w] = ts]
    PROVE  Registers(m, w, ts)
BY DEF TriggerType, Registers

LEMMA DeregisterUpdate ==
    ASSUME TriggerType, NEW m \in Main, NEW w \in Workflow, NEW nodes,
           Deregister(m, w, nodes) \/ RollBack(m, w, nodes)
    PROVE  Registers(m, w, Removed(triggers[m][w], nodes))
<1> DEFINE ts == Removed(triggers[m][w], nodes)
<1>1. ts \in SUBSET Trigger /\ OnePerNode(ts)
  BY RemovedProperties DEF TriggerType
<1>2. triggers' = [triggers EXCEPT ![m][w] = ts]
  BY DEF Deregister, RollBack
<1>3. QED
  BY <1>1, <1>2, TriggersUpdate

LEMMA RegisterUpdate ==
    ASSUME TriggerType, NEW m \in Main, NEW w \in Workflow,
           NEW added \in SUBSET Trigger, OnePerNode(added), Register(m, w, added)
    PROVE  Registers(m, w, Removed(triggers[m][w], {t.node : t \in added}) \cup added)
<1> DEFINE ts == Removed(triggers[m][w], {t.node : t \in added}) \cup added
<1>1. ts \in SUBSET Trigger /\ OnePerNode(ts)
  <2>1. triggers[m][w] \in SUBSET Trigger /\ OnePerNode(triggers[m][w])
    BY DEF TriggerType
  <2>2. QED
    BY <2>1, RegisteredProperties
<1>2. triggers' = [triggers EXCEPT ![m][w] = ts]
  BY DEF Register
<1>3. QED
  BY <1>1, <1>2, TriggersUpdate

(* The record a chain works on. *)
LEMMA RecordOfChain ==
    ASSUME Types, OutboxInv, NEW m \in Main, NEW k \in Cycle, cycle[m][k].at \in Busy
    PROVE  /\ record(m, k).workflow \in Workflow /\ record(m, k).version \in Version
           /\ cycle[m][k].old \in Version \cup {NoVersion}
           /\ record(m, k).status = "in_progress"
<1>1. cycle[m][k].id \in DOMAIN outbox /\ outbox[cycle[m][k].id].status = "in_progress"
  BY DEF OutboxInv, ChainsInv
<1>2. cycle[m][k] \in ChainState
  BY DEF Types, CycleType
<1>3. QED
  BY <1>1, <1>2, OutboxFacts DEF Types, record, ChainState

LEMMA AddedProperties ==
    ASSUME NEW old \in Version \cup {NoVersion}, NEW new \in Version,
           NEW some \in SUBSET toAdd(old, new)
    PROVE  some \in SUBSET Trigger /\ OnePerNode(some)
BY EnabledProperties DEF toAdd, OnePerNode

LEMMA TriggerStep == ASSUME Types, OutboxInv, [Next]_vars PROVE TriggerType'
<1> USE DEF triggerVars
<1>1. TriggerType /\ LoadType
  BY DEF Types
<1>2. CASE UNCHANGED triggers
  BY <1>1, <1>2 DEF TriggerType
<1>3. ASSUME NEW w \in Workflow, handleRemoveNonWebhookTriggers(w) PROVE TriggerType'
  BY <1>1, <1>3 DEF handleRemoveNonWebhookTriggers, TriggerType, OnePerNode
<1>4. ASSUME NEW m \in Main, NEW k \in Cycle, deactivate(m, k) \/ activate(m, k) \/ applyFails(m, k)
      PROVE  TriggerType'
  <2> DEFINE w == record(m, k).workflow
             v == record(m, k).version
             old == cycle[m][k].old
  <2>1. CASE UNCHANGED triggers
    BY <1>2, <2>1
  <2>2. w \in Workflow /\ v \in Version /\ old \in Version \cup {NoVersion}
    BY <1>4, RecordOfChain DEF deactivate, activate, applyFails, Busy
  <2>3. ASSUME NEW nodes, Deregister(m, w, nodes) \/ RollBack(m, w, nodes) PROVE TriggerType'
    BY <1>1, <2>2, <2>3, DeregisterUpdate DEF Registers
  <2>4. ASSUME NEW some \in SUBSET toAdd(old, v), Register(m, w, some) PROVE TriggerType'
    BY <1>1, <2>2, <2>4, AddedProperties, RegisterUpdate DEF Registers
  <2>5. QED
    BY <1>4, <2>1, <2>3, <2>4 DEF deactivate, activate, applyFails
<1>5. ASSUME NEW m \in Main, NEW w \in Workflow, addNonWebhookTriggers(m, w) PROVE TriggerType'
  <2> DEFINE added == TriggersOf[loading[m][w].version]
  <2>1. added \in SUBSET Trigger /\ OnePerNode(added)
    BY <1>1, <1>5, ConstantFacts DEF addNonWebhookTriggers, LoadType
  <2> HIDE DEF added
  <2>2. Register(m, w, added)
    BY <1>5 DEF addNonWebhookTriggers, added
  <2>3. QED
    BY <1>1, <2>1, <2>2, RegisterUpdate DEF Registers
<1>6. ASSUME NEW m \in Main, stopPolling(m) \/ mainCrash(m) PROVE TriggerType'
  <2>1. Nothing \in [Workflow -> SUBSET Trigger] /\ \A w \in Workflow : OnePerNode(Nothing[w])
    BY DEF Nothing, OnePerNode
  <2>2. triggers' = [triggers EXCEPT ![m] = Nothing]
    BY <1>6 DEF stopPolling, mainCrash
  <2>3. QED
    BY <1>1, <2>1, <2>2 DEF TriggerType
<1>7. ASSUME NEW m \in Main, NEW k \in Cycle,
             \/ claimNextPendingRecord(m, k) \/ stopCycle(m, k) \/ resolveVersions(m, k)
             \/ advancePublishedVersion(m, k) \/ report(m, k) \/ pollFails(m, k)
             \/ reportFails(m, k)
      PROVE  TriggerType'
  BY <1>2, <1>7
     DEF claimNextPendingRecord, stopCycle, resolveVersions, findWorkflow, findPublishedVersion,
         advancePublishedVersion, report,
         pollFails, reportFails
<1>8. ASSUME NEW w \in Workflow,
             \/ publishViaOutbox(w) \/ deactivateWorkflow(w) \/ clearActiveVersion(w)
             \/ removePublishedVersion(w)
      PROVE  TriggerType'
  BY <1>2, <1>8 DEF publishViaOutbox, deactivateWorkflow, clearActiveVersion, removePublishedVersion
<1>9. ASSUME NEW m \in Main, takeover(m) PROVE TriggerType'
  BY <1>2, <1>9 DEF takeover
<1>10. ASSUME NEW m \in Main, NEW w \in Workflow, findById(m, w) PROVE TriggerType'
  BY <1>2, <1>10 DEF findById
<1>11. QED
  BY <1>2, <1>3, <1>4, <1>5, <1>6, <1>7, <1>8, <1>9, <1>10 DEF Next, pollStep, userStep, vars

(* What is overwritten had been registered. *)
LEMMA UnclosedStep == ASSUME Types, OutboxInv, [Next]_vars PROVE UnclosedType'
<1> USE DEF triggerVars
<1>1. UnclosedType /\ TriggerType
  BY DEF Types
<1>2. CASE UNCHANGED unclosed
  BY <1>1, <1>2 DEF UnclosedType
<1> DEFINE Overwrites(m, w, nodes) ==
               unclosed' = [unclosed EXCEPT ![m][w] = @ \cup {t \in triggers[m][w] : t.node \in nodes}]
<1>3. ASSUME NEW m \in Main, NEW w \in Workflow, NEW nodes, Overwrites(m, w, nodes)
      PROVE  UnclosedType'
  <2> DEFINE overwritten == {t \in triggers[m][w] : t.node \in nodes}
  <2>1. overwritten \in SUBSET Trigger
    BY <1>1 DEF TriggerType
  <2>2. unclosed' = [unclosed EXCEPT ![m][w] = @ \cup overwritten]
    BY <1>3
  <2> HIDE DEF overwritten
  <2>3. QED
    BY <1>1, <2>1, <2>2 DEF UnclosedType
<1>4. ASSUME NEW m \in Main, NEW k \in Cycle, deactivate(m, k) \/ activate(m, k) \/ applyFails(m, k)
      PROVE  UnclosedType'
  <2>1. record(m, k).workflow \in Workflow
    BY <1>4, RecordOfChain DEF deactivate, activate, applyFails, Busy
  <2> DEFINE w == record(m, k).workflow
  <2>2. \/ \E nodes : Deregister(m, w, nodes) \/ RollBack(m, w, nodes)
        \/ \E some : Register(m, w, some)
        \/ UNCHANGED unclosed
    BY <1>4 DEF deactivate, activate, applyFails
  <2>3. ASSUME NEW nodes, RollBack(m, w, nodes) PROVE UnclosedType'
    BY <1>3, <2>1, <2>3 DEF RollBack
  <2>4. ASSUME NEW some, Register(m, w, some) PROVE UnclosedType'
    BY <1>3, <2>1, <2>4 DEF Register
  <2>5. ASSUME NEW nodes, Deregister(m, w, nodes) PROVE UnclosedType'
    BY <1>2, <2>5 DEF Deregister
  <2>6. QED
    BY <1>2, <2>2, <2>3, <2>4, <2>5
<1>5. ASSUME NEW m \in Main, NEW w \in Workflow, addNonWebhookTriggers(m, w) PROVE UnclosedType'
  BY <1>3, <1>5 DEF addNonWebhookTriggers, Register
<1>6. ASSUME NEW m \in Main, mainCrash(m) PROVE UnclosedType'
  BY <1>1, <1>6 DEF mainCrash, UnclosedType, Nothing
<1>7. ASSUME NEW m \in Main, NEW k \in Cycle,
             \/ claimNextPendingRecord(m, k) \/ stopCycle(m, k) \/ resolveVersions(m, k)
             \/ advancePublishedVersion(m, k) \/ report(m, k) \/ pollFails(m, k)
             \/ reportFails(m, k)
      PROVE  UnclosedType'
  BY <1>2, <1>7
     DEF claimNextPendingRecord, stopCycle, resolveVersions, findWorkflow, findPublishedVersion,
         advancePublishedVersion, report, pollFails, reportFails
<1>8. ASSUME NEW w \in Workflow, publishViaOutbox(w) \/ deactivateWorkflow(w) \/ userStep(w)
      PROVE  UnclosedType'
  BY <1>2, <1>8
     DEF publishViaOutbox, deactivateWorkflow, userStep, clearActiveVersion,
         removePublishedVersion, handleRemoveNonWebhookTriggers
<1>9. ASSUME NEW m \in Main, takeover(m) \/ stopPolling(m) PROVE UnclosedType'
  BY <1>2, <1>9 DEF takeover, stopPolling
<1>10. ASSUME NEW m \in Main, NEW w \in Workflow, findById(m, w) PROVE UnclosedType'
  BY <1>2, <1>10 DEF findById
<1>11. QED
  BY <1>2, <1>4, <1>5, <1>6, <1>7, <1>8, <1>9, <1>10 DEF Next, pollStep, vars

-----------------------------------------------------------------------------
PubInv == Types /\ OutboxInv

LEMMA PubInit == Init => PubInv
<1> SUFFICES ASSUME Init PROVE PubInv
  OBVIOUS
<1>1. DOMAIN outbox = {}
  BY DEF Init
<1>2. \A m \in Main, k \in Cycle : cycle[m][k].at \notin Busy
  BY DEF Init, Idle, Busy
<1>3. OutboxInv
  BY <1>1, <1>2 DEF OutboxInv, RecordsInv, LastExists, ChainsInv
<1>4. QED
  BY <1>3, TypesInit DEF PubInv

LEMMA PubStep == PubInv /\ [Next]_vars => PubInv'
<1> SUFFICES ASSUME Types, OutboxInv, [Next]_vars PROVE PubInv'
  BY DEF PubInv
<1>1. OutboxInv' /\ outbox' \in Seq(Record) /\ CycleType'
  BY OutboxStep
<1>2. DbType' /\ LeaderType' /\ LoadType' /\ TriggerType' /\ UnclosedType'
  BY <1>1, DbStep, LeaderStep, LoadStep, TriggerStep, UnclosedStep
<1>3. QED
  BY <1>1, <1>2 DEF PubInv, Types

(* Of the records of a workflow the last one alone may be pending, and one at *)
(* most is in progress; the other results rest on it.                        *)
THEOREM PublicationInvariant == Spec => []PubInv
BY PubInit, PubStep, PTL DEF Spec

(* Every variable has its type; in particular a main never holds two         *)
(* registrations for one node of a workflow, whoever registers beside whom.  *)
THEOREM PublicationTypeCorrect == Spec => []TypeOK
<1>1. PubInv => TypeOK
  <2> SUFFICES ASSUME Types, OutboxInv PROVE TypeOK
    BY DEF PubInv
  <2>1. ASSUME NEW m \in Main, NEW k \in Cycle
        PROVE  /\ cycle[m][k].at \in Busy \cup {"off", "armed", "claim"}
               /\ cycle[m][k].at \in Busy => cycle[m][k].id \in DOMAIN outbox
    <3>1. cycle[m][k] \in ChainState
      BY DEF Types, CycleType
    <3>2. QED
      BY <3>1 DEF ChainState, OutboxInv, ChainsInv
  <2>2. ASSUME NEW m \in Main, NEW w \in Workflow
        PROVE  /\ loading[m][w] \in [at : {"no", "find", "add"}, version : Version \cup {NoVersion}]
               /\ \A s, t \in triggers[m][w] : s.node = t.node => s = t
               /\ unclosed[m][w] \subseteq UNION {TriggersOf[v] : v \in Version}
    <3>1. /\ loading[m][w] \in [at : {"no", "find", "add"}, version : Version \cup {NoVersion}]
          /\ \A s, t \in triggers[m][w] : s.node = t.node => s = t
      BY DEF Types, LoadType, TriggerType, OnePerNode
    <3>2. unclosed[m][w] \subseteq Trigger
      BY DEF Types, UnclosedType
    <3>3. QED
      BY <3>1, <3>2 DEF Trigger
  <2>3. DbType /\ LeaderType
    BY DEF Types
  <2>4. QED
    BY <2>1, <2>2, <2>3 DEF TypeOK, DbType, LeaderType
<1>2. QED
  BY <1>1, PublicationInvariant, PTL

(* A workflow is published by one chain at a time: claimNextPendingRecord()   *)
(* passes over workflows with a record in progress, and a chain that goes on *)
(* after a stepdown keeps its record in progress.                            *)
LEMMA ChainsSerialized ==
    ASSUME Types, OutboxInv, NEW m \in Main, NEW n \in Main, NEW j \in Cycle, NEW k \in Cycle,
           NEW w, Applies(m, j, w), Applies(n, k, w)
    PROVE  m = n /\ j = k
<1> DEFINE a == cycle[m][j].id
           b == cycle[n][k].id
<1>1. /\ a \in DOMAIN outbox /\ b \in DOMAIN outbox /\ Same(a, b) /\ Same(b, a)
      /\ outbox[a].status = "in_progress" /\ outbox[b].status = "in_progress"
  BY DEF Applies, record, Same, OutboxInv, ChainsInv
<1>2. a \in Nat /\ b \in Nat
  BY <1>1, OutboxFacts DEF Types
<1>3. ~(a < b) /\ ~(b < a)
  BY <1>1 DEF OutboxInv, RecordsInv
<1>4. a = b
  BY <1>2, <1>3
<1>5. QED
  BY <1>4 DEF Applies, OutboxInv, ChainsInv

(* No two chains of poll cycles, of one main or of two, apply records of one  *)
(* workflow at a time: claimNext() passes over workflows with a record in    *)
(* progress.                                                                 *)
THEOREM PublicationSerialized == Spec => []SerializedPerWorkflow
<1>1. PubInv => SerializedPerWorkflow
  BY ChainsSerialized DEF PubInv, SerializedPerWorkflow
<1>2. QED
  BY <1>1, PublicationInvariant, PTL
(* The published version is changed by a chain, to the version of its record, *)
(* and the records of later requests are pending as long as that one is in    *)
(* progress.                                                                  *)
LEMMA PublishedChanges ==
    ASSUME Types, OutboxInv, [Next]_vars, NEW w \in Workflow,
           published'[w] # published[w]
    PROVE  \/ removePublishedVersion(w)
           \/ \E m \in Main, k \in Cycle : advancePublishedVersion(m, k) /\ Applies(m, k, w)
<1> USE DEF dbVars
<1>1. DbType
  BY DEF Types
<1>2. published' # published
  OBVIOUS
<1>3. ASSUME NEW x \in Workflow, removePublishedVersion(x) PROVE x = w
  BY <1>1, <1>3 DEF removePublishedVersion, DbType
<1>4. ASSUME NEW m \in Main, NEW k \in Cycle, advancePublishedVersion(m, k)
      PROVE  Applies(m, k, w)
  <2>1. cycle[m][k].at \in Busy /\ record(m, k).workflow \in Workflow
    BY <1>4, RecordOfChain DEF advancePublishedVersion, Busy
  <2>2. published' = [published EXCEPT ![record(m, k).workflow] = record(m, k).version]
    BY <1>4 DEF advancePublishedVersion
  <2>3. record(m, k).workflow = w
    BY <1>1, <2>1, <2>2 DEF DbType
  <2>4. QED
    BY <2>1, <2>3 DEF Applies
<1>5. ~UNCHANGED vars
  BY <1>2 DEF vars
<1>6. \A x \in Workflow : ~(publishViaOutbox(x) \/ deactivateWorkflow(x) \/ clearActiveVersion(x)
                            \/ handleRemoveNonWebhookTriggers(x))
  BY <1>2 DEF publishViaOutbox, deactivateWorkflow, clearActiveVersion, handleRemoveNonWebhookTriggers
<1>7. \A m \in Main, k \in Cycle :
          ~(\/ claimNextPendingRecord(m, k) \/ stopCycle(m, k) \/ resolveVersions(m, k)
            \/ deactivate(m, k) \/ activate(m, k) \/ report(m, k) \/ pollFails(m, k)
            \/ applyFails(m, k) \/ reportFails(m, k))
  BY <1>2
     DEF claimNextPendingRecord, stopCycle, resolveVersions, findWorkflow, findPublishedVersion,
         deactivate, activate, report,
         pollFails, applyFails, reportFails
<1>8. \A m \in Main : ~(takeover(m) \/ stopPolling(m) \/ mainCrash(m))
  BY <1>2 DEF takeover, stopPolling, mainCrash
<1>9. \A m \in Main, x \in Workflow : ~(findById(m, x) \/ addNonWebhookTriggers(m, x))
  BY <1>2 DEF findById, addNonWebhookTriggers
<1>10. QED
  BY <1>3, <1>4, <1>5, <1>6, <1>7, <1>8, <1>9 DEF Next, pollStep, userStep

(* The published version never goes back behind one that was requested later *)
(* and has been dealt with.                                                  *)
THEOREM LatestRequestPublished == Spec => LatestRequestWins
<1> DEFINE Forward ==
      \A w \in Workflow :
          published'[w] \notin {published[w], NoVersion} =>
              \A i \in DOMAIN outbox :
                  outbox[i].workflow = w /\ outbox[i].version > published'[w]
                  => outbox[i].status = "pending"
<1>1. PubInv /\ [Next]_vars => Forward
  <2> SUFFICES ASSUME Types, OutboxInv, [Next]_vars, NEW w \in Workflow,
                      published'[w] \notin {published[w], NoVersion},
                      NEW i \in DOMAIN outbox, outbox[i].workflow = w,
                      outbox[i].version > published'[w]
               PROVE  outbox[i].status = "pending"
    BY DEF PubInv
  <2>1. published \in [Workflow -> Version \cup {NoVersion}]
    BY DEF Types, DbType
  <2>2. ~removePublishedVersion(w)
    BY <2>1 DEF removePublishedVersion
  <2>3. PICK m \in Main, k \in Cycle : advancePublishedVersion(m, k) /\ Applies(m, k, w)
    BY <2>2, PublishedChanges
  <2> DEFINE a == cycle[m][k].id
  <2>4. a \in DOMAIN outbox /\ outbox[a].status = "in_progress" /\ outbox[a].workflow = w
    BY <2>3 DEF Applies, record, OutboxInv, ChainsInv
  <2>5. published'[w] = outbox[a].version
    BY <2>1, <2>3, <2>4 DEF advancePublishedVersion, record
  <2>6. a \in Nat /\ i \in Nat /\ outbox[a].version \in Nat /\ outbox[i].version \in Nat
    BY <2>4, OutboxFacts DEF Types
  <2>7. Same(a, i) /\ Same(i, a)
    BY <2>4 DEF Same
  <2>8. a < i
    <3>1. i # a
      BY <2>5, <2>6
    <3>2. ~(i < a)
      BY <2>4, <2>5, <2>6, <2>7 DEF OutboxInv, RecordsInv
    <3>3. QED
      BY <2>6, <3>1, <3>2
  <2>9. QED
    BY <2>4, <2>7, <2>8 DEF OutboxInv, RecordsInv
<1>2. QED
  BY <1>1, PublicationInvariant, PTL DEF Spec, LatestRequestWins
-----------------------------------------------------------------------------
(* The published version follows the outbox, and the triggers follow it. *)

Never(w) == unpublishing[w] = "never"

(* The last request for a workflow is for its active version. *)
RequestInv(w) ==
    /\ activeVersion[w] # NoVersion => \E i \in DOMAIN outbox : outbox[i].workflow = w
    /\ \A i \in DOMAIN outbox :
           outbox[i].workflow = w /\ (\A j \in DOMAIN outbox : outbox[j].workflow = w => j <= i)
           => outbox[i].version = activeVersion[w]

Advanced(c) == c.at = "activate" \/ (c.at = "report" /\ c.result = "completed")

(* A chain past advancePublishedVersion() has published its version, and the *)
(* last record that is not pending, once completed, is what is published.    *)
PublishedInv(w) ==
    /\ \A i \in DOMAIN outbox :
           /\ outbox[i].workflow = w /\ outbox[i].status = "completed"
           /\ \A j \in DOMAIN outbox : outbox[j].workflow = w /\ i < j => outbox[j].status = "pending"
           => published[w] = outbox[i].version
    /\ \A m \in Main, k \in Cycle :
           Applies(m, k, w) /\ Advanced(cycle[m][k]) => published[w] = record(m, k).version

(* While the first leader leads no other main polls and none loads triggers. *)
FirstTerm == terms = 1 /\ leader # NoMain

First ==
    FirstTerm =>
        /\ leader = FirstLeader
        /\ \A m \in Main, k \in Cycle : m # FirstLeader => cycle[m][k].at = "off"
        /\ \A m \in Main, w \in Workflow : loading[m][w].at = "no"
        /\ \A w \in Workflow : Never(w) => w \notin removals

(* The triggers of w that run on the first leader are the registered ones,   *)
(* namely ts.                                                                *)
Holds(w, ts) == triggers[FirstLeader][w] = ts /\ unclosed[FirstLeader][w] = {}

(* What is registered for w while a chain is in state c. *)
Reconciling(w, c) ==
    LET kept == Removed(Enabled(c.old), toRemove(c.old, outbox[c.id].version))
    IN  /\ c.at \in {"resolve", "needsOld", "needsWorkflow", "deactivate"} => Holds(w, Enabled(published[w]))
        /\ c.at \in {"needsWorkflow", "deactivate", "advance"} => c.old = published[w]
        /\ c.at \in {"advance", "activate"} => Holds(w, kept)
        /\ c.at = "report" /\ c.result = "completed" => Holds(w, Enabled(published[w]))

TriggersInv(w) ==
    FirstTerm /\ (\A i \in DOMAIN outbox : outbox[i].workflow = w => outbox[i].status # "failed") =>
        /\ (\A i \in DOMAIN outbox : outbox[i].workflow = w => outbox[i].status # "in_progress")
           => Holds(w, Enabled(published[w]))
        /\ \A m \in Main, k \in Cycle : Applies(m, k, w) => Reconciling(w, cycle[m][k])

FollowInv ==
    /\ First
    /\ \A w \in Workflow : Never(w) => RequestInv(w) /\ PublishedInv(w) /\ TriggersInv(w)

(* Nothing that the invariants of w depend on changes, except that a request *)
(* may be added or its pending record updated.                               *)
Undisturbed(w) ==
    /\ published'[w] = published[w]
    /\ \A n \in Main, j \in Cycle : Applies(n, j, w)' => Applies(n, j, w) /\ cycle'[n][j] = cycle[n][j]
    /\ \A i \in DOMAIN outbox :
           /\ i \in DOMAIN outbox' /\ outbox'[i].workflow = outbox[i].workflow
           /\ outbox[i].workflow = w => outbox'[i].status = outbox[i].status
           /\ outbox[i].workflow = w /\ outbox[i].status # "pending" => outbox'[i].version = outbox[i].version
    /\ \A i \in DOMAIN outbox' :
           outbox'[i].workflow = w => i \in DOMAIN outbox \/ outbox'[i].status = "pending"

ClaimsFor(m, k, i, w) ==
    /\ Claims(m, k, i) /\ outbox[i].workflow = w
    /\ UNCHANGED <<published, triggers, unclosed, leader, terms>>

AppliesFor(m, k, w) ==
    /\ Applies(m, k, w)
    /\ \/ resolveVersions(m, k) \/ deactivate(m, k) \/ advancePublishedVersion(m, k)
       \/ activate(m, k) \/ applyFails(m, k) \/ report(m, k)

LEMMA NeverStep ==
    ASSUME Types, [Next]_vars, NEW w \in Workflow, Never(w)'
    PROVE  /\ Never(w) /\ ~removePublishedVersion(w)
           /\ publishViaOutbox(w) \/ activeVersion'[w] = activeVersion[w]
<1> USE DEF dbVars, userVars, Never
<1>1. DbType
  BY DEF Types
<1>2. CASE UNCHANGED <<activeVersion, unpublishing>>
  BY <1>2 DEF removePublishedVersion
<1>3. ASSUME NEW x \in Workflow,
             \/ publishViaOutbox(x) \/ deactivateWorkflow(x) \/ clearActiveVersion(x)
             \/ removePublishedVersion(x) \/ handleRemoveNonWebhookTriggers(x)
      PROVE  /\ Never(w) /\ ~removePublishedVersion(w)
             /\ publishViaOutbox(w) \/ activeVersion'[w] = activeVersion[w]
  BY <1>1, <1>3
     DEF publishViaOutbox, deactivateWorkflow, clearActiveVersion, removePublishedVersion,
         handleRemoveNonWebhookTriggers, DbType
<1>4. ASSUME NEW m \in Main, NEW k \in Cycle,
             pollStep(m, k) \/ pollFails(m, k) \/ applyFails(m, k) \/ reportFails(m, k)
      PROVE  UNCHANGED <<activeVersion, unpublishing>>
  BY <1>4
     DEF pollStep, claimNextPendingRecord, stopCycle, resolveVersions, findWorkflow, findPublishedVersion,
         deactivate, activate, report,
         advancePublishedVersion, pollFails, applyFails, reportFails
<1>5. ASSUME NEW m \in Main, takeover(m) \/ stopPolling(m) \/ mainCrash(m)
      PROVE  UNCHANGED <<activeVersion, unpublishing>>
  BY <1>5 DEF takeover, stopPolling, mainCrash
<1>6. ASSUME NEW m \in Main, NEW x \in Workflow, findById(m, x) \/ addNonWebhookTriggers(m, x)
      PROVE  UNCHANGED <<activeVersion, unpublishing>>
  BY <1>6 DEF findById, addNonWebhookTriggers
<1>7. QED
  BY <1>2, <1>3, <1>4, <1>5, <1>6 DEF Next, userStep, vars

(* The kinds of steps that leave w alone, one by one. *)
LEMMA RestUndisturbed ==
    ASSUME Types, OutboxInv, NEW w \in Workflow, published'[w] = published[w],
           \/ Rests \/ \E m \in Main, k \in Cycle : Ceases(m, k)
    PROVE  Undisturbed(w)
<1>1. outbox' = outbox
  BY DEF Rests, Ceases
<1>2. \A n \in Main, j \in Cycle : cycle'[n][j].at \in Busy => cycle'[n][j] = cycle[n][j]
  <2>1. \A at \in {"off", "armed", "claim"} : Idle(at).at \notin Busy
    BY IdleType DEF Busy
  <2>2. CASE Rests
    BY <2>1, <2>2 DEF Rests, AllQuiet
  <2>3. ASSUME NEW m \in Main, NEW k \in Cycle, Ceases(m, k)
        PROVE  \A n \in Main, j \in Cycle : cycle'[n][j].at \in Busy => cycle'[n][j] = cycle[n][j]
    BY <2>1, <2>3 DEF Ceases, Becomes
  <2>4. QED
    BY <2>2, <2>3
<1>3. QED
  BY <1>1, <1>2 DEF Undisturbed, Applies, record

LEMMA RequestUndisturbed ==
    ASSUME Types, OutboxInv, NEW w \in Workflow, published'[w] = published[w],
           NEW x \in Workflow, Requests(x)
    PROVE  Undisturbed(w)
<1>1. DbType /\ RecordsInv /\ LastExists
  BY DEF Types, OutboxInv
<1>2. publishes' \in Version
  BY <1>1, ConstantFacts DEF Requests, DbType, Version
<1>3. cycle' = cycle
  BY DEF Requests
<1>4. \A n \in Main, j \in Cycle : cycle[n][j].at \in Busy => cycle[n][j].id \in DOMAIN outbox
  BY DEF OutboxInv, ChainsInv
<1>5. CASE Added(x, publishes')
  <2>1. /\ DOMAIN outbox \subseteq DOMAIN outbox'
        /\ \A i \in DOMAIN outbox : outbox'[i] = outbox[i]
        /\ outbox'[Len(outbox) + 1] = [workflow |-> x, version |-> publishes', status |-> "pending"]
        /\ \A j \in DOMAIN outbox' : j \in DOMAIN outbox \/ j = Len(outbox) + 1
    BY <1>1, <1>5, RecordsAdded DEF Requests
  <2>2. outbox'[Len(outbox) + 1].status = "pending"
    BY <2>1
  <2>3. QED
    BY <1>3, <1>4, <2>1, <2>2 DEF Undisturbed, Applies, record
<1>6. ASSUME NEW p \in DOMAIN outbox, Updated(x, publishes', p) PROVE Undisturbed(w)
  <2>1. /\ DOMAIN outbox' = DOMAIN outbox /\ outbox[p].status = "pending"
        /\ outbox'[p] = [outbox[p] EXCEPT !.version = publishes']
        /\ \A i \in DOMAIN outbox : i # p => outbox'[i] = outbox[i]
    BY <1>6 DEF Updated
  <2>2. outbox'[p].workflow = outbox[p].workflow /\ outbox'[p].status = outbox[p].status
    <3>1. outbox[p] \in Record
      BY <1>1, OutboxFacts
    <3>2. QED
      BY <1>2, <2>1, <3>1, VersionUpdate
  <2>3. QED
    BY <1>3, <1>4, <2>1, <2>2 DEF Undisturbed, Applies, record
<1>7. QED
  BY <1>1, <1>2, <1>5, <1>6, RequestKinds DEF Requests

(* A chain that works on a record of another workflow. *)
LEMMA OtherUndisturbed ==
    ASSUME Types, OutboxInv, NEW w \in Workflow, published'[w] = published[w],
           NEW m \in Main, NEW k \in Cycle, NEW i \in DOMAIN outbox, outbox[i].workflow # w,
           \/ UNCHANGED outbox /\ \E c \in ChainState : Becomes(m, k, c) /\ c.id = i
           \/ Claims(m, k, i)
           \/ Reports(m, k) /\ cycle[m][k].id = i
    PROVE  Undisturbed(w)
<1>1. Idle("off").at \notin Busy /\ Idle("claim").at \notin Busy
  BY IdleType DEF Busy
<1>2. /\ DOMAIN outbox' = DOMAIN outbox
      /\ \A j \in DOMAIN outbox : j # i => outbox'[j] = outbox[j]
      /\ outbox'[i].workflow = outbox[i].workflow
  <2>1. outbox[i] \in Record
    BY OutboxFacts DEF Types
  <2>2. ASSUME NEW status \in Open \cup Terminal, Restatus(i, status)
        PROVE  outbox'[i].workflow = outbox[i].workflow
    BY <2>1, <2>2, StatusUpdate DEF Restatus
  <2>3. CASE Claims(m, k, i)
    BY <2>2, <2>3 DEF Claims, Restatus, Open
  <2>4. CASE Reports(m, k) /\ cycle[m][k].id = i
    <3>1. cycle[m][k].result \in Terminal
      BY <2>4 DEF Reports, OutboxInv, ChainsInv, Busy
    <3>2. QED
      BY <2>2, <2>4, <3>1 DEF Reports, Restatus
  <2>5. QED
    BY <2>3, <2>4
<1>3. cycle'[m][k].at \in Busy => cycle'[m][k].id = i
  BY <1>1 DEF Becomes, Claims, Reports, Idle
<1>4. \A n \in Main, j \in Cycle : (n # m \/ j # k) /\ cycle'[n][j].at \in Busy => cycle'[n][j] = cycle[n][j]
  BY <1>1 DEF Becomes, Claims, Reports
<1>5. \A n \in Main, j \in Cycle : cycle[n][j].at \in Busy => cycle[n][j].id \in DOMAIN outbox
  BY DEF OutboxInv, ChainsInv
<1>6. \A n \in Main, j \in Cycle : Applies(n, j, w)' => Applies(n, j, w) /\ cycle'[n][j] = cycle[n][j]
  BY <1>2, <1>3, <1>4, <1>5 DEF Applies, record
<1>7. QED
  BY <1>2, <1>6 DEF Undisturbed
LEMMA FirstTermKept ==
    ASSUME Types, [Next]_vars, FirstTerm'
    PROVE  FirstTerm /\ leader' = leader /\ \A m \in Main : ~takeover(m) /\ ~stopPolling(m)
<1> USE DEF leaderVars
<1>1. terms \in Nat /\ terms >= 1
  BY DEF Types, LeaderType
<1>2. \A m \in Main : ~takeover(m) /\ ~stopPolling(m)
  BY <1>1 DEF FirstTerm, takeover, stopPolling
<1>3. CASE UNCHANGED <<leader, terms>>
  BY <1>2, <1>3 DEF FirstTerm
<1>4. ASSUME NEW m \in Main, mainCrash(m) PROVE UNCHANGED <<leader, terms>>
  BY <1>4 DEF mainCrash, FirstTerm
<1>5. ASSUME NEW w \in Workflow, publishViaOutbox(w) \/ deactivateWorkflow(w) \/ userStep(w)
      PROVE  UNCHANGED <<leader, terms>>
  BY <1>5
     DEF publishViaOutbox, deactivateWorkflow, userStep, clearActiveVersion,
         removePublishedVersion, handleRemoveNonWebhookTriggers
<1>6. ASSUME NEW m \in Main, NEW k \in Cycle,
             pollStep(m, k) \/ pollFails(m, k) \/ applyFails(m, k) \/ reportFails(m, k)
      PROVE  UNCHANGED <<leader, terms>>
  BY <1>6
     DEF pollStep, claimNextPendingRecord, stopCycle, resolveVersions, findWorkflow, findPublishedVersion,
         deactivate, activate, report,
         advancePublishedVersion, pollFails, applyFails, reportFails
<1>7. ASSUME NEW m \in Main, NEW w \in Workflow, findById(m, w) \/ addNonWebhookTriggers(m, w)
      PROVE  UNCHANGED <<leader, terms>>
  BY <1>7 DEF findById, addNonWebhookTriggers
<1>8. QED
  BY <1>2, <1>3, <1>4, <1>5, <1>6, <1>7 DEF Next, vars

(* A main whose chains are all off takes no step of a chain. *)
LEMMA ChainStepIsLive ==
    ASSUME NEW m, NEW k,
           pollStep(m, k) \/ pollFails(m, k) \/ applyFails(m, k) \/ reportFails(m, k)
    PROVE  cycle[m][k].at # "off"
BY DEF pollStep, claimNextPendingRecord, stopCycle, resolveVersions, findWorkflow, findPublishedVersion,
       deactivate, activate, report,
       advancePublishedVersion, pollFails, applyFails, reportFails, Polls

LEMMA FirstStep == ASSUME Types, OutboxInv, First, [Next]_vars PROVE First'
<1> SUFFICES ASSUME FirstTerm'
             PROVE  /\ leader' = FirstLeader
                    /\ \A m \in Main, k \in Cycle : m # FirstLeader => cycle'[m][k].at = "off"
                    /\ \A m \in Main, w \in Workflow : loading'[m][w].at = "no"
                    /\ \A w \in Workflow : Never(w)' => w \notin removals'
  BY DEF First
<1>1. FirstTerm /\ leader' = leader /\ \A m \in Main : ~takeover(m) /\ ~stopPolling(m)
  BY FirstTermKept
<1>2. /\ leader = FirstLeader
      /\ \A m \in Main, k \in Cycle : m # FirstLeader => cycle[m][k].at = "off"
      /\ \A m \in Main, w \in Workflow : loading[m][w].at = "no"
      /\ \A w \in Workflow : Never(w) => w \notin removals
  BY <1>1 DEF First
<1>3. leader' = FirstLeader
  BY <1>1, <1>2
<1>4. \A m \in Main, k \in Cycle : m # FirstLeader => cycle'[m][k].at = "off"
  <2> SUFFICES ASSUME NEW m \in Main, NEW k \in Cycle, m # FirstLeader
               PROVE  cycle'[m][k].at = "off"
    OBVIOUS
  <2>1. cycle[m][k].at = "off" /\ Idle("off").at = "off"
    BY <1>2, IdleType
  <2>2. ASSUME NEW n \in Main, NEW j \in Cycle,
               pollStep(n, j) \/ pollFails(n, j) \/ applyFails(n, j) \/ reportFails(n, j)
        PROVE  n # m
    BY <1>2, <2>2, ChainStepIsLive
  <2>3. CycleType
    BY DEF Types
  <2>4. CASE cycle' = cycle
    BY <2>1, <2>4
  <2>5. ASSUME NEW n \in Main, NEW j \in Cycle,
               pollStep(n, j) \/ pollFails(n, j) \/ applyFails(n, j) \/ reportFails(n, j)
        PROVE  cycle'[m] = cycle[m]
    <3>1. n # m
      BY <2>2, <2>5
    <3>2. QED
      BY <2>3, <2>5, <3>1
         DEF pollStep, claimNextPendingRecord, stopCycle, resolveVersions, findWorkflow, findPublishedVersion,
             deactivate, activate, report,
             advancePublishedVersion, pollFails, applyFails, reportFails, Claim, Goes, Returns, CycleType
  <2>6. ASSUME NEW n \in Main, mainCrash(n) PROVE cycle'[m][k].at = "off"
    BY <2>1, <2>3, <2>6 DEF mainCrash, CycleType
  <2>7. ASSUME NEW w \in Workflow, publishViaOutbox(w) \/ deactivateWorkflow(w) \/ userStep(w)
        PROVE  cycle' = cycle
    BY <2>7
       DEF publishViaOutbox, deactivateWorkflow, userStep, clearActiveVersion,
           removePublishedVersion, handleRemoveNonWebhookTriggers
  <2>8. ASSUME NEW n \in Main, NEW w \in Workflow, findById(n, w) \/ addNonWebhookTriggers(n, w)
        PROVE  cycle' = cycle
    BY <2>8 DEF findById, addNonWebhookTriggers
  <2>9. QED
    BY <1>1, <2>1, <2>4, <2>5, <2>6, <2>7, <2>8 DEF Next, vars
<1>5. \A m \in Main, w \in Workflow : loading'[m][w].at = "no"
  <2> USE DEF triggerVars
  <2>1. CASE loading' = loading
    BY <1>2, <2>1
  <2>2. \A m \in Main, w \in Workflow : ~findById(m, w) /\ ~addNonWebhookTriggers(m, w)
    BY <1>2 DEF findById, addNonWebhookTriggers
  <2>3. ASSUME NEW n \in Main, mainCrash(n) PROVE \A m \in Main, w \in Workflow : loading'[m][w].at = "no"
    <3>1. \A w \in Workflow : NotLoading[w].at = "no"
      BY DEF NotLoading, Load
    <3>2. QED
      BY <1>2, <2>3, <3>1 DEF mainCrash, Types, LoadType
  <2>4. ASSUME NEW w \in Workflow, publishViaOutbox(w) \/ deactivateWorkflow(w) \/ userStep(w)
        PROVE  loading' = loading
    BY <2>4
       DEF publishViaOutbox, deactivateWorkflow, userStep, clearActiveVersion,
           removePublishedVersion, handleRemoveNonWebhookTriggers
  <2>5. ASSUME NEW m \in Main, NEW k \in Cycle,
               pollStep(m, k) \/ pollFails(m, k) \/ applyFails(m, k) \/ reportFails(m, k)
        PROVE  loading' = loading
    BY <2>5
       DEF pollStep, claimNextPendingRecord, stopCycle, resolveVersions, findWorkflow, findPublishedVersion,
           deactivate, activate, report,
           advancePublishedVersion, pollFails, applyFails, reportFails
  <2>6. QED
    BY <1>1, <2>1, <2>2, <2>3, <2>4, <2>5 DEF Next, vars
<1>6. \A w \in Workflow : Never(w)' => w \notin removals'
  <2> USE DEF userVars, Never
  <2>1. CASE UNCHANGED <<unpublishing, removals>>
    BY <1>2, <2>1
  <2>2. ASSUME NEW x \in Workflow, publishViaOutbox(x) \/ deactivateWorkflow(x) \/ userStep(x)
        PROVE  \A w \in Workflow : Never(w)' => w \notin removals'
    <3>1. DbType
      BY DEF Types
    <3>2. QED
      BY <1>2, <2>2, <3>1
         DEF publishViaOutbox, deactivateWorkflow, userStep, clearActiveVersion,
             removePublishedVersion, handleRemoveNonWebhookTriggers, DbType
  <2>3. ASSUME NEW m \in Main, NEW k \in Cycle,
               pollStep(m, k) \/ pollFails(m, k) \/ applyFails(m, k) \/ reportFails(m, k)
        PROVE  UNCHANGED <<unpublishing, removals>>
    BY <2>3
       DEF pollStep, claimNextPendingRecord, stopCycle, resolveVersions, findWorkflow, findPublishedVersion,
           deactivate, activate, report,
           advancePublishedVersion, pollFails, applyFails, reportFails
  <2>4. ASSUME NEW m \in Main, mainCrash(m) PROVE UNCHANGED <<unpublishing, removals>>
    BY <2>4 DEF mainCrash
  <2>5. ASSUME NEW m \in Main, NEW w \in Workflow, findById(m, w) \/ addNonWebhookTriggers(m, w)
        PROVE  UNCHANGED <<unpublishing, removals>>
    BY <2>5 DEF findById, addNonWebhookTriggers
  <2>6. QED
    BY <1>1, <2>1, <2>2, <2>3, <2>4, <2>5 DEF Next, vars
<1>7. QED
  BY <1>3, <1>4, <1>5, <1>6

SameTriggers(w) ==
    /\ triggers'[FirstLeader][w] = triggers[FirstLeader][w]
    /\ unclosed'[FirstLeader][w] = unclosed[FirstLeader][w]

(* In the first term the triggers of w change only by a chain that applies   *)
(* a record of w.                                                            *)
LEMMA TriggersKept ==
    ASSUME Types, OutboxInv, First, [Next]_vars, FirstTerm', NEW w \in Workflow, Never(w)',
           ~\E m \in Main, k \in Cycle : AppliesFor(m, k, w)
    PROVE  SameTriggers(w)
<1> USE DEF triggerVars, SameTriggers
<1>1. FirstTerm /\ leader' = leader /\ \A m \in Main : ~takeover(m) /\ ~stopPolling(m)
  BY FirstTermKept
<1>2. Never(w) /\ w \notin removals /\ leader = FirstLeader /\ FirstLeader \in Main
  BY <1>1, NeverStep, ConstantFacts DEF First
<1>3. TriggerType /\ UnclosedType
  BY DEF Types
<1>4. CASE UNCHANGED <<triggers, unclosed>>
  BY <1>4
<1>5. ASSUME NEW x \in Workflow, handleRemoveNonWebhookTriggers(x)
      PROVE  SameTriggers(w)
  <2>1. x # w
    BY <1>2, <1>5 DEF handleRemoveNonWebhookTriggers
  <2>2. QED
    BY <1>2, <1>3, <1>5, <2>1 DEF handleRemoveNonWebhookTriggers, TriggerType
<1>6. ASSUME NEW m \in Main, NEW k \in Cycle, deactivate(m, k) \/ activate(m, k) \/ applyFails(m, k)
      PROVE  SameTriggers(w)
  <2> DEFINE x == record(m, k).workflow
  <2>1. cycle[m][k].at \in Busy
    BY <1>6 DEF deactivate, activate, applyFails, Busy
  <2>2. x \in Workflow /\ x # w
    BY <1>6, <2>1, RecordOfChain DEF AppliesFor, Applies
  <2>3. \/ triggers' = triggers
        \/ \E ts : triggers' = [triggers EXCEPT ![m][x] = ts]
    BY <1>6 DEF deactivate, activate, applyFails, Deregister, Register, RollBack
  <2>4. \/ unclosed' = unclosed
        \/ \E ts : unclosed' = [unclosed EXCEPT ![m][x] = ts]
    BY <1>6 DEF deactivate, activate, applyFails, Deregister, Register, RollBack
  <2>5. triggers'[FirstLeader][w] = triggers[FirstLeader][w]
    BY <1>2, <1>3, <2>2, <2>3 DEF TriggerType
  <2>6. unclosed'[FirstLeader][w] = unclosed[FirstLeader][w]
    BY <1>2, <1>3, <2>2, <2>4 DEF UnclosedType
  <2>7. QED
    BY <2>5, <2>6
<1>7. \A m \in Main, x \in Workflow : ~addNonWebhookTriggers(m, x)
  BY <1>1 DEF First, addNonWebhookTriggers
<1>8. ASSUME NEW m \in Main, mainCrash(m)
      PROVE  SameTriggers(w)
  <2>1. m # FirstLeader
    BY <1>1, <1>2, <1>8 DEF mainCrash, FirstTerm
  <2>2. QED
    BY <1>2, <1>3, <1>8, <2>1 DEF mainCrash, TriggerType, UnclosedType
<1>9. ASSUME NEW x \in Workflow,
             \/ publishViaOutbox(x) \/ deactivateWorkflow(x) \/ clearActiveVersion(x)
             \/ removePublishedVersion(x)
      PROVE  UNCHANGED <<triggers, unclosed>>
  BY <1>9 DEF publishViaOutbox, deactivateWorkflow, clearActiveVersion, removePublishedVersion
<1>10. ASSUME NEW m \in Main, NEW k \in Cycle,
             \/ claimNextPendingRecord(m, k) \/ stopCycle(m, k) \/ resolveVersions(m, k)
             \/ advancePublishedVersion(m, k) \/ report(m, k) \/ pollFails(m, k)
             \/ reportFails(m, k)
      PROVE  UNCHANGED <<triggers, unclosed>>
  BY <1>10
     DEF claimNextPendingRecord, stopCycle, resolveVersions, findWorkflow, findPublishedVersion,
         advancePublishedVersion, report,
         pollFails, reportFails
<1>11. ASSUME NEW m \in Main, NEW x \in Workflow, findById(m, x) PROVE UNCHANGED <<triggers, unclosed>>
  BY <1>11 DEF findById
<1>12. QED
  BY <1>1, <1>4, <1>5, <1>6, <1>7, <1>8, <1>9, <1>10, <1>11 DEF Next, pollStep, userStep, vars

(* What a step is for a workflow that nobody has deactivated. *)
LEMMA WorkflowKinds ==
    ASSUME Types, OutboxInv, First, [Next]_vars, NEW w \in Workflow, Never(w)'
    PROVE  \/ /\ Undisturbed(w)
              /\ FirstTerm' => FirstTerm /\ SameTriggers(w)
           \/ \E m \in Main, k \in Cycle, i \in DOMAIN outbox : ClaimsFor(m, k, i, w)
           \/ \E m \in Main, k \in Cycle : AppliesFor(m, k, w)
<1> SUFFICES ASSUME ~\E m \in Main, k \in Cycle : AppliesFor(m, k, w)
             PROVE  \/ Undisturbed(w)
                    \/ \E m \in Main, k \in Cycle, i \in DOMAIN outbox : ClaimsFor(m, k, i, w)
  BY FirstTermKept, TriggersKept
<1>1. published'[w] = published[w]
  <2>1. ~\E m \in Main, k \in Cycle : advancePublishedVersion(m, k) /\ Applies(m, k, w)
    BY DEF AppliesFor
  <2>2. QED
    BY <2>1, NeverStep, PublishedChanges
<1>2. ASSUME NEW x \in Workflow, Requests(x) PROVE Undisturbed(w)
  BY <1>1, <1>2, RequestUndisturbed
<1>3. CASE Rests \/ \E m \in Main, k \in Cycle : Ceases(m, k)
  BY <1>1, <1>3, RestUndisturbed
<1>4. ASSUME NEW m \in Main, NEW k \in Cycle, Works(m, k) PROVE Undisturbed(w)
  <2>1. cycle[m][k].id \in DOMAIN outbox /\ outbox[cycle[m][k].id].workflow # w
    BY <1>4 DEF Works, Acts, AppliesFor, Applies, record, OutboxInv, ChainsInv
  <2>2. UNCHANGED outbox /\ \E c \in ChainState : Becomes(m, k, c) /\ c.id = cycle[m][k].id
    BY <1>4 DEF Works
  <2>3. QED
    BY <1>1, <2>1, <2>2, OtherUndisturbed
<1>5. ASSUME NEW m \in Main, NEW k \in Cycle, Reports(m, k) PROVE Undisturbed(w)
  <2>1. cycle[m][k].id \in DOMAIN outbox /\ outbox[cycle[m][k].id].workflow # w
    BY <1>5 DEF Reports, AppliesFor, Applies, record, OutboxInv, ChainsInv, Busy
  <2>2. QED
    BY <1>1, <1>5, <2>1, OtherUndisturbed
<1>6. ASSUME NEW m \in Main, NEW k \in Cycle, NEW i \in DOMAIN outbox, Claims(m, k, i)
      PROVE  Undisturbed(w) \/ ClaimsFor(m, k, i, w)
  <2>1. CASE outbox[i].workflow # w
    BY <1>1, <1>6, <2>1, OtherUndisturbed
  <2>2. CASE outbox[i].workflow = w
    BY <1>6, <2>2 DEF ClaimsFor, Claims, claimNextPendingRecord, triggerVars, leaderVars
  <2>3. QED
    BY <2>1, <2>2
<1>7. QED
  BY <1>2, <1>3, <1>4, <1>5, <1>6, ChainKinds
LEMMA RequestStep ==
    ASSUME Types, OutboxInv, [Next]_vars, NEW w \in Workflow, Never(w)', RequestInv(w)
    PROVE  RequestInv(w)'
<1>1. DbType /\ RecordsInv /\ LastExists
  BY DEF Types, OutboxInv
<1>2. DOMAIN outbox = 1..Len(outbox) /\ Len(outbox) \in Nat
  BY <1>1 DEF DbType
<1>3. ASSUME NEW x \in Workflow, Requests(x) PROVE RequestInv(w)'
  <2>1. publishes' \in Version /\ activeVersion' = [activeVersion EXCEPT ![x] = publishes']
    BY <1>1, <1>3, ConstantFacts DEF Requests, publishViaOutbox, DbType, Version
  <2>2. activeVersion'[w] = IF x = w THEN publishes' ELSE activeVersion[w]
    BY <1>1, <2>1 DEF DbType
  <2>3. CASE Added(x, publishes')
    <3> DEFINE n == Len(outbox) + 1
    <3>1. /\ DOMAIN outbox \subseteq DOMAIN outbox'
          /\ \A i \in DOMAIN outbox : outbox'[i] = outbox[i]
          /\ n \in DOMAIN outbox'
          /\ outbox'[n] = [workflow |-> x, version |-> publishes', status |-> "pending"]
          /\ \A j \in DOMAIN outbox' : j \in DOMAIN outbox \/ j = n
      BY <1>1, <1>3, <2>3, RecordsAdded DEF Requests
    <3>2. outbox'[n].workflow = x /\ outbox'[n].version = publishes'
      BY <3>1
    <3>3. QED
      BY <1>2, <2>2, <3>1, <3>2 DEF RequestInv
  <2>4. ASSUME NEW p \in DOMAIN outbox, Updated(x, publishes', p) PROVE RequestInv(w)'
    <3>1. /\ DOMAIN outbox' = DOMAIN outbox
          /\ \A i \in DOMAIN outbox : i # p => outbox'[i] = outbox[i]
          /\ outbox[p].workflow = x /\ outbox[p].status = "pending"
      BY <2>4 DEF Updated
    <3>2. outbox'[p].workflow = x /\ outbox'[p].version = publishes'
      <4>1. outbox[p] \in Record /\ outbox'[p] = [outbox[p] EXCEPT !.version = publishes']
        BY <1>1, <2>4, OutboxFacts DEF Updated
      <4>2. QED
        BY <2>1, <3>1, <4>1, VersionUpdate
    <3>3. \A i \in DOMAIN outbox : outbox[i].workflow = x => i <= p
      BY <1>1, <1>2, <3>1 DEF RecordsInv, Same
    <3>4. QED
      BY <1>2, <2>2, <3>1, <3>2, <3>3 DEF RequestInv
  <2>5. QED
    BY <1>1, <1>3, <2>1, <2>3, <2>4, RequestKinds DEF Requests
<1>4. ASSUME publishes' = publishes, DOMAIN outbox' = DOMAIN outbox,
             \A i \in DOMAIN outbox : /\ outbox'[i].workflow = outbox[i].workflow
                                      /\ outbox'[i].version = outbox[i].version
      PROVE  RequestInv(w)'
  <2>1. ~publishViaOutbox(w)
    BY <1>1, <1>4 DEF publishViaOutbox, DbType
  <2>2. activeVersion'[w] = activeVersion[w]
    BY <2>1, NeverStep
  <2>3. QED
    BY <1>4, <2>2 DEF RequestInv
<1>5. ASSUME NEW i \in DOMAIN outbox, NEW status \in Open \cup Terminal, Restatus(i, status),
             publishes' = publishes
      PROVE  RequestInv(w)'
  <2>1. outbox[i] \in Record /\ outbox'[i] = [outbox[i] EXCEPT !.status = status]
    BY <1>1, <1>5, OutboxFacts DEF Restatus
  <2>2. outbox'[i].workflow = outbox[i].workflow /\ outbox'[i].version = outbox[i].version
    BY <2>1, StatusUpdate
  <2>3. QED
    BY <1>4, <1>5, <2>2 DEF Restatus
<1>6. ASSUME NEW m \in Main, NEW k \in Cycle, Reports(m, k) PROVE RequestInv(w)'
  <2>1. cycle[m][k].id \in DOMAIN outbox /\ cycle[m][k].result \in Open \cup Terminal
    BY <1>6 DEF Reports, OutboxInv, ChainsInv, Busy
  <2>2. QED
    BY <1>5, <1>6, <2>1 DEF Reports
<1>7. ASSUME NEW m \in Main, NEW k \in Cycle, NEW i \in DOMAIN outbox, Claims(m, k, i)
      PROVE  RequestInv(w)'
  BY <1>5, <1>7 DEF Claims, Open
<1>8. QED
  BY <1>3, <1>4, <1>6, <1>7, ChainKinds DEF Rests, Ceases, Works

(* A workflow with a record that nobody has deactivated is active. *)
LEMMA RequestedIsActive ==
    ASSUME Types, OutboxInv, NEW w \in Workflow, RequestInv(w),
           NEW i \in DOMAIN outbox, outbox[i].workflow = w
    PROVE  activeVersion[w] # NoVersion
<1>1. PICK l \in DOMAIN outbox :
          outbox[l].workflow = w /\ \A j \in DOMAIN outbox : outbox[j].workflow = w => j <= l
  BY DEF OutboxInv, LastExists
<1>2. outbox[l].version = activeVersion[w] /\ outbox[l].version \in Version
  BY <1>1, OutboxFacts DEF RequestInv, Types
<1>3. QED
  BY <1>2, ConstantFacts

LEMMA UndisturbedStep ==
    ASSUME Types, OutboxInv, NEW w \in Workflow, PublishedInv(w), TriggersInv(w), Undisturbed(w),
           FirstTerm' => FirstTerm /\ SameTriggers(w)
    PROVE  PublishedInv(w)' /\ TriggersInv(w)'
<1>1. \A m \in Main, k \in Cycle : Applies(m, k, w)' =>
          /\ Applies(m, k, w) /\ cycle'[m][k] = cycle[m][k]
          /\ cycle[m][k].id \in DOMAIN outbox
          /\ outbox'[cycle[m][k].id].version = outbox[cycle[m][k].id].version
  BY DEF Undisturbed, Applies, record, OutboxInv, ChainsInv
<1>2. PublishedInv(w)'
  <2>1. \A m \in Main, k \in Cycle :
            Applies(m, k, w)' /\ Advanced(cycle[m][k])' => published'[w] = record(m, k).version'
    BY <1>1 DEF PublishedInv, Undisturbed, record, Advanced
  <2>2. ASSUME NEW i \in DOMAIN outbox', outbox'[i].workflow = w, outbox'[i].status = "completed",
               \A j \in DOMAIN outbox' : outbox'[j].workflow = w /\ i < j => outbox'[j].status = "pending"
        PROVE  published'[w] = outbox'[i].version
    <3>1. i \in DOMAIN outbox /\ outbox[i].workflow = w /\ outbox[i].status = "completed"
      BY <2>2 DEF Undisturbed
    <3>2. \A j \in DOMAIN outbox : outbox[j].workflow = w /\ i < j => outbox[j].status = "pending"
      BY <2>2 DEF Undisturbed
    <3>3. published[w] = outbox[i].version
      BY <3>1, <3>2 DEF PublishedInv
    <3>4. QED
      BY <3>1, <3>3 DEF Undisturbed
  <2>3. QED
    BY <2>1, <2>2 DEF PublishedInv
<1>3. TriggersInv(w)'
  <2> SUFFICES ASSUME FirstTerm',
                      \A i \in DOMAIN outbox' : outbox'[i].workflow = w => outbox'[i].status # "failed"
               PROVE  /\ (\A i \in DOMAIN outbox' : outbox'[i].workflow = w => outbox'[i].status # "in_progress")
                         => Holds(w, Enabled(published[w]))'
                      /\ \A m \in Main, k \in Cycle : Applies(m, k, w)' => Reconciling(w, cycle[m][k])'
    BY DEF TriggersInv
  <2>1. \A i \in DOMAIN outbox : outbox[i].workflow = w => outbox[i].status # "failed"
    BY DEF Undisturbed
  <2>2. (\A i \in DOMAIN outbox' : outbox'[i].workflow = w => outbox'[i].status # "in_progress")
        => Holds(w, Enabled(published[w]))'
    BY <2>1 DEF Undisturbed, TriggersInv, Holds, SameTriggers
  <2>3. ASSUME NEW m \in Main, NEW k \in Cycle, Applies(m, k, w)' PROVE Reconciling(w, cycle[m][k])'
    <3>1. Reconciling(w, cycle[m][k])
      BY <1>1, <2>1, <2>3 DEF TriggersInv
    <3>2. QED
      BY <1>1, <2>3, <3>1 DEF Reconciling, Undisturbed, Holds, SameTriggers
  <2>4. QED
    BY <2>2, <2>3
<1>4. QED
  BY <1>2, <1>3

LEMMA ClaimedStep ==
    ASSUME Types, OutboxInv, NEW w \in Workflow, PublishedInv(w), TriggersInv(w),
           NEW m \in Main, NEW k \in Cycle, NEW i \in DOMAIN outbox, ClaimsFor(m, k, i, w)
    PROVE  PublishedInv(w)' /\ TriggersInv(w)'
<1>1. /\ DOMAIN outbox' = DOMAIN outbox /\ outbox'[i].workflow = w
      /\ outbox'[i].status = "in_progress"
      /\ \A j \in DOMAIN outbox : j # i => outbox'[j] = outbox[j]
  <2>1. /\ outbox[i] \in Record /\ outbox'[i] = [outbox[i] EXCEPT !.status = "in_progress"]
        /\ outbox[i].workflow = w
    BY OutboxFacts DEF ClaimsFor, Claims, Restatus, Types
  <2>2. outbox'[i].status = "in_progress" /\ outbox'[i].workflow = w
    BY <2>1, StatusUpdate DEF Open
  <2>3. QED
    BY <2>2 DEF ClaimsFor, Claims, Restatus
<1>2. \A j \in DOMAIN outbox : outbox[j].workflow = w => outbox[j].status # "in_progress"
  BY DEF ClaimsFor, Claims, Claimable
<1>3. outbox[i].status = "pending" /\ outbox[i].workflow = w
  BY DEF ClaimsFor, Claims, Claimable, Pending
<1>4. cycle'[m][k].at = "resolve" /\ cycle'[m][k].id = i
  BY DEF ClaimsFor, Claims, Becomes, Idle
<1>5. \A n \in Main, j \in Cycle : Applies(n, j, w)' => n = m /\ j = k
  <2>1. Idle("off").at \notin Busy
    BY IdleType DEF Busy
  <2>2. \A n \in Main, j \in Cycle : cycle[n][j].at \in Busy =>
            /\ cycle[n][j].id \in DOMAIN outbox /\ outbox[cycle[n][j].id].workflow # w
            /\ cycle[n][j].id # i
    BY <1>2, <1>3 DEF OutboxInv, ChainsInv
  <2>3. \A n \in Main, j \in Cycle : n # m \/ j # k => cycle'[n][j] \in {cycle[n][j], Idle("off")}
    BY DEF ClaimsFor, Claims, Becomes
  <2>4. QED
    BY <1>1, <2>1, <2>2, <2>3 DEF Applies, record
<1>6. UNCHANGED <<published, triggers, unclosed, leader, terms>>
  BY DEF ClaimsFor
<1>7. PublishedInv(w)'
  <2>1. \A n \in Main, j \in Cycle : Applies(n, j, w)' => ~Advanced(cycle[n][j])'
    BY <1>4, <1>5 DEF Advanced
  <2>2. QED
    BY <1>1, <1>3, <1>6, <2>1 DEF PublishedInv
<1>8. TriggersInv(w)'
  <2>1. Reconciling(w, cycle[m][k])' <=> Holds(w, Enabled(published[w]))'
    BY <1>4 DEF Reconciling
  <2>2. (\A j \in DOMAIN outbox' : outbox'[j].workflow = w => outbox'[j].status # "failed") =>
            \A j \in DOMAIN outbox : outbox[j].workflow = w => outbox[j].status # "failed"
    BY <1>1, <1>3
  <2>3. FirstTerm' => FirstTerm
    BY <1>6 DEF FirstTerm
  <2>4. QED
    BY <1>1, <1>2, <1>5, <1>6, <2>1, <2>2, <2>3 DEF TriggersInv, Holds
<1>9. QED
  BY <1>7, <1>8
(* A chain that applies a record of w is the only one, and no completed      *)
(* record of w has only pending ones after it.                               *)
LEMMA ApplyReduces ==
    ASSUME Types, OutboxInv, NEW w \in Workflow, NEW m \in Main, NEW k \in Cycle,
           Applies(m, k, w), Works(m, k),
           Advanced(cycle[m][k])' => published'[w] = record(m, k).version,
           FirstTerm' /\ (\A i \in DOMAIN outbox : outbox[i].workflow = w => outbox[i].status # "failed")
               => Reconciling(w, cycle[m][k])'
    PROVE  PublishedInv(w)' /\ TriggersInv(w)'
<1> DEFINE a == cycle[m][k].id
<1>1. a \in DOMAIN outbox /\ outbox[a].workflow = w /\ outbox[a].status = "in_progress" /\ a \in Nat
  BY OutboxFacts DEF Applies, record, OutboxInv, ChainsInv, Types
<1>2. outbox' = outbox /\ cycle'[m][k].id = a
  BY DEF Works, Becomes
<1>3. \A n \in Main, j \in Cycle : Applies(n, j, w)' => n = m /\ j = k
  <2>1. Idle("off").at \notin Busy
    BY IdleType DEF Busy
  <2>2. \A n \in Main, j \in Cycle : n # m \/ j # k => cycle'[n][j] \in {cycle[n][j], Idle("off")}
    BY DEF Works, Becomes
  <2>3. \A n \in Main, j \in Cycle : (n # m \/ j # k) /\ Applies(n, j, w)' => Applies(n, j, w)
    BY <1>2, <2>1, <2>2 DEF Applies, record
  <2>4. QED
    BY <2>3, ChainsSerialized
<1>4. ASSUME NEW i \in DOMAIN outbox, outbox[i].workflow = w, outbox[i].status = "completed"
      PROVE  \E j \in DOMAIN outbox : outbox[j].workflow = w /\ i < j /\ outbox[j].status # "pending"
  <2>1. i \in Nat /\ Same(a, i)
    BY <1>1, <1>4, OutboxFacts DEF Same, Types
  <2>2. ~(a < i)
    BY <1>1, <1>4, <2>1 DEF OutboxInv, RecordsInv
  <2>3. i < a
    BY <1>1, <1>4, <2>1, <2>2
  <2>4. QED
    BY <1>1, <2>3
<1>5. PublishedInv(w)'
  BY <1>2, <1>3, <1>4 DEF PublishedInv, record
<1>6. TriggersInv(w)'
  BY <1>1, <1>2, <1>3 DEF TriggersInv
<1>7. QED
  BY <1>5, <1>6

(* In the first term it is the first leader that applies. *)
LEMMA FirstApplies ==
    ASSUME Types, OutboxInv, First, [Next]_vars, FirstTerm', NEW w \in Workflow, TriggersInv(w),
           NEW m \in Main, NEW k \in Cycle, Applies(m, k, w),
           \A i \in DOMAIN outbox : outbox[i].workflow = w => outbox[i].status # "failed"
    PROVE  m = FirstLeader /\ Reconciling(w, cycle[m][k])
<1>1. FirstTerm
  BY FirstTermKept
<1>2. cycle[m][k].at # "off"
  BY DEF Applies, Busy
<1>3. QED
  BY <1>1, <1>2 DEF First, TriggersInv

LEMMA AppliedStep ==
    ASSUME Types, OutboxInv, First, [Next]_vars,
           NEW w \in Workflow, RequestInv(w), PublishedInv(w), TriggersInv(w),
           NEW m \in Main, NEW k \in Cycle, Applies(m, k, w), Acts(m, k)
    PROVE  PublishedInv(w)' /\ TriggersInv(w)'
<1> DEFINE c == cycle[m][k]
           v == record(m, k).version
           Clean == \A i \in DOMAIN outbox : outbox[i].workflow = w => outbox[i].status # "failed"
<1>1. /\ record(m, k).workflow = w /\ v \in Version /\ c.old \in Version \cup {NoVersion}
      /\ outbox[c.id].version = v /\ c.id \in DOMAIN outbox /\ c.at \in Busy
      /\ c \in ChainState
  BY RecordOfChain DEF Applies, record, OutboxInv, ChainsInv, Types, CycleType
<1>2. Works(m, k)
  BY WorkKinds
<1>3. outbox' = outbox
  BY <1>2 DEF Works
<1>4. CycleType /\ TriggerType /\ UnclosedType /\ published \in [Workflow -> Version \cup {NoVersion}]
  BY DEF Types, DbType
<1>5. FirstTerm' /\ Clean => m = FirstLeader /\ Reconciling(w, c)
  BY FirstApplies
<1>6. ASSUME NEW result \in Terminal, Returns(m, k, result)
      PROVE  /\ cycle'[m][k].at = "report" /\ cycle'[m][k].result = result
             /\ cycle'[m][k].id = c.id /\ cycle'[m][k].old = c.old
  <2>1. Becomes(m, k, [c EXCEPT !.at = "report", !.result = result])
    BY <1>4, <1>6, ReturningChain
  <2>2. cycle'[m][k] = [c EXCEPT !.at = "report", !.result = result]
    BY <2>1 DEF Becomes
  <2>3. QED
    BY <1>1, <2>2 DEF ChainState
<1>7. ASSUME NEW at \in Busy, Goes(m, k, at)
      PROVE  cycle'[m][k].at = at /\ cycle'[m][k].id = c.id /\ cycle'[m][k].old = c.old
  <2>1. cycle'[m][k] = [c EXCEPT !.at = at]
    BY <1>4, <1>7, GoingChain DEF Becomes
  <2>2. QED
    BY <1>1, <2>1 DEF ChainState
<1> HIDE DEF c, v
<1> DEFINE Before == {"resolve", "needsOld", "needsWorkflow"}
           Read(x) == x.at \in {"needsWorkflow", "deactivate", "advance"} => x.old = published[w]
<1>8. ASSUME c.at \in Before, UNCHANGED <<published, triggers, unclosed>>,
             cycle'[m][k].id = c.id,
             \/ cycle'[m][k].at \in Before
             \/ cycle'[m][k].at = Diffed(cycle'[m][k].old, v),
             Read(c) => Read(cycle'[m][k])
      PROVE  PublishedInv(w)' /\ TriggersInv(w)'
  <2>1. ~Advanced(cycle[m][k])'
    BY <1>8 DEF Advanced, Diffed
  <2>2. \A old : toRemove(old, v) = {} => Removed(Enabled(old), toRemove(old, v)) = Enabled(old)
    BY DEF Removed
  <2>3. FirstTerm' /\ Clean => Reconciling(w, cycle[m][k])'
    <3>1. FirstTerm' /\ Clean => Holds(w, Enabled(published[w])) /\ Read(c)
      BY <1>5, <1>8 DEF Reconciling
    <3>2. FirstTerm' /\ Clean => Holds(w, Enabled(published[w]))' /\ Read(cycle'[m][k])
      BY <1>8, <3>1 DEF Holds
    <3>3. CASE cycle'[m][k].at \in Before
      BY <1>8, <3>2, <3>3 DEF Reconciling
    <3>4. CASE cycle'[m][k].at = "deactivate"
      BY <1>8, <3>2, <3>4 DEF Reconciling
    <3>5. CASE cycle'[m][k].at = "advance" /\ toRemove(cycle'[m][k].old, v) = {}
      <4>1. outbox'[cycle'[m][k].id].version = v
        BY <1>1, <1>3, <1>8
      <4>2. QED
        BY <1>8, <2>2, <3>2, <3>5, <4>1 DEF Reconciling
    <3>6. QED
      BY <1>8, <3>3, <3>4, <3>5 DEF Diffed
  <2>4. QED
    BY <1>2, <2>1, <2>3, ApplyReduces
<1>9. CASE findWorkflow(m, k)
  <2>1. activeVersion[w] # NoVersion
    BY <1>1, RequestedIsActive DEF record, c
  <2>2. /\ c.at \in {"resolve", "needsWorkflow"} /\ UNCHANGED <<published, triggers, unclosed>>
        /\ Goes(m, k, IF c.at = "resolve" THEN "needsOld" ELSE Diffed(c.old, v))
    BY <1>1, <1>9, <2>1 DEF findWorkflow, dbVars, triggerVars, c, v
  <2>3. /\ cycle'[m][k].at = IF c.at = "resolve" THEN "needsOld" ELSE Diffed(c.old, v)
        /\ cycle'[m][k].id = c.id /\ cycle'[m][k].old = c.old
    BY <1>7, <2>2 DEF Diffed, Busy
  <2>4. QED
    BY <1>8, <2>2, <2>3 DEF Diffed
<1>10. CASE findPublishedVersion(m, k)
  <2> DEFINE old == published[w]
             at == IF c.at = "resolve" THEN "needsWorkflow" ELSE Diffed(old, v)
  <2>1. /\ c.at \in {"resolve", "needsOld"} /\ UNCHANGED <<published, triggers, unclosed>>
        /\ cycle' = [cycle EXCEPT ![m][k].old = old, ![m][k].at = at]
    <3>1. /\ c.at \in {"resolve", "needsOld"} /\ UNCHANGED <<published, triggers, unclosed>>
      BY <1>10 DEF findPublishedVersion, dbVars, triggerVars, c
    <3>2. cycle' = [cycle EXCEPT ![m][k].old = old, ![m][k].at = at]
      BY <1>1, <1>4, <1>10 DEF findPublishedVersion, CycleType, ChainState, c, v
    <3>3. QED
      BY <3>1, <3>2
  <2>2. cycle'[m][k] = [c EXCEPT !.old = old, !.at = at]
    BY <1>4, <2>1 DEF CycleType, c
  <2>3. cycle'[m][k].old = old /\ cycle'[m][k].id = c.id /\ cycle'[m][k].at = at
    BY <1>1, <2>2 DEF ChainState
  <2>4. QED
    BY <1>8, <2>1, <2>3
<1>11. CASE deactivate(m, k)
  <2>1. /\ c.at = "deactivate" /\ published' = published /\ Goes(m, k, "advance")
        /\ Deregister(m, w, toRemove(c.old, v))
    BY <1>1, <1>11 DEF deactivate, dbVars, c, v
  <2>2. cycle'[m][k].at = "advance" /\ cycle'[m][k].id = c.id /\ cycle'[m][k].old = c.old
    BY <1>7, <2>1 DEF Busy
  <2>3. triggers'[m][w] = Removed(triggers[m][w], toRemove(c.old, v)) /\ unclosed' = unclosed
    <3>1. Registers(m, w, Removed(triggers[m][w], toRemove(c.old, v)))
      BY <1>4, <2>1, DeregisterUpdate
    <3>2. triggers'[m][w] = Removed(triggers[m][w], toRemove(c.old, v))
      BY <3>1 DEF Registers
    <3>3. unclosed' = unclosed
      BY <2>1 DEF Deregister
    <3>4. QED
      BY <3>2, <3>3
  <2>4. ~Advanced(cycle[m][k])'
    BY <2>2 DEF Advanced
  <2>5. FirstTerm' /\ Clean => Reconciling(w, cycle[m][k])'
    <3>1. FirstTerm' /\ Clean => m = FirstLeader /\ c.old = published[w]
                                 /\ Holds(w, Enabled(published[w]))
      BY <1>5, <2>1 DEF Reconciling
    <3>2. QED
      BY <1>1, <1>3, <2>1, <2>2, <2>3, <3>1 DEF Reconciling, Holds
  <2>6. QED
    BY <1>2, <2>4, <2>5, ApplyReduces
<1>12. CASE advancePublishedVersion(m, k)
  <2>1. /\ c.at = "advance" /\ published' = [published EXCEPT ![w] = v]
        /\ UNCHANGED <<triggers, unclosed>>
        /\ IF Enabled(c.old) = Enabled(v)
           THEN Returns(m, k, "completed") ELSE Goes(m, k, "activate")
    BY <1>1, <1>12 DEF advancePublishedVersion, triggerVars, c, v
  <2>2. published'[w] = v
    BY <1>4, <2>1
  <2>3. /\ cycle'[m][k].id = c.id /\ cycle'[m][k].old = c.old
        /\ \/ cycle'[m][k].at = "activate"
           \/ cycle'[m][k].at = "report" /\ Enabled(c.old) = Enabled(v)
    BY <1>6, <1>7, <2>1 DEF Busy, Terminal
  <2>4. Enabled(c.old) = Enabled(v) => Removed(Enabled(c.old), toRemove(c.old, v)) = Enabled(v)
    <3>1. c.old \in Version \cup {NoVersion} /\ v \in Version \cup {NoVersion}
      BY <1>1
    <3>2. Removed(Enabled(c.old), toRemove(c.old, v)) = Enabled(c.old) \cap Enabled(v)
      BY <3>1, DiffReconciles
    <3>3. QED
      BY <3>2
  <2>5. FirstTerm' /\ Clean => Reconciling(w, cycle[m][k])'
    <3>1. FirstTerm' /\ Clean =>
              Holds(w, Removed(Enabled(c.old), toRemove(c.old, v)))
      BY <1>1, <1>5, <2>1 DEF Reconciling
    <3>2. UNCHANGED <<triggers, unclosed>>
      BY <2>1
    <3>3. CASE cycle'[m][k].at = "activate"
      BY <1>1, <1>3, <2>2, <2>3, <3>1, <3>2, <3>3 DEF Reconciling, Holds
    <3>4. CASE cycle'[m][k].at = "report" /\ Enabled(c.old) = Enabled(v)
      BY <1>1, <1>3, <2>2, <2>3, <2>4, <3>1, <3>2, <3>4 DEF Reconciling, Holds
    <3>5. QED
      BY <2>3, <3>3, <3>4
  <2>6. QED
    BY <1>2, <2>2, <2>5, ApplyReduces DEF v
<1>13. CASE activate(m, k)
  <2>1. /\ c.at = "activate" /\ published' = published /\ Returns(m, k, "completed")
        /\ Register(m, w, toAdd(c.old, v))
    BY <1>1, <1>13 DEF activate, dbVars, c, v
  <2>2. /\ cycle'[m][k].at = "report" /\ cycle'[m][k].result = "completed"
        /\ cycle'[m][k].id = c.id /\ cycle'[m][k].old = c.old
    BY <1>6, <2>1 DEF Terminal
  <2>3. published[w] = v
    BY <2>1 DEF PublishedInv, Advanced, c, v
  <2>4. toAdd(c.old, v) \in SUBSET Trigger /\ OnePerNode(toAdd(c.old, v))
    BY <1>1, AddedProperties
  <2>5. triggers'[m][w] =
            Removed(triggers[m][w], {t.node : t \in toAdd(c.old, v)}) \cup toAdd(c.old, v)
    <3>1. Registers(m, w, Removed(triggers[m][w], {t.node : t \in toAdd(c.old, v)}) \cup toAdd(c.old, v))
      BY <1>4, <2>1, <2>4, RegisterUpdate
    <3>2. QED
      BY <3>1 DEF Registers
  <2>6. FirstTerm' /\ Clean => Reconciling(w, cycle[m][k])'
    <3>1. FirstTerm' /\ Clean =>
              m = FirstLeader /\ Holds(w, Removed(Enabled(c.old), toRemove(c.old, v)))
      BY <1>1, <1>5, <2>1 DEF Reconciling
    <3> DEFINE kept == Removed(Enabled(c.old), toRemove(c.old, v))
               added == toAdd(c.old, v)
    <3>2. /\ Removed(kept, {t.node : t \in added}) \cup added = Enabled(v)
          /\ {t \in kept : t.node \in {s.node : s \in added}} = {}
      BY <1>1, DiffReconciles
    <3>3. unclosed'[m][w] = unclosed[m][w] \cup
              {t \in triggers[m][w] : t.node \in {s.node : s \in added}}
      <4>1. unclosed' = [unclosed EXCEPT ![m][w] = @ \cup
                            {t \in triggers[m][w] : t.node \in {s.node : s \in added}}]
        BY <2>1 DEF Register
      <4>2. QED
        BY <1>4, <4>1 DEF UnclosedType
    <3> HIDE DEF kept, added
    <3>4. FirstTerm' /\ Clean => m = FirstLeader /\ triggers[m][w] = kept /\ unclosed[m][w] = {}
      BY <3>1 DEF Holds, kept
    <3>5. triggers'[m][w] = Removed(triggers[m][w], {t.node : t \in added}) \cup added
      BY <2>5 DEF added
    <3>6. FirstTerm' /\ Clean => triggers'[m][w] = Enabled(v) /\ unclosed'[m][w] = {}
      BY <3>2, <3>3, <3>4, <3>5
    <3>7. published'[w] = v
      BY <2>1, <2>3
    <3>8. FirstTerm' /\ Clean => Holds(w, Enabled(published[w]))'
      BY <3>4, <3>6, <3>7 DEF Holds
    <3>9. QED
      BY <2>2, <3>8 DEF Reconciling
  <2>7. QED
    BY <1>2, <2>1, <2>3, <2>6, ApplyReduces DEF v
<1>14. CASE applyFails(m, k)
  <2>1. cycle'[m][k].at = "report" /\ cycle'[m][k].result = "failed"
    BY <1>6, <1>14 DEF applyFails, Terminal
  <2>2. ~Advanced(cycle[m][k])' /\ Reconciling(w, cycle[m][k])'
    BY <2>1 DEF Advanced, Reconciling
  <2>3. QED
    BY <1>2, <2>2, ApplyReduces
<1>15. QED
  BY <1>9, <1>10, <1>11, <1>12, <1>13, <1>14 DEF Acts, resolveVersions

LEMMA ReportedStep ==
    ASSUME Types, OutboxInv, First, [Next]_vars, NEW w \in Workflow, PublishedInv(w), TriggersInv(w),
           NEW m \in Main, NEW k \in Cycle, Applies(m, k, w), report(m, k)
    PROVE  PublishedInv(w)' /\ TriggersInv(w)'
<1> DEFINE a == cycle[m][k].id
           r == cycle[m][k].result
<1>1. /\ a \in DOMAIN outbox /\ outbox[a].workflow = w /\ outbox[a].status = "in_progress"
      /\ a \in Nat /\ r \in Terminal /\ cycle[m][k].at = "report" /\ DbType /\ CycleType
  BY OutboxFacts DEF Applies, record, OutboxInv, ChainsInv, Types, report
<1>2. /\ outbox' = [outbox EXCEPT ![a].status = r] /\ UNCHANGED <<published, triggers, unclosed>>
      /\ cycle' = [cycle EXCEPT ![m][k] = Idle("claim")]
  BY DEF report, triggerVars
<1> HIDE DEF a, r
<1>3. /\ DOMAIN outbox' = DOMAIN outbox /\ outbox'[a].workflow = w
      /\ outbox'[a].status = r /\ outbox'[a].version = outbox[a].version
      /\ \A j \in DOMAIN outbox : j # a => outbox'[j] = outbox[j]
  <2>1. Restatus(a, r)
    BY <1>1, <1>2, RestatusStep
  <2>2. outbox[a] \in Record /\ outbox'[a] = [outbox[a] EXCEPT !.status = r]
    BY <1>1, <2>1, OutboxFacts DEF Restatus
  <2>3. outbox'[a].workflow = w /\ outbox'[a].status = r /\ outbox'[a].version = outbox[a].version
    BY <1>1, <2>2, StatusUpdate
  <2>4. QED
    BY <2>1, <2>3 DEF Restatus
<1>4. \A n \in Main, j \in Cycle : ~Applies(n, j, w)'
  <2>1. Idle("claim").at \notin Busy /\ Idle("claim") \in ChainState
    BY IdleType DEF Busy
  <2>2. cycle'[m][k].at \notin Busy
    BY <1>1, <1>2, <2>1 DEF CycleType
  <2>3. \A n \in Main, j \in Cycle : n # m \/ j # k => cycle'[n][j] = cycle[n][j]
    BY <1>1, <1>2 DEF CycleType
  <2>4. \A n \in Main, j \in Cycle : cycle[n][j].at \in Busy => cycle[n][j].id \in DOMAIN outbox
    BY DEF OutboxInv, ChainsInv
  <2>5. \A n \in Main, j \in Cycle : (n # m \/ j # k) /\ Applies(n, j, w)' => Applies(n, j, w)
    BY <1>1, <1>3, <2>3, <2>4 DEF Applies, record
  <2>6. QED
    BY <2>2, <2>5, ChainsSerialized DEF Applies
<1>5. PublishedInv(w)'
  <2> SUFFICES ASSUME NEW i \in DOMAIN outbox, outbox'[i].workflow = w, outbox'[i].status = "completed",
                      \A j \in DOMAIN outbox : outbox'[j].workflow = w /\ i < j => outbox'[j].status = "pending"
               PROVE  published[w] = outbox'[i].version
    BY <1>2, <1>3, <1>4 DEF PublishedInv
  <2>1. CASE i = a
    <3>1. Advanced(cycle[m][k])
      BY <1>1, <1>3, <2>1 DEF Advanced, r
    <3>2. QED
      BY <1>3, <2>1, <3>1 DEF PublishedInv, record, a
  <2>2. CASE i # a
    <3>1. i \in Nat /\ Same(a, i) /\ outbox[i].status = "completed"
      BY <1>1, <1>3, <2>2, OutboxFacts DEF Same
    <3>2. ~(a < i)
      BY <1>1, <3>1 DEF OutboxInv, RecordsInv
    <3>3. i < a
      BY <1>1, <2>2, <3>1, <3>2
    <3>4. outbox'[a].status = "pending"
      BY <1>1, <1>3, <3>3
    <3>5. QED
      BY <1>1, <1>3, <3>4 DEF Terminal
  <2>3. QED
    BY <2>1, <2>2
<1>6. TriggersInv(w)'
  <2> SUFFICES ASSUME FirstTerm',
                      \A i \in DOMAIN outbox : outbox'[i].workflow = w => outbox'[i].status # "failed"
               PROVE  Holds(w, Enabled(published[w]))
    BY <1>2, <1>3, <1>4 DEF TriggersInv, Holds
  <2>1. r = "completed"
    BY <1>1, <1>3 DEF Terminal
  <2>2. \A i \in DOMAIN outbox : outbox[i].workflow = w => outbox[i].status # "failed"
    BY <1>1, <1>3
  <2>3. Reconciling(w, cycle[m][k])
    BY <2>2, FirstApplies
  <2>4. QED
    BY <1>1, <2>1, <2>3 DEF Reconciling, r
<1>7. QED
  BY <1>5, <1>6

LEMMA FollowInit == Init => FollowInv
<1> SUFFICES ASSUME Init PROVE FollowInv
  OBVIOUS
<1>1. DOMAIN outbox = {} /\ FirstLeader \in Main
  BY ConstantFacts DEF Init
<1>2. \A m \in Main, k \in Cycle :
          cycle[m][k].at \notin Busy /\ (m # FirstLeader => cycle[m][k].at = "off")
  BY DEF Init, Idle, Busy
<1>3. First
  BY <1>2 DEF First, Init, NotLoading, Load
<1>4. \A w \in Workflow :
          published[w] = NoVersion /\ activeVersion[w] = NoVersion /\ Holds(w, {})
  BY <1>1 DEF Init, Nothing, Holds
<1>5. QED
  BY <1>1, <1>2, <1>3, <1>4 DEF FollowInv, RequestInv, PublishedInv, TriggersInv, Applies, Enabled

LEMMA FollowStep == PubInv /\ FollowInv /\ [Next]_vars => FollowInv'
<1> SUFFICES ASSUME Types, OutboxInv, FollowInv, [Next]_vars PROVE FollowInv'
  BY DEF PubInv
<1>1. First /\ First'
  BY FirstStep DEF FollowInv
<1>2. ASSUME NEW w \in Workflow, Never(w)'
      PROVE  RequestInv(w)' /\ PublishedInv(w)' /\ TriggersInv(w)'
  <2>1. RequestInv(w) /\ PublishedInv(w) /\ TriggersInv(w)
    BY <1>2, NeverStep DEF FollowInv
  <2>2. RequestInv(w)'
    BY <1>2, <2>1, RequestStep
  <2>3. ASSUME NEW m \in Main, NEW k \in Cycle, AppliesFor(m, k, w)
        PROVE  PublishedInv(w)' /\ TriggersInv(w)'
    BY <1>1, <2>1, <2>3, AppliedStep, ReportedStep DEF AppliesFor, Acts
  <2>4. QED
    BY <1>1, <1>2, <2>1, <2>2, <2>3, WorkflowKinds, UndisturbedStep, ClaimedStep
<1>3. QED
  BY <1>1, <1>2 DEF FollowInv

(* Once every request for a workflow that nobody deactivates has completed,  *)
(* the requested version is the published one, and while the first leader    *)
(* leads its memory holds exactly the triggers of that version and none that *)
(* addTriggers() has overwritten runs on: what computeTriggerDiff() removes  *)
(* and adds, in whatever order requests, claims and steps of other workflows *)
(* come in between, is all there is to do.                                   *)
THEOREM SettledWorkflowsPublished == Spec => []SettledIsPublished
<1>1. PubInv /\ FollowInv => SettledIsPublished
  <2> SUFFICES ASSUME Types, OutboxInv, FollowInv, NEW w \in Workflow, Settled(w)
               PROVE  /\ published[w] = activeVersion[w]
                      /\ terms = 1 /\ leader # NoMain =>
                             triggers[leader][w] = TriggersOf[published[w]] /\ unclosed[leader][w] = {}
    BY DEF PubInv, SettledIsPublished
  <2>1. First /\ RequestInv(w) /\ PublishedInv(w) /\ TriggersInv(w)
    BY DEF FollowInv, Settled, Never
  <2>2. \E i \in DOMAIN outbox : outbox[i].workflow = w
    BY <2>1 DEF RequestInv, Settled
  <2>3. PICK l \in DOMAIN outbox :
            outbox[l].workflow = w /\ \A j \in DOMAIN outbox : outbox[j].workflow = w => j <= l
    BY <2>2 DEF OutboxInv, LastExists
  <2>4. \A j \in DOMAIN outbox : outbox[j].workflow = w => ~(l < j)
    BY <2>3, OutboxFacts DEF Types
  <2>5. published[w] = activeVersion[w]
    BY <2>1, <2>3, <2>4 DEF RequestInv, PublishedInv, Settled
  <2>6. FirstTerm => triggers[leader][w] = Enabled(published[w]) /\ unclosed[leader][w] = {}
    BY <2>1 DEF First, TriggersInv, Settled, Holds
  <2>7. QED
    BY <2>5, <2>6 DEF Settled, Enabled, FirstTerm
<1>2. QED
  BY <1>1, PublicationInvariant, FollowInit, FollowStep, PTL DEF Spec
=============================================================================
