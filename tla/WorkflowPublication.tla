------------------------ MODULE WorkflowPublication ------------------------
(***************************************************************************)
(* The workflow publication outbox: publish and deactivate requests        *)
(* (workflow.service.ts), the outbox table, the consumer that polls on the *)
(* leader, the applier that reconciles the triggers of a workflow with the *)
(* version to publish, the reporter, and the triggers a main registers     *)
(* when it becomes leader (active-workflow-manager.ts).                    *)
(*                                                                         *)
(* Versions are numbered in the order in which they are published.  Of the *)
(* triggers, the ones kept in the memory of the leader are modelled: a set *)
(* of [node, params], with one element per node.                           *)
(***************************************************************************)
EXTENDS Integers, Sequences, FiniteSets

CONSTANTS
    Main,
    Workflow,
    NoMain,
    FirstLeader,  \* the main that leads at the start
    TriggersOf,   \* TriggersOf[v]: the enabled trigger nodes of version v
    MaxPublishes, \* bound: requests to publish
    MaxTerms,     \* bound: leaders, one after the other
    MaxErrors     \* bound: records for which apply() or report() fails

Version == 1..MaxPublishes
NoVersion == 0

ASSUME PublicationAssumption ==
    /\ NoMain \notin Main /\ FirstLeader \in Main
    /\ MaxPublishes \in Nat /\ MaxTerms \in Nat \ {0} /\ MaxErrors \in Nat
    /\ DOMAIN TriggersOf = Version
    /\ \A v \in Version : \A s, t \in TriggersOf[v] : s.node = t.node => s = t

(* startPolling() adds a chain of poll cycles; a main has one per term. *)
Cycle == 1..MaxTerms

VARIABLES
    activeVersion, \* workflow_entity.activeVersionId
    published,     \* workflow_published_version
    outbox,        \* workflow_publication_outbox: the records by id
    publishes,     \* how many versions have been requested
    unpublishing,  \* deactivateWorkflow() of a workflow: its next step
    removals,      \* remove-triggers-and-pollers commands on their way
    leader,
    terms,
    up,
    polling,       \* isPolling of a main
    cycle,         \* cycle[m][k]: what a chain of poll cycles is doing
    triggers,      \* triggers[m][w]: what is registered in memory
    unclosed,      \* unclosed[m][w]: triggers that run on without being registered
    loading,       \* loading[m][w]: addActiveWorkflows() of a new leader
    errors

dbVars == <<activeVersion, published, outbox, publishes>>
userVars == <<unpublishing, removals>>
leaderVars == <<leader, terms, up, polling>>
triggerVars == <<triggers, unclosed, loading>>
vars == <<dbVars, userVars, leaderVars, cycle, triggerVars, errors>>

Open == {"pending", "in_progress"}
Terminal == {"completed", "failed"}
Record == [workflow : Workflow, version : Version, status : Open \cup Terminal]

Idle(at) == [at |-> at, id |-> 0, old |-> NoVersion, result |-> "none"]
Busy == {"resolve", "needsOld", "needsWorkflow", "deactivate", "advance", "activate", "report"}

Nothing == [w \in Workflow |-> {}]

Load(at, v) == [at |-> at, version |-> v]
NotLoading == [w \in Workflow |-> Load("no", NoVersion)]

Init ==
    /\ activeVersion = [w \in Workflow |-> NoVersion]
    /\ published = [w \in Workflow |-> NoVersion]
    /\ outbox = <<>> /\ publishes = 0
    /\ unpublishing = [w \in Workflow |-> "never"] /\ removals = {}
    /\ leader = FirstLeader /\ terms = 1 /\ up = Main
    /\ polling = [m \in Main |-> m = leader]
    /\ cycle = [m \in Main |-> [k \in Cycle |-> Idle(IF m = leader /\ k = 1 THEN "armed" ELSE "off")]]
    /\ triggers = [m \in Main |-> Nothing] /\ unclosed = [m \in Main |-> Nothing]
    /\ loading = [m \in Main |-> NotLoading]
    /\ errors = 0

Error == errors < MaxErrors /\ errors' = errors + 1

-----------------------------------------------------------------------------
(* Requests of users. *)

(* The upsert on the partial unique index: the pending record of a workflow  *)
(* takes the new version.                                                    *)
enqueue(w, v) ==
    LET pending == {i \in DOMAIN outbox : outbox[i].workflow = w /\ outbox[i].status = "pending"}
    IN  outbox' = IF pending = {}
                  THEN Append(outbox, [workflow |-> w, version |-> v, status |-> "pending"])
                  ELSE [i \in DOMAIN outbox |->
                           IF i \in pending THEN [outbox[i] EXCEPT !.version = v] ELSE outbox[i]]

(* activateWorkflow() with _publishViaOutbox(): one transaction. *)
publishViaOutbox(w) ==
    /\ publishes < MaxPublishes
    /\ publishes' = publishes + 1
    /\ activeVersion' = [activeVersion EXCEPT ![w] = publishes']
    /\ enqueue(w, publishes')
    /\ UNCHANGED <<published, userVars, leaderVars, cycle, triggerVars, errors>>

(* deactivateWorkflow(): the leader is told to remove the triggers, ... *)
deactivateWorkflow(w) ==
    /\ unpublishing[w] \in {"never", "done"} /\ activeVersion[w] # NoVersion
    /\ unpublishing' = [unpublishing EXCEPT ![w] = "row"]
    /\ removals' = removals \cup {w}
    /\ UNCHANGED <<dbVars, leaderVars, cycle, triggerVars, errors>>

(* ... the row is updated, ... *)
clearActiveVersion(w) ==
    /\ unpublishing[w] = "row"
    /\ unpublishing' = [unpublishing EXCEPT ![w] = "published"]
    /\ activeVersion' = [activeVersion EXCEPT ![w] = NoVersion]
    /\ UNCHANGED <<published, outbox, publishes, removals, leaderVars, cycle, triggerVars, errors>>

(* ... and the published version is removed. *)
removePublishedVersion(w) ==
    /\ unpublishing[w] = "published"
    /\ unpublishing' = [unpublishing EXCEPT ![w] = "done"]
    /\ published' = [published EXCEPT ![w] = NoVersion]
    /\ UNCHANGED <<activeVersion, outbox, publishes, removals, leaderVars, cycle, triggerVars, errors>>

(* The command reaches the leader; without one nobody handles it. *)
handleRemoveNonWebhookTriggers(w) ==
    /\ w \in removals
    /\ removals' = removals \ {w}
    /\ triggers' = [m \in Main |-> IF m = leader THEN [triggers[m] EXCEPT ![w] = {}] ELSE triggers[m]]
    /\ UNCHANGED <<dbVars, unpublishing, leaderVars, cycle, unclosed, loading, errors>>

-----------------------------------------------------------------------------
(* The consumer. *)

(* schedulePollCycle(): the timer of a main is replaced; a chain that was    *)
(* waiting for the old one ends.                                             *)
Scheduled(m, k) ==
    [j \in Cycle |-> IF j = k THEN Idle("armed")
                     ELSE IF cycle[m][j].at = "armed" THEN Idle("off") ELSE cycle[m][j]]

Oldest(ids) == CHOOSE i \in ids : \A j \in ids : i <= j

Pending == {i \in DOMAIN outbox : outbox[i].status = "pending"}

(* Pending records whose workflow has none in progress. *)
Claimable ==
    {i \in Pending : \A j \in DOMAIN outbox :
        outbox[j].workflow = outbox[i].workflow => outbox[j].status # "in_progress"}

Claim(m, k, i) ==
    /\ outbox' = [outbox EXCEPT ![i].status = "in_progress"]
    /\ cycle' = [cycle EXCEPT ![m][k] = [Idle("resolve") EXCEPT !.id = i]]

Polls(m, k) == cycle[m][k].at = "armed" \/ (cycle[m][k].at = "claim" /\ polling[m])

(* A claim that does not look for records in progress. *)
claimPending(m, k) ==
    /\ Polls(m, k)
    /\ IF Pending = {}
       THEN outbox' = outbox /\ cycle' = [cycle EXCEPT ![m] = Scheduled(m, k)]
       ELSE Claim(m, k, Oldest(Pending))
    /\ UNCHANGED <<activeVersion, published, publishes, userVars, leaderVars, triggerVars, errors>>

(* A poll cycle that schedules no other one when it finds nothing. *)
claimUntilEmpty(m, k) ==
    /\ Polls(m, k)
    /\ IF Claimable = {}
       THEN outbox' = outbox /\ cycle' = [cycle EXCEPT ![m][k] = Idle("off")]
       ELSE Claim(m, k, Oldest(Claimable))
    /\ UNCHANGED <<activeVersion, published, publishes, userVars, leaderVars, triggerVars, errors>>

(* The timer fires, or a record has been processed: the oldest pending       *)
(* record whose workflow has none in progress is claimed.                    *)
claimNextPendingRecord(m, k) ==
    /\ Polls(m, k)
    /\ IF Claimable = {}
       THEN outbox' = outbox /\ cycle' = [cycle EXCEPT ![m] = Scheduled(m, k)]
       ELSE Claim(m, k, Oldest(Claimable))
    /\ UNCHANGED <<activeVersion, published, publishes, userVars, leaderVars, triggerVars, errors>>

(* The claim fails: the next cycle is scheduled. *)
pollFails(m, k) ==
    /\ Polls(m, k)
    /\ cycle' = [cycle EXCEPT ![m] = Scheduled(m, k)]
    /\ UNCHANGED <<dbVars, userVars, leaderVars, triggerVars, errors>>

(* A chain that finds polling stopped ends. *)
stopCycle(m, k) ==
    /\ cycle[m][k].at = "claim" /\ ~polling[m]
    /\ cycle' = [cycle EXCEPT ![m][k] = Idle("off")]
    /\ UNCHANGED <<dbVars, userVars, leaderVars, triggerVars, errors>>

(* What chain k of m works on. *)
record(m, k) == outbox[cycle[m][k].id]

Goes(m, k, at) == cycle' = [cycle EXCEPT ![m][k].at = at]

Returns(m, k, result) == cycle' = [cycle EXCEPT ![m][k].at = "report", ![m][k].result = result]

(* computeTriggerDiff(): a node that has changed is removed and added. *)
Enabled(v) == IF v = NoVersion THEN {} ELSE TriggersOf[v]
toRemove(old, new) == {t.node : t \in Enabled(old) \ Enabled(new)}
toAdd(old, new) == Enabled(new) \ Enabled(old)

(* resolveVersions() reads the workflow and its published version in either  *)
(* order; the version to publish does not change.  An inactive workflow, or  *)
(* one that is gone, is skipped.                                             *)
Diffed(old, v) == IF toRemove(old, v) = {} THEN "advance" ELSE "deactivate"

findWorkflow(m, k) ==
    /\ cycle[m][k].at \in {"resolve", "needsWorkflow"}
    /\ IF activeVersion[record(m, k).workflow] = NoVersion
       THEN Returns(m, k, "completed")
       ELSE Goes(m, k, IF cycle[m][k].at = "resolve" THEN "needsOld"
                       ELSE Diffed(cycle[m][k].old, record(m, k).version))
    /\ UNCHANGED <<dbVars, userVars, leaderVars, triggerVars, errors>>

findPublishedVersion(m, k) ==
    LET old == published[record(m, k).workflow]
    IN  /\ cycle[m][k].at \in {"resolve", "needsOld"}
        /\ cycle' = [cycle EXCEPT ![m][k].old = old,
                                  ![m][k].at = IF @ = "resolve" THEN "needsWorkflow"
                                               ELSE Diffed(old, record(m, k).version)]
        /\ UNCHANGED <<dbVars, userVars, leaderVars, triggerVars, errors>>

Removed(registered, nodes) == {t \in registered : t.node \notin nodes}

Deregister(m, w, nodes) ==
    /\ triggers' = [triggers EXCEPT ![m][w] = Removed(@, nodes)]
    /\ UNCHANGED unclosed

deactivate(m, k) ==
    /\ cycle[m][k].at = "deactivate"
    /\ Deregister(m, record(m, k).workflow, toRemove(cycle[m][k].old, record(m, k).version))
    /\ Goes(m, k, "advance")
    /\ UNCHANGED <<dbVars, userVars, leaderVars, loading, errors>>

(* The upsert of workflow_published_version. *)
advancePublishedVersion(m, k) ==
    LET w == record(m, k).workflow
        v == record(m, k).version
    IN  /\ cycle[m][k].at = "advance"
        /\ published' = [published EXCEPT ![w] = v]
        /\ IF Enabled(cycle[m][k].old) = Enabled(v)
           THEN Returns(m, k, "completed") ELSE Goes(m, k, "activate")
        /\ UNCHANGED <<activeVersion, outbox, publishes, userVars, leaderVars, triggerVars, errors>>

(* Registration that does not replace what is registered for a node. *)
RegisterBeside(m, w, added) ==
    /\ triggers' = [triggers EXCEPT ![m][w] = @ \cup added]
    /\ UNCHANGED unclosed

(* addTriggers(): the entry of a node that is registered already is          *)
(* overwritten, and what it held is never closed.                            *)
Register(m, w, added) ==
    LET nodes == {t.node : t \in added}
    IN  /\ triggers' = [triggers EXCEPT ![m][w] = Removed(@, nodes) \cup added]
        /\ unclosed' = [unclosed EXCEPT ![m][w] = @ \cup {t \in triggers[m][w] : t.node \in nodes}]

(* activate() that registers the nodes version v has in addition to the old. *)
activateNewNodes(m, k) ==
    LET old == Enabled(cycle[m][k].old)
    IN  /\ cycle[m][k].at = "activate"
        /\ Register(m, record(m, k).workflow,
               {t \in Enabled(record(m, k).version) : \A s \in old : s.node # t.node})
        /\ Returns(m, k, "completed")
        /\ UNCHANGED <<dbVars, userVars, leaderVars, loading, errors>>

(* activate(), or updateTriggerCount() if there is nothing to add. *)
activate(m, k) ==
    /\ cycle[m][k].at = "activate"
    /\ Register(m, record(m, k).workflow, toAdd(cycle[m][k].old, record(m, k).version))
    /\ Returns(m, k, "completed")
    /\ UNCHANGED <<dbVars, userVars, leaderVars, loading, errors>>

(* A failing apply() that puts the old version back. *)
applyFailsRestoring(m, k) ==
    /\ cycle[m][k].at = "activate" /\ Error
    /\ published' = [published EXCEPT ![record(m, k).workflow] = cycle[m][k].old]
    /\ Returns(m, k, "failed")
    /\ UNCHANGED <<activeVersion, outbox, publishes, userVars, leaderVars, triggerVars>>

(* A failing addTriggers() closes and removes what it has added for some     *)
(* nodes; what they held before runs on.                                     *)
RollBack(m, w, nodes) ==
    /\ triggers' = [triggers EXCEPT ![m][w] = Removed(@, nodes)]
    /\ unclosed' = [unclosed EXCEPT ![m][w] = @ \cup {t \in triggers[m][w] : t.node \in nodes}]

(* A step of apply() fails: with a part of the triggers removed, with the    *)
(* added ones rolled back, or with all of them added.                        *)
applyFails(m, k) ==
    LET w == record(m, k).workflow
        old == cycle[m][k].old
        new == record(m, k).version
    IN  /\ Error
        /\ \/ /\ cycle[m][k].at \in {"resolve", "needsOld", "needsWorkflow", "advance"}
              /\ UNCHANGED <<triggers, unclosed>>
           \/ cycle[m][k].at = "deactivate" /\ \E some \in SUBSET toRemove(old, new) : Deregister(m, w, some)
           \/ /\ cycle[m][k].at = "activate"
              /\ \/ \E some \in SUBSET {t.node : t \in toAdd(old, new)} : RollBack(m, w, some)
                 \/ Register(m, w, toAdd(old, new))
        /\ Returns(m, k, "failed")
        /\ UNCHANGED <<dbVars, userVars, leaderVars, loading>>

(* report(): the terminal status is written; if the activation errors cannot *)
(* be cleared after that, the error is logged and the record stays as it is. *)
report(m, k) ==
    /\ cycle[m][k].at = "report"
    /\ outbox' = [outbox EXCEPT ![cycle[m][k].id].status = cycle[m][k].result]
    /\ cycle' = [cycle EXCEPT ![m][k] = Idle("claim")]
    /\ UNCHANGED <<activeVersion, published, publishes, userVars, leaderVars, triggerVars, errors>>

(* The status cannot be written: the error is logged and the record is left  *)
(* in progress.                                                              *)
reportFails(m, k) ==
    /\ cycle[m][k].at = "report" /\ Error
    /\ cycle' = [cycle EXCEPT ![m][k] = Idle("claim")]
    /\ UNCHANGED <<dbVars, userVars, leaderVars, triggerVars>>

-----------------------------------------------------------------------------
(* Leadership. *)

(* startPolling(), and addActiveWorkflows() unless one is in progress. *)
takeover(m) ==
    /\ leader = NoMain /\ m \in up
    /\ leader' = m /\ terms' = terms + 1
    /\ polling' = [polling EXCEPT ![m] = TRUE]
    /\ \E k \in Cycle :
           /\ cycle[m][k].at = "off" /\ \A j \in Cycle : j < k => cycle[m][j].at # "off"
           /\ cycle' = [cycle EXCEPT ![m] = Scheduled(m, k)]
    /\ loading' = IF loading[m] = NotLoading
                  THEN [loading EXCEPT ![m] =
                           [w \in Workflow |->
                               Load(IF activeVersion[w] = NoVersion THEN "no" ELSE "find", NoVersion)]]
                  ELSE loading
    /\ UNCHANGED <<dbVars, userVars, up, triggers, unclosed, errors>>

(* activateWorkflow() of the manager reads the active version, and whether   *)
(* this main may register triggers, ...                                      *)
findById(m, w) ==
    /\ loading[m][w].at = "find"
    /\ loading' = [loading EXCEPT ![m][w] =
                      IF activeVersion[w] = NoVersion \/ leader # m
                      THEN Load("no", NoVersion) ELSE Load("add", activeVersion[w])]
    /\ UNCHANGED <<dbVars, userVars, leaderVars, cycle, triggers, unclosed, errors>>

(* ... and registers its triggers beside the ones that are registered. *)
addNonWebhookTriggers(m, w) ==
    /\ loading[m][w].at = "add"
    /\ Register(m, w, TriggersOf[loading[m][w].version])
    /\ loading' = [loading EXCEPT ![m][w] = Load("no", NoVersion)]
    /\ UNCHANGED <<dbVars, userVars, leaderVars, cycle, errors>>

Unarmed(chains) == [k \in Cycle |-> IF chains[k].at = "armed" THEN Idle("off") ELSE chains[k]]

(* Stepdown: stopPolling() and removeAllNonWebhookTriggerWorkflows(); a      *)
(* record that is being applied is applied to its end.                       *)
stopPolling(m) ==
    /\ leader = m /\ terms < MaxTerms
    /\ leader' = NoMain
    /\ polling' = [polling EXCEPT ![m] = FALSE]
    /\ cycle' = [cycle EXCEPT ![m] = Unarmed(@)]
    /\ triggers' = [triggers EXCEPT ![m] = Nothing]
    /\ UNCHANGED <<dbVars, userVars, terms, up, unclosed, loading, errors>>

(* A main crashes or shuts down in the middle of whatever it is doing. *)
mainCrash(m) ==
    /\ m \in up /\ up # {m} /\ terms < MaxTerms
    /\ up' = up \ {m}
    /\ leader' = IF leader = m THEN NoMain ELSE leader
    /\ polling' = [polling EXCEPT ![m] = FALSE]
    /\ cycle' = [cycle EXCEPT ![m] = [k \in Cycle |-> Idle("off")]]
    /\ triggers' = [triggers EXCEPT ![m] = Nothing]
    /\ unclosed' = [unclosed EXCEPT ![m] = Nothing]
    /\ loading' = [loading EXCEPT ![m] = NotLoading]
    /\ UNCHANGED <<dbVars, userVars, terms, errors>>

-----------------------------------------------------------------------------
resolveVersions(m, k) == findWorkflow(m, k) \/ findPublishedVersion(m, k)

pollStep(m, k) ==
    \/ claimNextPendingRecord(m, k) \/ stopCycle(m, k) \/ resolveVersions(m, k) \/ deactivate(m, k)
    \/ advancePublishedVersion(m, k) \/ activate(m, k) \/ report(m, k)

userStep(w) == clearActiveVersion(w) \/ removePublishedVersion(w) \/ handleRemoveNonWebhookTriggers(w)

Next ==
    \/ \E w \in Workflow : publishViaOutbox(w) \/ deactivateWorkflow(w) \/ userStep(w)
    \/ \E m \in Main, k \in Cycle : pollStep(m, k) \/ pollFails(m, k) \/ applyFails(m, k) \/ reportFails(m, k)
    \/ \E m \in Main : takeover(m) \/ stopPolling(m) \/ mainCrash(m)
    \/ \E m \in Main, w \in Workflow : findById(m, w) \/ addNonWebhookTriggers(m, w)

(* Timers fire, promises settle, a claim succeeds at last, and a leader is   *)
(* elected.                                                                  *)
Fairness ==
    /\ \A m \in Main : WF_vars(\E k \in Cycle : pollStep(m, k))
    /\ WF_vars(\E m \in Main : takeover(m))

Spec == Init /\ [][Next]_vars /\ Fairness

-----------------------------------------------------------------------------
(* Every variable has its type. *)
TypeOK ==
    /\ activeVersion \in [Workflow -> Version \cup {NoVersion}]
    /\ published \in [Workflow -> Version \cup {NoVersion}]
    /\ outbox \in Seq(Record) /\ publishes \in 0..MaxPublishes
    /\ unpublishing \in [Workflow -> {"never", "row", "published", "done"}]
    /\ removals \subseteq Workflow
    /\ leader \in Main \cup {NoMain} /\ terms \in 1..MaxTerms /\ up \subseteq Main
    /\ polling \in [Main -> BOOLEAN] /\ errors \in 0..MaxErrors
    /\ \A m \in Main, k \in Cycle :
           /\ cycle[m][k].at \in Busy \cup {"off", "armed", "claim"}
           /\ cycle[m][k].at \in Busy => cycle[m][k].id \in DOMAIN outbox
    /\ \A m \in Main, w \in Workflow :
           /\ loading[m][w] \in [at : {"no", "find", "add"}, version : Version \cup {NoVersion}]
           /\ \A s, t \in triggers[m][w] : s.node = t.node => s = t
           /\ unclosed[m][w] \subseteq UNION {TriggersOf[v] : v \in Version}

(* Chain k of m is working on a record of w. *)
Applies(m, k, w) == cycle[m][k].at \in Busy /\ record(m, k).workflow = w

(* A workflow is never published by two chains at a time, of one main or of  *)
(* two, whatever stepdowns and takeovers happen while a record is applied    *)
(* (the first invariant the applier asks of its caller).                     *)
SerializedPerWorkflow ==
    \A w \in Workflow : \A m, n \in Main : \A j, k \in Cycle :
        Applies(m, j, w) /\ Applies(n, k, w) => m = n /\ j = k

(* The published version never goes back behind one that was requested later *)
(* and has been dealt with.                                                  *)
LatestRequestWins ==
    [][\A w \in Workflow :
          published'[w] \notin {published[w], NoVersion} =>
              \A i \in DOMAIN outbox :
                  outbox[i].workflow = w /\ outbox[i].version > published'[w]
                  => outbox[i].status = "pending"]_vars

(* All requests for w have completed, and w has never been deactivated.      *)
Settled(w) ==
    /\ \A i \in DOMAIN outbox : outbox[i].workflow = w => outbox[i].status = "completed"
    /\ activeVersion[w] # NoVersion /\ unpublishing[w] = "never"

(* Once every request for a workflow has completed, the requested version is *)
(* the published one, provided that it has never been deactivated; and as    *)
(* long as the first leader leads, its memory has exactly the triggers of    *)
(* that version, with no older one running on unregistered.                  *)
SettledIsPublished ==
    \A w \in Workflow : Settled(w) =>
        /\ published[w] = activeVersion[w]
        /\ terms = 1 /\ leader # NoMain =>
               triggers[leader][w] = TriggersOf[published[w]] /\ unclosed[leader][w] = {}

(* A record that can be claimed is claimed, across failing claims, stepdowns *)
(* and takeovers: no chain of poll cycles dies while its main leads.         *)
ClaimableIsClaimed == \A i \in Version : []<>(i \notin Claimable)

(* Every request comes to an end: what was in progress when the reporter     *)
(* failed is left "for a later poll cycle to retry".                         *)
EveryRequestEnds ==
    \A i \in Version : i \in DOMAIN outbox ~> i \in DOMAIN outbox /\ outbox[i].status \in Terminal
=============================================================================
