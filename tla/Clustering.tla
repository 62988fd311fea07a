------------------------------ MODULE Clustering ------------------------------
(***************************************************************************)
(* The maintenance loop that MOCO runs for one MySQLCluster                *)
(* (clustering/process.go, status.go, operations.go), composed with the    *)
(* mysqld instances (module MySQL) and with the Kubernetes objects that    *)
(* the loop reads and writes.                                              *)
(*                                                                         *)
(* A pass of the loop is a sequence of steps, one per remote call, so      *)
(* that writes, replication, crashes, lost connections, user requests and  *)
(* Pod deletions happen between any two of them.  `pc` is the next call,   *)
(* `todo` the instances a loop of the code has still to visit and `ss` the *)
(* StatusSet gathered at the beginning of the pass, which the code never   *)
(* refreshes.                                                              *)
(***************************************************************************)
EXTENDS MySQL

CONSTANTS
    Seeds,      \* the transactions that a replicating cluster starts with
    Scenarios   \* the starts, each with a bound on every kind of event

(* What comes from outside: writes, failures, user requests, observations  *)
(* that are late or wrong.                                                 *)
Events == {"write", "external", "crash", "midcrash", "cut", "abort", "demote",
           "late", "delete", "wipe", "promote", "offline", "clonefail", "unlock",
           "stray", "flaky", "delay"}

(* A cluster that MOCO has configured; one with new instances; one that    *)
(* has spec.replicationSourceSecretName; one that has spec.restore.        *)
Starts == {"replicating", "fresh", "source", "restore"}

ASSUME ClusteringAssumption ==
    /\ Seeds \subseteq Txn
    /\ Scenarios \subseteq [start: Starts, events: [Events -> Nat]]

VARIABLES
    primaryIdx,     \* status.currentPrimaryIndex
    errantList,     \* status.errantReplicaList
    cloned,         \* status.cloned
    condition,      \* the reason of the Healthy and Available conditions
    source,         \* spec.replicationSourceSecretName is set
    restoring,      \* spec.restore is set and status.restoredTime is not
    offline,        \* spec.offline
    pods,           \* the Pods that exist
    terminating,    \* those with a deletion timestamp
    role,           \* label moco.cybozu.com/role
    demote,         \* Pods annotated moco.cybozu.com/demote
    prevent,        \* Pods annotated moco.cybozu.com/prevent-delete
    cut,            \* the instances the controller cannot reach
    pc, todo, ss,   \* the pass in progress
    events          \* how often each kind of event may still happen

kubeVars == <<primaryIdx, errantList, cloned, condition, source, restoring,
              offline, pods, terminating, role, demote, prevent>>
passVars == <<pc, todo, ss>>
vars == <<mysqlVars, kubeVars, cut, passVars, events>>

NoStatusSet ==
    [primary |-> 0, source |-> FALSE, cloned |-> FALSE, restoring |-> FALSE,
     offline |-> FALSE, recorded |-> {}, missing |-> {},
     roles |-> [i \in Index |-> ""], switchPod |-> FALSE, demoted |-> FALSE,
     annotated |-> {}, gone |-> {}, ready |-> {}, known |-> {},
     st |-> [i \in Index |-> NilStatus],
     errants |-> {}, prevent |-> FALSE, cand |-> NoTopRunner, goal |-> {},
     state |-> "Undecided"]

PassSteps ==
    {"idle", "panic", "gather", "recheck", "update", "annotate",
     "clone", "cloneWait",
     "swReadOnly", "swKill", "swStatus", "swWait", "swIndex", "swDemote",
     "foStop", "foRecheck", "foCompare", "foTop", "foWait", "foIndex",
     "unlabel", "kill", "midReadOnly", "midSource", "midStart",
     "primStop", "primWait", "primSemiSync",
     "repStop", "repKill", "repReadOnly", "repClone", "repPurged",
     "repChange", "repStart", "label", "writable"}

KubeTypeOK ==
    /\ primaryIdx \in Index
    /\ errantList \subseteq Index
    /\ condition \in States
    /\ cloned \in BOOLEAN /\ source \in BOOLEAN
    /\ restoring \in BOOLEAN /\ offline \in BOOLEAN
    /\ role \in [Index -> Roles]
    /\ pods \subseteq Index /\ terminating \subseteq Index
    /\ demote \subseteq Index /\ prevent \subseteq Index /\ cut \subseteq Index

PassTypeOK ==
    /\ pc \in PassSteps
    /\ todo \subseteq Index
    /\ ss \in StatusSetType

TypeOK == MySQLTypeOK /\ KubeTypeOK /\ PassTypeOK /\ events \in [Events -> Nat]

(* A cluster that MOCO has configured: instance 0 is the primary, and the  *)
(* seeds have reached every instance.                                      *)
ReplicatingInstance(i) ==
    IF i = 0
    THEN [FreshInstance EXCEPT !.exec = Seeds, !.ro = FALSE, !.ssM = N > 1]
    ELSE [FreshInstance EXCEPT !.exec = Seeds, !.src = 0, !.io = TRUE,
                               !.sql = TRUE, !.ssS = TRUE]

StartReplicating ==
    /\ db = [i \in Index |-> ReplicatingInstance(i)]
    /\ uuid = [t \in Txn |-> IF t \in Seeds THEN 0 ELSE Unborn]
    /\ acked = Seeds
    /\ role = [i \in Index |-> IF i = 0 THEN "primary" ELSE "replica"]

StartFresh ==
    /\ db = [i \in Index |-> FreshInstance]
    /\ uuid = [t \in Txn |-> Unborn]
    /\ acked = {}
    /\ role = [i \in Index |-> ""]

Init ==
    /\ \E s \in Scenarios :
          /\ IF s.start = "replicating" THEN StartReplicating ELSE StartFresh
          /\ source = (s.start = "source")
          /\ restoring = (s.start = "restore")
          /\ events = s.events
    /\ acks = [t \in Txn |-> {}]
    /\ ext = {}
    /\ primaryIdx = 0
    /\ errantList = {}
    /\ cloned = FALSE
    /\ condition = "Undecided"
    /\ offline = FALSE
    /\ pods = Index
    /\ terminating = {}
    /\ demote = {}
    /\ prevent = {}
    /\ cut = {}
    /\ pc = "idle"
    /\ todo = {}
    /\ ss = NoStatusSet

Happens(e) ==
    /\ events[e] > 0
    /\ events' = [events EXCEPT ![e] = @ - 1]

Reachable(i) == i \in pods /\ db[i].up /\ i \notin cut

(* An Operator keeps the address it has resolved at the beginning of the   *)
(* pass: a Pod created since then does not answer on it.                   *)
Answers(i) == Reachable(i) /\ i \notin ss.gone

-----------------------------------------------------------------------------
(* The control of a pass.  A destination is the next step and its work.    *)

Idle ==
    /\ pc' = "idle"
    /\ todo' = {}
    /\ ss' = NoStatusSet

(* Readiness, the wish to switch and the prevent-delete annotations are    *)
(* not read once the operation is decided; forgetting them keeps the state *)
(* space small.                                                            *)
Take(dest) ==
    \E d \in {dest} :
        /\ pc' = d[1]
        /\ todo' = d[2]
        /\ ss' = IF d[1] = "idle" THEN NoStatusSet
                 ELSE [ss EXCEPT !.ready = {}, !.switchPod = FALSE,
                                    !.annotated = {}]

(* The instance of the current call, and the end of one turn of a loop. *)
Callee == LowestOrdinal(todo)

NextTurn(dest) ==
    IF todo = {Callee} THEN Take(dest)
    ELSE todo' = todo \ {Callee} /\ UNCHANGED <<pc, ss>>

(* At step s, if the instance of the call answers. *)
Calling(s) == pc = s /\ Answers(Callee)

Outside == <<kubeVars, cut, events>>

(* The stages of configure, last one first: each is entered if the         *)
(* snapshot gives it something to do.                                      *)

ToIdle == <<"idle", {}>>

ToWritable ==
    IF ~ss.source /\ Pst(ss).ro THEN <<"writable", {ss.primary}>> ELSE ToIdle

(* Fault: the label of the old primary is not withdrawn. *)
StaleLabels_OldPrimary ==
    {i \in Index : ss.roles[i] = "replica" /\ (i = ss.primary \/ i \in ss.errants)}

(* Labels that do not fit the role, and Pods left without one. *)
StaleLabels ==
    {i \in Index : /\ ss.roles[i] # ""
                   /\ ~(i = ss.primary /\ ss.roles[i] = "primary")
                   /\ ~(i # ss.primary /\ i \notin ss.errants
                                       /\ ss.roles[i] = "replica")}

NoRoles == StaleLabels \cup {i \in Index : ss.roles[i] = ""}

Alive == (NoRoles \cap ss.known) \ ss.errants

ToLabel == IF Alive # {} THEN <<"label", Alive>> ELSE ToWritable

(* Fault: a replica with stopped threads is taken for configured. *)
SourceEntry_Stopped(i) ==
    IF Pst(ss).purged \ ss.st[i].exec # {} THEN "repPurged"
    ELSE IF ss.st[i].src # ss.primary THEN "repChange"
    ELSE "done"

SourceEntry(i) ==
    IF Pst(ss).purged \ ss.st[i].exec # {} THEN "repPurged"
    ELSE IF \/ ss.st[i].src # ss.primary
            \/ ~ss.st[i].io
            \/ ss.st[i].ssS = ss.source
         THEN "repChange"
    ELSE "done"

NeedsClone(i) ==
    ss.st[i].exec = {} /\ ExecutedGTID(ss) # {} /\ ss.st[i].src = NoSource

CloneEntry(i) == IF NeedsClone(i) THEN "repClone" ELSE SourceEntry(i)

(* Fault: an errant replica goes on replicating. *)
ReplicaEntry_Errant(i) ==
    IF i \in ss.errants THEN "done"
    ELSE IF ~ss.st[i].ro THEN "repKill"
    ELSE CloneEntry(i)

(* Fault: a writable replica is left writable. *)
ReplicaEntry_Writable(i) ==
    IF i \in ss.errants
    THEN IF ss.st[i].src # NoSource /\ ss.st[i].io THEN "repStop" ELSE "done"
    ELSE CloneEntry(i)

(* The first call that configureReplica makes for instance i. *)
ReplicaEntry(i) ==
    IF i \in ss.errants
    THEN IF ss.st[i].src # NoSource /\ ss.st[i].io THEN "repStop" ELSE "done"
    ELSE IF ~ss.st[i].ro THEN "repKill"
    ELSE CloneEntry(i)

(* The loop over the replicas, of which `rest` remain.  One that is not    *)
(* errant and needs nothing is still asked for a difference of GTID sets:  *)
(* if it does not answer, the pass ends there.                             *)
ToReplica(rest) ==
    LET work == {i \in rest : ReplicaEntry(i) # "done"}
        next == {i \in rest : \E j \in work : i >= j}
        passed == rest \ (next \cup ss.errants)
    IN IF \E i \in passed : ~Answers(i) THEN ToIdle
       ELSE IF work = {} THEN ToLabel
       ELSE <<ReplicaEntry(LowestOrdinal(work)), next>>

ToReplicas == ToReplica(ss.known \ {ss.primary})

(* Within configureReplica: to another call for the same instance, or on. *)
ContinueReplica(step) ==
    IF step = "done" THEN ToReplica(todo \ {Callee}) ELSE <<step, todo>>

ToSemiSync ==
    IF N > 1 /\ ~Pst(ss).ssM THEN <<"primSemiSync", {ss.primary}>>
    ELSE ToReplicas

ToPrimWait ==
    IF Pst(ss).src # NoSource /\ Pst(ss).retrieved # {}
    THEN <<"primWait", {ss.primary}>> ELSE ToSemiSync

ToMidSource ==
    IF Pst(ss).src # External \/ ~Pst(ss).io THEN <<"midSource", {ss.primary}>>
    ELSE ToReplicas

(* Fault: a writable intermediate primary is left writable. *)
ToPrimary_Writable ==
    IF ss.source THEN ToMidSource
    ELSE IF Pst(ss).src # NoSource /\ Pst(ss).io
         THEN <<"primStop", {ss.primary}>> ELSE ToPrimWait

ToPrimary ==
    IF ss.source
    THEN IF ~Pst(ss).ro THEN <<"midReadOnly", {ss.primary}>> ELSE ToMidSource
    ELSE IF Pst(ss).src # NoSource /\ Pst(ss).io
         THEN <<"primStop", {ss.primary}>> ELSE ToPrimWait

ToKill == IF Alive # {} THEN <<"kill", Alive>> ELSE ToPrimary

ToConfigure ==
    IF StaleLabels # {} THEN <<"unlabel", StaleLabels>> ELSE ToKill

(* What do() does for the state. *)
Switching ==
    /\ ss.state \in {"Healthy", "Degraded"}
    /\ N > 1
    /\ ss.switchPod
    /\ ~ss.prevent

Cloneable ==
    ss.state = "Cloning" /\ PstKnown(ss) /\ Pst(ss).clone \in {"none", "failed"}

ToOperation ==
    IF Cloneable THEN <<"clone", {ss.primary}>>
    ELSE IF Switching THEN <<"swReadOnly", {ss.primary}>>
    ELSE IF ss.state = "Failed" THEN <<"foStop", ss.known \ {ss.primary}>>
    ELSE IF ss.state \in {"Degraded", "Incomplete"} THEN ToConfigure
    ELSE ToIdle

-----------------------------------------------------------------------------
(* GatherStatus *)

(* Pods missing from a cluster that is not offline are an error, and so is *)
(* an ordinal that is not below the number of Pods.                        *)
GatherBegin ==
    /\ pc = "idle"
    /\ offline \/ pods = Index
    /\ \A i \in pods : i < Cardinality(pods)
    /\ pc' = "gather"
    /\ todo' = Index
    /\ ss' = [NoStatusSet EXCEPT
                 !.primary = primaryIdx, !.source = source, !.cloned = cloned,
                 !.restoring = restoring, !.offline = offline,
                 !.recorded = errantList, !.missing = Index \ pods,
                 !.roles = role,
                 !.switchPod = primaryIdx \in terminating \cup demote,
                 !.demoted = primaryIdx \in demote, !.annotated = prevent]
    /\ UNCHANGED <<mysqlVars, Outside>>

(* One goroutine per instance: they finish in any order. *)
ReadStatus(i) ==
    /\ pc = "gather"
    /\ i \in todo
    /\ todo' = todo \ {i}
    /\ pc' = IF todo = {i} THEN "recheck" ELSE pc
    /\ ss' = IF Answers(i)
             THEN [ss EXCEPT !.known = @ \cup {i}, !.st[i] = GetStatus(i)]
             ELSE ss
    /\ UNCHANGED <<mysqlVars, Outside>>

(* moco-agent's readiness probe. *)
Ready == {i \in pods : /\ db[i].up
                       /\ ~db[i].ro \/ (Connected(i) /\ db[i].sql)}

(* SecondsBehindSource may exceed maxDelaySecondsForPodDeletion on a       *)
(* replica with a backlog.                                                 *)
Delayed(s) == \E i \in s.known \ {s.primary} :
                 s.st[i].src # NoSource /\ s.st[i].retrieved # {}

(* What the pass sees of both.  The Pods, and so their readiness, are read *)
(* from a cache that may be late.                                          *)
Seen(s, ready, delay) ==
    \/ ready = Ready /\ ~delay /\ UNCHANGED events
    \/ ready = Ready /\ delay /\ Delayed(s) /\ Happens("delay")
    \/ ready # Ready /\ ~delay /\ Happens("flaky")

Rechecked ==
    IF PstKnown(ss) THEN [ss EXCEPT !.st[ss.primary] = GetStatus(ss.primary)]
    ELSE ss

WithErrants(s) == [s EXCEPT !.errants = detectErrants(s, uuid)]

WithoutHangups(s) ==
    [s EXCEPT !.known = @ \ hangupReplicas(s),
              !.st = [i \in Index |-> IF i \in hangupReplicas(s)
                                      THEN NilStatus ELSE s.st[i]]]

Decided(s) ==
    [s EXCEPT !.state = DecideState(s),
              !.cand = IF Candidates(s) # {} THEN LowestOrdinal(Candidates(s))
                       ELSE NoTopRunner]

FinishGather ==
    /\ pc = "recheck"
    /\ PstKnown(ss) => Answers(ss.primary)
    /\ \E seen \in {WithErrants(Rechecked)} :
       \E ready \in SUBSET pods, delay \in BOOLEAN :
          /\ Seen(seen, ready, delay)
          /\ \E kept \in {[WithoutHangups(seen) EXCEPT !.ready = ready,
                                                      !.prevent = delay]} :
                ss' = Decided(kept)
    /\ pc' = "update"
    /\ UNCHANGED <<todo, mysqlVars, kubeVars, cut>>

-----------------------------------------------------------------------------
(* updateStatus and the annotations *)

updateStatus ==
    /\ pc = "update"
    /\ errantList' = ss.errants
    /\ condition' = ss.state
    /\ cloned' = (cloned \/ (source /\ ss.state # "Cloning"))
    /\ pc' = "annotate"
    /\ UNCHANGED <<mysqlVars, primaryIdx, source, restoring, offline, pods,
                   terminating, role, demote, prevent, cut, todo, ss, events>>

(* addAnnPreventDelete on the primary or removeAnnPreventDelete on all:    *)
(* the Pods they patch, and those they cannot patch because the pointer is *)
(* nil or the Pod is gone.                                                 *)
Patched == IF ss.prevent THEN {ss.primary} \ ss.annotated ELSE ss.annotated
NilPods == IF ss.prevent THEN {ss.primary} \cap ss.missing ELSE ss.missing
Unpatchable == NilPods \cup (Patched \ pods)

(* Then follows the operation that the state calls for. *)
annotate ==
    /\ pc = "annotate"
    /\ Unpatchable = {}
    /\ prevent' = IF ss.prevent THEN prevent \cup Patched ELSE prevent \ Patched
    /\ Take(ToOperation)
    /\ UNCHANGED <<mysqlVars, primaryIdx, errantList, cloned, condition,
                   source, restoring, offline, pods, terminating, role,
                   demote, cut, events>>

(* A Pod that is gone ends the pass.  A nil Pod, possible in an offline    *)
(* cluster, is dereferenced: the process dies.                             *)
annotateStops ==
    /\ pc = "annotate"
    /\ Unpatchable # {}
    /\ prevent' = {i \in prevent : i \in Patched => i >= LowestOrdinal(Unpatchable)}
    /\ IF LowestOrdinal(Unpatchable) \in NilPods
       THEN pc' = "panic" /\ UNCHANGED <<todo, ss>>
       ELSE Idle
    /\ UNCHANGED <<mysqlVars, primaryIdx, errantList, cloned, condition,
                   source, restoring, offline, pods, terminating, role,
                   demote, cut, events>>

ControllerRestart ==
    /\ pc = "panic"
    /\ Idle
    /\ UNCHANGED <<mysqlVars, Outside>>

-----------------------------------------------------------------------------
(* clone: the initial data of an intermediate primary *)

cloneBegin ==
    /\ Calling("clone")
    /\ CloneStart(ss.primary)
    /\ pc' = "cloneWait"
    /\ UNCHANGED <<todo, ss, Outside>>

cloneEnd ==
    /\ Calling("cloneWait")
    /\ db[ss.primary].clone # "in progress"
    /\ Idle
    /\ UNCHANGED <<mysqlVars, Outside>>

-----------------------------------------------------------------------------
(* switchover *)

swReadOnly ==
    /\ Calling("swReadOnly")
    /\ SetReadOnly(ss.primary)
    /\ Take(<<"swKill", todo>>)
    /\ UNCHANGED Outside

(* SetReadOnly is taking too long: kill the connections it waits for. *)
swReadOnlySlow ==
    /\ Calling("swReadOnly")
    /\ db[ss.primary].wait # {}
    /\ KillConnections(ss.primary)
    /\ UNCHANGED <<passVars, Outside>>

swKill ==
    /\ Calling("swKill")
    /\ KillConnections(ss.primary)
    /\ Take(<<"swStatus", todo>>)
    /\ UNCHANGED Outside

(* Fault: the snapshot of the pass is used instead of a new status. *)
swStatus_Stale ==
    /\ Calling("swStatus")
    /\ ss' = [ss EXCEPT !.goal = Pst(ss).exec]
    /\ pc' = "swWait"
    /\ todo' = {ss.cand}
    /\ UNCHANGED <<mysqlVars, Outside>>

swStatus ==
    /\ Calling("swStatus")
    /\ ss' = [ss EXCEPT !.goal = db[ss.primary].exec]
    /\ pc' = "swWait"
    /\ todo' = {ss.cand}
    /\ UNCHANGED <<mysqlVars, Outside>>

(* Fault: the new primary is recorded before it has caught up. *)
swWait_Not ==
    /\ Calling("swWait")
    /\ Take(<<"swIndex", {}>>)
    /\ UNCHANGED <<mysqlVars, Outside>>

swWait ==
    /\ Calling("swWait")
    /\ WaitForGTID(ss.cand, ss.goal)
    /\ Take(<<"swIndex", {}>>)
    /\ UNCHANGED <<mysqlVars, Outside>>

(* The status is re-read and updated until there is no conflict. *)
swIndex ==
    /\ pc = "swIndex"
    /\ primaryIdx' = ss.cand
    /\ Take(IF ss.demoted THEN <<"swDemote", {}>> ELSE ToIdle)
    /\ UNCHANGED <<mysqlVars, errantList, cloned, condition, source, restoring,
                   offline, pods, terminating, role, demote, prevent, cut,
                   events>>

swDemote ==
    /\ pc = "swDemote"
    /\ demote' = demote \ {ss.primary}
    /\ Idle
    /\ UNCHANGED <<mysqlVars, primaryIdx, errantList, cloned, condition,
                   source, restoring, offline, pods, terminating, role,
                   prevent, cut, events>>

-----------------------------------------------------------------------------
(* failover *)

(* The instances that are compared. *)
Runners == ss.known \ (ss.errants \cup {ss.primary})

(* Fault: the IO threads go on running. *)
foStop_Running ==
    /\ Calling("foStop")
    /\ NextTurn(<<"foRecheck", Runners>>)
    /\ UNCHANGED <<mysqlVars, Outside>>

foStop ==
    /\ Calling("foStop")
    /\ StopReplicaIOThread(Callee)
    /\ NextTurn(<<"foRecheck", Runners>>)
    /\ UNCHANGED Outside

foRecheck ==
    /\ Calling("foRecheck")
    /\ ss' = [ss EXCEPT !.st[Callee] = GetStatus(Callee), !.cand = NoTopRunner]
    /\ todo' = IF todo = {Callee} THEN Runners ELSE todo \ {Callee}
    /\ pc' = IF todo = {Callee} THEN "foCompare" ELSE pc
    /\ UNCHANGED <<mysqlVars, Outside>>

(* FindTopRunner, one instance at a time.  The sets are compared by the    *)
(* instance that was re-checked last.                                      *)
Comparing == ss.cand # NoTopRunner /\ InTheRace(ss.st[Callee])
Comparer == CHOOSE i \in Runners : \A j \in Runners : j <= i

foCompare ==
    /\ pc = "foCompare"
    /\ Comparing => /\ Answers(Comparer)
                    /\ Comparable(ss.st[Callee], ss.st[ss.cand])
    /\ ss' = [ss EXCEPT !.cand = topRunner(ss.cand, Callee, ss.st)]
    /\ todo' = todo \ {Callee}
    /\ pc' = IF todo = {Callee} THEN "foTop" ELSE pc
    /\ UNCHANGED <<mysqlVars, Outside>>

foTop ==
    /\ pc = "foTop"
    /\ ss.cand # NoTopRunner
    /\ pc' = "foWait"
    /\ todo' = {ss.cand}
    /\ ss' = [ss EXCEPT !.goal = ss.st[ss.cand].retrieved]
    /\ UNCHANGED <<mysqlVars, Outside>>

(* ErrErrantTransactions or ErrNoTopRunner: the failover is given up. *)
foGiveUp ==
    /\ \/ /\ pc = "foCompare"
          /\ Comparing
          /\ Answers(Comparer)
          /\ ~Comparable(ss.st[Callee], ss.st[ss.cand])
       \/ pc = "foTop" /\ ss.cand = NoTopRunner
    /\ Idle
    /\ UNCHANGED <<mysqlVars, Outside>>

(* Fault: the relay log of the new primary is not waited for. *)
foWait_Not ==
    /\ Calling("foWait")
    /\ Take(<<"foIndex", {}>>)
    /\ UNCHANGED <<mysqlVars, Outside>>

foWait ==
    /\ Calling("foWait")
    /\ WaitForGTID(ss.cand, ss.goal)
    /\ Take(<<"foIndex", {}>>)
    /\ UNCHANGED <<mysqlVars, Outside>>

(* Fault: an ordinal is taken for a number that starts at one. *)
foIndex_OffByOne ==
    /\ pc = "foIndex"
    /\ primaryIdx' = ss.cand + 1
    /\ Idle
    /\ UNCHANGED <<mysqlVars, errantList, cloned, condition, source, restoring,
                   offline, pods, terminating, role, demote, prevent, cut,
                   events>>

foIndex ==
    /\ pc = "foIndex"
    /\ primaryIdx' = ss.cand
    /\ Idle
    /\ UNCHANGED <<mysqlVars, errantList, cloned, condition, source, restoring,
                   offline, pods, terminating, role, demote, prevent, cut,
                   events>>

-----------------------------------------------------------------------------
(* configure *)

SetRole(i, r) ==
    /\ i \in pods
    /\ role' = [role EXCEPT ![i] = r]
    /\ UNCHANGED <<mysqlVars, primaryIdx, errantList, cloned, condition, source,
                   restoring, offline, pods, terminating, demote, prevent, cut,
                   events>>

removeRoleLabel ==
    /\ pc = "unlabel"
    /\ SetRole(Callee, "")
    /\ NextTurn(ToKill)

killAlive ==
    /\ Calling("kill")
    /\ KillConnections(Callee)
    /\ NextTurn(ToPrimary)
    /\ UNCHANGED Outside

midReadOnly ==
    /\ Calling("midReadOnly")
    /\ SetReadOnly(ss.primary)
    /\ Take(ToMidSource)
    /\ UNCHANGED Outside

midSource ==
    /\ Calling("midSource")
    /\ ChangeSource(ss.primary, External, FALSE)
    /\ Take(<<"midStart", todo>>)
    /\ UNCHANGED Outside

midStart ==
    /\ Calling("midStart")
    /\ StartReplica(ss.primary)
    /\ Take(ToReplicas)
    /\ UNCHANGED Outside

primStop ==
    /\ Calling("primStop")
    /\ StopReplicaIOThread(ss.primary)
    /\ Take(ToPrimWait)
    /\ UNCHANGED Outside

primWait ==
    /\ Calling("primWait")
    /\ WaitForGTID(ss.primary, Pst(ss).retrieved)
    /\ Take(ToSemiSync)
    /\ UNCHANGED <<mysqlVars, Outside>>

primSemiSync ==
    /\ Calling("primSemiSync")
    /\ ConfigurePrimary(ss.primary)
    /\ Take(ToReplicas)
    /\ UNCHANGED Outside

repStop ==
    /\ Calling("repStop")
    /\ StopReplicaIOThread(Callee)
    /\ Take(ContinueReplica("done"))
    /\ UNCHANGED Outside

repKill ==
    /\ Calling("repKill")
    /\ KillConnections(Callee)
    /\ Take(ContinueReplica("repReadOnly"))
    /\ UNCHANGED Outside

repReadOnly ==
    /\ Calling("repReadOnly")
    /\ SetReadOnly(Callee)
    /\ Take(ContinueReplica(CloneEntry(Callee)))
    /\ UNCHANGED Outside

repClone ==
    /\ Calling("repClone")
    /\ CloneFrom(Callee, ss.primary)
    /\ Take(ContinueReplica(SourceEntry(Callee)))
    /\ UNCHANGED Outside

(* The primary has purged transactions that the replica needs: an error. *)
repPurged ==
    /\ Calling("repPurged")
    /\ Idle
    /\ UNCHANGED <<mysqlVars, Outside>>

repChange ==
    /\ Calling("repChange")
    /\ ChangeSource(Callee, ss.primary, ~ss.source)
    /\ Take(ContinueReplica("repStart"))
    /\ UNCHANGED Outside

repStart ==
    /\ Calling("repStart")
    /\ StartReplica(Callee)
    /\ Take(ContinueReplica("done"))
    /\ UNCHANGED Outside

addRoleLabel ==
    /\ pc = "label"
    /\ SetRole(Callee, IF Callee = ss.primary THEN "primary" ELSE "replica")
    /\ NextTurn(ToWritable)

makeWritable ==
    /\ Calling("writable")
    /\ SetWritable(ss.primary)
    /\ Idle
    /\ UNCHANGED Outside

-----------------------------------------------------------------------------
(* Calls that fail: the pass ends and the next one starts from nothing *)

RemoteSteps ==
    {"clone", "cloneWait", "swReadOnly", "swKill", "swStatus", "swWait",
     "foStop", "foRecheck", "foWait", "kill", "midReadOnly", "midSource",
     "midStart", "primStop", "primWait", "primSemiSync", "repStop", "repKill",
     "repReadOnly", "repClone", "repPurged", "repChange", "repStart",
     "writable"}

CallFails ==
    /\ \/ pc \in RemoteSteps /\ ~Answers(Callee)
       \/ pc = "recheck" /\ PstKnown(ss) /\ ~Answers(ss.primary)
       \/ pc = "repClone" /\ ~db[ss.primary].up
       \/ pc = "foCompare" /\ Comparing /\ ~Answers(Comparer)
       \/ pc \in {"unlabel", "label"} /\ Callee \notin pods
    /\ Idle
    /\ UNCHANGED <<mysqlVars, Outside>>

(* WaitForGTID or a blocked SET super_read_only runs into its timeout. *)
CallTimesOut ==
    /\ \/ pc \in {"swWait", "foWait"} /\ ~WaitForGTID(ss.cand, ss.goal)
       \/ pc = "primWait" /\ ~WaitForGTID(ss.primary, Pst(ss).retrieved)
       \/ pc \in {"midReadOnly", "repReadOnly"} /\ db[Callee].wait # {}
    /\ Idle
    /\ UNCHANGED <<mysqlVars, Outside>>

(* An error of the API server, a cancelled context, or the end of the      *)
(* controller process, at any point of a pass.                             *)
Abort ==
    /\ pc \notin {"idle", "panic"}
    /\ Happens("abort")
    /\ Idle
    /\ UNCHANGED <<mysqlVars, kubeVars, cut>>

-----------------------------------------------------------------------------
(* The environment *)

(* Two kinds of crash with bounds of their own: between two passes, and in *)
(* the middle of one.                                                      *)
InstanceCrash(i) ==
    /\ Crash(i)
    /\ IF pc = "idle" THEN Happens("crash") \/ Happens("midcrash")
                      ELSE Happens("midcrash")
    /\ UNCHANGED <<kubeVars, cut, passVars>>

InstanceUnlocked(i) ==
    /\ Unlock(i)
    /\ Happens("unlock")
    /\ UNCHANGED <<kubeVars, cut, passVars>>

InstanceDiverges(i) ==
    /\ StrayWrite(i)
    /\ Happens("stray")
    /\ UNCHANGED <<kubeVars, cut, passVars>>

InstanceStart(i) ==
    /\ i \in pods
    /\ Start(i)
    /\ UNCHANGED <<passVars, Outside>>

ConnectionLost(i) ==
    /\ i \notin cut
    /\ Happens("cut")
    /\ cut' = cut \cup {i}
    /\ UNCHANGED <<mysqlVars, kubeVars, passVars>>

ConnectionBack(i) ==
    /\ i \in cut
    /\ cut' = cut \ {i}
    /\ UNCHANGED <<mysqlVars, kubeVars, passVars, events>>

(* kubectl moco switchover, which refuses an offline cluster and one that  *)
(* has a single instance.  It annotates the Pod of the primary it has      *)
(* read, which may not be the primary any more (late).                     *)
RequestDemote ==
    /\ ~offline
    /\ N > 1
    /\ \E i \in pods \ demote :
          /\ Happens(IF i = primaryIdx THEN "demote" ELSE "late")
          /\ demote' = demote \cup {i}
    /\ UNCHANGED <<mysqlVars, primaryIdx, errantList, cloned, condition, source,
                   restoring, offline, pods, terminating, role, prevent, cut,
                   passVars>>

(* A Pod is deleted: it terminates, goes away with its labels and          *)
(* annotations, and the StatefulSet creates it again on the same volume.   *)
PodTerminate(i) ==
    /\ i \in pods \ (terminating \cup prevent)
    /\ Happens("delete")
    /\ terminating' = terminating \cup {i}
    /\ UNCHANGED <<mysqlVars, primaryIdx, errantList, cloned, condition, source,
                   restoring, offline, pods, role, demote, prevent, cut,
                   passVars>>

PodGone(i) ==
    /\ i \in pods
    /\ i \in terminating \/ offline
    /\ db' = [db EXCEPT ![i] = IF db[i].up THEN Stopped(db[i]) ELSE db[i]]
    /\ pods' = pods \ {i}
    /\ terminating' = terminating \ {i}
    /\ role' = [role EXCEPT ![i] = ""]
    /\ demote' = demote \ {i}
    /\ prevent' = prevent \ {i}
    /\ ss' = IF pc = "idle" THEN ss ELSE [ss EXCEPT !.gone = @ \cup {i}]
    /\ UNCHANGED <<uuid, acks, ext, acked, primaryIdx, errantList, cloned,
                   condition, source, restoring, offline, cut, pc, todo,
                   events>>

PodCreate(i) ==
    /\ i \notin pods
    /\ ~offline
    /\ pods' = pods \cup {i}
    /\ UNCHANGED <<mysqlVars, primaryIdx, errantList, cloned, condition, source,
                   restoring, offline, terminating, role, demote, prevent, cut,
                   passVars, events>>

(* The volume is deleted with the Pod. *)
VolumeLost(i) ==
    /\ i \notin pods
    /\ Happens("wipe")
    /\ Wipe(i)
    /\ UNCHANGED <<kubeVars, cut, passVars>>

(* The user promotes the cluster: replicationSourceSecretName is removed. *)
RemoveSource ==
    /\ source
    /\ Happens("promote")
    /\ source' = FALSE
    /\ UNCHANGED <<mysqlVars, primaryIdx, errantList, cloned, condition,
                   restoring, offline, pods, terminating, role, demote, prevent,
                   cut, passVars>>

(* The restore Job loads the backup into the first Pod and sets            *)
(* status.restoredTime.                                                    *)
Restore ==
    /\ restoring
    /\ 0 \in pods
    /\ LoadDump(0)
    /\ restoring' = FALSE
    /\ UNCHANGED <<primaryIdx, errantList, cloned, condition, source, offline,
                   pods, terminating, role, demote, prevent, cut, passVars,
                   events>>

SetOffline ==
    /\ Happens("offline")
    /\ offline' = ~offline
    /\ UNCHANGED <<mysqlVars, primaryIdx, errantList, cloned, condition, source,
                   restoring, pods, terminating, role, demote, prevent, cut,
                   passVars>>

-----------------------------------------------------------------------------
Gather == GatherBegin \/ (\E i \in Index : ReadStatus(i)) \/ FinishGather
Report == updateStatus \/ annotate \/ annotateStops \/ ControllerRestart
Clone == cloneBegin \/ cloneEnd
Switchover == swReadOnly \/ swReadOnlySlow \/ swKill \/ swStatus \/ swWait
              \/ swIndex \/ swDemote
Failover == foStop \/ foRecheck \/ foCompare \/ foTop \/ foGiveUp
            \/ foWait \/ foIndex
Configure == removeRoleLabel \/ killAlive \/ midReadOnly \/ midSource
             \/ midStart \/ primStop \/ primWait \/ primSemiSync \/ repStop
             \/ repKill \/ repReadOnly \/ repClone \/ repPurged \/ repChange
             \/ repStart \/ addRoleLabel \/ makeWritable

(* The controller, without what ends a pass early by chance. *)
Pass == Gather \/ Report \/ Clone \/ Switchover \/ Failover \/ Configure
        \/ CallFails

Writes(i) == ClientWrite(i) /\ Happens("write") /\ UNCHANGED <<passVars, kubeVars, cut>>
Commits(i) == Commit(i) /\ UNCHANGED <<passVars, Outside>>
Receives(i) == Receive(i) /\ UNCHANGED <<passVars, Outside>>
Applies(i) == Apply(i) /\ UNCHANGED <<passVars, Outside>>
EndsClone(i) == CloneEnd(i) /\ UNCHANGED <<passVars, Outside>>
FailsClone(i) ==
    /\ CloneFail(i)
    /\ Happens("clonefail")
    /\ UNCHANGED <<kubeVars, cut, passVars>>

Mysqld(i) == Writes(i) \/ Commits(i) \/ Receives(i) \/ Applies(i) \/ EndsClone(i)
             \/ FailsClone(i)

SourceWrites ==
    /\ ExternalWrite
    /\ Happens("external")
    /\ UNCHANGED <<passVars, kubeVars, cut>>

Environment ==
    \/ SourceWrites
    \/ RequestDemote
    \/ RemoveSource
    \/ Restore
    \/ SetOffline
    \/ \E i \in Index : \/ Mysqld(i)
                        \/ InstanceCrash(i)
                        \/ InstanceStart(i)
                        \/ InstanceUnlocked(i)
                        \/ InstanceDiverges(i)
                        \/ ConnectionLost(i)
                        \/ ConnectionBack(i)
                        \/ PodTerminate(i)
                        \/ PodGone(i)
                        \/ PodCreate(i)
                        \/ VolumeLost(i)

Next == Pass \/ CallTimesOut \/ Abort \/ Environment

Spec == Init /\ [][Next]_vars

(* mysqld replicates and commits as long as it runs, and kubelet and the   *)
(* StatefulSet controller finish what they have begun.                     *)
MysqldWorks ==
    \E i \in Index : \/ Commits(i) \/ Receives(i) \/ Applies(i) \/ EndsClone(i)
                    \/ PodGone(i) \/ PodCreate(i)

(* Stopped instances are started again, the network heals, and a restore   *)
(* comes to its end.                                                       *)
Repair == Restore \/ \E i \in Index : InstanceStart(i) \/ ConnectionBack(i)

(* The loop is run by a timer, and its calls return or time out. *)
Progress == WF_vars(Pass \/ CallTimesOut) /\ WF_vars(MysqldWorks)

(* The first leaves a failed instance down as long as it likes. *)
LiveSpec == Spec /\ Progress
RepairSpec == LiveSpec /\ WF_vars(Repair)

-----------------------------------------------------------------------------
(* Safety *)

(* No acknowledged transaction is ever missing from the instance recorded  *)
(* as the primary, whoever wrote it and however the primary changed: the   *)
(* acks that semi-sync asks for (configurePrimary), the stop of every IO   *)
(* thread before the comparison (failover) and the wait of the new primary *)
(* (failover, switchover) work together.                                   *)
Durability == acked \subseteq db[primaryIdx].exec

(* The cluster keeps the promise of module Ledger to its clients: what is  *)
(* acknowledged stays, updateStatus only ever moves the primary to an      *)
(* instance that has executed all of it (failover, switchover), the        *)
(* primary's own data never shrinks, and a replica loses data only by      *)
(* becoming a copy of the primary (clone).                                 *)
Promise ==
    INSTANCE Ledger WITH
        Nodes <- Index, Txns <- Txn,
        log <- acked, leader <- primaryIdx,
        held <- [i \in Index |-> db[i].exec]

ImplementsLedger == Promise!Spec

(* The primary Service never selects two Pods: removeRoleLabel withdraws   *)
(* the old label before addRoleLabel gives the new one.                    *)
OnePrimaryLabel ==
    \A i, j \in Index : role[i] = "primary" /\ role[j] = "primary" => i = j

(* docs/clustering.md: the recorded primary has no errant transactions.    *)
(* Neither a switchover nor a failover moves it to an index of             *)
(* status.errantReplicaList, and updateStatus never adds it there.         *)
PrimaryNotErrant == primaryIdx \notin errantList

(* A replica is called errant only for transactions that the primary       *)
(* neither has executed nor holds in its binary log: the re-check of the   *)
(* primary after all replicas have answered, and the exemption of its own  *)
(* UUID, leave no false alarm (GatherStatus, containErrantTransactions).   *)
NoFalseErrant ==
    pc = "update" /\ ExecutedGTID(ss) # {} =>
        \A i \in ss.errants :
            ~(db[i].exec \subseteq db[ss.primary].exec \cup db[ss.primary].wait)

(* A switchover leaves nothing behind: at the moment it records the new    *)
(* primary, that instance has executed everything the old one has, the     *)
(* transactions no client was told about included.                         *)
SwitchoverLossless ==
    [][swIndex => db[primaryIdx].exec \subseteq db[primaryIdx'].exec]_vars

(* A failover waits for and records the most advanced instance: nothing    *)
(* that any compared instance had when it was re-checked is missing from   *)
(* it (failover, FindTopRunner).                                           *)
TopRunnerIsTop ==
    pc \in {"foTop", "foWait", "foIndex"} /\ ss.cand # NoTopRunner =>
        \A i \in Runners : InTheRace(ss.st[i]) =>
            Gtids(ss.st[i]) \subseteq Gtids(ss.st[ss.cand])

(* The comparison is not stale when the new primary is recorded: with the  *)
(* IO threads stopped, no compared instance gets anything more from the    *)
(* cluster, whatever the old primary does if it comes back (failover,      *)
(* StopReplicaIOThread).                                                   *)
ComparisonNotStale ==
    pc \in {"foCompare", "foTop", "foWait", "foIndex"} =>
        \A i \in Runners :
            {t \in Has(i) : uuid[t] # i} \subseteq Gtids(ss.st[i])

(* No pass dereferences a Pod that does not exist. *)
NoPanic == pc # "panic"

(* The conclusion that a pass acts on is one that its operations can use:  *)
(* a failover compares instances that meet every ack quorum, a switchover  *)
(* has a working replica to go to (do, isFailed, isDegraded, isHealthy).   *)
ConclusionSound ==
    pc \in {"update", "annotate"} =>
        FailedMeetsAckQuorums(ss) /\ OperationsHaveTheirTargets(ss)

-----------------------------------------------------------------------------
(* An inductive invariant of the pass, from which the safety properties    *)
(* above about the primary, the labels and the top runner follow.          *)

ConfSteps ==
    {"kill", "midReadOnly", "midSource", "midStart", "primStop", "primWait",
     "primSemiSync", "repStop", "repKill", "repReadOnly", "repClone",
     "repPurged", "repChange", "repStart", "label", "writable"}

(* The snapshot agrees with the MySQLCluster as far as only the loop       *)
(* writes it.                                                              *)
SnapshotInv ==
    /\ pc \notin {"idle", "panic", "swDemote"} => ss.primary = primaryIdx
    /\ pc \in {"gather", "recheck"} => ss.recorded = errantList
    /\ pc \notin {"idle", "panic", "gather", "recheck"} =>
          ss.primary \notin ss.errants
    /\ pc \notin {"idle", "panic", "gather", "recheck", "update"} =>
          errantList = ss.errants
    /\ primaryIdx \notin errantList

(* The next primary of a switchover is not errant. *)
SwitchPlanned ==
    \/ /\ pc \in {"update", "annotate"}
       /\ ss.state \in {"Healthy", "Degraded"}
       /\ N > 1
    \/ pc \in {"swReadOnly", "swKill", "swStatus", "swWait", "swIndex"}

SwitchInv == SwitchPlanned => ss.cand \in Index \ ss.errants

(* A failover has a leader among the instances it compares, and the leader *)
(* is ahead of those that were looked at.                                  *)
RaceInv ==
    /\ pc \in {"foRecheck", "foCompare"} => todo \subseteq Runners
    /\ pc = "foCompare" => todo # {}
    /\ pc \in {"foCompare", "foTop", "foWait", "foIndex"} =>
          /\ ss.cand \in Runners \cup {NoTopRunner}
          /\ \A i \in Runners :
                InTheRace(ss.st[i]) /\ (pc = "foCompare" => i \notin todo) =>
                    /\ ss.cand # NoTopRunner
                    /\ Gtids(ss.st[i]) \subseteq Gtids(ss.st[ss.cand])
    /\ pc \in {"foWait", "foIndex"} => ss.cand # NoTopRunner

(* Once configure has withdrawn the labels, no other Pod than that of the  *)
(* primary is labelled as the primary.                                     *)
LabelInv ==
    /\ OnePrimaryLabel
    /\ \A i \in Index : role[i] = "primary" =>
          /\ pc \in {"gather", "recheck", "update", "annotate"} =>
                ss.roles[i] = "primary"
          /\ pc = "unlabel" => i = ss.primary \/ i \in todo
          /\ pc \in ConfSteps => i = ss.primary

PassInv == SnapshotInv /\ SwitchInv /\ RaceInv /\ LabelInv

(* What keeps the comparison of a failover from getting stale.             *)

(* The scenarios in which a cluster with a replication source keeps it and *)
(* is not taken offline: the first clone is then waited for.  Otherwise a  *)
(* clone that was begun may end at any later time, and replace all data.   *)
ClonesFirst(s) == s.start = "source" => s.events["promote"] = 0 /\ s.events["offline"] = 0

(* A session waits for acks of a transaction of its own instance. *)
WaitInv == \A i \in Index : \A t \in db[i].wait : uuid[t] = i

(* Only the primary of a cluster that has not been cloned is cloned from   *)
(* outside, and no operation but the clone is begun before that ends.      *)
CloneInv ==
    /\ \A i \in Index : db[i].clone = "in progress" => i = primaryIdx /\ source /\ ~cloned
    /\ source => events["promote"] = 0 /\ events["offline"] = 0 /\ ~offline
    /\ pc \notin {"idle", "panic"} => ss.source = source /\ (source => ~ss.offline)
    /\ pc \in {"gather", "recheck", "update"} => ss.cloned = cloned
    /\ pc = "update" /\ ss.state # "Cloning" /\ source /\ ~cloned =>
          db[primaryIdx].clone # "in progress"
    /\ pc \in {"update", "annotate"} /\ ss.state = "Cloning" => source /\ ~cloned
    /\ pc = "clone" => source /\ ~cloned
    /\ pc \notin {"idle", "panic", "gather", "recheck", "update", "clone", "cloneWait"} =>
          (pc = "annotate" /\ ss.state = "Cloning") \/ cloned \/ ~source

(* No failover in a cluster that is being restored. *)
NotRestoring ==
    /\ pc \notin {"idle", "panic"} /\ restoring => ss.restoring
    /\ pc \in {"update", "annotate"} /\ restoring => ss.state # "Failed"
    /\ pc \in {"foStop", "foRecheck", "foCompare", "foTop", "foWait", "foIndex"} => ~restoring

(* Nothing but an instance's own transactions has been added to it since   *)
(* it was re-checked.                                                      *)
Fixed(i) == ~db[i].io /\ {t \in Has(i) : uuid[t] # i} \subseteq Gtids(ss.st[i])

StoppedInv ==
    /\ pc = "foStop" => \A i \in Runners \ todo : ~db[i].io
    /\ pc = "foRecheck" => \A i \in Runners : ~db[i].io /\ (i \notin todo => Fixed(i))
    /\ pc \in {"foCompare", "foTop", "foWait", "foIndex"} => \A i \in Runners : Fixed(i)

CompareInv == WaitInv /\ CloneInv /\ NotRestoring /\ StoppedInv

(* What keeps an acknowledged transaction.                                 *)

(* Two things the code takes for granted and does not ensure.  Nothing     *)
(* that an instance has in its binary or relay log is deleted before it is *)
(* executed: CHANGE REPLICATION SOURCE, a lost volume, a clone and a       *)
(* restore can all do that.                                                *)
DataKept ==
    \A i \in Index : /\ db[i].exec \subseteq db'[i].exec
                     /\ db[i].relay \subseteq db'[i].exec \cup db'[i].relay

(* Semi-sync is still enabled when the primary is made writable: a mysqld  *)
(* that restarts after ConfigurePrimary has lost the setting.              *)
SemiSyncFirst == makeWritable => db[ss.primary].ssM \/ N = 1

(* The scenarios without a replication source, without a restore, whose    *)
(* dump is on one instance only, and without an administrator who clears   *)
(* super_read_only.                                                        *)
OwnData(s) == s.start \in {"replicating", "fresh"} /\ s.events["unlock"] = 0

Holders(t) == {i \in Index : t \in Has(i)}

(* The instances that read the binary log of j, and may acknowledge. *)
Feeding(j) == {r \in Index : db[r].src = j /\ db[r].io}

PlainInv ==
    /\ ~source /\ ~restoring /\ events["unlock"] = 0
    /\ pc \notin {"clone", "cloneWait", "midReadOnly", "midSource", "midStart"}
    /\ pc \notin {"idle", "panic"} => ~ss.source

(* An ack stands for a transaction in a relay log of another instance, and *)
(* what was acknowledged to a client is on more than half of them.         *)
HistoryInv ==
    /\ \A t \in Txn : uuid[t] = Unborn => acks[t] = {} /\ t \notin acked
    /\ \A t \in Txn : \A r \in acks[t] : t \in Has(r) /\ uuid[t] # r
    /\ \A i \in Index : db[i].wait \cap acked = {}
    /\ \A t \in acked : Cardinality(Holders(t)) > N \div 2

(* Writes wait for acks, and a writable instance is not a replica. *)
ModeInv ==
    \A i \in Index :
        /\ db[i].ro => db[i].wait = {}
        /\ ~db[i].ro => (db[i].ssM \/ N = 1) /\ db[i].relay = {} /\ ~db[i].io
        /\ db[i].src # i

(* No transaction that waits on j can still get the acks it needs. *)
CannotAck(j) ==
    \A t \in db[j].wait : Cardinality(acks[t] \cup Feeding(j)) < N \div 2

(* None but those in S can, on an instance that is not the primary. *)
Fenced(S) ==
    \A j \in Index \ {primaryIdx} : \A t \in db[j].wait :
        t \in S \/ Cardinality(acks[t] \cup Feeding(j)) < N \div 2

(* A former primary that is still writable has lost too many replicas to   *)
(* acknowledge anything that the primary does not have.                    *)
FenceInv ==
    /\ \A j \in Index \ {primaryIdx} :
          ~db[j].ro => Cardinality(Feeding(j)) < N \div 2
    /\ Fenced(db[primaryIdx].exec)

(* What a pass has seen of an instance is still true of it. *)
SeenInv ==
    /\ pc \notin {"idle", "panic"} =>
          \A i \in ss.known : /\ ss.st[i].ro => db[i].ro
                              /\ ss.st[i].exec \subseteq db[i].exec
    /\ pc \in {"gather", "recheck", "update", "annotate", "foStop", "foRecheck",
               "foCompare", "foTop", "foWait", "foIndex"} =>
          \A i \in ss.known : ss.st[i].exec # {} /\ ss.st[i].src # NoSource =>
              db[i].src # NoSource

(* The loop over the replicas visits replicas, and connects only those     *)
(* that are read-only, to the primary.                                     *)
LoopInv ==
    /\ pc \in {"repStop", "repKill", "repReadOnly", "repClone", "repPurged",
               "repChange", "repStart"} =>
          todo # {} /\ todo \subseteq ss.known \ {ss.primary}
    /\ pc \in {"repClone", "repPurged", "repChange", "repStart"} => db[Callee].ro
    /\ pc = "repStart" => db[Callee].src \in {ss.primary, NoSource}

(* A failover compares more than half of the instances.  None of them had  *)
(* a session waiting for acks when the pass saw it, so none gets one that  *)
(* can succeed, and all that was acknowledged takes part in the comparison *)
(* and in the wait.                                                        *)
FailoverInv ==
    /\ pc \in {"gather", "recheck"} =>
          \A j \in ss.known \ {ss.primary} : ~ss.st[j].waiting => CannotAck(j)
    /\ pc \in {"update", "annotate", "foStop", "foRecheck", "foCompare", "foTop",
               "foWait", "foIndex"} =>
          /\ \A j \in ss.known \ {ss.primary} : CannotAck(j)
          /\ pc \notin {"update", "annotate"} \/ ss.state = "Failed" =>
                Cardinality(failedOk(ss)) > N \div 2
    /\ pc = "foRecheck" =>
          \A i \in Runners \ todo : acked \cap Has(i) \subseteq Gtids(ss.st[i])
    /\ pc \in {"foCompare", "foTop", "foWait", "foIndex"} =>
          \A i \in Runners : acked \cap Has(i) \subseteq Gtids(ss.st[i])
    /\ pc \in {"foWait", "foIndex"} => ss.goal = ss.st[ss.cand].retrieved
    /\ pc = "foIndex" => ss.goal \subseteq db[ss.cand].exec

(* A switchover locks the old primary, and carries over all that is or can *)
(* be acknowledged.                                                        *)
CarryInv ==
    /\ pc \in {"swKill", "swStatus", "swWait", "swIndex"} => db[primaryIdx].ro
    /\ pc \in {"swWait", "swIndex"} => acked \subseteq ss.goal /\ Fenced(ss.goal)
    /\ pc = "swIndex" => ss.goal \subseteq db[ss.cand].exec

StoreInv == HistoryInv /\ ModeInv /\ FenceInv /\ Durability
StageInv == SeenInv /\ LoopInv /\ FailoverInv /\ CarryInv

(* What keeps a switchover complete and an alarm true.                     *)

(* Nothing that is in the binary log of an instance is lost: a lost volume *)
(* and a clone can do that.                                                *)
LogKept ==
    \A i \in Index : /\ db[i].exec \subseteq db'[i].exec
                     /\ db[i].wait \subseteq db'[i].exec \cup db'[i].wait

(* An administrator does not write to single instances of a cluster whose  *)
(* primary is being switched: a new primary reads the binary log of the    *)
(* old one for a while.                                                    *)
Undisturbed(s) ==
    /\ OwnData(s)
    /\ \/ s.events["stray"] = 0
       \/ \A e \in {"demote", "late", "delete"} : s.events[e] = 0

(* A read-only instance has no waiting sessions, a writable one is not a   *)
(* replica.                                                                *)
LockInv ==
    \A i \in Index :
        /\ db[i].ro => db[i].wait = {}
        /\ ~db[i].ro => db[i].relay = {} /\ ~db[i].io
        /\ db[i].src \in (Index \ {i}) \cup {NoSource}

(* What a relay log holds comes from the source, and is not executed yet.  *)
LogInv ==
    \A i \in Index :
        /\ \A t \in db[i].exec \cup db[i].wait \cup db[i].relay : uuid[t] # Unborn
        /\ db[i].relay \cap db[i].exec = {}
        /\ db[i].relay \subseteq IF db[i].src = NoSource THEN {} ELSE Stream(db[i].src)

(* The primary gets nothing from other instances: it executed its relay    *)
(* log before it was recorded, and if it still reads the binary log of the *)
(* former primary there is nothing new in it.                              *)
QuietInv ==
    LET p == db[primaryIdx] IN
    /\ p.relay = {}
    /\ p.io /\ p.src # NoSource =>
          LET q == db[p.src] IN
          /\ q.ro
          /\ q.exec \cup q.relay \subseteq p.exec
          /\ q.io => q.src \in {primaryIdx, NoSource}

StrayInv ==
    \/ events["stray"] = 0
    \/ /\ events["demote"] = 0 /\ events["late"] = 0 /\ events["delete"] = 0
       /\ demote = {} /\ terminating = {} /\ ~ss.switchPod
       /\ pc \notin {"swReadOnly", "swKill", "swStatus", "swWait", "swIndex", "swDemote"}
       /\ ~db[primaryIdx].io

(* What a pass has seen of an instance is still true of it. *)
ViewInv ==
    /\ pc \notin {"idle", "panic"} => \A i \in ss.known : ss.st[i].ro => db[i].ro
    /\ pc \in {"gather", "recheck"} =>
          \A i \in ss.known : /\ ss.st[i].exec \subseteq db[i].exec
                              /\ db[i].src \in {ss.st[i].src, NoSource}

(* The relay logs that a failover compares do not grow. *)
RelayInv ==
    /\ pc = "foRecheck" =>
          \A i \in Runners \ todo : db[i].relay \subseteq ss.st[i].retrieved
    /\ pc \in {"foCompare", "foTop", "foWait", "foIndex"} =>
          \A i \in Runners : db[i].relay \subseteq ss.st[i].retrieved
    /\ pc \in {"foWait", "foIndex"} => ss.goal = ss.st[ss.cand].retrieved
    /\ pc = "foIndex" => ss.goal \subseteq db[ss.cand].exec

(* A switchover goes from a primary that is not a replica to one of its    *)
(* replicas, and waits for all that the old primary will ever have.        *)
HandInv ==
    /\ SwitchPlanned =>
          /\ db[primaryIdx].relay = {} /\ ~db[primaryIdx].io
          /\ ss.cand # primaryIdx /\ db[ss.cand].src \in {primaryIdx, NoSource}
    /\ pc \in {"swKill", "swStatus", "swWait", "swIndex"} => db[primaryIdx].ro
    /\ pc \in {"swWait", "swIndex"} => db[primaryIdx].exec \subseteq ss.goal
    /\ pc = "swIndex" => ss.goal \subseteq db[ss.cand].exec

(* A cluster that MOCO has configured, and whose volumes are kept. *)
KeepsVolumes(s) == s.start = "replicating" /\ s.events["wipe"] = 0

(* Every instance has data, in every snapshot as well, so that none is     *)
(* cloned again.                                                           *)
SeedInv ==
    /\ events["wipe"] = 0
    /\ \A i \in Index : Seeds \subseteq db[i].exec
    /\ pc \notin {"idle", "panic"} => \A i \in ss.known : Seeds \subseteq ss.st[i].exec
    /\ pc # "repClone"

ChannelInv == LockInv /\ LogInv /\ QuietInv
CourseInv == StrayInv /\ ViewInv /\ LoopInv /\ RelayInv /\ HandInv /\ NoFalseErrant

-----------------------------------------------------------------------------
(* Liveness *)

(* The primary is down, every replica runs, is reachable and has data, and *)
(* nothing is errant.                                                      *)
Outage(p) ==
    /\ primaryIdx = p
    /\ ~db[p].up
    /\ errantList = {}
    /\ pods = Index
    /\ \A i \in Index \ {p} : Reachable(i)

(* A primary that stays down is replaced. *)
FailoverHappens == \A p \in Index : []<>~Outage(p)

(* No instance has a transaction that the primary lacks. *)
NothingErrant ==
    \A i \in Index :
        db[i].exec \subseteq db[primaryIdx].exec \cup db[primaryIdx].wait

(* A demoted instance whose sessions still wait for acks: GatherStatus     *)
(* leaves it alone.                                                        *)
NothingHung == \A i \in Index \ {primaryIdx} : db[i].wait = {}

(* Once failures stop, the cluster becomes Healthy again unless it is      *)
(* offline or has errant transactions or a hung replica, whatever state    *)
(* the failures and the passes they interrupted left it in (process.go).   *)
Recovery ==
    <>[](NothingErrant /\ NothingHung /\ ~offline) => []<>(condition = "Healthy")

(* An instance that stays errant is cut off: it gets no transactions from  *)
(* the cluster and its Pod serves no reads (removeRoleLabel,               *)
(* configureReplica).                                                      *)
ErrantExcluded ==
    \A i \in Index : []<>~(i \in errantList /\ (role[i] # "" \/ Connected(i)))

(* No replica stays writable: configureReplica turns super_read_only on.   *)
(* An errant or hung one is left alone.                                    *)
ReplicasLocked ==
    \A i \in Index :
        []<>~(/\ i # primaryIdx /\ ~db[i].ro
              /\ i \notin errantList /\ db[i].wait = {})

(* An intermediate primary does not stay writable                          *)
(* (configureIntermediatePrimary).                                         *)
IntermediateLocked == <>[]source => []<>db[primaryIdx].ro

RoleOf(i) == IF i = primaryIdx THEN "primary" ELSE "replica"

(* docs/clustering.md: the role labels are adjusted according to the roles.*)
(* A cluster that stays Healthy has all of its Pods labelled, so that the  *)
(* Services select them (addRoleLabel).                                    *)
RolesAdjusted ==
    <>[](condition = "Healthy") => []<>(\A i \in Index : role[i] = RoleOf(i))

(* In a cluster that stays Healthy no Pod keeps the label of a role it     *)
(* does not have, even if the pass that was to withdraw it was interrupted *)
(* (removeRoleLabel).                                                      *)
NoStaleRole ==
    <>[](condition = "Healthy") =>
        []<>(\A i \in Index : role[i] \in {"", RoleOf(i)})

(* A request to demote the primary is obeyed or overtaken: no instance     *)
(* stays the primary while its Pod is annotated, even when the pass is     *)
(* interrupted between the index and the annotation (switchover).          *)
DemoteObeyed == \A p \in Index : []<>~(primaryIdx = p /\ p \in demote)

=============================================================================
