------------------------------- MODULE Rollout -------------------------------
(***************************************************************************)
(* The StatefulSet of a MySQLCluster and what changes it: the reconciler   *)
(* (reconcilePVC, reconcileV1StatefulSet, reconcileV1PDB, updateStatus),   *)
(* the webhook StatefulSetDefaulter, which sets the partition, and the     *)
(* partition controller, which lowers it.  The StatefulSet controller and  *)
(* kubelet, which create and delete the Pods, are external; the loop of    *)
(* module Clustering is reduced to the Healthy condition that it writes.   *)
(*                                                                         *)
(* A spec is reduced to the version of the Pod template, the size of the   *)
(* volume claim, the number of replicas and the annotation                 *)
(* force-rolling-update.  Generations are not counted: what is compared is *)
(* whether the observed one is the current one.  A missing partition acts  *)
(* as partition 0.                                                         *)
(***************************************************************************)
EXTENDS Integers, FiniteSets, Sequences

CONSTANTS
    MaxReplicas,    \* the Pods of the largest cluster
    Templates,      \* versions of the Pod template; 0 is no version
    Broken,         \* those whose Pods never become ready
    MaxSize,        \* the largest volume; 0 is no volume
    Scenarios       \* the starts, each with what happens

Ordinals == 0 .. MaxReplicas - 1

(* Admission accepts odd numbers of replicas. *)
MySQLClusterSpec ==
    [tmpl: Templates, size: 1 .. MaxSize,
     replicas: {n \in 1 .. MaxReplicas : n % 2 = 1},
     offline: BOOLEAN, force: BOOLEAN]

(* How often a Pod fails, a step of the controller fails, an autoresizer   *)
(* grows a volume, a backup runs, and the cluster turns unhealthy although *)
(* its Pods are ready.                                                     *)
Budget == [fail: Nat, error: Nat, grow: Nat, backup: Nat, sick: Nat]

(* A scenario is the first spec, the edits that follow it and a budget.    *)
ASSUME RolloutAssumption ==
    /\ MaxReplicas \in Nat \ {0} /\ MaxSize \in Nat \ {0}
    /\ Templates \subseteq Nat \ {0} /\ Broken \subseteq Templates
    /\ Scenarios \subseteq
          [first: MySQLClusterSpec, edits: Seq(MySQLClusterSpec), budget: Budget]

VARIABLES
    spec,           \* MySQLCluster.spec in the API server
    reconciled,     \* status.reconcileInfo.generation is the current one
    healthy,        \* condition Healthy
    sts,            \* the StatefulSet
    pods,           \* the Pods
    pvc,            \* the requested sizes of their volumes
    pdb,            \* maxUnavailable of the PodDisruptionBudget, if any
    rpc, view, fresh, todo,     \* the reconciliation in progress: what it has
                                \* read, whether that is current, PVCs to visit
    ppc, read,      \* the partition controller and the StatefulSet it has read
    seen,           \* the Pods in its cache
    loop,           \* what the clustering loop is about to report
    sick,           \* the instances do not replicate
    active,         \* a backup Job runs
    edits, budget,  \* what may still happen
    struck          \* history: Pods that went down and were not seen down

kubeVars == <<sts, pods, pvc, pdb>>
clusterVars == <<spec, reconciled, healthy>>
recVars == <<rpc, view, fresh, todo>>
partVars == <<ppc, read, seen>>
envVars == <<loop, sick, active, edits, budget>>
vars == <<clusterVars, kubeVars, recVars, partVars, envVars, struck>>

Pod == [phase: {"none", "starting", "ready", "terminating"}, rev: Templates \cup {0}]
NoPod == [phase |-> "none", rev |-> 0]

(* tmpl to partition: the spec; the others: the status.  upd and cur are   *)
(* updateRevision and currentRevision, updated and ready count Pods.       *)
StatefulSet ==
    [there: BOOLEAN, deleting: BOOLEAN,
     tmpl: Templates \cup {0}, size: 0 .. MaxSize, replicas: 0 .. MaxReplicas,
     force: BOOLEAN, partition: 0 .. MaxReplicas,
     observed: BOOLEAN, upd: Templates \cup {0}, cur: Templates \cup {0},
     updated: 0 .. MaxReplicas, ready: 0 .. MaxReplicas]

NoStatefulSet ==
    [there |-> FALSE, deleting |-> FALSE, tmpl |-> 0, size |-> 0,
     replicas |-> 0, force |-> FALSE, partition |-> 0, observed |-> FALSE,
     upd |-> 0, cur |-> 0, updated |-> 0, ready |-> 0]

TypeOK ==
    /\ spec \in MySQLClusterSpec /\ view \in MySQLClusterSpec
    /\ reconciled \in BOOLEAN /\ healthy \in BOOLEAN /\ fresh \in BOOLEAN
    /\ sts \in StatefulSet /\ read \in StatefulSet
    /\ pods \in [Ordinals -> Pod] /\ seen \in [Ordinals -> Pod]
    /\ pvc \in [Ordinals -> 0 .. MaxSize]
    /\ pdb \in SUBSET (0 .. MaxReplicas)
    /\ rpc \in {"idle", "pvc", "resize", "sts", "wait", "pdb", "status"}
    /\ todo \subseteq Ordinals
    /\ ppc \in {"idle", "check", "patch"}
    /\ loop \in {"idle", "Healthy", "Unhealthy"}
    /\ sick \in BOOLEAN /\ active \in BOOLEAN
    /\ edits \in Seq(MySQLClusterSpec) /\ budget \in Budget
    /\ struck \subseteq Ordinals

(* cluster.Spec.Offline: the StatefulSet gets no replicas. *)
Wanted(s) == IF s.offline THEN 0 ELSE s.replicas

(* A cluster whose rollout is over.  One that is offline has its volumes.  *)
Init ==
    /\ \E sc \in Scenarios : spec = sc.first /\ edits = sc.edits /\ budget = sc.budget
    /\ reconciled = TRUE /\ healthy = TRUE
    /\ sts = [there |-> TRUE, deleting |-> FALSE, tmpl |-> spec.tmpl,
              size |-> spec.size, replicas |-> Wanted(spec),
              force |-> spec.force, partition |-> 0, observed |-> TRUE,
              upd |-> spec.tmpl, cur |-> spec.tmpl,
              updated |-> Wanted(spec), ready |-> Wanted(spec)]
    /\ pods = [i \in Ordinals |->
                  IF i < Wanted(spec) THEN [phase |-> "ready", rev |-> spec.tmpl] ELSE NoPod]
    /\ seen = pods
    /\ pvc = [i \in Ordinals |-> IF i < spec.replicas THEN spec.size ELSE 0]
    /\ pdb = IF spec.offline \/ spec.replicas < 3 THEN {} ELSE {spec.replicas \div 2}
    /\ rpc = "idle" /\ view = spec /\ fresh = FALSE /\ todo = {}
    /\ ppc = "idle" /\ read = NoStatefulSet
    /\ loop = "idle" /\ sick = FALSE /\ active = FALSE
    /\ struck = {}

Happens(kind) ==
    /\ budget[kind] > 0
    /\ budget' = [budget EXCEPT ![kind] = @ - 1]

-----------------------------------------------------------------------------
(* Admission: StatefulSetDefaulter *)

SameSpec(a, b) == a.tmpl = b.tmpl /\ a.size = b.size /\ a.replicas = b.replicas

(* Fault: the partition is reset only if the update leaves it out. *)
StatefulSetDefault_Fault(new, old) ==
    IF new.force THEN [new EXCEPT !.partition = 0] ELSE new

(* The partition of an updated StatefulSet: none with the annotation;      *)
(* otherwise the number of replicas, unless the partition is all that      *)
(* changes.                                                                *)
StatefulSetDefault(new, old) ==
    IF new.force THEN [new EXCEPT !.partition = 0]
    ELSE IF new.partition # old.partition /\ SameSpec(new, old) THEN new
    ELSE [new EXCEPT !.partition = new.replicas]

(* The API server admits a new version and gives it a new generation if    *)
(* its spec differs.                                                       *)
Admit(new) ==
    LET s == StatefulSetDefault(new, sts) IN
    sts' = [s EXCEPT !.observed = @ /\ SameSpec(s, sts) /\ s.partition = sts.partition]

-----------------------------------------------------------------------------
(* The reconciler *)

reconcilePDB(s) ==
    IF s.offline \/ s.replicas < 3 THEN {}
    ELSE IF active THEN {0} ELSE {s.replicas \div 2}

(* DeepEqual of the wanted StatefulSet and the deployed one. *)
Deployed(s) ==
    /\ sts.there
    /\ sts.tmpl = s.tmpl /\ sts.size = s.size
    /\ sts.replicas = Wanted(s) /\ sts.force = s.force

(* A reconciliation that finds nothing to do writes nothing. *)
NeedsReconcile == ~reconciled \/ ~Deployed(spec) \/ pdb # reconcilePDB(spec)

Reconcile ==
    /\ rpc = "idle" /\ NeedsReconcile
    /\ rpc' = "pvc" /\ view' = spec /\ fresh' = TRUE
    /\ UNCHANGED <<todo, clusterVars, kubeVars, partVars, envVars, struck>>

isUpdatingStatefulSet(s) ==
    \/ s.deleting
    \/ ~s.observed
    \/ s.ready < s.replicas
    \/ s.updated < s.replicas - s.partition
    \/ s.upd # s.cur

needResizePVC(s, want) == s.size < want

(* Fault: volumes are left to the StatefulSet. *)
reconcilePVC_Fault ==
    /\ rpc = "pvc"
    /\ rpc' = "sts" /\ UNCHANGED todo
    /\ UNCHANGED <<view, fresh, clusterVars, kubeVars, partVars, envVars, struck>>

(* The volumes of the StatefulSet are listed if its claim template is      *)
(* smaller than the wanted one and no update is in progress.  Synchronised *)
(* labels and annotations of the volumes are left out.                     *)
reconcilePVC ==
    /\ rpc = "pvc"
    /\ todo' = IF /\ sts.there /\ ~isUpdatingStatefulSet(sts)
                  /\ needResizePVC(sts, view.size)
               THEN {i \in Ordinals : i < sts.replicas /\ pvc[i] \notin {0, view.size}}
               ELSE {}
    /\ rpc' = IF todo' = {} THEN "sts" ELSE "resize"
    /\ UNCHANGED <<view, fresh, clusterVars, kubeVars, partVars, envVars, struck>>

(* One update of a volume claim. *)
resizePVC ==
    /\ rpc = "resize"
    /\ \E i \in todo :
          /\ pvc[i] < view.size
          /\ pvc' = [pvc EXCEPT ![i] = view.size]
          /\ todo' = todo \ {i}
    /\ rpc' = IF todo' = {} THEN "sts" ELSE "resize"
    /\ UNCHANGED <<view, fresh, clusterVars, sts, pods, pdb, partVars, envVars, struck>>

(* A volume is larger than the wanted size (ErrReduceVolumeSize), or was   *)
(* changed since it was listed: the reconciliation ends with an error.     *)
resizeRefused ==
    /\ rpc = "resize"
    /\ \E i \in todo : pvc[i] >= view.size
    /\ todo' = {} /\ rpc' = "status"
    /\ UNCHANGED <<view, fresh, clusterVars, kubeVars, partVars, envVars, struck>>

stsUnchanged ==
    /\ rpc = "sts" /\ Deployed(view)
    /\ rpc' = "pdb"
    /\ UNCHANGED <<view, fresh, todo, clusterVars, kubeVars, partVars, envVars, struck>>

(* The claim template of a StatefulSet cannot be changed: it is deleted    *)
(* and its Pods are left (DeletePropagationOrphan).                        *)
stsDelete ==
    /\ rpc = "sts" /\ sts.there /\ sts.size # view.size
    /\ sts' = [sts EXCEPT !.deleting = TRUE]
    /\ rpc' = "wait"
    /\ UNCHANGED <<view, fresh, todo, clusterVars, pods, pvc, pdb, partVars, envVars, struck>>

(* Server-side apply; the partition is not among the applied fields. *)
stsApply ==
    /\ rpc = "sts" /\ sts.there /\ sts.size = view.size /\ ~Deployed(view)
    /\ Admit([sts EXCEPT !.tmpl = view.tmpl, !.replicas = Wanted(view),
                         !.force = view.force])
    /\ rpc' = "pdb"
    /\ UNCHANGED <<view, fresh, todo, clusterVars, pods, pvc, pdb, partVars, envVars, struck>>

(* The StatefulSet is gone, whoever deleted it. *)
stsCreate ==
    /\ rpc \in {"sts", "wait"} /\ ~sts.there
    /\ sts' = [NoStatefulSet EXCEPT
                  !.there = TRUE, !.tmpl = view.tmpl, !.size = view.size,
                  !.replicas = Wanted(view), !.force = view.force,
                  !.partition = IF view.force THEN 0 ELSE Wanted(view)]
    /\ rpc' = "pdb"
    /\ UNCHANGED <<view, fresh, todo, clusterVars, pods, pvc, pdb, partVars, envVars, struck>>

reconcileV1PDB ==
    /\ rpc = "pdb"
    /\ pdb' = reconcilePDB(view)
    /\ rpc' = "status"
    /\ UNCHANGED <<view, fresh, todo, clusterVars, sts, pods, pvc, partVars, envVars, struck>>

(* Deferred, so it also follows an error.  The write is a conflict if the  *)
(* MySQLCluster has changed since it was read.                             *)
updateStatus ==
    /\ rpc = "status"
    /\ reconciled' = (reconciled \/ fresh)
    /\ rpc' = "idle" /\ view' = spec /\ fresh' = FALSE
    /\ UNCHANGED <<todo, spec, healthy, kubeVars, partVars, envVars, struck>>

(* A call fails, or the StatefulSet is not gone after five seconds. *)
reconcileError ==
    /\ rpc \in {"pvc", "resize", "sts", "wait", "pdb"} /\ Happens("error")
    /\ rpc' = "status" /\ todo' = {}
    /\ UNCHANGED <<view, fresh, clusterVars, kubeVars, partVars,
                   loop, sick, active, edits, struck>>

Reconciler ==
    \/ Reconcile \/ reconcilePVC \/ resizePVC \/ resizeRefused
    \/ stsUnchanged \/ stsDelete \/ stsApply \/ stsCreate
    \/ reconcileV1PDB \/ updateStatus

-----------------------------------------------------------------------------
(* The partition controller *)

(* Fault: the Pod with ordinal 0 is forgotten. *)
needPartitionUpdate_Fault(s) == ~s.force /\ s.partition > 1

needPartitionUpdate(s) == ~s.force /\ s.partition > 0

(* Fault: one too far. *)
nextRolloutTargetIndex_Fault(s) == s.partition - 2

nextRolloutTargetIndex(s) == s.partition - 1

(* The Pods of the cache by their names.  Sorting by name is sorting by    *)
(* ordinal as long as there are no more than ten.                          *)
Listed == {i \in Ordinals : seen[i].phase # "none"}
PodAt(k) == seen[CHOOSE i \in Listed : Cardinality({j \in Listed : j < i}) = k]

(* Being available for five seconds is being ready. *)
areAllChildPodsRolloutReady(s) ==
    \A k \in 0 .. Cardinality(Listed) - 1 :
        k # nextRolloutTargetIndex(s) =>
            /\ k >= s.partition => PodAt(k).rev = s.upd
            /\ PodAt(k).phase = "ready"

isRolloutReady(s) ==
    \/ s.replicas = s.updated
    \/ /\ Cardinality(Listed) = s.replicas
       /\ nextRolloutTargetIndex(s) >= 0
       /\ LET target == PodAt(nextRolloutTargetIndex(s)) IN
          \/ target.rev = s.upd
          \/ /\ target.phase = "ready" => healthy
             /\ areAllChildPodsRolloutReady(s)

(* Fault: it does not wait until the StatefulSet controller has counted    *)
(* the Pods of the new template.                                           *)
partitionRead_Fault ==
    /\ ppc = "idle" /\ sts.there /\ needPartitionUpdate(sts)
    /\ ppc' = "check" /\ read' = sts
    /\ UNCHANGED <<seen, clusterVars, kubeVars, recVars, envVars, struck>>

partitionRead ==
    /\ ppc = "idle" /\ sts.there /\ sts.observed /\ needPartitionUpdate(sts)
    /\ ppc' = "check" /\ read' = sts
    /\ UNCHANGED <<seen, clusterVars, kubeVars, recVars, envVars, struck>>

(* The MySQLCluster and the Pods are read later than the StatefulSet.      *)
(* struck keeps what the cache does not show yet.  The rate limiter only   *)
(* delays.                                                                 *)
partitionCheck ==
    /\ ppc = "check"
    /\ IF reconciled /\ isRolloutReady(read)
       THEN /\ ppc' = "patch"
            /\ struck' = {i \in struck : seen[i].phase = "ready"}
            /\ UNCHANGED read
       ELSE /\ ppc' = "idle" /\ read' = NoStatefulSet
            /\ UNCHANGED struck
    /\ UNCHANGED <<seen, clusterVars, kubeVars, recVars, envVars>>

(* A merge patch of the partition alone, on whatever the StatefulSet is    *)
(* by then.                                                                *)
patchNewPartition ==
    /\ ppc = "patch"
    /\ IF sts.there THEN Admit([sts EXCEPT !.partition = nextRolloutTargetIndex(read)])
                    ELSE UNCHANGED sts
    /\ ppc' = "idle" /\ read' = NoStatefulSet
    /\ UNCHANGED <<seen, clusterVars, pods, pvc, pdb, recVars, envVars, struck>>

CacheSync(i) ==
    /\ seen[i] # pods[i]
    /\ seen' = [seen EXCEPT ![i] = pods[i]]
    /\ UNCHANGED <<ppc, read, clusterVars, kubeVars, recVars, envVars, struck>>

PartitionController == partitionRead \/ partitionCheck \/ patchNewPartition

(* The controller process ends and starts again. *)
Crash ==
    /\ Happens("error")
    /\ rpc # "idle" \/ ppc # "idle"
    /\ rpc' = "idle" /\ view' = spec /\ fresh' = FALSE /\ todo' = {}
    /\ ppc' = "idle" /\ read' = NoStatefulSet /\ seen' = pods
    /\ UNCHANGED <<clusterVars, kubeVars, loop, sick, active, edits, struck>>

-----------------------------------------------------------------------------
(* External: the StatefulSet controller, kubelet and garbage collection *)

Running(i) == pods[i].phase \in {"starting", "ready"}
Counted == Cardinality({i \in Ordinals : Running(i) /\ pods[i].rev = sts.tmpl})
Ready == {i \in Ordinals : pods[i].phase = "ready"}

(* A new StatefulSet has no current revision; the update takes its place.  *)
CurrentRevision == IF sts.cur = 0 THEN sts.tmpl ELSE sts.cur

StatefulSetStatus ==
    LET n == Cardinality(Ready)
        done == Counted = sts.replicas /\ n = sts.replicas
        new == [sts EXCEPT !.observed = TRUE, !.upd = sts.tmpl, !.updated = Counted,
                           !.cur = IF done THEN sts.tmpl ELSE CurrentRevision,
                           !.ready = n]
    IN /\ sts.there /\ new # sts
       /\ sts' = new
       /\ UNCHANGED <<pods, pvc, pdb, clusterVars, recVars, partVars, envVars, struck>>

StatefulSetGone ==
    /\ sts.there /\ sts.deleting
    /\ sts' = NoStatefulSet
    /\ UNCHANGED <<pods, pvc, pdb, clusterVars, recVars, partVars, envVars, struck>>

(* A missing Pod below the partition gets the current revision. *)
PodCreate(i) ==
    /\ sts.there /\ ~sts.deleting /\ i < sts.replicas /\ pods[i] = NoPod
    /\ pods' = [pods EXCEPT ![i] =
                   [phase |-> "starting",
                    rev |-> IF i < sts.partition THEN CurrentRevision ELSE sts.tmpl]]
    /\ pvc' = [pvc EXCEPT ![i] = IF @ = 0 THEN sts.size ELSE @]
    /\ UNCHANGED <<sts, pdb, clusterVars, recVars, partVars, envVars, struck>>

PodReady(i) ==
    /\ pods[i].phase = "starting" /\ pods[i].rev \notin Broken
    /\ pods' = [pods EXCEPT ![i].phase = "ready"]
    /\ struck' = struck \ {i}
    /\ UNCHANGED <<sts, pvc, pdb, clusterVars, recVars, partVars, envVars>>

Terminate(i) ==
    /\ pods' = [pods EXCEPT ![i].phase = "terminating"]
    /\ struck' = struck \cup {i}

(* From the highest ordinal down to the partition, one at a time. *)
Rolls(i) ==
    /\ sts.there /\ ~sts.deleting
    /\ i >= sts.partition /\ i < sts.replicas /\ Running(i) /\ pods[i].rev # sts.tmpl
    /\ \A j \in Ordinals :
          i < j /\ j < sts.replicas => pods[j].phase = "ready" /\ pods[j].rev = sts.tmpl
    /\ Terminate(i)

PodRoll(i) ==
    /\ Rolls(i)
    /\ UNCHANGED <<sts, pvc, pdb, clusterVars, recVars, partVars, envVars>>

PodScaleDown(i) ==
    /\ sts.there /\ ~sts.deleting /\ i >= sts.replicas /\ Running(i)
    /\ Terminate(i)
    /\ UNCHANGED <<sts, pvc, pdb, clusterVars, recVars, partVars, envVars>>

PodGone(i) ==
    /\ pods[i].phase = "terminating"
    /\ pods' = [pods EXCEPT ![i] = NoPod]
    /\ UNCHANGED <<sts, pvc, pdb, clusterVars, recVars, partVars, envVars, struck>>

PodLife(i) ==
    PodCreate(i) \/ PodReady(i) \/ PodRoll(i) \/ PodScaleDown(i) \/ PodGone(i)

(* mysqld fails, or the node. *)
PodFail(i) ==
    /\ pods[i].phase = "ready" /\ Happens("fail")
    /\ \E phase \in {"starting", "terminating"} :
          pods' = [pods EXCEPT ![i].phase = phase]
    /\ struck' = struck \cup {i}
    /\ UNCHANGED <<sts, pvc, pdb, clusterVars, recVars, partVars,
                   loop, sick, active, edits>>

-----------------------------------------------------------------------------
(* The clustering loop, users and others *)

InService == ~sick /\ \A i \in Ordinals : i < Wanted(spec) => pods[i].phase = "ready"

LoopGather ==
    /\ loop = "idle" /\ InService # healthy
    /\ loop' = IF InService THEN "Healthy" ELSE "Unhealthy"
    /\ UNCHANGED <<sick, active, edits, budget, clusterVars, kubeVars, recVars,
                   partVars, struck>>

LoopReport ==
    /\ loop # "idle"
    /\ healthy' = (loop = "Healthy")
    /\ loop' = "idle" /\ fresh' = FALSE
    /\ UNCHANGED <<spec, reconciled, kubeVars, rpc, view, todo, partVars,
                   sick, active, edits, budget, struck>>

(* The annotation does not belong to the spec: it gives no new generation. *)
UserEdit ==
    /\ edits # <<>>
    /\ spec' = Head(edits) /\ edits' = Tail(edits)
    /\ reconciled' = (reconciled /\ spec' = [spec EXCEPT !.force = spec'.force])
    /\ fresh' = FALSE
    /\ UNCHANGED <<healthy, kubeVars, rpc, view, todo, partVars,
                   loop, sick, active, budget, struck>>

Sicken ==
    /\ ~sick /\ Happens("sick") /\ sick' = TRUE
    /\ UNCHANGED <<loop, active, edits, clusterVars, kubeVars, recVars, partVars, struck>>

Heal ==
    /\ sick /\ sick' = FALSE
    /\ UNCHANGED <<loop, active, edits, budget, clusterVars, kubeVars, recVars,
                   partVars, struck>>

(* pvc-autoresizer *)
VolumeGrow(i) ==
    /\ pvc[i] \in 1 .. MaxSize - 1 /\ Happens("grow")
    /\ pvc' = [pvc EXCEPT ![i] = @ + 1]
    /\ UNCHANGED <<sts, pods, pdb, clusterVars, recVars, partVars,
                   loop, sick, active, edits, struck>>

BackupBegin ==
    /\ ~active /\ Happens("backup") /\ active' = TRUE
    /\ UNCHANGED <<loop, sick, edits, clusterVars, kubeVars, recVars, partVars, struck>>

BackupEnd ==
    /\ active /\ active' = FALSE
    /\ UNCHANGED <<loop, sick, edits, budget, clusterVars, kubeVars, recVars,
                   partVars, struck>>

-----------------------------------------------------------------------------
Next ==
    \/ Reconciler \/ reconcileError \/ PartitionController \/ Crash
    \/ StatefulSetStatus \/ StatefulSetGone
    \/ \E i \in Ordinals : PodLife(i) \/ PodFail(i) \/ CacheSync(i) \/ VolumeGrow(i)
    \/ LoopGather \/ LoopReport \/ UserEdit \/ Sicken \/ Heal
    \/ BackupBegin \/ BackupEnd

(* Controllers, kubelet and the clustering loop go on, an unhealthy cluster *)
(* recovers and a backup ends.  No edit, failure or error has to happen.    *)
Fairness ==
    /\ WF_vars(Reconciler) /\ WF_vars(PartitionController)
    /\ WF_vars(StatefulSetStatus) /\ WF_vars(StatefulSetGone)
    /\ WF_vars(LoopGather \/ LoopReport)
    /\ WF_vars(Heal) /\ WF_vars(BackupEnd)
    /\ \A i \in Ordinals : WF_vars(PodLife(i)) /\ WF_vars(CacheSync(i))

Spec == Init /\ [][Next]_vars /\ Fairness

-----------------------------------------------------------------------------
(* Properties *)

(* A rolling update never takes a serving Pod away while another one is    *)
(* down, except one that went down too late for the partition controller   *)
(* to see it: its cache is behind, and isRolloutReady, patchNewPartition   *)
(* and the StatefulSet controller are not one step.  With                  *)
(* force-rolling-update this is not promised; with a second update before  *)
(* the first is rolled out it holds only if no Pod fails (OneRollout).     *)
OneDownAtATime ==
    [][\A i \in Ordinals :
          Rolls(i) /\ pods[i].phase = "ready" /\ ~sts.force =>
              \A j \in Ordinals \ {i} :
                  j < sts.replicas => pods[j].phase = "ready" \/ j \in struck]_vars

(* A template whose Pods never become ready reaches one Pod only, even if  *)
(* others fail and are created again meanwhile: the partition stops above  *)
(* them.                                                                   *)
BrokenContained ==
    sts.there /\ ~sts.force =>
        Cardinality({i \in Ordinals : pods[i].rev \in Broken}) <= 1

(* A volume is at least as large as the claim template of the StatefulSet  *)
(* says: reconcilePVC, which runs before reconcileV1StatefulSet replaces   *)
(* the template, has resized every volume by then, also if it is           *)
(* interrupted half-way.  It needs a StatefulSet at rest: see              *)
(* VolumesResized.                                                         *)
VolumesFollowTemplate ==
    sts.there => \A i \in Ordinals : pvc[i] = 0 \/ pvc[i] >= sts.size

(* change-pvc-template.md: "moco-controller automatically resizes the PVC  *)
(* when the size of the MySQLCluster volume claim is extended."            *)
VolumesResized ==
    <>[](\A i \in Ordinals : i < spec.replicas => pvc[i] >= spec.size)

(* A volume that an autoresizer has grown past the wanted size makes       *)
(* resizePVCs fail (ErrReduceVolumeSize), again and again.                 *)
Outgrown == sts.size < spec.size /\ \E i \in Ordinals : pvc[i] > spec.size

RolledOut ==
    /\ reconciled /\ Deployed(spec) /\ sts.partition = 0 /\ pdb = reconcilePDB(spec)
    /\ \A i \in Ordinals :
          IF i < Wanted(spec)
          THEN pods[i] = [phase |-> "ready", rev |-> spec.tmpl] /\ pvc[i] >= spec.size
          ELSE pods[i] = NoPod
    /\ healthy

(* After the last edit and the last failure every Pod runs the last        *)
(* template, the budget and the volumes follow the spec, and no partition  *)
(* is left, whatever errors, crashes and failures came between; unless the *)
(* template is broken or a volume has outgrown the wanted size.            *)
Convergence == <>[](RolledOut \/ spec.tmpl \in Broken \/ Outgrown)

-----------------------------------------------------------------------------
(* Why the volumes follow the template *)

(* Only the first edit enlarges the volumes, of a cluster that is not      *)
(* offline and whose Pods do not fail; later edits leave the size or       *)
(* reduce it.                                                              *)
GrowsAtRest(s) ==
    /\ \A j, k \in 1 .. Len(s.edits) : j < k => s.edits[k].size <= s.edits[j].size
    /\ \/ s.edits = <<>> \/ s.edits[1].size <= s.first.size
       \/ s.budget.fail = 0 /\ ~s.first.offline

EnoughFor(size) == \A i \in Ordinals : pvc[i] = 0 \/ pvc[i] >= size

(* No volume that is wanted from now on is larger than those there are. *)
NoMoreGrowth ==
    /\ \A k \in 1 .. Len(edits) : edits[k].size <= spec.size
    /\ spec.size <= view.size
    /\ EnoughFor(view.size)
    /\ sts.there => EnoughFor(sts.size)
    /\ sts.there /\ ~sts.deleting => sts.size >= view.size

(* Every Pod is ready, and nothing is left to do for the StatefulSet       *)
(* controller and for the partition controller.                            *)
StatefulSetAtRest ==
    /\ sts.there /\ ~sts.deleting /\ sts.observed
    /\ sts.partition = 0 /\ ppc = "idle" /\ budget.fail = 0
    /\ sts.upd = sts.tmpl /\ sts.cur = sts.tmpl
    /\ sts.updated = sts.replicas /\ sts.ready = sts.replicas
    /\ \A i \in Ordinals :
          pods[i] = IF i < sts.replicas THEN [phase |-> "ready", rev |-> sts.tmpl] ELSE NoPod

(* Volumes are resized while the StatefulSet is as it was: those not on    *)
(* the list have the wanted size, and the list is empty before the         *)
(* StatefulSet is deleted.                                                 *)
GrowingAtRest ==
    /\ StatefulSetAtRest
    /\ sts.size > 0
    /\ \A i \in Ordinals : IF i < sts.replicas THEN pvc[i] >= sts.size ELSE pvc[i] = 0
    /\ rpc = "resize" => \A i \in Ordinals :
                            i < sts.replicas => i \in todo \/ pvc[i] >= view.size
    /\ rpc = "sts" /\ view.size > sts.size => EnoughFor(view.size)
    /\ rpc # "wait"
    /\ \/ Deployed(spec) /\ Deployed(view)
       \/ /\ \A k \in 1 .. Len(edits) : edits[k].size <= spec.size
          /\ Deployed(view) \/ spec.size <= view.size

VolumeInv ==
    /\ \A j, k \in 1 .. Len(edits) : j < k => edits[k].size <= edits[j].size
    /\ \A i \in todo : pvc[i] # 0
    /\ NoMoreGrowth \/ GrowingAtRest

-----------------------------------------------------------------------------
(* Why a broken template reaches one Pod only *)

(* Only the first edit may bring a broken template, and then it neither    *)
(* resizes the volumes nor removes Pods nor forces the update.             *)
BreaksOnce(s) ==
    /\ s.first.tmpl \notin Broken
    /\ \A k \in 2 .. Len(s.edits) : s.edits[k].tmpl \notin Broken
    /\ s.edits # <<>> /\ s.edits[1].tmpl \in Broken =>
          /\ s.edits[1].size = s.first.size
          /\ s.first.offline \/ s.first.replicas <= s.edits[1].replicas
          /\ ~s.edits[1].offline /\ ~s.edits[1].force /\ ~s.first.force

(* What a broken template may come with. *)
OnlyAddsPods(s) ==
    sts.size = s.size /\ sts.replicas <= Wanted(s) /\ Wanted(s) > 0 /\ ~s.force

EditsWork == \A k \in 1 .. Len(edits) : edits[k].tmpl \notin Broken

PodsWork(ps) == \A i \in Ordinals : ps[i].rev \notin Broken

(* The first template is deployed, and the broken one is still to come. *)
NotYetBroken ==
    /\ sts.there /\ ~sts.deleting /\ ~sts.force /\ sts.partition = 0 /\ ppc = "idle"
    /\ sts.tmpl \in Templates \ Broken /\ sts.cur = sts.tmpl
    /\ PodsWork(pods) /\ PodsWork(seen)
    /\ \A i \in Ordinals : i >= sts.replicas => pods[i] = NoPod /\ seen[i] = NoPod
    /\ \/ /\ Deployed(view) /\ Deployed(spec)
          /\ \A k \in 2 .. Len(edits) : edits[k].tmpl \notin Broken
          /\ edits # <<>> /\ edits[1].tmpl \in Broken => OnlyAddsPods(edits[1])
       \/ /\ EditsWork
          /\ spec.tmpl \in Broken => OnlyAddsPods(spec)
          /\ view.tmpl \in Broken => OnlyAddsPods(view)
          /\ spec.tmpl \in Broken => view = spec \/ Deployed(view)

(* Pods of the broken template are at the highest ordinal only, and the    *)
(* partition stops there.                                                  *)
LastOnly(ps) ==
    \A i \in Ordinals :
        /\ ps[i].rev \in Broken => i = sts.replicas - 1 /\ ps[i].phase # "ready"
        /\ i >= sts.replicas => ps[i] = NoPod

(* The broken template is deployed. *)
BrokenAtLast ==
    /\ sts.there /\ ~sts.force
    /\ sts.replicas > 0 /\ sts.partition >= sts.replicas - 1
    /\ sts.tmpl \in Broken /\ sts.cur \in Templates \ Broken
    /\ sts.observed => sts.upd = sts.tmpl /\ sts.updated <= 1
    /\ LastOnly(pods) /\ LastOnly(seen)
    /\ ppc # "idle" => /\ read.replicas = sts.replicas /\ read.upd \in Broken
                       /\ read.updated <= 1 /\ read.partition >= sts.replicas - 1
    /\ ppc = "patch" => read.partition >= sts.replicas
    /\ EditsWork
    /\ spec.tmpl \in Broken => Deployed(spec) /\ view.tmpl \in Broken
    /\ view.tmpl \in Broken => Deployed(view)
    /\ sts.deleting => view.tmpl \notin Broken

(* What is deployed works, and so does everything that is still to come. *)
AllWork ==
    /\ EditsWork /\ spec.tmpl \notin Broken /\ view.tmpl \notin Broken
    /\ sts.tmpl \notin Broken /\ sts.cur \notin Broken
    /\ Cardinality({i \in Ordinals : pods[i].rev \in Broken}) <= 1

BrokenInv == NotYetBroken \/ BrokenAtLast \/ AllWork

-----------------------------------------------------------------------------
(* Why one Pod is taken away at a time *)

(* At most one edit: a new template, maybe with more Pods. *)
OneRollout(s) ==
    /\ Len(s.edits) <= 1 /\ ~s.first.force
    /\ s.edits # <<>> =>
          /\ s.edits[1].tmpl # s.first.tmpl /\ s.edits[1].size = s.first.size
          /\ ~s.edits[1].force /\ Wanted(s.first) <= Wanted(s.edits[1])

(* A Pod that went down is seen to be down, or it is struck. *)
SeenInv ==
    \A i \in Ordinals : seen[i].phase = "ready" => pods[i].phase = "ready" \/ i \in struck

(* s is what a rolling update is to bring. *)
Replaces(s) ==
    /\ s.tmpl # sts.tmpl /\ s.size = sts.size /\ ~s.force
    /\ sts.replicas <= Wanted(s)

HasNoOthers(ps) == \A i \in Ordinals : i >= sts.replicas => ps[i] = NoPod

(* The new template is not deployed yet. *)
NotYetRolling ==
    /\ sts.there /\ ~sts.deleting /\ ~sts.force /\ sts.partition = 0 /\ ppc = "idle"
    /\ sts.tmpl # 0 /\ sts.cur = sts.tmpl
    /\ \A i \in Ordinals : pods[i].rev \in {sts.tmpl, 0} /\ seen[i].rev \in {sts.tmpl, 0}
    /\ HasNoOthers(pods) /\ HasNoOthers(seen)
    /\ \/ /\ Deployed(view) /\ Deployed(spec) /\ Len(edits) <= 1
          /\ edits # <<>> => Replaces(edits[1])
       \/ /\ Deployed(view) \/ view = spec
          /\ Replaces(spec) /\ edits = <<>>

(* Everyone but the Pod with ordinal i serves, as far as one can know. *)
OthersServe(i) ==
    \A j \in Ordinals \ {i} : j < sts.replicas => pods[j].phase = "ready" \/ j \in struck

New(pod) == pod.rev \in {sts.tmpl, 0}

(* Pods below the partition are old, those above it are new, and the one   *)
(* at the partition is next: the others serve until it is new, too.        *)
PodsInv ==
    /\ HasNoOthers(pods) /\ HasNoOthers(seen)
    /\ \A i \in Ordinals :
          /\ i < sts.partition => pods[i].rev # sts.tmpl /\ seen[i].rev # sts.tmpl
          /\ i > sts.partition => New(pods[i])
          /\ i >= sts.partition /\ seen[i].rev = sts.tmpl => New(pods[i])
          /\ i = sts.partition /\ ~New(pods[i]) => OthersServe(i)

(* The partition is lowered only when the last one is new and the others   *)
(* serve.                                                                  *)
PartitionInv ==
    /\ ppc # "idle" =>
          /\ read.partition = sts.partition /\ read.upd = sts.tmpl
          /\ read.replicas = sts.replicas /\ read.updated < sts.replicas
    /\ ppc = "patch" =>
          /\ \A i \in Ordinals : i >= sts.partition => New(pods[i])
          /\ OthersServe(sts.partition - 1)

Rolling ==
    /\ sts.there /\ ~sts.deleting /\ ~sts.force /\ sts.tmpl # 0
    /\ Deployed(view) /\ Deployed(spec) /\ edits = <<>>
    /\ sts.partition <= sts.replicas
    /\ sts.partition > 0 =>
          /\ sts.cur \notin {0, sts.tmpl}
          /\ sts.observed => sts.upd = sts.tmpl /\ sts.updated < sts.replicas
    /\ PodsInv /\ PartitionInv

RollInv ==
    /\ SeenInv /\ \A i \in Ordinals : pods[i].rev = 0 => pods[i] = NoPod
    /\ NotYetRolling \/ Rolling

=============================================================================
