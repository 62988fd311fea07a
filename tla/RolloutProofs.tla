---------------------------- MODULE RolloutProofs ----------------------------
(***************************************************************************)
(* Safety of the rolling update and of the volume expansion, for every     *)
(* number of replicas, every set of templates and sizes.                   *)
(***************************************************************************)
EXTENDS Rollout, FiniteSetTheorems, TLAPS

(* A partition that is to be lowered is positive. *)
ReadInv == ppc # "idle" => read.partition > 0

TypeInv == TypeOK /\ ReadInv

(* The ordinals are natural numbers below the largest number of Pods. *)
LEMMA OrdinalFacts ==
    /\ MaxReplicas \in Nat /\ MaxReplicas > 0 /\ Ordinals \subseteq Nat
    /\ IsFiniteSet(Ordinals) /\ Cardinality(Ordinals) = MaxReplicas
<1>1. MaxReplicas \in Nat /\ MaxReplicas > 0
  BY RolloutAssumption
<1>2. IsFiniteSet(Ordinals) /\ Cardinality(Ordinals) = MaxReplicas
  BY <1>1, FS_Interval DEF Ordinals
<1> QED BY <1>1, <1>2 DEF Ordinals

(* A set of Pods has at most as many members as there are Pods. *)
LEMMA PodCount ==
    ASSUME NEW S \in SUBSET Ordinals
    PROVE  IsFiniteSet(S) /\ Cardinality(S) \in 0 .. MaxReplicas
<1>1. IsFiniteSet(S) /\ Cardinality(S) <= Cardinality(Ordinals)
  BY OrdinalFacts, FS_Subset
<1>2. Cardinality(S) \in Nat
  BY <1>1, FS_CardinalityType
<1> QED BY <1>1, <1>2, OrdinalFacts

(* The number of Pods that a spec asks for. *)
LEMMA WantedType ==
    ASSUME NEW s \in MySQLClusterSpec
    PROVE  Wanted(s) \in 0 .. MaxReplicas
BY OrdinalFacts DEF Wanted, MySQLClusterSpec

(* The first StatefulSet is one. *)
LEMMA NoStatefulSetType == NoStatefulSet \in StatefulSet
BY OrdinalFacts, RolloutAssumption DEF NoStatefulSet, StatefulSet

(* What the API server admits is a StatefulSet. *)
LEMMA AdmitType ==
    ASSUME sts \in StatefulSet, NEW new \in StatefulSet, Admit(new)
    PROVE  sts' \in StatefulSet
<1> DEFINE s == StatefulSetDefault(new, sts)
           o == s.observed /\ SameSpec(s, sts) /\ s.partition = sts.partition
<1>1. s \in StatefulSet
  <2>1. /\ [new EXCEPT !.partition = 0] \in StatefulSet
        /\ [new EXCEPT !.partition = new.replicas] \in StatefulSet
    BY OrdinalFacts DEF StatefulSet
  <2> QED BY <2>1 DEF StatefulSetDefault
<1>2. o \in BOOLEAN
  <2>1. s.observed \in BOOLEAN
    <3> HIDE DEF s
    <3> QED BY <1>1 DEF StatefulSet
  <2> QED BY <2>1
<1>3. sts' = [s EXCEPT !.observed = o]
  <2>1. sts' = [s EXCEPT !.observed = @ /\ SameSpec(s, sts) /\ s.partition = sts.partition]
    BY DEF Admit
  <2> HIDE DEF s
  <2> QED BY <1>1, <2>1 DEF StatefulSet
<1> HIDE DEF s, o
<1> QED BY <1>1, <1>2, <1>3 DEF StatefulSet

(* The absence of a Pod is well typed. *)
LEMMA NoPodType == NoPod \in Pod
BY DEF NoPod, Pod

(* What happens is taken from the budget. *)
LEMMA HappensType ==
    ASSUME budget \in Budget, NEW kind \in {"fail", "error", "grow", "backup", "sick"},
           Happens(kind)
    PROVE  budget' \in Budget
BY DEF Happens, Budget

(* The PodDisruptionBudget, if there is one, lets half of the Pods go. *)
LEMMA PDBType ==
    ASSUME NEW s \in MySQLClusterSpec
    PROVE  reconcilePDB(s) \in SUBSET (0 .. MaxReplicas)
<1>1. s.replicas \in 1 .. MaxReplicas
  BY DEF MySQLClusterSpec
<1>2. s.replicas \div 2 \in 0 .. MaxReplicas /\ 0 \in 0 .. MaxReplicas
  BY <1>1, OrdinalFacts
<1> QED BY <1>2 DEF reconcilePDB

(* Everything is well typed at first. *)
LEMMA InitType == Init => TypeInv
<1> SUFFICES ASSUME Init PROVE TypeInv
  OBVIOUS
<1> PICK sc \in Scenarios : spec = sc.first /\ edits = sc.edits /\ budget = sc.budget
  BY DEF Init
<1>1. spec \in MySQLClusterSpec /\ edits \in Seq(MySQLClusterSpec) /\ budget \in Budget
  BY RolloutAssumption
<1>2. Wanted(spec) \in 0 .. MaxReplicas
  BY <1>1, WantedType
<1>3. spec.tmpl \in Templates /\ spec.size \in 0 .. MaxSize /\ spec.force \in BOOLEAN
  BY <1>1 DEF MySQLClusterSpec
<1>4. sts \in StatefulSet
  <2>1. 0 \in 0 .. MaxReplicas
    BY OrdinalFacts
  <2>2. sts = [there |-> TRUE, deleting |-> FALSE, tmpl |-> spec.tmpl,
              size |-> spec.size, replicas |-> Wanted(spec),
              force |-> spec.force, partition |-> 0, observed |-> TRUE,
              upd |-> spec.tmpl, cur |-> spec.tmpl,
              updated |-> Wanted(spec), ready |-> Wanted(spec)]
    BY DEF Init
  <2> QED BY <1>2, <1>3, <2>1, <2>2 DEF StatefulSet
<1>5. pods \in [Ordinals -> Pod]
  <2>1. [phase |-> "ready", rev |-> spec.tmpl] \in Pod
    BY <1>3 DEF Pod
  <2> QED BY <2>1, NoPodType DEF Init
<1>6. pvc \in [Ordinals -> 0 .. MaxSize]
  <2>1. 0 \in 0 .. MaxSize
    BY RolloutAssumption
  <2> QED BY <1>3, <2>1 DEF Init
<1>7. pdb \in SUBSET (0 .. MaxReplicas)
  <2>1. pdb = reconcilePDB(spec)
    BY DEF Init, reconcilePDB
  <2> QED BY <1>1, <2>1, PDBType
<1> QED BY <1>1, <1>4, <1>5, <1>6, <1>7, NoStatefulSetType DEF Init, TypeInv, TypeOK, ReadInv

(* Steps that leave the StatefulSet and the Pods alone. *)
LEMMA QuietType ==
    ASSUME TypeInv,
           \/ Reconcile \/ reconcilePVC \/ resizeRefused \/ stsUnchanged
           \/ reconcileV1PDB \/ updateStatus \/ LoopGather \/ LoopReport \/ Heal \/ BackupEnd
    PROVE  TypeInv'
<1> USE DEF TypeInv, TypeOK, ReadInv, clusterVars, kubeVars, recVars, partVars, envVars
<1>1. CASE Reconcile
  BY <1>1 DEF Reconcile
<1>2. CASE reconcilePVC
  BY <1>2 DEF reconcilePVC
<1>3. CASE resizeRefused
  BY <1>3 DEF resizeRefused
<1>4. CASE stsUnchanged
  BY <1>4 DEF stsUnchanged
<1>5. CASE reconcileV1PDB
  BY <1>5, PDBType DEF reconcileV1PDB
<1>6. CASE updateStatus
  BY <1>6 DEF updateStatus
<1>7. CASE LoopGather
  BY <1>7 DEF LoopGather
<1>8. CASE LoopReport
  BY <1>8 DEF LoopReport
<1>9. CASE Heal
  BY <1>9 DEF Heal
<1>10. CASE BackupEnd
  BY <1>10 DEF BackupEnd
<1> QED BY <1>1, <1>2, <1>3, <1>4, <1>5, <1>6, <1>7, <1>8, <1>9, <1>10

(* Steps that the budget allows. *)
LEMMA BudgetType ==
    ASSUME TypeInv,
           \/ reconcileError \/ Crash \/ Sicken \/ BackupBegin
           \/ \E i \in Ordinals : PodFail(i) \/ VolumeGrow(i)
    PROVE  TypeInv'
<1> USE DEF TypeInv, TypeOK, ReadInv, clusterVars, kubeVars, recVars, partVars, envVars
<1>1. CASE reconcileError
  <2>1. budget' \in Budget
    BY <1>1, HappensType DEF reconcileError
  <2> QED BY <1>1, <2>1 DEF reconcileError
<1>2. CASE Crash
  <2>1. budget' \in Budget
    BY <1>2, HappensType DEF Crash
  <2> QED BY <1>2, <2>1, NoStatefulSetType DEF Crash
<1>3. CASE Sicken
  <2>1. budget' \in Budget
    BY <1>3, HappensType DEF Sicken
  <2> QED BY <1>3, <2>1 DEF Sicken
<1>4. CASE BackupBegin
  <2>1. budget' \in Budget
    BY <1>4, HappensType DEF BackupBegin
  <2> QED BY <1>4, <2>1 DEF BackupBegin
<1>5. ASSUME NEW i \in Ordinals, PodFail(i) PROVE TypeInv'
  <2>1. budget' \in Budget
    BY <1>5, HappensType DEF PodFail
  <2>2. pods' \in [Ordinals -> Pod]
    BY <1>5 DEF PodFail, Pod
  <2> QED BY <1>5, <2>1, <2>2 DEF PodFail
<1>6. ASSUME NEW i \in Ordinals, VolumeGrow(i) PROVE TypeInv'
  <2>1. budget' \in Budget
    BY <1>6, HappensType DEF VolumeGrow
  <2>2. pvc' \in [Ordinals -> 0 .. MaxSize]
    BY <1>6, RolloutAssumption DEF VolumeGrow
  <2> QED BY <1>6, <2>1, <2>2 DEF VolumeGrow
<1> QED BY <1>1, <1>2, <1>3, <1>4, <1>5, <1>6

(* The life of a Pod. *)
LEMMA PodLifeType ==
    ASSUME TypeInv, NEW i \in Ordinals, PodLife(i) \/ CacheSync(i)
    PROVE  TypeInv'
<1> USE DEF TypeInv, TypeOK, ReadInv, clusterVars, kubeVars, recVars, partVars, envVars
<1>1. CASE PodCreate(i)
  <2>1. CurrentRevision \in Templates \cup {0} /\ sts.tmpl \in Templates \cup {0}
        /\ sts.size \in 0 .. MaxSize
    BY DEF CurrentRevision, StatefulSet
  <2>2. [phase |-> "starting",
         rev |-> IF i < sts.partition THEN CurrentRevision ELSE sts.tmpl] \in Pod
    BY <2>1 DEF Pod
  <2>3. pods' \in [Ordinals -> Pod] /\ pvc' \in [Ordinals -> 0 .. MaxSize]
    BY <1>1, <2>1, <2>2 DEF PodCreate
  <2> QED BY <1>1, <2>3 DEF PodCreate
<1>2. CASE PodReady(i)
  <2>1. pods' \in [Ordinals -> Pod]
    BY <1>2 DEF PodReady, Pod
  <2> QED BY <1>2, <2>1 DEF PodReady
<1>3. CASE PodRoll(i) \/ PodScaleDown(i)
  <2>1. Terminate(i)
    BY <1>3 DEF PodRoll, Rolls, PodScaleDown
  <2>2. pods' \in [Ordinals -> Pod]
    BY <2>1 DEF Terminate, Pod
  <2>3. struck' \subseteq Ordinals
    BY <2>1 DEF Terminate
  <2>4. UNCHANGED <<sts, pvc, pdb, clusterVars, recVars, partVars, envVars>>
    BY <1>3 DEF PodRoll, PodScaleDown
  <2> QED BY <2>2, <2>3, <2>4
<1>4. CASE PodGone(i)
  BY <1>4, NoPodType DEF PodGone
<1>5. CASE CacheSync(i)
  BY <1>5 DEF CacheSync
<1> QED BY <1>1, <1>2, <1>3, <1>4, <1>5 DEF PodLife

(* What changes the StatefulSet. *)
LEMMA StatefulSetType ==
    ASSUME TypeInv,
           \/ resizePVC \/ stsDelete \/ stsApply \/ stsCreate
           \/ PartitionController \/ StatefulSetStatus \/ StatefulSetGone \/ UserEdit
    PROVE  TypeInv'
<1> USE DEF TypeInv, TypeOK, ReadInv, clusterVars, kubeVars, recVars, partVars, envVars
<1>0. /\ view.size \in 0 .. MaxSize /\ view.tmpl \in Templates /\ view.force \in BOOLEAN
      /\ Wanted(view) \in 0 .. MaxReplicas
  BY WantedType DEF MySQLClusterSpec
<1>1. CASE resizePVC
  <2>1. pvc' \in [Ordinals -> 0 .. MaxSize] /\ todo' \subseteq Ordinals
    BY <1>0, <1>1 DEF resizePVC
  <2> QED BY <1>1, <2>1 DEF resizePVC
<1>2. CASE stsDelete
  <2>1. sts' \in StatefulSet
    BY <1>2 DEF stsDelete, StatefulSet
  <2> QED BY <1>2, <2>1 DEF stsDelete
<1>3. CASE stsApply
  <2>1. [sts EXCEPT !.tmpl = view.tmpl, !.replicas = Wanted(view), !.force = view.force]
           \in StatefulSet
    BY <1>0 DEF StatefulSet
  <2>2. sts' \in StatefulSet
    BY <1>3, <2>1, AdmitType DEF stsApply
  <2> QED BY <1>3, <2>2 DEF stsApply
<1>4. CASE stsCreate
  <2> DEFINE p == IF view.force THEN 0 ELSE Wanted(view)
  <2>1. p \in 0 .. MaxReplicas
    BY <1>0, OrdinalFacts
  <2>2. sts' = [NoStatefulSet EXCEPT
                  !.there = TRUE, !.tmpl = view.tmpl, !.size = view.size,
                  !.replicas = Wanted(view), !.force = view.force, !.partition = p]
    BY <1>4 DEF stsCreate
  <2> HIDE DEF p
  <2>3. sts' \in StatefulSet
    BY <1>0, <2>1, <2>2, NoStatefulSetType DEF StatefulSet
  <2> QED BY <1>4, <2>3 DEF stsCreate
<1>5. CASE partitionRead
  <2>1. sts.partition > 0
    BY <1>5 DEF partitionRead, needPartitionUpdate
  <2> QED BY <1>5, <2>1 DEF partitionRead
<1>6. CASE partitionCheck
  <2>1. CASE reconciled /\ isRolloutReady(read)
    BY <1>6, <2>1 DEF partitionCheck
  <2>2. CASE ~(reconciled /\ isRolloutReady(read))
    BY <1>6, <2>2, NoStatefulSetType DEF partitionCheck
  <2> QED BY <2>1, <2>2
<1>7. CASE patchNewPartition
  <2>1. read.partition \in 0 .. MaxReplicas /\ read.partition > 0
    BY <1>7 DEF patchNewPartition, StatefulSet
  <2>2. nextRolloutTargetIndex(read) \in 0 .. MaxReplicas
    BY <2>1, OrdinalFacts DEF nextRolloutTargetIndex
  <2>3. [sts EXCEPT !.partition = nextRolloutTargetIndex(read)] \in StatefulSet
    BY <2>2 DEF StatefulSet
  <2>4. sts' \in StatefulSet
    BY <1>7, <2>3, AdmitType DEF patchNewPartition
  <2> QED BY <1>7, <2>4, NoStatefulSetType DEF patchNewPartition
<1>8. CASE StatefulSetStatus
  <2>1. Counted \in 0 .. MaxReplicas
    <3>1. {i \in Ordinals : Running(i) /\ pods[i].rev = sts.tmpl} \in SUBSET Ordinals
      OBVIOUS
    <3> QED BY <3>1, PodCount DEF Counted
  <2>2. Cardinality(Ready) \in 0 .. MaxReplicas
    <3>1. Ready \in SUBSET Ordinals
      BY DEF Ready
    <3> QED BY <3>1, PodCount
  <2> DEFINE c == IF Counted = sts.replicas /\ Cardinality(Ready) = sts.replicas
                  THEN sts.tmpl ELSE CurrentRevision
  <2>3. c \in Templates \cup {0} /\ sts.tmpl \in Templates \cup {0}
    BY DEF StatefulSet, CurrentRevision
  <2>4. sts' = [sts EXCEPT !.observed = TRUE, !.upd = sts.tmpl, !.updated = Counted,
                           !.cur = c, !.ready = Cardinality(Ready)]
    BY <1>8 DEF StatefulSetStatus
  <2> HIDE DEF c
  <2>5. sts' \in StatefulSet
    BY <2>1, <2>2, <2>3, <2>4 DEF StatefulSet
  <2> QED BY <1>8, <2>5 DEF StatefulSetStatus
<1>9. CASE StatefulSetGone
  BY <1>9, NoStatefulSetType DEF StatefulSetGone
<1>10. CASE UserEdit
  <2>1. spec' \in MySQLClusterSpec /\ edits' \in Seq(MySQLClusterSpec)
    BY <1>10 DEF UserEdit
  <2>2. reconciled' \in BOOLEAN
    BY <1>10 DEF UserEdit
  <2> QED BY <1>10, <2>1, <2>2 DEF UserEdit
<1> QED
  BY <1>1, <1>2, <1>3, <1>4, <1>5, <1>6, <1>7, <1>8, <1>9, <1>10 DEF PartitionController

(* Every step keeps the types. *)
LEMMA NextType == TypeInv /\ [Next]_vars => TypeInv'
<1> SUFFICES ASSUME TypeInv, [Next]_vars PROVE TypeInv'
  OBVIOUS
<1>1. CASE Next
  <2>1. \/ Reconcile \/ reconcilePVC \/ resizeRefused \/ stsUnchanged
        \/ reconcileV1PDB \/ updateStatus \/ LoopGather \/ LoopReport \/ Heal \/ BackupEnd
        \/ reconcileError \/ Crash \/ Sicken \/ BackupBegin
        \/ (\E i \in Ordinals : PodFail(i) \/ VolumeGrow(i))
        \/ (\E i \in Ordinals : PodLife(i) \/ CacheSync(i))
        \/ resizePVC \/ stsDelete \/ stsApply \/ stsCreate
        \/ PartitionController \/ StatefulSetStatus \/ StatefulSetGone \/ UserEdit
    BY <1>1 DEF Next, Reconciler
  <2> QED BY <2>1, QuietType, BudgetType, PodLifeType, StatefulSetType
<1>2. CASE UNCHANGED vars
  BY <1>2 DEF vars, TypeInv, TypeOK, ReadInv, clusterVars, kubeVars, recVars, partVars,
              envVars
<1> QED BY <1>1, <1>2

(* The StatefulSet, the Pods, the volumes and what the controllers have    *)
(* read of them stay well-formed in every step; in particular a partition  *)
(* that the partition controller lowers never becomes negative, although   *)
(* it is patched without being read again.                                 *)
THEOREM RolloutTypes == Spec => []TypeOK
<1>1. Init => TypeInv
  BY InitType
<1>2. TypeInv /\ [Next]_vars => TypeInv'
  BY NextType
<1>3. TypeInv => TypeOK
  BY DEF TypeInv
<1> QED BY <1>1, <1>2, <1>3, PTL DEF Spec

-----------------------------------------------------------------------------
(* The volumes follow the template *)

(* The sizes that are compared are numbers. *)
LEMMA SizeFacts ==
    ASSUME TypeOK
    PROVE  /\ sts.size \in Nat /\ view.size \in Nat /\ spec.size \in Nat
           /\ view.size > 0 /\ spec.size > 0
           /\ \A i \in Ordinals : pvc[i] \in Nat
           /\ \A k \in 1 .. Len(edits) : edits[k] \in MySQLClusterSpec /\ edits[k].size \in Nat
<1>1. \A s \in MySQLClusterSpec : s.size \in Nat /\ s.size > 0
  BY RolloutAssumption DEF MySQLClusterSpec
<1>2. sts.size \in Nat
  BY RolloutAssumption DEF TypeOK, StatefulSet
<1>3. \A i \in Ordinals : pvc[i] \in Nat
  BY RolloutAssumption DEF TypeOK
<1>4. \A k \in 1 .. Len(edits) : edits[k] \in MySQLClusterSpec
  BY DEF TypeOK
<1> QED BY <1>1, <1>2, <1>3, <1>4 DEF TypeOK

(* An edit takes the first of the specs that are to come. *)
LEMMA EditFacts ==
    ASSUME TypeOK, UserEdit
    PROVE  /\ Len(edits) \in Nat /\ Len(edits) > 0 /\ 1 \in 1 .. Len(edits)
           /\ spec' = edits[1]
           /\ \A k \in 1 .. Len(edits') :
                 k + 1 \in 2 .. Len(edits) /\ k + 1 \in 1 .. Len(edits)
                 /\ edits'[k] = edits[k + 1]
<1>1. edits \in Seq(MySQLClusterSpec) /\ edits # <<>>
  BY DEF TypeOK, UserEdit
<1> QED BY <1>1 DEF UserEdit

(* Admission sets the partition and nothing else. *)
LEMMA AdmitFields ==
    ASSUME sts \in StatefulSet, NEW new \in StatefulSet, Admit(new)
    PROVE  /\ sts'.there = new.there /\ sts'.deleting = new.deleting
           /\ sts'.tmpl = new.tmpl /\ sts'.size = new.size /\ sts'.replicas = new.replicas
           /\ sts'.force = new.force /\ sts'.upd = new.upd /\ sts'.cur = new.cur
           /\ sts'.updated = new.updated /\ sts'.ready = new.ready
           /\ sts'.partition = StatefulSetDefault(new, sts).partition
           /\ sts'.observed => new.observed /\ SameSpec(new, sts)
<1> DEFINE s == StatefulSetDefault(new, sts)
           o == s.observed /\ SameSpec(s, sts) /\ s.partition = sts.partition
<1>1. s \in StatefulSet
  <2>1. /\ [new EXCEPT !.partition = 0] \in StatefulSet
        /\ [new EXCEPT !.partition = new.replicas] \in StatefulSet
    BY OrdinalFacts DEF StatefulSet
  <2> QED BY <2>1 DEF StatefulSetDefault
<1>2. /\ s.there = new.there /\ s.deleting = new.deleting
      /\ s.tmpl = new.tmpl /\ s.size = new.size /\ s.replicas = new.replicas
      /\ s.force = new.force /\ s.upd = new.upd /\ s.cur = new.cur
      /\ s.updated = new.updated /\ s.ready = new.ready /\ s.observed = new.observed
  <2>1. CASE s = [new EXCEPT !.partition = 0]
    <3> HIDE DEF s
    <3> QED BY <2>1 DEF StatefulSet
  <2>2. CASE s = new
    <3> HIDE DEF s
    <3> QED BY <2>2
  <2>3. CASE s = [new EXCEPT !.partition = new.replicas]
    <3> HIDE DEF s
    <3> QED BY <2>3 DEF StatefulSet
  <2> QED BY <2>1, <2>2, <2>3 DEF StatefulSetDefault
<1>3. sts' = [s EXCEPT !.observed = o]
  <2>1. sts' = [s EXCEPT !.observed = @ /\ SameSpec(s, sts) /\ s.partition = sts.partition]
    BY DEF Admit
  <2> HIDE DEF s
  <2> QED BY <1>1, <2>1 DEF StatefulSet
<1>4. /\ sts'.there = s.there /\ sts'.deleting = s.deleting
      /\ sts'.tmpl = s.tmpl /\ sts'.size = s.size /\ sts'.replicas = s.replicas
      /\ sts'.force = s.force /\ sts'.upd = s.upd /\ sts'.cur = s.cur
      /\ sts'.updated = s.updated /\ sts'.ready = s.ready
      /\ sts'.partition = s.partition /\ sts'.observed = o
  <2> HIDE DEF s, o
  <2> QED BY <1>1, <1>3 DEF StatefulSet
<1>5. o => new.observed /\ SameSpec(new, sts)
  <2> HIDE DEF s
  <2> QED BY <1>2 DEF SameSpec
<1>6. s.partition = StatefulSetDefault(new, sts).partition
  OBVIOUS
<1> HIDE DEF s, o
<1> QED BY <1>2, <1>4, <1>5, <1>6

(* What the reconciler applies. *)
LEMMA ApplyFields ==
    ASSUME TypeInv, stsApply
    PROVE  /\ sts'.there /\ sts'.deleting = sts.deleting
           /\ sts'.tmpl = view.tmpl /\ sts'.size = sts.size
           /\ sts'.replicas = Wanted(view) /\ sts'.force = view.force
           /\ sts'.cur = sts.cur /\ sts'.upd = sts.upd /\ sts'.updated = sts.updated
           /\ ~view.force /\ view.tmpl # sts.tmpl => sts'.partition = Wanted(view)
           /\ sts'.observed => view.tmpl = sts.tmpl /\ Wanted(view) = sts.replicas
<1> DEFINE new == [sts EXCEPT !.tmpl = view.tmpl, !.replicas = Wanted(view),
                              !.force = view.force]
<1>1. sts \in StatefulSet /\ sts.there /\ Admit(new)
  BY DEF TypeInv, TypeOK, stsApply
<1>2. view.tmpl \in Templates /\ view.force \in BOOLEAN /\ Wanted(view) \in 0 .. MaxReplicas
  BY WantedType DEF TypeInv, TypeOK, MySQLClusterSpec
<1>3. /\ new \in StatefulSet
      /\ new.there = sts.there /\ new.deleting = sts.deleting
      /\ new.tmpl = view.tmpl /\ new.size = sts.size /\ new.replicas = Wanted(view)
      /\ new.force = view.force /\ new.upd = sts.upd /\ new.cur = sts.cur
      /\ new.updated = sts.updated
  BY <1>1, <1>2 DEF StatefulSet
<1> HIDE DEF new
<1>4. ~view.force /\ view.tmpl # sts.tmpl =>
         StatefulSetDefault(new, sts) = [new EXCEPT !.partition = new.replicas]
  BY <1>3 DEF StatefulSetDefault, SameSpec
<1>5. [new EXCEPT !.partition = new.replicas].partition = Wanted(view)
  BY <1>3 DEF StatefulSet
<1>6. SameSpec(new, sts) => view.tmpl = sts.tmpl /\ Wanted(view) = sts.replicas
  BY <1>3 DEF SameSpec
<1> QED BY <1>1, <1>3, <1>4, <1>5, <1>6, AdmitFields

(* A patch of the partition changes nothing else. *)
LEMMA PatchFields ==
    ASSUME TypeInv, patchNewPartition
    PROVE  /\ sts'.there = sts.there /\ sts'.deleting = sts.deleting
           /\ sts'.tmpl = sts.tmpl /\ sts'.size = sts.size /\ sts'.replicas = sts.replicas
           /\ sts'.force = sts.force /\ sts'.cur = sts.cur /\ sts'.upd = sts.upd
           /\ sts'.updated = sts.updated
           /\ sts'.observed => sts.observed
           /\ sts.there /\ ~sts.force =>
                 sts'.partition \in {read.partition - 1, sts.replicas}
<1>1. CASE ~sts.there
  BY <1>1 DEF patchNewPartition
<1>2. CASE sts.there
  <2> DEFINE new == [sts EXCEPT !.partition = nextRolloutTargetIndex(read)]
  <2>1. sts \in StatefulSet /\ Admit(new)
    BY <1>2 DEF TypeInv, TypeOK, patchNewPartition
  <2>2. nextRolloutTargetIndex(read) \in 0 .. MaxReplicas
    <3>1. read.partition \in 0 .. MaxReplicas /\ read.partition > 0
      BY DEF TypeInv, TypeOK, ReadInv, patchNewPartition, StatefulSet
    <3> QED BY <3>1, OrdinalFacts DEF nextRolloutTargetIndex
  <2>3. /\ new \in StatefulSet
        /\ new.there = sts.there /\ new.deleting = sts.deleting
        /\ new.tmpl = sts.tmpl /\ new.size = sts.size /\ new.replicas = sts.replicas
        /\ new.force = sts.force /\ new.upd = sts.upd /\ new.cur = sts.cur
        /\ new.updated = sts.updated /\ new.observed = sts.observed
        /\ new.partition = read.partition - 1
    BY <2>1, <2>2 DEF StatefulSet, nextRolloutTargetIndex
  <2> HIDE DEF new
  <2>4. ~sts.force =>
           StatefulSetDefault(new, sts) \in {new, [new EXCEPT !.partition = new.replicas]}
    BY <2>3 DEF StatefulSetDefault
  <2>5. [new EXCEPT !.partition = new.replicas].partition = sts.replicas
    BY <2>3 DEF StatefulSet
  <2> QED BY <2>1, <2>3, <2>4, <2>5, AdmitFields
<1> QED BY <1>1, <1>2

(* The StatefulSet controller writes the status only. *)
LEMMA StatusFields ==
    ASSUME TypeInv, StatefulSetStatus
    PROVE  /\ sts'.there /\ sts'.deleting = sts.deleting
           /\ sts'.tmpl = sts.tmpl /\ sts'.size = sts.size /\ sts'.replicas = sts.replicas
           /\ sts'.force = sts.force /\ sts'.partition = sts.partition
           /\ sts'.observed /\ sts'.upd = sts.tmpl /\ sts'.updated = Counted
           /\ sts'.cur = IF Counted = sts.replicas /\ Cardinality(Ready) = sts.replicas
                         THEN sts.tmpl ELSE CurrentRevision
           /\ sts'.ready = Cardinality(Ready)
<1> DEFINE c == IF Counted = sts.replicas /\ Cardinality(Ready) = sts.replicas
                THEN sts.tmpl ELSE CurrentRevision
           n == Cardinality(Ready)
           u == Counted
<1>1. sts \in StatefulSet /\ sts.there
  BY DEF TypeInv, TypeOK, StatefulSetStatus
<1>2. sts' = [sts EXCEPT !.observed = TRUE, !.upd = sts.tmpl, !.updated = u,
                         !.cur = c, !.ready = n]
  BY DEF StatefulSetStatus
<1> HIDE DEF c, n, u
<1>3. /\ sts'.there /\ sts'.deleting = sts.deleting
      /\ sts'.tmpl = sts.tmpl /\ sts'.size = sts.size /\ sts'.replicas = sts.replicas
      /\ sts'.force = sts.force /\ sts'.partition = sts.partition
      /\ sts'.observed /\ sts'.upd = sts.tmpl /\ sts'.updated = u
      /\ sts'.cur = c /\ sts'.ready = n
  BY <1>1, <1>2 DEF StatefulSet
<1> QED BY <1>3 DEF c, n, u

(* What the reconciler creates. *)
LEMMA CreateFields ==
    ASSUME TypeInv, stsCreate
    PROVE  /\ sts'.there /\ ~sts'.deleting
           /\ sts'.tmpl = view.tmpl /\ sts'.size = view.size
           /\ sts'.cur = 0
BY DEF stsCreate, NoStatefulSet

(* What the reconciler deletes. *)
LEMMA DeleteFields ==
    ASSUME TypeInv, stsDelete
    PROVE  /\ sts'.there = sts.there /\ sts'.deleting
           /\ sts'.tmpl = sts.tmpl /\ sts'.size = sts.size /\ sts'.replicas = sts.replicas
           /\ sts'.force = sts.force /\ sts'.cur = sts.cur /\ sts'.upd = sts.upd
           /\ sts'.updated = sts.updated /\ sts'.observed = sts.observed
           /\ sts'.partition = sts.partition
BY DEF TypeInv, TypeOK, stsDelete, StatefulSet

(* The steps that leave the specs, the StatefulSet and the volumes alone. *)
Elsewhere ==
    \/ reconcilePVC \/ resizeRefused \/ stsUnchanged \/ reconcileV1PDB \/ reconcileError
    \/ partitionRead \/ partitionCheck
    \/ \E i \in Ordinals : \/ PodReady(i) \/ PodRoll(i) \/ PodScaleDown(i) \/ PodGone(i)
                           \/ PodFail(i) \/ CacheSync(i)
    \/ LoopGather \/ LoopReport \/ Sicken \/ Heal \/ BackupBegin \/ BackupEnd

(* The other steps change neither the volumes nor the StatefulSet. *)
LEMMA ElsewhereKeeps ==
    ASSUME Elsewhere
    PROVE  UNCHANGED <<edits, spec, view, pvc, sts>>
<1> USE DEF clusterVars, kubeVars, recVars, partVars, envVars
<1>1. CASE \/ reconcilePVC \/ resizeRefused \/ stsUnchanged \/ reconcileV1PDB
           \/ reconcileError \/ partitionRead \/ partitionCheck
  BY <1>1 DEF reconcilePVC, resizeRefused, stsUnchanged, reconcileV1PDB, reconcileError,
              partitionRead, partitionCheck
<1>2. ASSUME NEW i \in Ordinals,
             \/ PodReady(i) \/ PodRoll(i) \/ PodScaleDown(i) \/ PodGone(i)
             \/ PodFail(i) \/ CacheSync(i)
      PROVE  UNCHANGED <<edits, spec, view, pvc, sts>>
  BY <1>2 DEF PodReady, PodRoll, PodScaleDown, PodGone, PodFail, CacheSync
<1>3. CASE \/ LoopGather \/ LoopReport \/ Sicken \/ Heal \/ BackupBegin \/ BackupEnd
  BY <1>3 DEF LoopGather, LoopReport, Sicken, Heal, BackupBegin, BackupEnd
<1> QED BY <1>1, <1>2, <1>3 DEF Elsewhere

(* The steps that the proofs tell apart. *)
LEMMA NextCases ==
    ASSUME Next
    PROVE  \/ Elsewhere \/ UserEdit \/ Reconcile \/ updateStatus \/ Crash
           \/ resizePVC \/ (\E i \in Ordinals : VolumeGrow(i) \/ PodCreate(i))
           \/ stsDelete \/ stsApply \/ stsCreate \/ patchNewPartition
           \/ StatefulSetStatus \/ StatefulSetGone
BY DEF Next, Reconciler, PartitionController, PodLife, Elsewhere

(* An edit leaves the order of sizes to those that are to come. *)
LEMMA EditOrder ==
    ASSUME TypeOK, [Next]_vars,
           \A j, k \in 1 .. Len(edits) : j < k => edits[k].size <= edits[j].size
    PROVE  \A j, k \in 1 .. Len(edits') : j < k => edits'[k].size <= edits'[j].size
<1>1. CASE UserEdit
  <2> SUFFICES ASSUME NEW j \in 1 .. Len(edits'), NEW k \in 1 .. Len(edits'), j < k
               PROVE  edits'[k].size <= edits'[j].size
    OBVIOUS
  <2>1. /\ j + 1 \in 1 .. Len(edits) /\ edits'[j] = edits[j + 1]
        /\ k + 1 \in 1 .. Len(edits) /\ edits'[k] = edits[k + 1]
    BY <1>1, EditFacts
  <2>2. j + 1 < k + 1
    OBVIOUS
  <2>3. edits[k + 1].size <= edits[j + 1].size
    BY <2>1, <2>2
  <2> QED BY <2>1, <2>3
<1>2. CASE ~UserEdit
  <2>1. UNCHANGED edits
    <3> USE DEF clusterVars, kubeVars, recVars, partVars, envVars
    <3>1. CASE Next
      <4>1. CASE Elsewhere
        BY <4>1, ElsewhereKeeps
      <4>2. ASSUME NEW i \in Ordinals, VolumeGrow(i) \/ PodCreate(i)
            PROVE  UNCHANGED edits
        BY <4>2 DEF VolumeGrow, PodCreate
      <4>3. CASE \/ Reconcile \/ updateStatus \/ Crash \/ resizePVC
                 \/ stsDelete \/ stsApply \/ stsCreate \/ patchNewPartition
                 \/ StatefulSetStatus \/ StatefulSetGone
        BY <4>3 DEF Reconcile, updateStatus, Crash, resizePVC, stsDelete, stsApply,
                    stsCreate, patchNewPartition, StatefulSetStatus, StatefulSetGone
      <4> QED BY <1>2, <3>1, <4>1, <4>2, <4>3, NextCases
    <3>2. CASE UNCHANGED vars
      BY <3>2 DEF vars
    <3> QED BY <3>1, <3>2
  <2> QED BY <2>1
<1> QED BY <1>1, <1>2

(* Once no wanted size exceeds those of the volumes, it stays so. *)
LEMMA NoMoreGrowthStep ==
    ASSUME TypeInv, TypeInv', NoMoreGrowth, Next, \A i \in todo : pvc[i] # 0,
           \A j, k \in 1 .. Len(edits) : j < k => edits[k].size <= edits[j].size
    PROVE  NoMoreGrowth'
<1>0. /\ TypeOK /\ TypeOK'
      /\ sts.size \in Nat /\ view.size \in Nat /\ spec.size \in Nat
      /\ \A i \in Ordinals : pvc[i] \in Nat
      /\ \A k \in 1 .. Len(edits) : edits[k].size \in Nat
  BY SizeFacts DEF TypeInv
<1> USE DEF EnoughFor, clusterVars, kubeVars, recVars, partVars, envVars
<1>1. CASE Elsewhere
  BY <1>1, ElsewhereKeeps DEF NoMoreGrowth
<1>2. CASE UserEdit
  <2>1. UNCHANGED <<view, pvc, sts>>
    BY <1>2 DEF UserEdit
  <2>2. spec'.size <= spec.size /\ spec'.size \in Nat
    BY <1>0, <1>2, EditFacts DEF NoMoreGrowth
  <2>3. spec'.size <= view.size
    BY <1>0, <2>2 DEF NoMoreGrowth
  <2>4. ASSUME NEW k \in 1 .. Len(edits') PROVE edits'[k].size <= spec'.size
    <3>1. /\ k + 1 \in 1 .. Len(edits) /\ edits'[k] = edits[k + 1]
          /\ 1 \in 1 .. Len(edits) /\ spec' = edits[1]
      BY <1>0, <1>2, EditFacts
    <3>2. 1 < k + 1
      OBVIOUS
    <3>3. edits[k + 1].size <= edits[1].size
      BY <3>1, <3>2
    <3> QED BY <3>1, <3>3
  <2> QED BY <2>1, <2>3, <2>4 DEF NoMoreGrowth
<1>3. CASE Reconcile \/ updateStatus \/ Crash
  <2>1. view' = spec /\ UNCHANGED <<edits, spec, pvc, sts>>
    BY <1>3 DEF Reconcile, updateStatus, Crash
  <2>2. spec.size <= view.size /\ EnoughFor(view.size)
    BY DEF NoMoreGrowth
  <2>3. EnoughFor(spec.size)
    BY <1>0, <2>2
  <2>4. sts.there /\ ~sts.deleting => sts.size >= spec.size
    BY <1>0, <2>2 DEF NoMoreGrowth
  <2>5. spec.size <= spec.size
    BY <1>0
  <2> QED BY <2>1, <2>3, <2>4, <2>5 DEF NoMoreGrowth
<1>4. CASE resizePVC
  <2> PICK i \in todo : pvc[i] < view.size
    BY <1>4 DEF resizePVC
  <2>1. i \in Ordinals
    BY <1>0 DEF TypeOK
  <2>2. pvc[i] = 0
    BY <1>0, <2>1 DEF NoMoreGrowth
  <2> QED BY <2>2
<1>5. ASSUME NEW i \in Ordinals, VolumeGrow(i) PROVE NoMoreGrowth'
  <2>1. UNCHANGED <<edits, spec, view, sts>>
    BY <1>5 DEF VolumeGrow
  <2>2. \A j \in Ordinals : pvc'[j] = pvc[j] \/ (pvc[j] > 0 /\ pvc'[j] = pvc[j] + 1)
    BY <1>0, <1>5 DEF VolumeGrow, TypeOK
  <2>3. ASSUME NEW n \in Nat, EnoughFor(n)
        PROVE  \A j \in Ordinals : pvc'[j] = 0 \/ pvc'[j] >= n
    BY <1>0, <2>2, <2>3
  <2>4. EnoughFor(view.size)'
    BY <1>0, <2>1, <2>3 DEF NoMoreGrowth
  <2>5. sts.there => EnoughFor(sts.size)'
    BY <1>0, <2>1, <2>3 DEF NoMoreGrowth
  <2> QED BY <2>1, <2>4, <2>5 DEF NoMoreGrowth
<1>6. ASSUME NEW i \in Ordinals, PodCreate(i) PROVE NoMoreGrowth'
  <2>1. UNCHANGED <<edits, spec, view, sts>>
    BY <1>6 DEF PodCreate
  <2>2. \A j \in Ordinals : pvc'[j] = pvc[j] \/ pvc'[j] = sts.size
    BY <1>0, <1>6 DEF PodCreate, TypeOK
  <2>3. sts.there /\ ~sts.deleting /\ sts.size >= view.size
    BY <1>6 DEF PodCreate, NoMoreGrowth
  <2>4. EnoughFor(view.size)'
    BY <1>0, <2>1, <2>2, <2>3 DEF NoMoreGrowth
  <2>5. sts.there => EnoughFor(sts.size)'
    BY <1>0, <2>1, <2>2 DEF NoMoreGrowth
  <2> QED BY <2>1, <2>4, <2>5 DEF NoMoreGrowth
<1>7. CASE stsDelete
  <2>1. UNCHANGED <<edits, spec, view, pvc>>
    BY <1>7 DEF stsDelete
  <2>2. sts'.there = sts.there /\ sts'.deleting /\ sts'.size = sts.size
    BY <1>7, DeleteFields
  <2> QED BY <2>1, <2>2 DEF NoMoreGrowth
<1>8. CASE stsApply
  <2>1. UNCHANGED <<edits, spec, view, pvc>>
    BY <1>8 DEF stsApply
  <2>2. sts.there /\ sts'.there /\ sts'.deleting = sts.deleting /\ sts'.size = sts.size
    BY <1>8, ApplyFields DEF stsApply
  <2> QED BY <2>1, <2>2 DEF NoMoreGrowth
<1>9. CASE stsCreate
  <2>1. UNCHANGED <<edits, spec, view, pvc>>
    BY <1>9 DEF stsCreate
  <2>2. sts'.there /\ ~sts'.deleting /\ sts'.size = view.size
    BY <1>9, CreateFields
  <2>3. view.size >= view.size
    BY <1>0
  <2> QED BY <2>1, <2>2, <2>3 DEF NoMoreGrowth
<1>10. CASE patchNewPartition
  <2>1. UNCHANGED <<edits, spec, view, pvc>>
    BY <1>10 DEF patchNewPartition
  <2>2. sts'.there = sts.there /\ sts'.deleting = sts.deleting /\ sts'.size = sts.size
    BY <1>10, PatchFields
  <2> QED BY <2>1, <2>2 DEF NoMoreGrowth
<1>11. CASE StatefulSetStatus
  <2>1. UNCHANGED <<edits, spec, view, pvc>> /\ sts.there
    BY <1>11 DEF StatefulSetStatus
  <2>2. sts'.there /\ sts'.deleting = sts.deleting /\ sts'.size = sts.size
    BY <1>11, StatusFields
  <2> QED BY <2>1, <2>2 DEF NoMoreGrowth
<1>12. CASE StatefulSetGone
  <2>1. UNCHANGED <<edits, spec, view, pvc>> /\ ~sts'.there
    BY <1>12 DEF StatefulSetGone, NoStatefulSet
  <2> QED BY <2>1 DEF NoMoreGrowth
<1> QED
  BY <1>1, <1>2, <1>3, <1>4, <1>5, <1>6, <1>7, <1>8, <1>9, <1>10, <1>11, <1>12, NextCases

(* The volumes on the list exist. *)
LEMMA TodoStep ==
    ASSUME TypeInv, Next, \A i \in todo : pvc[i] # 0
    PROVE  \A i \in todo' : pvc'[i] # 0
<1>0. /\ TypeOK
      /\ sts.size \in Nat /\ view.size \in Nat /\ view.size > 0
      /\ \A i \in Ordinals : pvc[i] \in Nat
  BY SizeFacts DEF TypeInv
<1> USE DEF clusterVars, kubeVars, recVars, partVars, envVars
<1>1. CASE reconcilePVC
  <2>1. pvc' = pvc /\ \A i \in todo' : pvc[i] # 0
    BY <1>1 DEF reconcilePVC
  <2> QED BY <2>1
<1>2. CASE resizeRefused \/ reconcileError \/ Crash
  BY <1>2 DEF resizeRefused, reconcileError, Crash
<1>3. CASE resizePVC
  <2> PICK i \in todo : pvc' = [pvc EXCEPT ![i] = view.size] /\ todo' = todo \ {i}
    BY <1>3 DEF resizePVC
  <2>1. i \in Ordinals /\ todo \subseteq Ordinals /\ pvc \in [Ordinals -> 0 .. MaxSize]
    BY <1>0 DEF TypeOK
  <2> QED BY <2>1
<1>4. ASSUME NEW i \in Ordinals, VolumeGrow(i) PROVE \A j \in todo' : pvc'[j] # 0
  <2>1. todo' = todo /\ todo \subseteq Ordinals
    BY <1>0, <1>4 DEF VolumeGrow, TypeOK
  <2>2. \A j \in Ordinals : pvc'[j] = pvc[j] \/ pvc'[j] = pvc[j] + 1
    BY <1>0, <1>4 DEF VolumeGrow, TypeOK
  <2> QED BY <1>0, <2>1, <2>2
<1>5. ASSUME NEW i \in Ordinals, PodCreate(i) PROVE \A j \in todo' : pvc'[j] # 0
  <2>1. todo' = todo /\ todo \subseteq Ordinals
    BY <1>0, <1>5 DEF PodCreate, TypeOK
  <2>2. \A j \in Ordinals : pvc'[j] = pvc[j] \/ pvc[j] = 0
    BY <1>0, <1>5 DEF PodCreate, TypeOK
  <2> QED BY <2>1, <2>2
<1>6. CASE \/ Reconcile \/ updateStatus \/ UserEdit
           \/ stsDelete \/ stsApply \/ stsCreate \/ patchNewPartition
           \/ StatefulSetStatus \/ StatefulSetGone
  BY <1>6 DEF Reconcile, updateStatus, UserEdit, stsDelete, stsApply, stsCreate,
              patchNewPartition, StatefulSetStatus, StatefulSetGone
<1>7. CASE Elsewhere /\ ~reconcilePVC /\ ~resizeRefused /\ ~reconcileError
  <2>1. todo' = todo
    <3>1. CASE stsUnchanged \/ reconcileV1PDB \/ partitionRead \/ partitionCheck
      BY <3>1 DEF stsUnchanged, reconcileV1PDB, partitionRead, partitionCheck
    <3>2. ASSUME NEW i \in Ordinals,
                 \/ PodReady(i) \/ PodRoll(i) \/ PodScaleDown(i) \/ PodGone(i)
                 \/ PodFail(i) \/ CacheSync(i)
          PROVE  todo' = todo
      BY <3>2 DEF PodReady, PodRoll, PodScaleDown, PodGone, PodFail, CacheSync
    <3>3. CASE \/ LoopGather \/ LoopReport \/ Sicken \/ Heal \/ BackupBegin \/ BackupEnd
      BY <3>3 DEF LoopGather, LoopReport, Sicken, Heal, BackupBegin, BackupEnd
    <3> QED BY <1>7, <3>1, <3>2, <3>3 DEF Elsewhere
  <2> QED BY <1>7, <2>1, ElsewhereKeeps
<1> QED BY <1>1, <1>2, <1>3, <1>4, <1>5, <1>6, <1>7, NextCases

(* A StatefulSet at rest is counted correctly and has nothing to do. *)
LEMMA RestCounts ==
    ASSUME TypeInv, StatefulSetAtRest
    PROVE  /\ Counted = sts.replicas /\ Cardinality(Ready) = sts.replicas
           /\ ~isUpdatingStatefulSet(sts) /\ ~StatefulSetStatus
<1>1. sts \in StatefulSet /\ sts.replicas \in 0 .. MaxReplicas
  BY DEF TypeInv, TypeOK, StatefulSet
<1>2. \A i \in Ordinals :
         /\ i < sts.replicas => pods[i].phase = "ready" /\ pods[i].rev = sts.tmpl
         /\ ~(i < sts.replicas) => pods[i].phase = "none"
  BY DEF StatefulSetAtRest, NoPod
<1> DEFINE S == 0 .. sts.replicas - 1
<1>3. Cardinality(S) = sts.replicas
  <2>1. 0 \in Int /\ sts.replicas - 1 \in Int /\ sts.replicas \in Nat
    BY <1>1, OrdinalFacts
  <2>2. Cardinality(S) = IF 0 > sts.replicas - 1 THEN 0 ELSE (sts.replicas - 1) - 0 + 1
    BY <2>1, FS_Interval
  <2> QED BY <2>1, <2>2
<1>4. \A i : i \in S <=> i \in Ordinals /\ i < sts.replicas
  BY <1>1, OrdinalFacts DEF Ordinals
<1>5. Ready = S
  BY <1>2, <1>4 DEF Ready
<1>6. {i \in Ordinals : Running(i) /\ pods[i].rev = sts.tmpl} = S
  BY <1>2, <1>4 DEF Running
<1>7. Counted = sts.replicas /\ Cardinality(Ready) = sts.replicas
  BY <1>3, <1>5, <1>6 DEF Counted
<1>8. ~isUpdatingStatefulSet(sts)
  <2>1. /\ ~sts.deleting /\ sts.observed /\ sts.upd = sts.cur
        /\ sts.ready = sts.replicas /\ sts.updated = sts.replicas /\ sts.partition = 0
    BY DEF StatefulSetAtRest
  <2> QED BY <1>1, <2>1, OrdinalFacts DEF isUpdatingStatefulSet
<1>9. ~StatefulSetStatus
  <2> SUFFICES ASSUME StatefulSetStatus PROVE FALSE
    OBVIOUS
  <2> HIDE DEF S
  <2>1. [sts EXCEPT !.observed = TRUE, !.upd = sts.tmpl, !.updated = sts.replicas,
                    !.cur = sts.tmpl, !.ready = sts.replicas] # sts
    BY <1>7 DEF StatefulSetStatus
  <2>2. /\ sts.observed = TRUE /\ sts.upd = sts.tmpl /\ sts.updated = sts.replicas
        /\ sts.cur = sts.tmpl /\ sts.ready = sts.replicas
    BY <1>1 DEF StatefulSetAtRest, StatefulSet
  <2>3. [sts EXCEPT !.observed = TRUE, !.upd = sts.tmpl, !.updated = sts.replicas,
                    !.cur = sts.tmpl, !.ready = sts.replicas] = sts
    BY <1>1, <2>2 DEF StatefulSet
  <2> QED BY <2>1, <2>3
<1> QED BY <1>7, <1>8, <1>9

(* The Pods of a StatefulSet at rest stay as they are. *)
LEMMA RestPods ==
    ASSUME TypeInv, StatefulSetAtRest, NEW i \in Ordinals
    PROVE  ~PodLife(i) /\ ~PodFail(i)
<1>1. pods[i] = IF i < sts.replicas THEN [phase |-> "ready", rev |-> sts.tmpl] ELSE NoPod
  BY DEF StatefulSetAtRest
<1>2. i \in Nat /\ sts.replicas \in Nat /\ budget.fail = 0 /\ sts.partition = 0
  BY OrdinalFacts DEF TypeInv, TypeOK, StatefulSet, StatefulSetAtRest
<1>3. CASE i < sts.replicas
  <2>1. pods[i].phase = "ready" /\ pods[i].rev = sts.tmpl /\ pods[i] # NoPod
    BY <1>1, <1>3 DEF NoPod
  <2>2. ~(i >= sts.replicas)
    BY <1>2, <1>3
  <2>3. ~PodLife(i)
    BY <2>1, <2>2 DEF PodLife, PodCreate, PodReady, PodRoll, Rolls, PodScaleDown, PodGone
  <2>4. ~PodFail(i)
    BY <1>2 DEF PodFail, Happens
  <2> QED BY <2>3, <2>4
<1>4. CASE ~(i < sts.replicas)
  <2>1. pods[i].phase = "none"
    BY <1>1, <1>4 DEF NoPod
  <2> QED BY <1>4, <2>1 DEF PodLife, PodCreate, PodReady, PodRoll, Rolls, PodScaleDown,
                            PodGone, PodFail, Running
<1> QED BY <1>3, <1>4

(* What can happen to a StatefulSet at rest. *)
LEMMA RestCases ==
    ASSUME TypeInv, StatefulSetAtRest, Next
    PROVE  \/ UserEdit \/ Reconcile \/ reconcilePVC \/ resizePVC \/ stsDelete \/ stsApply
           \/ resizeRefused \/ stsUnchanged \/ reconcileV1PDB \/ updateStatus
           \/ reconcileError \/ Crash
           \/ (\E i \in Ordinals : VolumeGrow(i) \/ CacheSync(i))
           \/ LoopGather \/ LoopReport \/ Sicken \/ Heal \/ BackupBegin \/ BackupEnd
<1>1. ~PartitionController
  <2>1. ~(sts.partition > 0) /\ ppc = "idle"
    BY DEF StatefulSetAtRest
  <2> QED BY <2>1 DEF PartitionController, partitionRead, needPartitionUpdate,
                      partitionCheck, patchNewPartition
<1>2. ~stsCreate /\ ~StatefulSetGone
  BY DEF StatefulSetAtRest, stsCreate, StatefulSetGone
<1>3. ~StatefulSetStatus
  BY RestCounts
<1>4. \A i \in Ordinals : ~PodLife(i) /\ ~PodFail(i)
  BY RestPods
<1> QED BY <1>1, <1>2, <1>3, <1>4 DEF Next, Reconciler

(* What leaves the StatefulSet and its Pods alone leaves them at rest. *)
LEMMA RestKept ==
    ASSUME StatefulSetAtRest, UNCHANGED <<sts, pods>>, ppc' = "idle", budget'.fail = budget.fail
    PROVE  StatefulSetAtRest'
BY DEF StatefulSetAtRest

(* Events of another kind do not bring back failures. *)
LEMMA BudgetKept ==
    ASSUME TypeOK, NEW kind \in {"error", "grow", "backup", "sick"}, Happens(kind)
    PROVE  budget'.fail = budget.fail
BY DEF TypeOK, Budget, Happens

(* What the reconciler knows of the volumes. *)
ResizeInv ==
    /\ rpc = "resize" => \A i \in Ordinals :
                            i < sts.replicas => i \in todo \/ pvc[i] >= view.size
    /\ rpc = "sts" /\ view.size > sts.size => EnoughFor(view.size)
    /\ rpc # "wait"

(* The sizes that are to come: either the first edit is still to come, or  *)
(* only the reconciler has not seen it.                                    *)
WantedInv ==
    \/ Deployed(spec) /\ Deployed(view)
    \/ /\ \A k \in 1 .. Len(edits) : edits[k].size <= spec.size
       /\ Deployed(view) \/ spec.size <= view.size

VolumesOfPods ==
    \A i \in Ordinals : IF i < sts.replicas THEN pvc[i] >= sts.size ELSE pvc[i] = 0

(* The parts of GrowingAtRest. *)
LEMMA GrowingParts ==
    GrowingAtRest <=> /\ StatefulSetAtRest /\ sts.size > 0 /\ VolumesOfPods
                      /\ ResizeInv /\ WantedInv
BY DEF GrowingAtRest, ResizeInv, WantedInv, VolumesOfPods

(* Volumes of a cluster at rest are resized, and then its StatefulSet is   *)
(* replaced.                                                               *)
LEMMA GrowingStep ==
    ASSUME TypeInv, GrowingAtRest, Next, \A i \in todo : pvc[i] # 0,
           \A j, k \in 1 .. Len(edits) : j < k => edits[k].size <= edits[j].size
    PROVE  NoMoreGrowth' \/ GrowingAtRest'
<1>0. /\ TypeOK
      /\ sts.size \in Nat /\ view.size \in Nat /\ spec.size \in Nat
      /\ \A i \in Ordinals : pvc[i] \in Nat
      /\ \A k \in 1 .. Len(edits) : edits[k].size \in Nat
      /\ sts.replicas \in Nat /\ Ordinals \subseteq Nat
  <2>1. TypeOK
    BY DEF TypeInv
  <2>2. sts.replicas \in Nat /\ Ordinals \subseteq Nat
    BY <2>1, OrdinalFacts DEF TypeOK, StatefulSet
  <2> QED BY <2>1, <2>2, SizeFacts
<1>a. StatefulSetAtRest /\ sts.size > 0 /\ VolumesOfPods /\ ResizeInv /\ WantedInv
  BY GrowingParts
<1>b. ppc = "idle" /\ sts.there /\ ~sts.deleting
  BY <1>a DEF StatefulSetAtRest
<1>p. (GrowingAtRest <=> /\ StatefulSetAtRest /\ sts.size > 0 /\ VolumesOfPods
                         /\ ResizeInv /\ WantedInv)'
  BY DEF GrowingAtRest, ResizeInv, WantedInv, VolumesOfPods
<1> USE DEF clusterVars, kubeVars, recVars, partVars, envVars
<1>1. CASE \/ resizeRefused \/ stsUnchanged \/ reconcileV1PDB \/ reconcileError
           \/ (\E i \in Ordinals : CacheSync(i))
           \/ LoopGather \/ LoopReport \/ Sicken \/ Heal \/ BackupBegin \/ BackupEnd
  <2>1. UNCHANGED <<sts, pods, pvc, spec, view, edits>> /\ ppc' = "idle"
    BY <1>1, <1>b DEF resizeRefused, stsUnchanged, reconcileV1PDB, reconcileError, CacheSync,
                LoopGather, LoopReport, Sicken, Heal, BackupBegin, BackupEnd
  <2>2. rpc' \in {"status", "pdb"} \/ (rpc' = rpc /\ todo' = todo)
    BY <1>1 DEF resizeRefused, stsUnchanged, reconcileV1PDB, reconcileError, CacheSync,
                LoopGather, LoopReport, Sicken, Heal, BackupBegin, BackupEnd
  <2>3. budget'.fail = budget.fail
    <3>1. CASE reconcileError
      BY <1>0, <3>1, BudgetKept DEF reconcileError
    <3>2. CASE Sicken
      BY <1>0, <3>2, BudgetKept DEF Sicken
    <3>3. CASE BackupBegin
      BY <1>0, <3>3, BudgetKept DEF BackupBegin
    <3>4. CASE \/ resizeRefused \/ stsUnchanged \/ reconcileV1PDB
               \/ (\E i \in Ordinals : CacheSync(i))
               \/ LoopGather \/ LoopReport \/ Heal \/ BackupEnd
      BY <3>4 DEF resizeRefused, stsUnchanged, reconcileV1PDB, CacheSync,
                  LoopGather, LoopReport, Heal, BackupEnd
    <3> QED BY <1>1, <3>1, <3>2, <3>3, <3>4
  <2>4. StatefulSetAtRest'
    BY <1>a, <2>1, <2>3, RestKept
  <2>5. ResizeInv'
    BY <1>a, <2>1, <2>2 DEF ResizeInv, EnoughFor
  <2>6. WantedInv' /\ VolumesOfPods' /\ sts'.size > 0
    BY <1>a, <2>1 DEF WantedInv, VolumesOfPods, Deployed, Wanted
  <2> QED BY <1>p, <2>4, <2>5, <2>6
<1>2. CASE UserEdit
  <2>1. UNCHANGED <<sts, pods, pvc, view, rpc, todo, ppc, budget>>
    BY <1>2 DEF UserEdit
  <2>2. StatefulSetAtRest' /\ VolumesOfPods' /\ ResizeInv' /\ sts'.size > 0
    BY <1>a, <1>b, <2>1, RestKept DEF VolumesOfPods, ResizeInv, EnoughFor
  <2>3. \A k \in 1 .. Len(edits') : edits'[k].size <= spec'.size
    <3> SUFFICES ASSUME NEW k \in 1 .. Len(edits') PROVE edits'[k].size <= spec'.size
      OBVIOUS
    <3>1. /\ k + 1 \in 1 .. Len(edits) /\ edits'[k] = edits[k + 1]
          /\ 1 \in 1 .. Len(edits) /\ spec' = edits[1]
      BY <1>0, <1>2, EditFacts
    <3>2. 1 < k + 1
      OBVIOUS
    <3>3. edits[k + 1].size <= edits[1].size
      BY <3>1, <3>2
    <3> QED BY <3>1, <3>3
  <2>4. Deployed(view)' = Deployed(view)
    BY <2>1 DEF Deployed, Wanted
  <2>5. Deployed(view)' \/ spec'.size <= view'.size
    <3>1. CASE Deployed(view)
      BY <2>4, <3>1
    <3>2. CASE ~Deployed(view)
      <4>1. spec.size <= view.size /\ \A k \in 1 .. Len(edits) : edits[k].size <= spec.size
        BY <1>a, <3>2 DEF WantedInv
      <4>2. 1 \in 1 .. Len(edits) /\ spec' = edits[1]
        BY <1>0, <1>2, EditFacts
      <4>3. edits[1].size <= view.size
        BY <1>0, <4>1, <4>2
      <4> QED BY <2>1, <4>2, <4>3
    <3> QED BY <3>1, <3>2
  <2>6. WantedInv'
    BY <2>3, <2>5 DEF WantedInv
  <2> QED BY <1>p, <2>2, <2>6
<1>3. CASE Reconcile \/ updateStatus \/ Crash
  <2>1. /\ view' = spec /\ UNCHANGED <<edits, spec, pvc, sts, pods>>
        /\ rpc' \in {"pvc", "idle"} /\ ppc' = "idle"
    BY <1>3, <1>b DEF Reconcile, updateStatus, Crash
  <2>2. budget'.fail = budget.fail
    <3>1. CASE Crash
      BY <1>0, <3>1, BudgetKept DEF Crash
    <3>2. CASE Reconcile \/ updateStatus
      BY <3>2 DEF Reconcile, updateStatus
    <3> QED BY <1>3, <3>1, <3>2
  <2>3. StatefulSetAtRest' /\ VolumesOfPods' /\ ResizeInv' /\ sts'.size > 0
    BY <1>a, <1>b, <2>1, <2>2, RestKept DEF VolumesOfPods, ResizeInv
  <2>4. WantedInv'
    <3>1. CASE Deployed(spec)
      <4>1. Deployed(spec)' /\ Deployed(view)'
        BY <2>1, <3>1 DEF Deployed, Wanted
      <4> QED BY <4>1 DEF WantedInv
    <3>2. CASE ~Deployed(spec)
      <4>1. \A k \in 1 .. Len(edits) : edits[k].size <= spec.size
        BY <1>a, <3>2 DEF WantedInv
      <4>2. spec.size <= spec.size
        BY <1>0
      <4> QED BY <2>1, <4>1, <4>2 DEF WantedInv
    <3> QED BY <3>1, <3>2
  <2> QED BY <1>p, <2>3, <2>4
<1>4. CASE reconcilePVC
  <2>1. UNCHANGED <<sts, pods, pvc, view, spec, edits, ppc, budget>>
    BY <1>4 DEF reconcilePVC
  <2>2. StatefulSetAtRest' /\ VolumesOfPods' /\ WantedInv' /\ sts'.size > 0
    BY <1>a, <1>b, <2>1, RestKept DEF VolumesOfPods, WantedInv, Deployed, Wanted
  <2>3. ResizeInv'
    <3>1. \A i \in Ordinals : i < sts.replicas => pvc[i] # 0
      BY <1>0, <1>a DEF VolumesOfPods
    <3>2. CASE sts.size < view.size
      <4>1. todo' = {i \in Ordinals : i < sts.replicas /\ pvc[i] \notin {0, view.size}}
        BY <1>4, <1>a, <1>b, <3>2, RestCounts DEF reconcilePVC, needResizePVC
      <4>2. \A i \in Ordinals : i < sts.replicas => i \in todo' \/ pvc[i] = view.size
        BY <3>1, <4>1
      <4>3. rpc' = "sts" => todo' = {}
        BY <1>4 DEF reconcilePVC
      <4>4. rpc' = "sts" => \A i \in Ordinals : pvc[i] = 0 \/ pvc[i] >= view.size
        BY <1>0, <1>a, <4>2, <4>3 DEF VolumesOfPods
      <4>5. rpc' # "wait"
        BY <1>4 DEF reconcilePVC
      <4>6. \A i \in Ordinals : i < sts.replicas => i \in todo' \/ pvc[i] >= view.size
        BY <1>0, <4>2
      <4> QED BY <2>1, <4>4, <4>5, <4>6 DEF ResizeInv, EnoughFor
    <3>3. CASE ~(sts.size < view.size)
      <4>1. todo' = {} /\ rpc' = "sts"
        BY <1>4, <3>3 DEF reconcilePVC, needResizePVC
      <4>2. ~(view.size > sts.size)
        BY <1>0, <3>3
      <4> QED BY <2>1, <4>1, <4>2 DEF ResizeInv
    <3> QED BY <3>2, <3>3
  <2> QED BY <1>p, <2>2, <2>3
<1>5. CASE resizePVC
  <2>1. UNCHANGED <<sts, pods, view, spec, edits, ppc, budget>> /\ rpc = "resize"
    BY <1>5 DEF resizePVC
  <2>2. StatefulSetAtRest' /\ WantedInv' /\ sts'.size > 0
    BY <1>a, <1>b, <2>1, RestKept DEF WantedInv, Deployed, Wanted
  <2> PICK i \in todo : /\ pvc[i] < view.size
                        /\ pvc' = [pvc EXCEPT ![i] = view.size] /\ todo' = todo \ {i}
    BY <1>5 DEF resizePVC
  <2>3. i \in Ordinals /\ pvc'[i] = view.size
        /\ \A j \in Ordinals : j # i => pvc'[j] = pvc[j] /\ (j \in todo' <=> j \in todo)
    BY <1>0 DEF TypeOK
  <2>4. CASE i < sts.replicas
    <3>1. VolumesOfPods'
      <4>1. pvc[i] >= sts.size
        BY <1>a, <2>3, <2>4 DEF VolumesOfPods
      <4>2. view.size >= sts.size
        BY <1>0, <2>3, <4>1
      <4> QED BY <1>a, <2>1, <2>3, <2>4, <4>2 DEF VolumesOfPods
    <3>2. \A j \in Ordinals : j < sts.replicas => j \in todo' \/ pvc'[j] >= view.size
      BY <1>0, <1>a, <2>1, <2>3 DEF ResizeInv
    <3>3. rpc' = "sts" => \A j \in Ordinals : pvc'[j] = 0 \/ pvc'[j] >= view.size
      <4> SUFFICES ASSUME rpc' = "sts", NEW j \in Ordinals
                   PROVE  pvc'[j] = 0 \/ pvc'[j] >= view.size
        OBVIOUS
      <4>1. todo' = {}
        BY <1>5 DEF resizePVC
      <4> QED BY <2>1, <3>1, <3>2, <4>1 DEF VolumesOfPods
    <3>4. rpc' # "wait"
      BY <1>5 DEF resizePVC
    <3>5. ResizeInv'
      BY <2>1, <3>2, <3>3, <3>4 DEF ResizeInv, EnoughFor
    <3> QED BY <1>p, <2>2, <3>1, <3>5
  <2>5. CASE ~(i < sts.replicas)
    BY <1>a, <2>3, <2>5 DEF VolumesOfPods
  <2> QED BY <2>4, <2>5
<1>6. ASSUME NEW i \in Ordinals, VolumeGrow(i) PROVE GrowingAtRest'
  <2>1. UNCHANGED <<sts, pods, view, spec, edits, rpc, todo, ppc>>
    BY <1>6 DEF VolumeGrow
  <2>2. budget'.fail = budget.fail
    BY <1>0, <1>6, BudgetKept DEF VolumeGrow
  <2>3. StatefulSetAtRest' /\ WantedInv' /\ sts'.size > 0
    BY <1>a, <1>b, <2>1, <2>2, RestKept DEF WantedInv, Deployed, Wanted
  <2>4. \A j \in Ordinals : pvc'[j] = pvc[j] \/ (pvc[j] > 0 /\ pvc'[j] = pvc[j] + 1)
    BY <1>0, <1>6 DEF VolumeGrow, TypeOK
  <2>5. VolumesOfPods'
    BY <1>0, <1>a, <2>1, <2>4 DEF VolumesOfPods
  <2>6. ResizeInv'
    BY <1>0, <1>a, <2>1, <2>4 DEF ResizeInv, EnoughFor
  <2> QED BY <1>p, <2>3, <2>5, <2>6
<1>7. CASE stsDelete
  <2>1. UNCHANGED <<edits, spec, view, pvc>> /\ rpc = "sts" /\ sts.size # view.size
    BY <1>7 DEF stsDelete
  <2>2. sts'.there /\ sts'.deleting /\ sts'.size = sts.size
    BY <1>7, <1>b, DeleteFields
  <2>3. /\ \A k \in 1 .. Len(edits) : edits[k].size <= spec.size
        /\ spec.size <= view.size
    BY <1>a, <2>1 DEF WantedInv, Deployed
  <2>4. EnoughFor(sts.size)
    BY <1>a DEF VolumesOfPods, EnoughFor
  <2>5. EnoughFor(view.size)
    <3>1. CASE view.size > sts.size
      BY <1>a, <2>1, <3>1 DEF ResizeInv
    <3>2. CASE ~(view.size > sts.size)
      <4> SUFFICES ASSUME NEW i \in Ordinals PROVE pvc[i] = 0 \/ pvc[i] >= view.size
        BY DEF EnoughFor
      <4>1. pvc[i] = 0 \/ pvc[i] >= sts.size
        BY <2>4 DEF EnoughFor
      <4>2. pvc[i] \in Nat
        BY <1>0
      <4> QED BY <1>0, <3>2, <4>1, <4>2
    <3> QED BY <3>1, <3>2
  <2>6. NoMoreGrowth'
    BY <2>1, <2>2, <2>3, <2>4, <2>5 DEF NoMoreGrowth, EnoughFor
  <2> QED BY <2>6
<1>8. CASE stsApply
  <2>1. UNCHANGED <<edits, spec, view, pvc>> /\ sts.size = view.size /\ ~Deployed(view)
    BY <1>8 DEF stsApply
  <2>2. sts'.there /\ sts'.size = sts.size
    BY <1>8, ApplyFields
  <2>3. /\ \A k \in 1 .. Len(edits) : edits[k].size <= spec.size
        /\ spec.size <= view.size
    BY <1>a, <2>1 DEF WantedInv
  <2>4. EnoughFor(sts.size)
    BY <1>a DEF VolumesOfPods, EnoughFor
  <2>5. sts.size >= view.size
    BY <1>0, <2>1
  <2>6. NoMoreGrowth'
    BY <2>1, <2>2, <2>3, <2>4, <2>5 DEF NoMoreGrowth, EnoughFor
  <2> QED BY <2>6
<1> QED BY <1>a, <1>1, <1>2, <1>3, <1>4, <1>5, <1>6, <1>7, <1>8, RestCases

(* The invariant of the volumes holds at first. *)
LEMMA VolumeInit ==
    ASSUME \A s \in Scenarios : GrowsAtRest(s), Init, TypeOK
    PROVE  VolumeInv
<1> PICK sc \in Scenarios : spec = sc.first /\ edits = sc.edits /\ budget = sc.budget
  BY DEF Init
<1>0. /\ sts.size \in Nat /\ view.size \in Nat /\ spec.size \in Nat /\ spec.size > 0
      /\ \A k \in 1 .. Len(edits) : edits[k].size \in Nat
  BY SizeFacts
<1>1. \A j, k \in 1 .. Len(edits) : j < k => edits[k].size <= edits[j].size
  BY DEF GrowsAtRest
<1>2. /\ view = spec /\ todo = {} /\ rpc = "idle" /\ ppc = "idle"
      /\ sts.there /\ ~sts.deleting /\ sts.observed /\ sts.partition = 0
      /\ sts.tmpl = spec.tmpl /\ sts.size = spec.size /\ sts.force = spec.force
      /\ sts.upd = spec.tmpl /\ sts.cur = spec.tmpl
      /\ sts.replicas = Wanted(spec) /\ sts.updated = Wanted(spec) /\ sts.ready = Wanted(spec)
  BY DEF Init
<1>3. \A i \in Ordinals : pvc[i] = IF i < spec.replicas THEN sts.size ELSE 0
  BY <1>2 DEF Init
<1>4. \A i \in Ordinals :
         pods[i] = IF i < sts.replicas THEN [phase |-> "ready", rev |-> sts.tmpl] ELSE NoPod
  BY <1>2 DEF Init
<1>5. CASE edits = <<>> \/ edits[1].size <= spec.size
  <2>1. ASSUME NEW k \in 1 .. Len(edits) PROVE edits[k].size <= spec.size
    <3>1. edits # <<>> /\ 1 \in 1 .. Len(edits) /\ k \in Nat /\ 1 <= k
      BY DEF TypeOK
    <3>2. edits[k].size <= edits[1].size
      <4>1. CASE k = 1
        BY <1>0, <3>1, <4>1
      <4>2. CASE k # 1
        <5>1. 1 < k
          BY <3>1, <4>2
        <5> QED BY <1>1, <3>1, <5>1
      <4> QED BY <4>1, <4>2
    <3> QED BY <1>0, <1>5, <3>1, <3>2
  <2>2. EnoughFor(view.size) /\ EnoughFor(sts.size)
    BY <1>0, <1>2, <1>3 DEF EnoughFor
  <2>3. NoMoreGrowth
    BY <1>0, <1>2, <2>1, <2>2 DEF NoMoreGrowth
  <2> QED BY <1>1, <1>2, <2>3 DEF VolumeInv
<1>6. CASE ~(edits = <<>> \/ edits[1].size <= spec.size)
  <2>1. budget.fail = 0 /\ sts.replicas = spec.replicas
    BY <1>2, <1>6 DEF GrowsAtRest, Wanted
  <2>2. StatefulSetAtRest
    BY <1>2, <1>4, <2>1 DEF StatefulSetAtRest
  <2>3. VolumesOfPods /\ sts.size > 0
    BY <1>0, <1>2, <1>3, <2>1 DEF VolumesOfPods
  <2>4. ResizeInv
    BY <1>2 DEF ResizeInv
  <2>5. WantedInv
    BY <1>2 DEF WantedInv, Deployed
  <2> QED BY <1>1, <1>2, <2>2, <2>3, <2>4, <2>5, GrowingParts DEF VolumeInv
<1> QED BY <1>5, <1>6

(* Every step keeps the invariant of the volumes. *)
LEMMA VolumeStep == TypeInv /\ TypeInv' /\ VolumeInv /\ [Next]_vars => VolumeInv'
<1> SUFFICES ASSUME TypeInv, TypeInv', VolumeInv, [Next]_vars PROVE VolumeInv'
  OBVIOUS
<1>1. CASE Next
  <2>1. /\ \A j, k \in 1 .. Len(edits) : j < k => edits[k].size <= edits[j].size
        /\ \A i \in todo : pvc[i] # 0
        /\ NoMoreGrowth \/ GrowingAtRest
        /\ TypeOK
    BY DEF VolumeInv, TypeInv
  <2>2. \A j, k \in 1 .. Len(edits') : j < k => edits'[k].size <= edits'[j].size
    BY <2>1, EditOrder
  <2>3. \A i \in todo' : pvc'[i] # 0
    BY <1>1, <2>1, TodoStep
  <2>4. NoMoreGrowth' \/ GrowingAtRest'
    BY <1>1, <2>1, NoMoreGrowthStep, GrowingStep
  <2> QED BY <2>2, <2>3, <2>4 DEF VolumeInv
<1>2. CASE UNCHANGED vars
  BY <1>2 DEF vars, clusterVars, kubeVars, recVars, partVars, envVars, VolumeInv,
              NoMoreGrowth, GrowingAtRest, StatefulSetAtRest, EnoughFor, Deployed, Wanted
<1> QED BY <1>1, <1>2

(* If only the first edit enlarges the volumes, of a cluster at rest that  *)
(* is not offline and whose Pods do not fail, no volume is ever smaller    *)
(* than the claim template of the StatefulSet says, whatever calls fail,   *)
(* however often the controller is restarted between the updates of two    *)
(* volumes or between deleting the StatefulSet and creating it, whichever  *)
(* volumes an autoresizer grows meanwhile and whatever is edited later;    *)
(* and without these restrictions if the size is never enlarged.           *)
THEOREM VolumesFollowTemplateAlways ==
    ASSUME \A s \in Scenarios : GrowsAtRest(s)
    PROVE  Spec => []VolumesFollowTemplate
<1>1. Init => TypeInv /\ VolumeInv
  BY InitType, VolumeInit DEF TypeInv
<1>2. (TypeInv /\ VolumeInv) /\ [Next]_vars => (TypeInv /\ VolumeInv)'
  BY NextType, VolumeStep
<1>3. TypeInv /\ VolumeInv => VolumesFollowTemplate
  <2> SUFFICES ASSUME TypeInv, VolumeInv, sts.there, NEW i \in Ordinals
               PROVE  pvc[i] = 0 \/ pvc[i] >= sts.size
    BY DEF VolumesFollowTemplate
  <2>1. CASE NoMoreGrowth
    BY <2>1 DEF NoMoreGrowth, EnoughFor
  <2>2. CASE GrowingAtRest
    BY <2>2 DEF GrowingAtRest
  <2> QED BY <2>1, <2>2 DEF VolumeInv
<1> QED BY <1>1, <1>2, <1>3, PTL DEF Spec

-----------------------------------------------------------------------------
(* A broken template reaches one Pod only *)

(* Zero is no template, in particular no broken one. *)
LEMMA BrokenFacts == Broken \subseteq Templates /\ 0 \notin Templates /\ 0 \notin Broken
BY RolloutAssumption

(* The Pods move on with the template that they have. *)
LEMMA ElsewherePods ==
    ASSUME TypeOK, Elsewhere, NEW j \in Ordinals
    PROVE  \/ pods'[j] = pods[j]
           \/ pods'[j] = NoPod
           \/ /\ pods[j] # NoPod /\ pods'[j].rev = pods[j].rev
              /\ pods'[j].phase = "ready" => pods[j].rev \notin Broken
<1> USE DEF clusterVars, kubeVars, recVars, partVars, envVars
<1>1. CASE \/ reconcilePVC \/ resizeRefused \/ stsUnchanged \/ reconcileV1PDB
           \/ reconcileError \/ partitionRead \/ partitionCheck
           \/ LoopGather \/ LoopReport \/ Sicken \/ Heal \/ BackupBegin \/ BackupEnd
  BY <1>1 DEF reconcilePVC, resizeRefused, stsUnchanged, reconcileV1PDB, reconcileError,
              partitionRead, partitionCheck, LoopGather, LoopReport, Sicken, Heal,
              BackupBegin, BackupEnd
<1>2. ASSUME NEW i \in Ordinals, CacheSync(i) PROVE pods'[j] = pods[j]
  BY <1>2 DEF CacheSync
<1>3. ASSUME NEW i \in Ordinals, PodGone(i) PROVE pods'[j] = pods[j] \/ pods'[j] = NoPod
  BY <1>3 DEF PodGone, TypeOK
<1>4. ASSUME NEW i \in Ordinals, NEW ph \in {"starting", "ready", "terminating"},
             pods' = [pods EXCEPT ![i].phase = ph], pods[i].phase # "none",
             ph = "ready" => pods[i].rev \notin Broken
      PROVE  \/ pods'[j] = pods[j]
             \/ /\ pods[j] # NoPod /\ pods'[j].rev = pods[j].rev
                /\ pods'[j].phase = "ready" => pods[j].rev \notin Broken
  <2>1. CASE i # j
    BY <1>4, <2>1 DEF TypeOK
  <2>2. CASE i = j
    <3>1. pods[i] \in Pod
      BY DEF TypeOK
    <3>2. pods'[i] = [pods[i] EXCEPT !.phase = ph]
      BY <1>4 DEF TypeOK
    <3>3. pods'[i].rev = pods[i].rev /\ pods'[i].phase = ph
      BY <3>1, <3>2 DEF Pod
    <3> QED BY <1>4, <2>2, <3>3 DEF NoPod
  <2> QED BY <2>1, <2>2
<1>5. ASSUME NEW i \in Ordinals, PodReady(i)
      PROVE  \/ pods'[j] = pods[j]
             \/ /\ pods[j] # NoPod /\ pods'[j].rev = pods[j].rev
                /\ pods'[j].phase = "ready" => pods[j].rev \notin Broken
  <2>1. /\ pods' = [pods EXCEPT ![i].phase = "ready"] /\ pods[i].phase # "none"
        /\ pods[i].rev \notin Broken
    BY <1>5 DEF PodReady
  <2> QED BY <1>4, <2>1
<1>6. ASSUME NEW i \in Ordinals, PodRoll(i) \/ PodScaleDown(i)
      PROVE  \/ pods'[j] = pods[j]
             \/ /\ pods[j] # NoPod /\ pods'[j].rev = pods[j].rev
                /\ pods'[j].phase = "ready" => pods[j].rev \notin Broken
  <2>1. pods' = [pods EXCEPT ![i].phase = "terminating"] /\ pods[i].phase # "none"
    BY <1>6 DEF PodRoll, Rolls, PodScaleDown, Terminate, Running
  <2> QED BY <1>4, <2>1
<1>7. ASSUME NEW i \in Ordinals, PodFail(i)
      PROVE  \/ pods'[j] = pods[j]
             \/ /\ pods[j] # NoPod /\ pods'[j].rev = pods[j].rev
                /\ pods'[j].phase = "ready" => pods[j].rev \notin Broken
  <2> PICK ph \in {"starting", "terminating"} : pods' = [pods EXCEPT ![i].phase = ph]
    BY <1>7 DEF PodFail
  <2>1. pods[i].phase # "none"
    BY <1>7 DEF PodFail
  <2> QED BY <1>4, <2>1
<1> QED BY <1>1, <1>2, <1>3, <1>5, <1>6, <1>7 DEF Elsewhere

(* The cache shows what was there. *)
LEMMA CacheStep ==
    ASSUME TypeOK, Elsewhere, NEW j \in Ordinals
    PROVE  seen'[j] \in {seen[j], pods[j]}
<1> USE DEF clusterVars, kubeVars, recVars, partVars, envVars
<1>1. CASE \/ reconcilePVC \/ resizeRefused \/ stsUnchanged \/ reconcileV1PDB
           \/ reconcileError \/ partitionRead \/ partitionCheck
           \/ LoopGather \/ LoopReport \/ Sicken \/ Heal \/ BackupBegin \/ BackupEnd
  BY <1>1 DEF reconcilePVC, resizeRefused, stsUnchanged, reconcileV1PDB, reconcileError,
              partitionRead, partitionCheck, LoopGather, LoopReport, Sicken, Heal,
              BackupBegin, BackupEnd
<1>2. ASSUME NEW i \in Ordinals, CacheSync(i) PROVE seen'[j] \in {seen[j], pods[j]}
  BY <1>2 DEF CacheSync, TypeOK
<1>3. ASSUME NEW i \in Ordinals,
             PodReady(i) \/ PodRoll(i) \/ PodScaleDown(i) \/ PodGone(i) \/ PodFail(i)
      PROVE  seen'[j] \in {seen[j], pods[j]}
  BY <1>3 DEF PodReady, PodRoll, PodScaleDown, PodGone, PodFail
<1> QED BY <1>1, <1>2, <1>3 DEF Elsewhere

(* The other steps leave the partition controller where it is. *)
LEMMA ElsewherePartition ==
    ASSUME Elsewhere, ~partitionRead, ~partitionCheck
    PROVE  UNCHANGED <<ppc, read>>
<1> USE DEF clusterVars, kubeVars, recVars, partVars, envVars
<1>1. CASE \/ reconcilePVC \/ resizeRefused \/ stsUnchanged \/ reconcileV1PDB \/ reconcileError
           \/ LoopGather \/ LoopReport \/ Sicken \/ Heal \/ BackupBegin \/ BackupEnd
  BY <1>1 DEF reconcilePVC, resizeRefused, stsUnchanged, reconcileV1PDB, reconcileError,
              LoopGather, LoopReport, Sicken, Heal, BackupBegin, BackupEnd
<1>2. ASSUME NEW i \in Ordinals,
             \/ PodReady(i) \/ PodRoll(i) \/ PodScaleDown(i) \/ PodGone(i)
             \/ PodFail(i) \/ CacheSync(i)
      PROVE  UNCHANGED <<ppc, read>>
  BY <1>2 DEF PodReady, PodRoll, PodScaleDown, PodGone, PodFail, CacheSync
<1> QED BY <1>1, <1>2 DEF Elsewhere

(* What the steps of the reconciler, the StatefulSet controller and others *)
(* that are not in Elsewhere leave alone.                                  *)
LEMMA OthersKeep ==
    ASSUME \/ UserEdit \/ Reconcile \/ updateStatus \/ resizePVC
           \/ (\E i \in Ordinals : VolumeGrow(i))
           \/ stsDelete \/ stsApply \/ stsCreate \/ StatefulSetStatus \/ StatefulSetGone
    PROVE  UNCHANGED <<pods, seen, ppc, read>>
<1> USE DEF clusterVars, kubeVars, recVars, partVars, envVars
<1>1. CASE \/ UserEdit \/ Reconcile \/ updateStatus \/ resizePVC
           \/ (\E i \in Ordinals : VolumeGrow(i))
  BY <1>1 DEF UserEdit, Reconcile, updateStatus, resizePVC, VolumeGrow
<1>2. CASE \/ stsDelete \/ stsApply \/ stsCreate \/ StatefulSetStatus \/ StatefulSetGone
  BY <1>2 DEF stsDelete, stsApply, stsCreate, StatefulSetStatus, StatefulSetGone
<1> QED BY <1>1, <1>2

(* What happens to Kubernetes objects does not change the specification. *)
LEMMA SpecsKept ==
    ASSUME \/ resizePVC \/ (\E i \in Ordinals : VolumeGrow(i) \/ PodCreate(i))
           \/ stsDelete \/ stsApply \/ stsCreate \/ patchNewPartition
           \/ StatefulSetStatus \/ StatefulSetGone
    PROVE  UNCHANGED <<edits, spec, view>>
<1> USE DEF clusterVars, kubeVars, recVars, partVars, envVars
<1>1. CASE resizePVC \/ (\E i \in Ordinals : VolumeGrow(i) \/ PodCreate(i))
  BY <1>1 DEF resizePVC, VolumeGrow, PodCreate
<1>2. CASE \/ stsDelete \/ stsApply \/ stsCreate \/ patchNewPartition
           \/ StatefulSetStatus \/ StatefulSetGone
  BY <1>2 DEF stsDelete, stsApply, stsCreate, patchNewPartition, StatefulSetStatus,
              StatefulSetGone
<1> QED BY <1>1, <1>2

(* A new Pod. *)
LEMMA NewPod ==
    ASSUME TypeOK, NEW i \in Ordinals, PodCreate(i), NEW j \in Ordinals
    PROVE  \/ pods'[j] = pods[j]
           \/ /\ j = i /\ i < sts.replicas /\ ~sts.deleting /\ pods'[j].phase = "starting"
              /\ pods'[j].rev = IF i < sts.partition THEN CurrentRevision ELSE sts.tmpl
<1> DEFINE p == [phase |-> "starting",
                 rev |-> IF i < sts.partition THEN CurrentRevision ELSE sts.tmpl]
<1>1. pods' = [pods EXCEPT ![i] = p] /\ i < sts.replicas /\ ~sts.deleting
  BY DEF PodCreate
<1>2. p.phase = "starting" /\ p.rev = IF i < sts.partition THEN CurrentRevision ELSE sts.tmpl
  OBVIOUS
<1> HIDE DEF p
<1> QED BY <1>1, <1>2 DEF TypeOK

(* Fewer broken Pods are at most one if there was at most one. *)
LEMMA BrokenCount ==
    ASSUME NEW S \in SUBSET Ordinals, NEW T \in SUBSET S, Cardinality(S) <= 1
    PROVE  Cardinality(T) <= 1
<1>1. IsFiniteSet(S) /\ Cardinality(S) \in 0 .. MaxReplicas
  BY PodCount
<1>2. T \in SUBSET Ordinals
  OBVIOUS
<1>3. Cardinality(T) \in 0 .. MaxReplicas
  BY <1>2, PodCount
<1>4. Cardinality(T) <= Cardinality(S)
  BY <1>1, FS_Subset
<1> QED BY <1>1, <1>3, <1>4, OrdinalFacts

(* An edit among those that work. *)
LEMMA EditWorks ==
    ASSUME TypeOK, UserEdit, \A k \in 2 .. Len(edits) : edits[k].tmpl \notin Broken
    PROVE  EditsWork'
<1> SUFFICES ASSUME NEW k \in 1 .. Len(edits') PROVE edits'[k].tmpl \notin Broken
  BY DEF EditsWork
<1>1. k + 1 \in 2 .. Len(edits) /\ edits'[k] = edits[k + 1]
  BY EditFacts
<1> QED BY <1>1

(* If everything that is to come works, the number of broken Pods only     *)
(* falls.                                                                  *)
LEMMA AllWorkStep ==
    ASSUME TypeInv, AllWork, Next
    PROVE  AllWork'
<1>0. /\ TypeOK /\ EditsWork /\ spec.tmpl \notin Broken /\ view.tmpl \notin Broken
      /\ sts.tmpl \notin Broken /\ sts.cur \notin Broken
  BY DEF TypeInv, AllWork
<1> DEFINE B == {i \in Ordinals : pods[i].rev \in Broken}
<1>a. ASSUME \A j \in Ordinals : pods'[j].rev \in Broken => pods[j].rev \in Broken
      PROVE  Cardinality({i \in Ordinals : pods'[i].rev \in Broken}) <= 1
  <2>1. B \in SUBSET Ordinals /\ {i \in Ordinals : pods'[i].rev \in Broken} \in SUBSET B
    BY <1>a
  <2>2. Cardinality(B) <= 1
    BY DEF AllWork
  <2> QED BY <2>1, <2>2, BrokenCount
<1> HIDE DEF B
<1> USE DEF clusterVars, kubeVars, recVars, partVars, envVars
<1>1. CASE Elsewhere
  <2>1. UNCHANGED <<edits, spec, view, sts>>
    BY <1>1, ElsewhereKeeps
  <2>2. \A j \in Ordinals : pods'[j].rev \in Broken => pods[j].rev \in Broken
    BY <1>0, <1>1, ElsewherePods, BrokenFacts DEF NoPod
  <2> QED BY <1>0, <1>a, <2>1, <2>2 DEF AllWork, EditsWork
<1>2. CASE UserEdit
  <2>1. UNCHANGED <<pods, view, sts>>
    BY <1>2 DEF UserEdit
  <2>2. EditsWork'
    <3>1. \A k \in 2 .. Len(edits) : k \in 1 .. Len(edits)
      BY <1>0 DEF TypeOK
    <3> QED BY <1>0, <1>2, <3>1, EditWorks DEF EditsWork
  <2>3. spec'.tmpl \notin Broken
    BY <1>0, <1>2, EditFacts DEF EditsWork
  <2> QED BY <1>0, <1>a, <2>1, <2>2, <2>3 DEF AllWork
<1>3. CASE Reconcile \/ updateStatus \/ Crash
  <2>1. view' = spec /\ UNCHANGED <<edits, spec, pods, sts>>
    BY <1>3 DEF Reconcile, updateStatus, Crash
  <2> QED BY <1>0, <1>a, <2>1 DEF AllWork, EditsWork
<1>4. ASSUME NEW i \in Ordinals, PodCreate(i) PROVE AllWork'
  <2>1. UNCHANGED <<edits, spec, view, sts>>
    BY <1>4 DEF PodCreate
  <2>2. CurrentRevision \notin Broken
    BY <1>0 DEF CurrentRevision
  <2>3. \A j \in Ordinals : pods'[j].rev \in Broken => pods[j].rev \in Broken
    BY <1>0, <1>4, <2>2, NewPod
  <2> QED BY <1>0, <1>a, <2>1, <2>3 DEF AllWork, EditsWork
<1>5. CASE \/ resizePVC \/ (\E i \in Ordinals : VolumeGrow(i))
           \/ stsDelete \/ stsApply \/ stsCreate \/ patchNewPartition
           \/ StatefulSetStatus \/ StatefulSetGone
  <2>1. UNCHANGED <<edits, spec, view>>
    BY <1>5, SpecsKept
  <2>2. pods' = pods
    BY <1>5, OthersKeep DEF patchNewPartition
  <2>3. sts'.tmpl \notin Broken /\ sts'.cur \notin Broken
    <3>1. CASE resizePVC \/ (\E i \in Ordinals : VolumeGrow(i))
      BY <1>0, <3>1 DEF resizePVC, VolumeGrow
    <3>2. CASE stsDelete
      BY <1>0, <3>2, DeleteFields
    <3>3. CASE stsApply
      BY <1>0, <3>3, ApplyFields
    <3>4. CASE stsCreate
      BY <1>0, <3>4, CreateFields, BrokenFacts
    <3>5. CASE patchNewPartition
      BY <1>0, <3>5, PatchFields
    <3>6. CASE StatefulSetStatus
      <4>1. CurrentRevision \notin Broken
        BY <1>0 DEF CurrentRevision
      <4> QED BY <1>0, <3>6, <4>1, StatusFields
    <3>7. CASE StatefulSetGone
      BY <3>7, BrokenFacts DEF StatefulSetGone, NoStatefulSet
    <3> QED BY <1>5, <3>1, <3>2, <3>3, <3>4, <3>5, <3>6, <3>7
  <2> QED BY <1>0, <1>a, <2>1, <2>2, <2>3 DEF AllWork, EditsWork
<1> QED BY <1>1, <1>2, <1>3, <1>4, <1>5, NextCases

(* No Pod is broken before the template is. *)
LEMMA NotYetBrokenStep ==
    ASSUME TypeInv, TypeInv', NotYetBroken, Next
    PROVE  BrokenInv'
<1> DEFINE SpecsBefore ==
        /\ Deployed(view) /\ Deployed(spec)
        /\ \A k \in 2 .. Len(edits) : edits[k].tmpl \notin Broken
        /\ edits # <<>> /\ edits[1].tmpl \in Broken => OnlyAddsPods(edits[1])
    SpecsAfter ==
        /\ EditsWork
        /\ spec.tmpl \in Broken => OnlyAddsPods(spec)
        /\ view.tmpl \in Broken => OnlyAddsPods(view)
        /\ spec.tmpl \in Broken => view = spec \/ Deployed(view)
    StsBefore ==
        /\ sts.there /\ ~sts.deleting /\ ~sts.force /\ sts.partition = 0
        /\ sts.tmpl \in Templates \ Broken /\ sts.cur = sts.tmpl
    PodsBefore(ps) ==
        /\ PodsWork(ps) /\ \A i \in Ordinals : i >= sts.replicas => ps[i] = NoPod
<1>0. /\ TypeOK /\ ppc = "idle" /\ StsBefore /\ PodsBefore(pods) /\ PodsBefore(seen)
      /\ SpecsBefore \/ SpecsAfter
  BY DEF TypeInv, NotYetBroken
<1>a. ASSUME ppc' = "idle", StsBefore', PodsWork(pods)', PodsWork(seen)', sts'.replicas = sts.replicas,
             \A i \in Ordinals : i >= sts.replicas => pods'[i] = NoPod /\ seen'[i] = NoPod,
             SpecsBefore' \/ SpecsAfter'
      PROVE  BrokenInv'
  BY <1>a DEF BrokenInv, NotYetBroken
<1>b. ASSUME UNCHANGED <<edits, spec, view, sts>> PROVE SpecsBefore' \/ SpecsAfter'
  BY <1>0, <1>b DEF EditsWork, OnlyAddsPods, Deployed, Wanted
<1>c. ASSUME UNCHANGED <<pods, seen>>
      PROVE  /\ PodsWork(pods)' /\ PodsWork(seen)'
             /\ \A i \in Ordinals : i >= sts.replicas => pods'[i] = NoPod /\ seen'[i] = NoPod
  BY <1>0, <1>c DEF PodsWork
<1> USE DEF clusterVars, kubeVars, recVars, partVars, envVars
<1>1. CASE Elsewhere
  <2>1. UNCHANGED <<edits, spec, view, sts>>
    BY <1>1, ElsewhereKeeps
  <2>2. ASSUME NEW j \in Ordinals
        PROVE  /\ pods'[j].rev \notin Broken /\ seen'[j].rev \notin Broken
               /\ j >= sts.replicas => pods'[j] = NoPod /\ seen'[j] = NoPod
    <3>1. pods[j].rev \notin Broken /\ seen[j].rev \notin Broken
          /\ (j >= sts.replicas => pods[j] = NoPod /\ seen[j] = NoPod)
      BY <1>0 DEF PodsWork
    <3>2. pods'[j].rev \notin Broken /\ (j >= sts.replicas => pods'[j] = NoPod)
      BY <1>0, <1>1, <3>1, ElsewherePods, BrokenFacts DEF NoPod
    <3>3. seen'[j] \in {seen[j], pods[j]}
      BY <1>0, <1>1, CacheStep
    <3> QED BY <3>1, <3>2, <3>3
  <2>3. ppc' = "idle"
    <3>1. ~partitionRead /\ ~partitionCheck
      BY <1>0 DEF partitionRead, needPartitionUpdate, partitionCheck
    <3> QED BY <1>0, <1>1, <3>1, ElsewherePartition
  <2>4. StsBefore' /\ sts'.replicas = sts.replicas
    BY <1>0, <2>1
  <2>5. SpecsBefore' \/ SpecsAfter'
    BY <1>b, <2>1
  <2>6. PodsWork(pods)' /\ PodsWork(seen)'
    BY <2>2 DEF PodsWork
  <2> HIDE DEF SpecsBefore, SpecsAfter, StsBefore, PodsBefore
  <2> QED BY <1>a, <2>2, <2>3, <2>4, <2>5, <2>6
<1>2. CASE UserEdit
  <2>1. UNCHANGED <<pods, seen, ppc, view, sts>>
    BY <1>2 DEF UserEdit
  <2>2. SpecsAfter'
    <3>1. spec' = edits[1] /\ 1 \in 1 .. Len(edits) /\ edits # <<>>
      BY <1>0, <1>2, EditFacts DEF UserEdit
    <3>2. Deployed(view)' = Deployed(view) /\ OnlyAddsPods(view)' = OnlyAddsPods(view)
      BY <2>1 DEF Deployed, OnlyAddsPods, Wanted
    <3>3. CASE SpecsBefore
      <4>1. EditsWork'
        BY <1>0, <1>2, <3>3, EditWorks
      <4>2. spec'.tmpl \in Broken => OnlyAddsPods(spec)'
        BY <2>1, <3>1, <3>3 DEF OnlyAddsPods, Wanted
      <4>3. Deployed(view)' /\ view'.tmpl \notin Broken
        BY <1>0, <2>1, <3>2, <3>3 DEF Deployed
      <4> QED BY <4>1, <4>2, <4>3
    <3>4. CASE SpecsAfter
      <4>1. \A k \in 2 .. Len(edits) : k \in 1 .. Len(edits)
        BY <1>0 DEF TypeOK
      <4>2. EditsWork'
        BY <1>0, <1>2, <3>4, <4>1, EditWorks DEF EditsWork
      <4>3. spec'.tmpl \notin Broken
        BY <3>1, <3>4 DEF EditsWork
      <4> QED BY <2>1, <3>2, <3>4, <4>2, <4>3
    <3> QED BY <1>0, <3>3, <3>4
  <2>3. StsBefore' /\ sts'.replicas = sts.replicas
    BY <1>0, <2>1
  <2> HIDE DEF SpecsBefore, SpecsAfter, StsBefore, PodsBefore
  <2> QED BY <1>0, <1>a, <1>c, <2>1, <2>2, <2>3
<1>3. CASE Reconcile \/ updateStatus \/ Crash
  <2>1. /\ view' = spec /\ UNCHANGED <<edits, spec, pods, sts>> /\ ppc' = "idle"
        /\ seen' \in {seen, pods}
    BY <1>0, <1>3 DEF Reconcile, updateStatus, Crash
  <2>2. Deployed(spec)' = Deployed(spec) /\ Deployed(view)' = Deployed(spec)
        /\ OnlyAddsPods(spec)' = OnlyAddsPods(spec) /\ OnlyAddsPods(view)' = OnlyAddsPods(spec)
    BY <2>1 DEF Deployed, OnlyAddsPods, Wanted
  <2>3. SpecsBefore => SpecsBefore'
    BY <2>1, <2>2 DEF OnlyAddsPods, Wanted
  <2>4. SpecsAfter => SpecsAfter'
    BY <2>1, <2>2 DEF EditsWork
  <2>5. StsBefore' /\ sts'.replicas = sts.replicas
    BY <1>0, <2>1
  <2>6. /\ PodsWork(pods)' /\ PodsWork(seen)'
        /\ \A i \in Ordinals : i >= sts.replicas => pods'[i] = NoPod /\ seen'[i] = NoPod
    BY <1>0, <2>1 DEF PodsWork
  <2> HIDE DEF SpecsBefore, SpecsAfter, StsBefore, PodsBefore
  <2> QED BY <1>0, <1>a, <2>1, <2>3, <2>4, <2>5, <2>6
<1>4. ASSUME NEW i \in Ordinals, PodCreate(i) PROVE BrokenInv'
  <2>1. UNCHANGED <<edits, spec, view, sts, seen, ppc>>
    BY <1>4 DEF PodCreate
  <2>2. i \in Nat /\ sts.replicas \in Nat
    BY <1>0, OrdinalFacts DEF TypeOK, StatefulSet
  <2>3. ASSUME NEW j \in Ordinals
        PROVE  pods'[j].rev \notin Broken /\ (j >= sts.replicas => pods'[j] = NoPod)
    <3>1. CASE pods'[j] = pods[j]
      BY <1>0, <3>1 DEF PodsWork
    <3>2. CASE pods'[j] # pods[j]
      <4>1. j = i /\ i < sts.replicas
            /\ pods'[j].rev = IF i < sts.partition THEN CurrentRevision ELSE sts.tmpl
        BY <1>0, <1>4, <3>2, NewPod
      <4>2. ~(i < sts.partition)
        BY <1>0, <2>2
      <4>3. ~(j >= sts.replicas)
        BY <2>2, <4>1
      <4> QED BY <1>0, <4>1, <4>2, <4>3
    <3> QED BY <3>1, <3>2
  <2>4. /\ PodsWork(pods)' /\ PodsWork(seen)'
        /\ \A j \in Ordinals : j >= sts.replicas => pods'[j] = NoPod /\ seen'[j] = NoPod
    BY <1>0, <2>1, <2>3 DEF PodsWork
  <2>5. StsBefore' /\ sts'.replicas = sts.replicas
    BY <1>0, <2>1
  <2>6. SpecsBefore' \/ SpecsAfter'
    BY <1>b, <2>1
  <2> HIDE DEF SpecsBefore, SpecsAfter, StsBefore, PodsBefore
  <2> QED BY <1>0, <1>a, <2>1, <2>4, <2>5, <2>6
<1>5. CASE resizePVC \/ (\E i \in Ordinals : VolumeGrow(i))
  <2>1. UNCHANGED <<edits, spec, view, sts, pods, seen, ppc>>
    BY <1>5 DEF resizePVC, VolumeGrow
  <2>2. StsBefore' /\ sts'.replicas = sts.replicas
    BY <1>0, <2>1
  <2>3. SpecsBefore' \/ SpecsAfter'
    BY <1>b, <2>1
  <2> HIDE DEF SpecsBefore, SpecsAfter, StsBefore, PodsBefore
  <2> QED BY <1>0, <1>a, <1>c, <2>1, <2>2, <2>3
<1>n. Cardinality({i \in Ordinals : pods[i].rev \in Broken}) <= 1
  <2>1. {i \in Ordinals : pods[i].rev \in Broken} = {}
    BY <1>0 DEF PodsWork
  <2> QED BY <2>1, FS_EmptySet
<1>6. CASE stsDelete
  <2>1. UNCHANGED <<edits, spec, view, pods>> /\ sts.size # view.size
    BY <1>6 DEF stsDelete
  <2>2. sts'.tmpl = sts.tmpl /\ sts'.cur = sts.cur
    BY <1>6, DeleteFields
  <2>3. ~Deployed(view) /\ ~OnlyAddsPods(view)
    BY <2>1 DEF Deployed, OnlyAddsPods
  <2>4. EditsWork /\ view.tmpl \notin Broken /\ spec.tmpl \notin Broken
    BY <1>0, <2>3
  <2> QED BY <1>0, <1>n, <2>1, <2>2, <2>4 DEF BrokenInv, AllWork, EditsWork
<1>7. CASE stsApply
  <2>1. /\ UNCHANGED <<edits, spec, view, pods, seen, ppc>>
        /\ sts.size = view.size /\ ~Deployed(view)
    BY <1>7 DEF stsApply
  <2>2. /\ sts'.there /\ sts'.deleting = sts.deleting
        /\ sts'.tmpl = view.tmpl /\ sts'.size = sts.size
        /\ sts'.replicas = Wanted(view) /\ sts'.force = view.force
        /\ sts'.cur = sts.cur
        /\ ~view.force /\ view.tmpl # sts.tmpl => sts'.partition = Wanted(view)
        /\ sts'.observed => view.tmpl = sts.tmpl
    BY <1>7, ApplyFields
  <2>3. SpecsAfter
    BY <1>0, <2>1
  <2>4. CASE view.tmpl \notin Broken
    <3>1. spec.tmpl \notin Broken
      BY <2>1, <2>3, <2>4
    <3> QED BY <1>0, <1>n, <2>1, <2>2, <2>3, <2>4, <3>1 DEF BrokenInv, AllWork, EditsWork
  <2>5. CASE view.tmpl \in Broken
    <3>1. OnlyAddsPods(view) /\ view.tmpl # sts.tmpl
      BY <1>0, <2>3, <2>5
    <3>2. sts.replicas <= Wanted(view) /\ Wanted(view) > 0 /\ ~view.force
      BY <3>1 DEF OnlyAddsPods
    <3>3. Wanted(view) \in Nat /\ sts.replicas \in Nat /\ Ordinals \subseteq Nat
      BY <1>0, WantedType, OrdinalFacts DEF TypeOK, StatefulSet
    <3>4. Deployed(view)'
      BY <2>1, <2>2 DEF Deployed, Wanted
    <3>5. spec.tmpl \in Broken => spec = view
      BY <2>1, <2>3
    <3>6. LastOnly(pods)' /\ LastOnly(seen)'
      <4>1. ASSUME NEW i \in Ordinals, i >= sts'.replicas PROVE i >= sts.replicas
        <5>1. i \in Nat /\ i >= Wanted(view)
          BY <2>2, <3>3, <4>1
        <5> QED BY <3>2, <3>3, <5>1
      <4> QED BY <1>0, <2>1, <4>1 DEF LastOnly, PodsWork
    <3>7. sts'.replicas > 0 /\ sts'.partition >= sts'.replicas - 1
      BY <2>2, <3>1, <3>2, <3>3
    <3>8. /\ sts'.there /\ ~sts'.force /\ ~sts'.deleting /\ ~sts'.observed
          /\ sts'.tmpl \in Broken /\ sts'.cur \in Templates \ Broken /\ ppc' = "idle"
      BY <1>0, <2>1, <2>2, <2>5, <3>1, <3>2
    <3>9. EditsWork' /\ (spec'.tmpl \in Broken => Deployed(spec)' /\ view'.tmpl \in Broken)
      BY <2>1, <2>3, <3>4, <3>5 DEF EditsWork, Deployed, Wanted
    <3> QED BY <3>4, <3>6, <3>7, <3>8, <3>9 DEF BrokenInv, BrokenAtLast
  <2> QED BY <2>4, <2>5
<1>8. CASE stsCreate \/ patchNewPartition \/ StatefulSetGone
  BY <1>0, <1>8 DEF stsCreate, patchNewPartition, StatefulSetGone
<1>9. CASE StatefulSetStatus
  <2>1. UNCHANGED <<edits, spec, view, pods, seen, ppc>>
    BY <1>9 DEF StatefulSetStatus
  <2>2. /\ sts'.there /\ sts'.deleting = sts.deleting
        /\ sts'.tmpl = sts.tmpl /\ sts'.size = sts.size /\ sts'.replicas = sts.replicas
        /\ sts'.force = sts.force /\ sts'.partition = sts.partition
        /\ sts'.cur \in {sts.tmpl, CurrentRevision}
    BY <1>9, StatusFields
  <2>3. CurrentRevision = sts.tmpl
    BY <1>0, BrokenFacts DEF CurrentRevision
  <2>4. StsBefore'
    BY <1>0, <2>2, <2>3
  <2>5. SpecsBefore' \/ SpecsAfter'
    BY <1>0, <2>1, <2>2 DEF EditsWork, Deployed, OnlyAddsPods, Wanted
  <2> HIDE DEF SpecsBefore, SpecsAfter, StsBefore, PodsBefore
  <2> QED BY <1>0, <1>a, <1>c, <2>1, <2>2, <2>4, <2>5
<1> HIDE DEF SpecsBefore, SpecsAfter, StsBefore, PodsBefore
<1> QED BY <1>1, <1>2, <1>3, <1>4, <1>5, <1>6, <1>7, <1>8, <1>9, NextCases

(* If every Pod of the StatefulSet is in the cache and no other, the       *)
(* position in the sorted list is the ordinal.                             *)
LEMMA PodAtOrdinal ==
    ASSUME NEW n \in 0 .. MaxReplicas, Listed = 0 .. n - 1, NEW k \in 0 .. n - 1
    PROVE  PodAt(k) = seen[k]
<1>0. MaxReplicas \in Nat
  BY OrdinalFacts
<1>1. ASSUME NEW i \in Listed PROVE Cardinality({j \in Listed : j < i}) = i
  <2>1. i \in Int /\ i - 1 \in Int /\ i >= 0 /\ 0 \in Int /\ i <= n - 1
    BY <1>0
  <2>2. {j \in Listed : j < i} = 0 .. i - 1
    <3>1. \A j : j \in Listed /\ j < i <=> j \in 0 .. i - 1
      BY <1>0, <2>1
    <3> QED BY <3>1
  <2>3. Cardinality(0 .. i - 1) = IF 0 > i - 1 THEN 0 ELSE (i - 1) - 0 + 1
    BY <2>1, FS_Interval
  <2>4. Cardinality(0 .. i - 1) = i
    BY <2>1, <2>3
  <2> QED BY <2>2, <2>4
<1>2. k \in Listed
  OBVIOUS
<1>3. (CHOOSE i \in Listed : Cardinality({j \in Listed : j < i}) = k) = k
  BY <1>1, <1>2
<1> QED BY <1>3 DEF PodAt

(* The partition stops above the others: the Pod at the highest ordinal    *)
(* is broken, so that it is not ready, or not yet updated.                 *)
LEMMA PartitionStops ==
    ASSUME TypeInv, BrokenAtLast, ppc = "check", isRolloutReady(read)
    PROVE  read.partition >= sts.replicas
<1> DEFINE n == sts.replicas
<1>0. /\ TypeOK /\ n \in 0 .. MaxReplicas /\ n > 0
      /\ read.replicas = n /\ read.upd \in Broken
      /\ read.updated \in Nat /\ read.updated <= 1
      /\ read.partition \in Nat /\ read.partition > 0 /\ read.partition >= n - 1
      /\ LastOnly(seen)
  <2>1. TypeOK /\ ReadInv /\ MaxReplicas \in Nat
    BY OrdinalFacts DEF TypeInv
  <2>2. sts.replicas \in 0 .. MaxReplicas /\ read.updated \in Nat /\ read.partition \in Nat
    BY <2>1 DEF TypeOK, StatefulSet
  <2> QED BY <2>1, <2>2 DEF ReadInv, BrokenAtLast
<1>1. MaxReplicas \in Nat
  BY OrdinalFacts
<1> SUFFICES ASSUME ~(read.partition >= n) PROVE FALSE
  OBVIOUS
<1>2. read.partition = n - 1 /\ n >= 2
  BY <1>0, <1>1
<1>3. nextRolloutTargetIndex(read) = n - 2
  BY <1>0, <1>1, <1>2 DEF nextRolloutTargetIndex
<1>4. read.replicas # read.updated
  BY <1>0, <1>1, <1>2
<1>5. /\ Cardinality(Listed) = n
      /\ \/ PodAt(n - 2).rev = read.upd
         \/ areAllChildPodsRolloutReady(read)
  BY <1>0, <1>3, <1>4 DEF isRolloutReady
<1>6. Listed = 0 .. n - 1
  <2>1. Listed \in SUBSET (0 .. n - 1)
    <3> SUFFICES ASSUME NEW i \in Ordinals, seen[i].phase # "none" PROVE i \in 0 .. n - 1
      BY DEF Listed
    <3>1. ~(i >= n)
      BY <1>0 DEF LastOnly, NoPod
    <3> QED BY <1>0, <1>1, <3>1, OrdinalFacts
  <2>2. IsFiniteSet(0 .. n - 1) /\ Cardinality(0 .. n - 1) = n
    <3>1. 0 \in Int /\ n - 1 \in Int
      BY <1>0, <1>1
    <3>2. /\ IsFiniteSet(0 .. n - 1)
          /\ Cardinality(0 .. n - 1) = IF 0 > n - 1 THEN 0 ELSE (n - 1) - 0 + 1
      BY <3>1, FS_Interval
    <3> QED BY <1>0, <1>1, <3>2
  <2> QED BY <1>5, <2>1, <2>2, FS_Subset
<1>7. n - 2 \in 0 .. n - 1 /\ n - 1 \in 0 .. n - 1 /\ n - 2 # n - 1 /\ n - 1 >= read.partition
      /\ n - 2 \in Ordinals /\ n - 1 \in Ordinals
  BY <1>0, <1>1, <1>2 DEF Ordinals
<1>8. PodAt(n - 2) = seen[n - 2] /\ PodAt(n - 1) = seen[n - 1]
  BY <1>0, <1>6, <1>7, PodAtOrdinal
<1>9. seen[n - 2].rev \notin Broken
  BY <1>0, <1>7 DEF LastOnly
<1>10. areAllChildPodsRolloutReady(read)
  BY <1>0, <1>5, <1>8, <1>9
<1>11. seen[n - 1].rev = read.upd /\ seen[n - 1].phase = "ready"
  <2>1. n - 1 \in 0 .. Cardinality(Listed) - 1
    BY <1>5, <1>7
  <2> QED BY <1>3, <1>7, <1>8, <1>10, <2>1 DEF areAllChildPodsRolloutReady
<1> QED BY <1>0, <1>7, <1>11 DEF LastOnly

(* The StatefulSet controller counts at most one Pod of the broken         *)
(* template, and does not take the update for complete.                    *)
LEMMA BrokenCounts ==
    ASSUME TypeInv, BrokenAtLast
    PROVE  /\ Counted <= 1
           /\ ~(Counted = sts.replicas /\ Cardinality(Ready) = sts.replicas)
<1> DEFINE n == sts.replicas
           C == {i \in Ordinals : Running(i) /\ pods[i].rev = sts.tmpl}
<1>0. /\ n \in 0 .. MaxReplicas /\ n > 0 /\ MaxReplicas \in Nat
      /\ LastOnly(pods) /\ sts.tmpl \in Broken
  BY OrdinalFacts DEF TypeInv, TypeOK, StatefulSet, BrokenAtLast
<1>1. \A i \in C : i = n - 1 /\ pods[i].phase # "ready"
  BY <1>0 DEF LastOnly
<1>2. Cardinality(C) <= 1
  <2>1. C \in SUBSET {n - 1}
    BY <1>1
  <2>2. IsFiniteSet({n - 1}) /\ Cardinality({n - 1}) = 1
    BY FS_Singleton
  <2> HIDE DEF C
  <2> QED BY <2>1, <2>2, FS_Subset
<1>3. Counted = Cardinality(C)
  BY DEF Counted
<1>4. ASSUME Counted = n, Cardinality(Ready) = n PROVE FALSE
  <2>1. C # {}
    <3>1. Cardinality(C) # 0
      BY <1>0, <1>3, <1>4
    <3> QED BY <3>1, FS_EmptySet
  <2>2. PICK i \in C : TRUE
    BY <2>1
  <2>3. n - 1 \notin Ready
    BY <1>1, <2>2 DEF Ready
  <2>4. Ready \in SUBSET (0 .. n - 1)
    <3> SUFFICES ASSUME NEW j \in Ordinals, pods[j].phase = "ready" PROVE j \in 0 .. n - 1
      BY DEF Ready
    <3>1. ~(j >= n)
      BY <1>0 DEF LastOnly, NoPod
    <3> QED BY <1>0, <3>1, OrdinalFacts
  <2>5. IsFiniteSet(0 .. n - 1) /\ Cardinality(0 .. n - 1) = n
    <3>1. 0 \in Int /\ n - 1 \in Int
      BY <1>0
    <3>2. /\ IsFiniteSet(0 .. n - 1)
          /\ Cardinality(0 .. n - 1) = IF 0 > n - 1 THEN 0 ELSE (n - 1) - 0 + 1
      BY <3>1, FS_Interval
    <3> QED BY <1>0, <3>2
  <2>6. Ready = 0 .. n - 1
    BY <1>4, <2>4, <2>5, FS_Subset
  <2>7. n - 1 \in 0 .. n - 1
    BY <1>0
  <2> QED BY <2>3, <2>6, <2>7
<1> QED BY <1>2, <1>3, <1>4

(* The broken template stays where it is until another one replaces it. *)
LEMMA BrokenAtLastStep ==
    ASSUME TypeInv, TypeInv', BrokenAtLast, Next
    PROVE  BrokenInv'
<1> DEFINE
    StsBroken ==
        /\ sts.there /\ ~sts.force
        /\ sts.replicas > 0 /\ sts.partition >= sts.replicas - 1
        /\ sts.tmpl \in Broken /\ sts.cur \in Templates \ Broken
        /\ sts.observed => sts.upd = sts.tmpl /\ sts.updated <= 1
    ReadBroken ==
        /\ ppc # "idle" => /\ read.replicas = sts.replicas /\ read.upd \in Broken
                           /\ read.updated <= 1 /\ read.partition >= sts.replicas - 1
        /\ ppc = "patch" => read.partition >= sts.replicas
    SpecsBroken ==
        /\ EditsWork
        /\ spec.tmpl \in Broken => Deployed(spec) /\ view.tmpl \in Broken
        /\ view.tmpl \in Broken => Deployed(view)
        /\ sts.deleting => view.tmpl \notin Broken
<1>0. TypeOK /\ StsBroken /\ ReadBroken /\ SpecsBroken /\ LastOnly(pods) /\ LastOnly(seen)
  BY DEF TypeInv, BrokenAtLast
<1>t. /\ sts.replicas \in Nat /\ sts.partition \in Nat /\ read.partition \in Nat
      /\ Ordinals \subseteq Nat
  BY <1>0, OrdinalFacts DEF TypeOK, StatefulSet
<1>a. StsBroken' /\ ReadBroken' /\ SpecsBroken' /\ LastOnly(pods)' /\ LastOnly(seen)' => BrokenInv'
  BY DEF BrokenInv, BrokenAtLast
<1>b. ASSUME UNCHANGED <<edits, spec, view, sts>> PROVE StsBroken' /\ SpecsBroken'
  BY <1>0, <1>b DEF EditsWork, Deployed, Wanted
<1>c. ASSUME UNCHANGED <<pods, seen>>, sts'.replicas = sts.replicas
      PROVE  LastOnly(pods)' /\ LastOnly(seen)'
  BY <1>0, <1>c DEF LastOnly
<1>d. ASSUME UNCHANGED <<ppc, read>>, sts'.replicas = sts.replicas PROVE ReadBroken'
  BY <1>0, <1>d
<1> USE DEF clusterVars, kubeVars, recVars, partVars, envVars
<1>1. CASE Elsewhere
  <2>1. UNCHANGED <<edits, spec, view, sts>>
    BY <1>1, ElsewhereKeeps
  <2>2. LastOnly(pods)' /\ LastOnly(seen)'
    <3>1. ASSUME NEW j \in Ordinals
          PROVE  /\ pods'[j].rev \in Broken => j = sts.replicas - 1 /\ pods'[j].phase # "ready"
                 /\ seen'[j].rev \in Broken => j = sts.replicas - 1 /\ seen'[j].phase # "ready"
                 /\ j >= sts.replicas => pods'[j] = NoPod /\ seen'[j] = NoPod
      <4>1. /\ pods[j].rev \in Broken => j = sts.replicas - 1 /\ pods[j].phase # "ready"
            /\ seen[j].rev \in Broken => j = sts.replicas - 1 /\ seen[j].phase # "ready"
            /\ j >= sts.replicas => pods[j] = NoPod /\ seen[j] = NoPod
        BY <1>0 DEF LastOnly
      <4>2. seen'[j] \in {seen[j], pods[j]}
        BY <1>0, <1>1, CacheStep
      <4>3. /\ pods'[j].rev \in Broken => j = sts.replicas - 1 /\ pods'[j].phase # "ready"
            /\ j >= sts.replicas => pods'[j] = NoPod
        BY <1>0, <1>1, <4>1, ElsewherePods, BrokenFacts DEF NoPod
      <4> QED BY <4>1, <4>2, <4>3
    <3> QED BY <2>1, <3>1 DEF LastOnly
  <2>3. ReadBroken'
    <3>1. CASE partitionRead
      <4>1. ppc' = "check" /\ read' = sts /\ sts.observed
        BY <3>1 DEF partitionRead
      <4> QED BY <1>0, <2>1, <4>1
    <3>2. CASE partitionCheck
      <4>1. CASE isRolloutReady(read)
        <5>1. read.partition >= sts.replicas
          BY <3>2, <4>1, PartitionStops DEF partitionCheck
        <5>2. ppc' = "idle" \/ read' = read
          BY <3>2 DEF partitionCheck
        <5> QED BY <1>0, <2>1, <3>2, <5>1, <5>2 DEF partitionCheck
      <4>2. CASE ~isRolloutReady(read)
        BY <3>2, <4>2 DEF partitionCheck
      <4> QED BY <4>1, <4>2
    <3>3. CASE ~partitionRead /\ ~partitionCheck
      <4>1. UNCHANGED <<ppc, read>>
        BY <1>1, <3>3, ElsewherePartition
      <4> QED BY <1>d, <2>1, <4>1
    <3> QED BY <3>1, <3>2, <3>3
  <2> HIDE DEF StsBroken, ReadBroken, SpecsBroken
  <2> QED BY <1>a, <1>b, <2>1, <2>2, <2>3
<1>2. CASE UserEdit
  <2>1. UNCHANGED <<pods, seen, ppc, read, view, sts>>
    BY <1>2 DEF UserEdit
  <2>2. EditsWork'
    <3>1. \A k \in 2 .. Len(edits) : k \in 1 .. Len(edits)
      BY <1>0 DEF TypeOK
    <3> QED BY <1>0, <1>2, <3>1, EditWorks DEF EditsWork
  <2>3. spec'.tmpl \notin Broken
    BY <1>0, <1>2, EditFacts DEF EditsWork
  <2>4. StsBroken' /\ SpecsBroken'
    BY <1>0, <2>1, <2>2, <2>3 DEF Deployed, Wanted
  <2> HIDE DEF StsBroken, ReadBroken, SpecsBroken
  <2> QED BY <1>a, <1>c, <1>d, <2>1, <2>4
<1>3. CASE Reconcile \/ updateStatus \/ Crash
  <2>1. /\ view' = spec /\ UNCHANGED <<edits, spec, pods, sts>>
        /\ seen' \in {seen, pods} /\ (UNCHANGED <<ppc, read>> \/ ppc' = "idle")
    BY <1>3 DEF Reconcile, updateStatus, Crash
  <2>2. SpecsBroken' /\ StsBroken'
    BY <1>0, <2>1 DEF EditsWork, Deployed, Wanted
  <2>3. LastOnly(pods)' /\ LastOnly(seen)'
    BY <1>0, <2>1 DEF LastOnly
  <2>4. ReadBroken'
    BY <1>0, <2>1
  <2> HIDE DEF StsBroken, ReadBroken, SpecsBroken
  <2> QED BY <1>a, <2>2, <2>3, <2>4
<1>4. ASSUME NEW i \in Ordinals, PodCreate(i) PROVE BrokenInv'
  <2>1. UNCHANGED <<edits, spec, view, sts, seen, ppc, read>>
    BY <1>4 DEF PodCreate
  <2>2. CurrentRevision \notin Broken
    BY <1>0, BrokenFacts DEF CurrentRevision
  <2>3. ASSUME NEW j \in Ordinals
        PROVE  /\ pods'[j].rev \in Broken => j = sts.replicas - 1 /\ pods'[j].phase # "ready"
               /\ j >= sts.replicas => pods'[j] = NoPod
    <3>1. CASE pods'[j] = pods[j]
      BY <1>0, <3>1 DEF LastOnly
    <3>2. CASE pods'[j] # pods[j]
      <4>1. j = i /\ i < sts.replicas /\ pods'[j].phase = "starting"
            /\ pods'[j].rev = IF i < sts.partition THEN CurrentRevision ELSE sts.tmpl
        BY <1>0, <1>4, <3>2, NewPod
      <4>2. ~(j >= sts.replicas)
        BY <1>t, <4>1
      <4>3. ASSUME ~(i < sts.partition) PROVE i = sts.replicas - 1
        <5>1. i \in Nat /\ sts.partition >= sts.replicas - 1
          BY <1>0, <1>t
        <5> QED BY <1>t, <4>1, <4>3, <5>1
      <4> QED BY <2>2, <4>1, <4>2, <4>3
    <3> QED BY <3>1, <3>2
  <2>4. LastOnly(pods)' /\ LastOnly(seen)'
    BY <1>0, <2>1, <2>3 DEF LastOnly
  <2> HIDE DEF StsBroken, ReadBroken, SpecsBroken
  <2> QED BY <1>a, <1>b, <1>d, <2>1, <2>4
<1>5. CASE resizePVC \/ (\E i \in Ordinals : VolumeGrow(i))
  <2>1. UNCHANGED <<edits, spec, view, sts, pods, seen, ppc, read>>
    BY <1>5 DEF resizePVC, VolumeGrow
  <2> HIDE DEF StsBroken, ReadBroken, SpecsBroken
  <2> QED BY <1>a, <1>b, <1>c, <1>d, <2>1
<1>n. Cardinality({i \in Ordinals : pods[i].rev \in Broken}) <= 1
  <2>1. {i \in Ordinals : pods[i].rev \in Broken} \in SUBSET {sts.replicas - 1}
    BY <1>0 DEF LastOnly
  <2>2. IsFiniteSet({sts.replicas - 1}) /\ Cardinality({sts.replicas - 1}) = 1
    BY FS_Singleton
  <2> QED BY <2>1, <2>2, FS_Subset
<1>6. CASE stsDelete
  <2>1. UNCHANGED <<edits, spec, view, pods, seen, ppc, read>> /\ sts.size # view.size
    BY <1>6 DEF stsDelete
  <2>2. /\ sts'.there = sts.there /\ sts'.tmpl = sts.tmpl /\ sts'.size = sts.size
        /\ sts'.replicas = sts.replicas /\ sts'.force = sts.force /\ sts'.cur = sts.cur
        /\ sts'.upd = sts.upd /\ sts'.updated = sts.updated
        /\ sts'.observed = sts.observed /\ sts'.partition = sts.partition
    BY <1>6, DeleteFields
  <2>3. view.tmpl \notin Broken
    BY <1>0, <2>1 DEF Deployed
  <2>4. StsBroken'
    BY <1>0, <2>2
  <2>5. SpecsBroken'
    BY <1>0, <2>1, <2>3 DEF EditsWork
  <2> HIDE DEF StsBroken, ReadBroken, SpecsBroken
  <2> QED BY <1>a, <1>c, <1>d, <2>1, <2>2, <2>4, <2>5
<1>7. CASE stsApply
  <2>1. UNCHANGED <<edits, spec, view, pods>> /\ ~Deployed(view)
    BY <1>7 DEF stsApply
  <2>2. sts'.tmpl = view.tmpl /\ sts'.cur = sts.cur
    BY <1>7, ApplyFields
  <2>3. view.tmpl \notin Broken /\ spec.tmpl \notin Broken
    BY <1>0, <2>1
  <2> QED BY <1>0, <1>n, <2>1, <2>2, <2>3 DEF BrokenInv, AllWork, EditsWork
<1>8. CASE stsCreate
  BY <1>0, <1>8 DEF stsCreate
<1>9. CASE patchNewPartition
  <2>1. UNCHANGED <<edits, spec, view, pods, seen>> /\ ppc = "patch" /\ ppc' = "idle"
    BY <1>9 DEF patchNewPartition
  <2>2. /\ sts'.there = sts.there /\ sts'.deleting = sts.deleting
        /\ sts'.tmpl = sts.tmpl /\ sts'.size = sts.size /\ sts'.replicas = sts.replicas
        /\ sts'.force = sts.force /\ sts'.cur = sts.cur /\ sts'.upd = sts.upd
        /\ sts'.updated = sts.updated
        /\ sts'.observed => sts.observed
        /\ sts.there /\ ~sts.force => sts'.partition \in {read.partition - 1, sts.replicas}
    BY <1>9, PatchFields
  <2>3. sts'.partition >= sts.replicas - 1
    <3>1. read.partition >= sts.replicas /\ sts'.partition \in {read.partition - 1, sts.replicas}
      BY <1>0, <2>1, <2>2
    <3> QED BY <1>t, <3>1
  <2>4. StsBroken'
    BY <1>0, <2>2, <2>3
  <2>5. SpecsBroken'
    BY <1>0, <2>1, <2>2 DEF EditsWork, Deployed, Wanted
  <2>6. ReadBroken'
    BY <2>1
  <2> HIDE DEF StsBroken, ReadBroken, SpecsBroken
  <2> QED BY <1>a, <1>c, <2>1, <2>2, <2>4, <2>5, <2>6
<1>10. CASE StatefulSetStatus
  <2>1. UNCHANGED <<edits, spec, view, pods, seen, ppc, read>>
    BY <1>10 DEF StatefulSetStatus
  <2>2. /\ sts'.there /\ sts'.deleting = sts.deleting
        /\ sts'.tmpl = sts.tmpl /\ sts'.size = sts.size /\ sts'.replicas = sts.replicas
        /\ sts'.force = sts.force /\ sts'.partition = sts.partition
        /\ sts'.upd = sts.tmpl /\ sts'.updated = Counted /\ sts'.cur = CurrentRevision
    BY <1>10, StatusFields, BrokenCounts
  <2>3. CurrentRevision = sts.cur
    BY <1>0, BrokenFacts DEF CurrentRevision
  <2>4. Counted <= 1
    BY BrokenCounts
  <2>5. StsBroken'
    BY <1>0, <2>2, <2>3, <2>4
  <2>6. SpecsBroken'
    BY <1>0, <2>1, <2>2 DEF EditsWork, Deployed, Wanted
  <2> HIDE DEF StsBroken, ReadBroken, SpecsBroken
  <2> QED BY <1>a, <1>c, <1>d, <2>1, <2>2, <2>5, <2>6
<1>11. CASE StatefulSetGone
  <2>1. UNCHANGED <<edits, spec, view, pods>> /\ sts.deleting /\ sts'.tmpl = 0 /\ sts'.cur = 0
    BY <1>11 DEF StatefulSetGone, NoStatefulSet
  <2>2. view.tmpl \notin Broken /\ spec.tmpl \notin Broken
    BY <1>0, <2>1
  <2> QED BY <1>0, <1>n, <2>1, <2>2, BrokenFacts DEF BrokenInv, AllWork, EditsWork
<1> HIDE DEF StsBroken, ReadBroken, SpecsBroken
<1> QED
  BY <1>1, <1>2, <1>3, <1>4, <1>5, <1>6, <1>7, <1>8, <1>9, <1>10, <1>11, NextCases

(* The invariant of a broken template holds at first. *)
LEMMA BrokenInit ==
    ASSUME \A s \in Scenarios : BreaksOnce(s), Init, TypeOK
    PROVE  BrokenInv
<1> PICK sc \in Scenarios : spec = sc.first /\ edits = sc.edits /\ budget = sc.budget
  BY DEF Init
<1>0. /\ spec \in MySQLClusterSpec /\ edits \in Seq(MySQLClusterSpec)
      /\ spec.tmpl \in Templates /\ spec.tmpl \notin Broken
      /\ \A k \in 2 .. Len(edits) : edits[k].tmpl \notin Broken
  BY DEF TypeOK, MySQLClusterSpec, BreaksOnce
<1>1. /\ view = spec /\ ppc = "idle" /\ seen = pods
      /\ sts.there /\ ~sts.deleting /\ sts.partition = 0
      /\ sts.tmpl = spec.tmpl /\ sts.size = spec.size /\ sts.force = spec.force
      /\ sts.cur = spec.tmpl /\ sts.replicas = Wanted(spec)
  BY DEF Init
<1>2. ASSUME NEW i \in Ordinals
      PROVE  pods[i].rev \notin Broken /\ (i >= sts.replicas => pods[i] = NoPod)
  <2>1. pods[i] = IF i < sts.replicas THEN [phase |-> "ready", rev |-> spec.tmpl] ELSE NoPod
    BY <1>1 DEF Init
  <2>2. i \in Nat /\ sts.replicas \in Nat
    BY OrdinalFacts DEF TypeOK, StatefulSet
  <2>3. i >= sts.replicas => ~(i < sts.replicas)
    BY <2>2
  <2> QED BY <1>0, <2>1, <2>3, BrokenFacts DEF NoPod
<1>3. CASE edits # <<>> /\ edits[1].tmpl \in Broken
  <2>1. /\ edits[1].size = spec.size
        /\ spec.offline \/ spec.replicas <= edits[1].replicas
        /\ ~edits[1].offline /\ ~edits[1].force /\ ~spec.force
    BY <1>3 DEF BreaksOnce
  <2>2. edits[1] \in MySQLClusterSpec
    BY <1>0, <1>3
  <2>3. edits[1].replicas \in Nat /\ edits[1].replicas > 0
    BY <2>2, OrdinalFacts DEF MySQLClusterSpec
  <2>4. Wanted(edits[1]) = edits[1].replicas
    BY <2>1 DEF Wanted
  <2>5. sts.replicas <= Wanted(edits[1]) /\ Wanted(edits[1]) > 0
    BY <1>1, <2>1, <2>3, <2>4 DEF Wanted
  <2>6. OnlyAddsPods(edits[1])
    BY <1>1, <2>1, <2>5 DEF OnlyAddsPods
  <2>7. Deployed(view) /\ Deployed(spec)
    BY <1>1 DEF Deployed
  <2> QED BY <1>0, <1>1, <1>2, <2>1, <2>6, <2>7 DEF BrokenInv, NotYetBroken, PodsWork
<1>4. CASE ~(edits # <<>> /\ edits[1].tmpl \in Broken)
  <2>1. EditsWork
    <3> SUFFICES ASSUME NEW k \in 1 .. Len(edits) PROVE edits[k].tmpl \notin Broken
      BY DEF EditsWork
    <3>1. edits # <<>> /\ (k = 1 \/ k \in 2 .. Len(edits))
      BY <1>0
    <3> QED BY <1>0, <1>4, <3>1
  <2>2. {i \in Ordinals : pods[i].rev \in Broken} = {}
    BY <1>2
  <2>3. Cardinality({i \in Ordinals : pods[i].rev \in Broken}) <= 1
    BY <2>2, FS_EmptySet
  <2> QED BY <1>0, <1>1, <2>1, <2>3 DEF BrokenInv, AllWork
<1> QED BY <1>3, <1>4

(* Every step keeps the invariant of a broken template. *)
LEMMA BrokenStep == TypeInv /\ TypeInv' /\ BrokenInv /\ [Next]_vars => BrokenInv'
<1> SUFFICES ASSUME TypeInv, TypeInv', BrokenInv, [Next]_vars PROVE BrokenInv'
  OBVIOUS
<1>1. CASE Next
  <2>1. CASE NotYetBroken
    BY <1>1, <2>1, NotYetBrokenStep
  <2>2. CASE BrokenAtLast
    BY <1>1, <2>2, BrokenAtLastStep
  <2>3. CASE AllWork
    BY <1>1, <2>3, AllWorkStep DEF BrokenInv
  <2> QED BY <2>1, <2>2, <2>3 DEF BrokenInv
<1>2. CASE UNCHANGED vars
  BY <1>2 DEF vars, clusterVars, kubeVars, recVars, partVars, envVars, BrokenInv,
              NotYetBroken, BrokenAtLast, AllWork, EditsWork, PodsWork, LastOnly,
              OnlyAddsPods, Deployed, Wanted
<1> QED BY <1>1, <1>2

(* If only the first edit may bring a template whose Pods never become     *)
(* ready, and leaves the size of the volumes and the Pods there are, then  *)
(* at most one Pod ever gets that template, for every number of replicas:  *)
(* isRolloutReady does not let the partition fall below the last Pod,      *)
(* however stale its cache is, whatever Pods fail and are created again,   *)
(* whatever calls fail and however often the controller is restarted; and  *)
(* no later edit brings more of them.                                      *)
THEOREM BrokenContainedAlways ==
    ASSUME \A s \in Scenarios : BreaksOnce(s)
    PROVE  Spec => []BrokenContained
<1>1. Init => TypeInv /\ BrokenInv
  BY InitType, BrokenInit DEF TypeInv
<1>2. (TypeInv /\ BrokenInv) /\ [Next]_vars => (TypeInv /\ BrokenInv)'
  BY NextType, BrokenStep
<1>3. TypeInv /\ BrokenInv => BrokenContained
  <2> SUFFICES ASSUME TypeInv, BrokenInv
               PROVE  Cardinality({i \in Ordinals : pods[i].rev \in Broken}) <= 1
    BY DEF BrokenContained
  <2>1. CASE NotYetBroken
    <3>1. {i \in Ordinals : pods[i].rev \in Broken} = {}
      BY <2>1 DEF NotYetBroken, PodsWork
    <3> QED BY <3>1, FS_EmptySet
  <2>2. CASE BrokenAtLast
    <3>1. {i \in Ordinals : pods[i].rev \in Broken} \in SUBSET {sts.replicas - 1}
      BY <2>2 DEF BrokenAtLast, LastOnly
    <3>2. IsFiniteSet({sts.replicas - 1}) /\ Cardinality({sts.replicas - 1}) = 1
      BY FS_Singleton
    <3> QED BY <3>1, <3>2, FS_Subset
  <2>3. CASE AllWork
    BY <2>3 DEF AllWork
  <2> QED BY <2>1, <2>2, <2>3 DEF BrokenInv
<1> QED BY <1>1, <1>2, <1>3, PTL DEF Spec

-----------------------------------------------------------------------------
(* One Pod is taken away at a time *)

(* The history of struck Pods: only the partition controller forgets a Pod *)
(* that is not ready, and only if its cache shows it down.                 *)
LEMMA StruckStep ==
    ASSUME TypeOK, Next, NEW j \in Ordinals
    PROVE  /\ pods[j].phase = "ready" \/ j \in struck =>
                 pods'[j].phase = "ready" \/ j \in struck' \/ (partitionCheck /\ ppc' = "patch")
           /\ partitionCheck =>
                 /\ pods' = pods /\ seen' = seen
                 /\ j \in struck /\ seen[j].phase = "ready" => j \in struck'
<1> USE DEF clusterVars, kubeVars, recVars, partVars, envVars
<1>a. partitionCheck => /\ pods' = pods /\ seen' = seen
                        /\ j \in struck /\ seen[j].phase = "ready" => j \in struck'
                        /\ ppc' = "patch" \/ struck' = struck
  BY DEF partitionCheck
<1> SUFFICES ASSUME pods[j].phase = "ready" \/ j \in struck
             PROVE  \/ pods'[j].phase = "ready" \/ j \in struck'
                    \/ (partitionCheck /\ ppc' = "patch")
  BY <1>a
<1>1. CASE partitionCheck
  BY <1>1, <1>a
<1>2. CASE \/ reconcilePVC \/ resizeRefused \/ stsUnchanged \/ reconcileV1PDB
           \/ reconcileError \/ partitionRead
           \/ LoopGather \/ LoopReport \/ Sicken \/ Heal \/ BackupBegin \/ BackupEnd
  BY <1>2 DEF reconcilePVC, resizeRefused, stsUnchanged, reconcileV1PDB, reconcileError,
              partitionRead, LoopGather, LoopReport, Sicken, Heal, BackupBegin, BackupEnd
<1>3. CASE \/ UserEdit \/ Reconcile \/ updateStatus \/ Crash \/ resizePVC
           \/ stsDelete \/ stsApply \/ stsCreate \/ patchNewPartition
           \/ StatefulSetStatus \/ StatefulSetGone
  <2>1. UNCHANGED <<pods, struck>>
    BY <1>3 DEF UserEdit, Reconcile, updateStatus, Crash, resizePVC, stsDelete, stsApply,
                stsCreate, patchNewPartition, StatefulSetStatus, StatefulSetGone
  <2> QED BY <2>1
<1>4. ASSUME NEW i \in Ordinals, CacheSync(i) \/ VolumeGrow(i)
      PROVE  pods'[j].phase = "ready" \/ j \in struck'
  BY <1>4 DEF CacheSync, VolumeGrow
<1>5. ASSUME NEW i \in Ordinals, PodReady(i)
      PROVE  pods'[j].phase = "ready" \/ j \in struck'
  <2>1. struck' = struck \ {i}
    BY <1>5 DEF PodReady
  <2>2. CASE j = i
    <3>1. pods[i] \in Pod /\ pods'[i] = [pods[i] EXCEPT !.phase = "ready"]
      BY <1>5 DEF PodReady, TypeOK
    <3> QED BY <2>2, <3>1 DEF Pod
  <2>3. CASE j # i
    <3>1. pods'[j] = pods[j]
      BY <1>5, <2>3 DEF PodReady, TypeOK
    <3> QED BY <2>1, <2>3, <3>1
  <2> QED BY <2>2, <2>3
<1>6. ASSUME NEW i \in Ordinals, PodRoll(i) \/ PodScaleDown(i) \/ PodFail(i)
      PROVE  pods'[j].phase = "ready" \/ j \in struck'
  <2>1. struck' = struck \cup {i}
    BY <1>6 DEF PodRoll, Rolls, PodScaleDown, Terminate, PodFail
  <2>2. CASE j = i
    BY <2>1, <2>2
  <2>3. CASE j # i
    <3>1. \E ph : pods' = [pods EXCEPT ![i].phase = ph]
      BY <1>6 DEF PodRoll, Rolls, PodScaleDown, Terminate, PodFail
    <3>2. pods'[j] = pods[j]
      BY <2>3, <3>1 DEF TypeOK
    <3> QED BY <2>1, <3>2
  <2> QED BY <2>2, <2>3
<1>7. ASSUME NEW i \in Ordinals, PodCreate(i) \/ PodGone(i)
      PROVE  pods'[j].phase = "ready" \/ j \in struck'
  <2>1. struck' = struck /\ pods[i].phase # "ready"
    BY <1>7 DEF PodCreate, PodGone, NoPod
  <2>2. j # i => pods'[j] = pods[j]
    BY <1>7 DEF PodCreate, PodGone, TypeOK
  <2> QED BY <2>1, <2>2
<1> QED BY <1>1, <1>2, <1>3, <1>4, <1>5, <1>6, <1>7, NextCases DEF Elsewhere

(* What the cache of the partition controller is made of. *)
LEMMA CacheFacts ==
    ASSUME TypeOK, Next, NEW j \in Ordinals
    PROVE  seen'[j] = seen[j] \/ (seen'[j] = pods[j] /\ pods' = pods /\ struck' = struck)
<1> USE DEF clusterVars, kubeVars, recVars, partVars, envVars
<1>1. CASE \/ reconcilePVC \/ resizeRefused \/ stsUnchanged \/ reconcileV1PDB
           \/ reconcileError \/ partitionRead \/ partitionCheck
           \/ LoopGather \/ LoopReport \/ Sicken \/ Heal \/ BackupBegin \/ BackupEnd
  BY <1>1 DEF reconcilePVC, resizeRefused, stsUnchanged, reconcileV1PDB, reconcileError,
              partitionRead, partitionCheck, LoopGather, LoopReport, Sicken, Heal,
              BackupBegin, BackupEnd
<1>2. CASE \/ UserEdit \/ Reconcile \/ updateStatus \/ resizePVC
           \/ (\E i \in Ordinals : VolumeGrow(i))
           \/ stsDelete \/ stsApply \/ stsCreate \/ StatefulSetStatus \/ StatefulSetGone
  BY <1>2, OthersKeep
<1>3. CASE patchNewPartition
  BY <1>3 DEF patchNewPartition
<1>4. CASE Crash
  BY <1>4 DEF Crash
<1>5. ASSUME NEW i \in Ordinals, CacheSync(i)
      PROVE  seen'[j] = seen[j] \/ (seen'[j] = pods[j] /\ pods' = pods /\ struck' = struck)
  BY <1>5 DEF CacheSync, TypeOK
<1>6. ASSUME NEW i \in Ordinals,
             \/ PodCreate(i) \/ PodReady(i) \/ PodRoll(i) \/ PodScaleDown(i) \/ PodGone(i)
             \/ PodFail(i)
      PROVE  seen'[j] = seen[j]
  BY <1>6 DEF PodCreate, PodReady, PodRoll, PodScaleDown, PodGone, PodFail
<1> QED BY <1>1, <1>2, <1>3, <1>4, <1>5, <1>6, NextCases DEF Elsewhere

(* A Pod that the cache shows ready is ready, or has just failed. *)
LEMMA SeenStep ==
    ASSUME TypeOK, SeenInv, Next
    PROVE  SeenInv'
<1> SUFFICES ASSUME NEW j \in Ordinals, seen'[j].phase = "ready"
             PROVE  pods'[j].phase = "ready" \/ j \in struck'
  BY DEF SeenInv
<1>1. CASE seen'[j] = seen[j]
  <2>1. pods[j].phase = "ready" \/ j \in struck
    BY <1>1 DEF SeenInv
  <2>2. CASE partitionCheck
    BY <1>1, <2>1, <2>2, StruckStep
  <2>3. CASE ~partitionCheck
    BY <2>1, <2>3, StruckStep
  <2> QED BY <2>2, <2>3
<1>2. CASE seen'[j] = pods[j] /\ pods' = pods
  BY <1>2
<1> QED BY <1>1, <1>2, CacheFacts

(* Before the new template is deployed nothing is rolled. *)
LEMMA NotYetRollingStep ==
    ASSUME TypeInv, TypeInv', NotYetRolling, Next
    PROVE  NotYetRolling' \/ Rolling'
<1> DEFINE
    SpecsBefore ==
        \/ /\ Deployed(view) /\ Deployed(spec) /\ Len(edits) <= 1
           /\ edits # <<>> => Replaces(edits[1])
        \/ /\ Deployed(view) \/ view = spec
           /\ Replaces(spec) /\ edits = <<>>
    StsBefore ==
        /\ sts.there /\ ~sts.deleting /\ ~sts.force /\ sts.partition = 0
        /\ sts.tmpl # 0 /\ sts.cur = sts.tmpl
    PodBefore(pod, i) == pod.rev \in {sts.tmpl, 0} /\ (i >= sts.replicas => pod = NoPod)
<1>0. /\ TypeOK /\ ppc = "idle" /\ StsBefore /\ SpecsBefore
      /\ \A i \in Ordinals : PodBefore(pods[i], i) /\ PodBefore(seen[i], i)
  BY DEF TypeInv, NotYetRolling, HasNoOthers
<1>a. ASSUME ppc' = "idle", StsBefore', sts'.tmpl = sts.tmpl, sts'.replicas = sts.replicas,
             \A i \in Ordinals : PodBefore(pods'[i], i) /\ PodBefore(seen'[i], i),
             SpecsBefore'
      PROVE  NotYetRolling'
  BY <1>a DEF NotYetRolling, HasNoOthers
<1>b. ASSUME UNCHANGED <<edits, spec, view, sts>> PROVE SpecsBefore' /\ StsBefore'
  BY <1>0, <1>b DEF Replaces, Deployed, Wanted
<1> USE DEF clusterVars, kubeVars, recVars, partVars, envVars
<1>1. CASE Elsewhere
  <2>1. UNCHANGED <<edits, spec, view, sts>>
    BY <1>1, ElsewhereKeeps
  <2>2. ASSUME NEW j \in Ordinals
        PROVE  PodBefore(pods'[j], j) /\ PodBefore(seen'[j], j)
    <3>1. PodBefore(pods[j], j) /\ PodBefore(seen[j], j)
      BY <1>0
    <3>2. PodBefore(pods'[j], j)
      BY <1>0, <1>1, <3>1, ElsewherePods DEF NoPod
    <3>3. seen'[j] \in {seen[j], pods[j]}
      BY <1>0, <1>1, CacheStep
    <3> QED BY <3>1, <3>2, <3>3
  <2>3. ppc' = "idle"
    <3>1. ~partitionRead /\ ~partitionCheck
      BY <1>0 DEF partitionRead, needPartitionUpdate, partitionCheck
    <3> QED BY <1>0, <1>1, <3>1, ElsewherePartition
  <2> HIDE DEF SpecsBefore, StsBefore, PodBefore
  <2> QED BY <1>a, <1>b, <2>1, <2>2, <2>3
<1>2. CASE UserEdit
  <2>1. UNCHANGED <<pods, seen, ppc, view, sts>> /\ edits # <<>>
    BY <1>2 DEF UserEdit
  <2>2. Deployed(view) /\ Len(edits) <= 1 /\ Replaces(edits[1])
    BY <1>0, <2>1
  <2>3. spec' = edits[1]
    BY <1>0, <1>2, EditFacts
  <2>4. edits' = <<>>
    <3>1. edits' = Tail(edits) /\ edits \in Seq(MySQLClusterSpec)
      BY <1>0, <1>2 DEF UserEdit, TypeOK
    <3>2. Len(edits) \in Nat /\ Len(edits) > 0
      BY <1>0, <1>2, EditFacts
    <3>3. Len(edits) = 1
      BY <2>2, <3>2
    <3> QED BY <3>1, <3>3
  <2>5. SpecsBefore'
    BY <2>1, <2>2, <2>3, <2>4 DEF Replaces, Deployed, Wanted
  <2>6. StsBefore'
    BY <1>0, <2>1
  <2>7. \A i \in Ordinals : PodBefore(pods'[i], i) /\ PodBefore(seen'[i], i)
    BY <1>0, <2>1
  <2> HIDE DEF SpecsBefore, StsBefore, PodBefore
  <2> QED BY <1>0, <1>a, <2>1, <2>5, <2>6, <2>7
<1>3. CASE Reconcile \/ updateStatus \/ Crash
  <2>1. /\ view' = spec /\ UNCHANGED <<edits, spec, pods, sts>> /\ ppc' = "idle"
        /\ seen' \in {seen, pods}
    BY <1>0, <1>3 DEF Reconcile, updateStatus, Crash
  <2>2. SpecsBefore'
    BY <1>0, <2>1 DEF Replaces, Deployed, Wanted
  <2>3. StsBefore'
    BY <1>0, <2>1
  <2>4. \A i \in Ordinals : PodBefore(pods'[i], i) /\ PodBefore(seen'[i], i)
    BY <1>0, <2>1
  <2> HIDE DEF SpecsBefore, StsBefore, PodBefore
  <2> QED BY <1>a, <2>1, <2>2, <2>3, <2>4
<1>4. ASSUME NEW i \in Ordinals, PodCreate(i) PROVE NotYetRolling'
  <2>1. UNCHANGED <<edits, spec, view, sts, seen, ppc>>
    BY <1>4 DEF PodCreate
  <2>2. i \in Nat /\ sts.replicas \in Nat
    BY <1>0, OrdinalFacts DEF TypeOK, StatefulSet
  <2>3. ASSUME NEW j \in Ordinals PROVE PodBefore(pods'[j], j)
    <3>1. CASE pods'[j] = pods[j]
      BY <1>0, <3>1
    <3>2. CASE pods'[j] # pods[j]
      <4>1. j = i /\ i < sts.replicas
            /\ pods'[j].rev = IF i < sts.partition THEN CurrentRevision ELSE sts.tmpl
        BY <1>0, <1>4, <3>2, NewPod
      <4>2. ~(i < sts.partition)
        BY <1>0, <2>2
      <4>3. ~(j >= sts.replicas)
        BY <2>2, <4>1
      <4> QED BY <4>1, <4>2, <4>3
    <3> QED BY <3>1, <3>2
  <2>4. \A j \in Ordinals : PodBefore(seen'[j], j)
    BY <1>0, <2>1
  <2> HIDE DEF SpecsBefore, StsBefore, PodBefore
  <2> QED BY <1>0, <1>a, <1>b, <2>1, <2>3, <2>4
<1>5. CASE resizePVC \/ (\E i \in Ordinals : VolumeGrow(i))
  <2>1. UNCHANGED <<edits, spec, view, sts, pods, seen, ppc>>
    BY <1>5 DEF resizePVC, VolumeGrow
  <2>2. \A j \in Ordinals : PodBefore(pods'[j], j) /\ PodBefore(seen'[j], j)
    BY <1>0, <2>1
  <2> HIDE DEF SpecsBefore, StsBefore, PodBefore
  <2> QED BY <1>0, <1>a, <1>b, <2>1, <2>2
<1>6. CASE stsDelete \/ stsCreate \/ patchNewPartition \/ StatefulSetGone
  <2>1. sts.size = view.size
    BY <1>0 DEF Deployed, Replaces
  <2> QED BY <1>0, <1>6, <2>1 DEF stsDelete, stsCreate, patchNewPartition, StatefulSetGone
<1>7. CASE stsApply
  <2>1. UNCHANGED <<edits, spec, view, pods, seen, ppc>> /\ sts.size = view.size /\ ~Deployed(view)
    BY <1>7 DEF stsApply
  <2>2. /\ sts'.there /\ sts'.deleting = sts.deleting
        /\ sts'.tmpl = view.tmpl /\ sts'.size = sts.size
        /\ sts'.replicas = Wanted(view) /\ sts'.force = view.force
        /\ sts'.cur = sts.cur
        /\ ~view.force /\ view.tmpl # sts.tmpl => sts'.partition = Wanted(view)
        /\ sts'.observed => view.tmpl = sts.tmpl
    BY <1>7, ApplyFields
  <2>3. view = spec /\ Replaces(view) /\ edits = <<>>
    BY <1>0, <2>1
  <2>4. /\ view.tmpl # sts.tmpl /\ ~view.force /\ sts.replicas <= Wanted(view)
        /\ view.tmpl # 0 /\ Wanted(view) \in Nat /\ sts.replicas \in Nat /\ Ordinals \subseteq Nat
    BY <1>0, <2>3, WantedType, OrdinalFacts, BrokenFacts
       DEF Replaces, TypeOK, MySQLClusterSpec, StatefulSet
  <2>5. Deployed(view)' /\ Deployed(spec)'
    BY <2>1, <2>2, <2>3 DEF Deployed, Wanted
  <2>6. sts'.partition = Wanted(view) /\ sts'.partition <= sts'.replicas
    BY <2>2, <2>4
  <2>7. ASSUME NEW i \in Ordinals
        PROVE  /\ pods'[i].rev \in {sts.tmpl, 0} /\ seen'[i].rev \in {sts.tmpl, 0}
               /\ i >= sts'.replicas => pods'[i] = NoPod /\ seen'[i] = NoPod
               /\ i >= sts'.partition \/ i > sts'.partition => i >= sts'.replicas
    <3>1. i \in Nat
      BY <2>4
    <3>2. i >= Wanted(view) => i >= sts.replicas
      BY <2>4, <3>1
    <3>3. i > Wanted(view) => i >= Wanted(view)
      BY <2>4, <3>1
    <3> QED BY <1>0, <2>1, <2>2, <2>6, <3>2, <3>3
  <2>8. PodsInv'
    <3>1. HasNoOthers(pods)' /\ HasNoOthers(seen)'
      BY <2>7 DEF HasNoOthers
    <3>2. ASSUME NEW i \in Ordinals
          PROVE  /\ i < sts'.partition => pods'[i].rev # sts'.tmpl /\ seen'[i].rev # sts'.tmpl
                 /\ i >= sts'.partition \/ i > sts'.partition \/ i = sts'.partition => New(pods[i])'
      <4>1. pods'[i].rev # sts'.tmpl /\ seen'[i].rev # sts'.tmpl
        BY <2>2, <2>4, <2>7
      <4>2. i = sts'.partition => i >= sts'.partition
        BY <2>4, <2>6
      <4>3. i >= sts'.partition \/ i > sts'.partition => pods'[i] = NoPod
        BY <2>7
      <4>4. pods'[i] = NoPod => New(pods[i])'
        BY DEF New, NoPod
      <4> QED BY <4>1, <4>2, <4>3, <4>4
    <3> QED BY <3>1, <3>2 DEF PodsInv
  <2>9. PartitionInv'
    BY <1>0, <2>1 DEF PartitionInv
  <2>10. /\ sts'.there /\ ~sts'.deleting /\ ~sts'.force /\ sts'.tmpl # 0 /\ ~sts'.observed
         /\ sts'.cur \notin {0, sts'.tmpl} /\ edits' = <<>>
    BY <1>0, <2>1, <2>2, <2>3, <2>4
  <2> QED BY <2>5, <2>6, <2>8, <2>9, <2>10 DEF Rolling
<1>8. CASE StatefulSetStatus
  <2>1. UNCHANGED <<edits, spec, view, pods, seen, ppc>>
    BY <1>8 DEF StatefulSetStatus
  <2>2. /\ sts'.there /\ sts'.deleting = sts.deleting
        /\ sts'.tmpl = sts.tmpl /\ sts'.size = sts.size /\ sts'.replicas = sts.replicas
        /\ sts'.force = sts.force /\ sts'.partition = sts.partition
        /\ sts'.cur \in {sts.tmpl, CurrentRevision}
    BY <1>8, StatusFields
  <2>3. CurrentRevision = sts.tmpl
    BY <1>0 DEF CurrentRevision
  <2>4. StsBefore'
    BY <1>0, <2>2, <2>3
  <2>5. SpecsBefore'
    BY <1>0, <2>1, <2>2 DEF Deployed, Replaces, Wanted
  <2>6. \A j \in Ordinals : PodBefore(pods'[j], j) /\ PodBefore(seen'[j], j)
    BY <1>0, <2>1
  <2> HIDE DEF SpecsBefore, StsBefore, PodBefore
  <2> QED BY <1>0, <1>a, <2>1, <2>2, <2>4, <2>5, <2>6
<1> HIDE DEF SpecsBefore, StsBefore, PodBefore
<1> QED BY <1>1, <1>2, <1>3, <1>4, <1>5, <1>6, <1>7, <1>8, NextCases

(* Pods that live on, end, or are created with the revision that their     *)
(* side of the partition asks for, leave everything as it was.             *)
LEMMA RollingPods ==
    ASSUME TypeOK, PodsInv, Next, ~partitionCheck, sts.tmpl # 0,
           sts'.tmpl = sts.tmpl, sts'.partition = sts.partition, sts'.replicas = sts.replicas,
           \A j \in Ordinals :
              /\ \/ pods'[j].rev \in {pods[j].rev, 0}
                 \/ j < sts.partition /\ pods'[j].rev # sts.tmpl
                 \/ ~(j < sts.partition) /\ pods'[j].rev = sts.tmpl
              /\ j >= sts.replicas /\ pods[j] = NoPod => pods'[j] = NoPod
    PROVE  /\ PodsInv'
           /\ \A j \in Ordinals : ~(j < sts.partition) /\ New(pods[j]) => New(pods[j])'
           /\ \A i : OthersServe(i) => OthersServe(i)'
<1>0. sts.partition \in Nat /\ Ordinals \subseteq Nat
  BY OrdinalFacts DEF TypeOK, StatefulSet
<1>1. \A j \in Ordinals : ~(j < sts.partition) /\ New(pods[j]) => New(pods[j])'
  BY DEF New
<1>2. ASSUME NEW i, OthersServe(i) PROVE OthersServe(i)'
  <2> SUFFICES ASSUME NEW j \in Ordinals \ {i}, j < sts.replicas
               PROVE  pods'[j].phase = "ready" \/ j \in struck'
    BY DEF OthersServe
  <2>1. pods[j].phase = "ready" \/ j \in struck
    BY <1>2 DEF OthersServe
  <2> QED BY <2>1, StruckStep
<1>3. HasNoOthers(pods)' /\ HasNoOthers(seen)'
  <2> SUFFICES ASSUME NEW j \in Ordinals, j >= sts.replicas
               PROVE  pods'[j] = NoPod /\ seen'[j] = NoPod
    BY DEF HasNoOthers
  <2>1. pods[j] = NoPod /\ seen[j] = NoPod
    BY DEF PodsInv, HasNoOthers
  <2>2. seen'[j] = seen[j] \/ seen'[j] = pods[j]
    BY CacheFacts
  <2> QED BY <2>1, <2>2
<1>4. ASSUME NEW i \in Ordinals
      PROVE  /\ i < sts.partition => pods'[i].rev # sts.tmpl /\ seen'[i].rev # sts.tmpl
             /\ i > sts.partition => New(pods[i])'
             /\ i >= sts.partition /\ seen'[i].rev = sts.tmpl => New(pods[i])'
             /\ i = sts.partition /\ ~New(pods[i])' => OthersServe(i)'
  <2>0. i \in Nat
    BY <1>0
  <2>1. /\ i < sts.partition => pods[i].rev # sts.tmpl /\ seen[i].rev # sts.tmpl
        /\ i > sts.partition => New(pods[i])
        /\ i >= sts.partition /\ seen[i].rev = sts.tmpl => New(pods[i])
        /\ i = sts.partition /\ ~New(pods[i]) => OthersServe(i)
    BY DEF PodsInv
  <2>2. seen'[i] = seen[i] \/ (seen'[i] = pods[i] /\ pods' = pods)
    BY CacheFacts
  <2>3. CASE i < sts.partition
    <3>1. pods'[i].rev # sts.tmpl
      BY <2>1, <2>3
    <3>2. seen'[i].rev # sts.tmpl
      BY <2>1, <2>2, <2>3
    <3>3. ~(i > sts.partition) /\ ~(i >= sts.partition) /\ i # sts.partition
      BY <1>0, <2>0, <2>3
    <3> QED BY <3>1, <3>2, <3>3
  <2>4. CASE ~(i < sts.partition)
    <3>1. i > sts.partition => New(pods[i])'
      BY <1>1, <2>1, <2>4
    <3>2. seen'[i].rev = sts.tmpl => New(pods[i])'
      <4>1. CASE seen'[i] = seen[i]
        <5>1. i >= sts.partition
          BY <1>0, <2>0, <2>4
        <5> QED BY <1>1, <2>1, <2>4, <4>1, <5>1
      <4>2. CASE seen'[i] = pods[i] /\ pods' = pods
        BY <4>2 DEF New
      <4> QED BY <2>2, <4>1, <4>2
    <3>3. i = sts.partition /\ ~New(pods[i])' => OthersServe(i)'
      BY <1>1, <1>2, <2>1, <2>4
    <3> QED BY <2>4, <3>1, <3>2, <3>3
  <2> QED BY <2>3, <2>4
<1>5. PodsInv'
  BY <1>3, <1>4 DEF PodsInv
<1> QED BY <1>1, <1>2, <1>5

(* The Pod with ordinal 0 is old as long as there is a partition, so not   *)
(* all are counted.                                                        *)
LEMMA RollingCount ==
    ASSUME TypeOK, PodsInv, sts.partition > 0, sts.replicas > 0
    PROVE  Counted < sts.replicas
<1> DEFINE n == sts.replicas
           C == {i \in Ordinals : Running(i) /\ pods[i].rev = sts.tmpl}
<1>0. n \in Nat /\ Ordinals \subseteq Nat /\ 0 \in Ordinals
  BY OrdinalFacts DEF TypeOK, StatefulSet, Ordinals
<1>1. C \in SUBSET (0 .. n - 1)
  <2> SUFFICES ASSUME NEW i \in Ordinals, Running(i) PROVE i \in 0 .. n - 1
    OBVIOUS
  <2>1. ~(i >= n)
    BY DEF PodsInv, HasNoOthers, NoPod, Running
  <2> QED BY <1>0, <2>1
<1>2. 0 \notin C
  BY <1>0 DEF PodsInv
<1>3. IsFiniteSet(0 .. n - 1) /\ Cardinality(0 .. n - 1) = n
  <2>1. 0 \in Int /\ n - 1 \in Int
    BY <1>0
  <2>2. /\ IsFiniteSet(0 .. n - 1)
        /\ Cardinality(0 .. n - 1) = IF 0 > n - 1 THEN 0 ELSE (n - 1) - 0 + 1
    BY <2>1, FS_Interval
  <2> QED BY <1>0, <2>2
<1>4. 0 \in 0 .. n - 1
  BY <1>0
<1> HIDE DEF C
<1>5. IsFiniteSet(C) /\ Cardinality(C) <= n /\ Cardinality(C) # n
  BY <1>1, <1>2, <1>3, <1>4, FS_Subset
<1>6. Cardinality(C) \in Nat
  BY <1>5, FS_CardinalityType
<1>7. Cardinality(C) < n
  BY <1>0, <1>5, <1>6
<1> QED BY <1>7 DEF Counted, C

(* What the partition controller has seen when it goes on. *)
LEMMA RolloutReady ==
    ASSUME TypeInv, Rolling, SeenInv, ppc = "check", isRolloutReady(read)
    PROVE  /\ \A i \in Ordinals : i >= sts.partition => New(pods[i])
           /\ \A j \in Ordinals \ {sts.partition - 1} :
                 j < sts.replicas => seen[j].phase = "ready"
<1> DEFINE n == sts.replicas
           p == sts.partition
<1>0. /\ TypeOK /\ n \in 0 .. MaxReplicas /\ p \in Nat /\ p > 0 /\ p <= n /\ PodsInv
      /\ read.partition = p /\ read.upd = sts.tmpl /\ read.replicas = n /\ read.updated < n
      /\ read.updated \in Nat /\ MaxReplicas \in Nat /\ Ordinals \subseteq Nat /\ sts.tmpl # 0
  <2>1. TypeOK /\ ReadInv /\ MaxReplicas \in Nat /\ Ordinals \subseteq Nat
    BY OrdinalFacts DEF TypeInv
  <2>2. sts.replicas \in 0 .. MaxReplicas /\ read.updated \in Nat /\ sts.partition \in Nat
    BY <2>1 DEF TypeOK, StatefulSet
  <2> QED BY <2>1, <2>2 DEF ReadInv, Rolling, PartitionInv
<1> HIDE DEF n, p
<1>1. nextRolloutTargetIndex(read) = p - 1
  BY <1>0 DEF nextRolloutTargetIndex
<1>2. read.replicas # read.updated
  BY <1>0
<1>3. Cardinality(Listed) = n /\ (PodAt(p - 1).rev = sts.tmpl \/ areAllChildPodsRolloutReady(read))
  BY <1>0, <1>1, <1>2 DEF isRolloutReady
<1>4. Listed = 0 .. n - 1
  <2>1. Listed \in SUBSET (0 .. n - 1)
    <3> SUFFICES ASSUME NEW i \in Ordinals, seen[i].phase # "none" PROVE i \in 0 .. n - 1
      BY DEF Listed
    <3>1. ~(i >= n)
      BY <1>0 DEF PodsInv, HasNoOthers, NoPod, n
    <3> QED BY <1>0, <3>1
  <2>2. IsFiniteSet(0 .. n - 1) /\ Cardinality(0 .. n - 1) = n
    <3>1. 0 \in Int /\ n - 1 \in Int
      BY <1>0
    <3>2. /\ IsFiniteSet(0 .. n - 1)
          /\ Cardinality(0 .. n - 1) = IF 0 > n - 1 THEN 0 ELSE (n - 1) - 0 + 1
      BY <3>1, FS_Interval
    <3> QED BY <1>0, <3>2
  <2> QED BY <1>3, <2>1, <2>2, FS_Subset
<1>5. \A k \in 0 .. n - 1 : PodAt(k) = seen[k]
  BY <1>0, <1>4, PodAtOrdinal
<1>6. areAllChildPodsRolloutReady(read)
  <2>1. p - 1 \in 0 .. n - 1 /\ p - 1 \in Ordinals /\ p - 1 < p
    BY <1>0 DEF Ordinals
  <2>2. seen[p - 1].rev # sts.tmpl
    BY <1>0, <2>1 DEF PodsInv, p
  <2> QED BY <1>3, <1>5, <2>1, <2>2
<1>7. ASSUME NEW k \in 0 .. n - 1, k # p - 1
      PROVE  (k >= p => seen[k].rev = sts.tmpl) /\ seen[k].phase = "ready"
  <2>1. k \in 0 .. Cardinality(Listed) - 1
    BY <1>3
  <2>2. (k >= read.partition => PodAt(k).rev = read.upd) /\ PodAt(k).phase = "ready"
    BY <1>1, <1>6, <1>7, <2>1 DEF areAllChildPodsRolloutReady
  <2> QED BY <1>0, <1>5, <2>2
<1>8. ASSUME NEW i \in Ordinals, i >= p PROVE New(pods[i])
  <2>0. i \in Nat /\ i # p - 1
    BY <1>0, <1>8
  <2>1. CASE i >= n
    BY <1>0, <2>1 DEF PodsInv, HasNoOthers, New, NoPod, n
  <2>2. CASE ~(i >= n)
    <3>1. i \in 0 .. n - 1
      BY <1>0, <2>0, <2>2
    <3>2. seen[i].rev = sts.tmpl
      BY <1>7, <1>8, <2>0, <3>1
    <3> QED BY <1>0, <1>8, <3>2 DEF PodsInv, p
  <2> QED BY <2>1, <2>2
<1>9. ASSUME NEW j \in Ordinals \ {p - 1}, j < n PROVE seen[j].phase = "ready"
  <2>1. j \in 0 .. n - 1 /\ j # p - 1
    BY <1>0, <1>9
  <2> QED BY <1>7, <2>1
<1> QED BY <1>8, <1>9 DEF p, n

(* A rolling update goes on. *)
LEMMA RollingStep ==
    ASSUME TypeInv, TypeInv', Rolling, SeenInv, Next
    PROVE  Rolling'
<1> DEFINE
    StsRolling ==
        /\ sts.there /\ ~sts.deleting /\ ~sts.force /\ sts.tmpl # 0
        /\ sts.partition <= sts.replicas
        /\ sts.partition > 0 =>
              /\ sts.cur \notin {0, sts.tmpl}
              /\ sts.observed => sts.upd = sts.tmpl /\ sts.updated < sts.replicas
    SpecsRolling == Deployed(view) /\ Deployed(spec) /\ edits = <<>>
    ReadRolling ==
        ppc # "idle" =>
          /\ read.partition = sts.partition /\ read.upd = sts.tmpl
          /\ read.replicas = sts.replicas /\ read.updated < sts.replicas
    PatchRolling ==
        ppc = "patch" =>
          /\ \A i \in Ordinals : i >= sts.partition => New(pods[i])
          /\ OthersServe(sts.partition - 1)
<1>0. TypeOK /\ StsRolling /\ SpecsRolling /\ ReadRolling /\ PatchRolling /\ PodsInv
  BY DEF TypeInv, Rolling, PartitionInv
<1>t. sts.partition \in Nat /\ sts.replicas \in Nat /\ Ordinals \subseteq Nat
  BY <1>0, OrdinalFacts DEF TypeOK, StatefulSet
<1>a. StsRolling' /\ SpecsRolling' /\ ReadRolling' /\ PatchRolling' /\ PodsInv' => Rolling'
  BY DEF Rolling, PartitionInv
<1>b. ASSUME UNCHANGED <<edits, spec, sts>>, view' \in {view, spec}
      PROVE  StsRolling' /\ SpecsRolling'
  BY <1>0, <1>b DEF Deployed, Wanted
<1>c. ASSUME ~partitionCheck,
             sts'.tmpl = sts.tmpl, sts'.partition = sts.partition, sts'.replicas = sts.replicas,
             \A j \in Ordinals :
                /\ \/ pods'[j].rev \in {pods[j].rev, 0}
                   \/ j < sts.partition /\ pods'[j].rev # sts.tmpl
                   \/ ~(j < sts.partition) /\ pods'[j].rev = sts.tmpl
                /\ j >= sts.replicas /\ pods[j] = NoPod => pods'[j] = NoPod,
             UNCHANGED <<ppc, read>> \/ ppc' = "idle"
      PROVE  PodsInv' /\ ReadRolling' /\ PatchRolling'
  <2>1. sts.tmpl # 0
    BY <1>0
  <2>2. /\ PodsInv'
        /\ \A j \in Ordinals : ~(j < sts.partition) /\ New(pods[j]) => New(pods[j])'
        /\ \A i : OthersServe(i) => OthersServe(i)'
    BY <1>0, <1>c, <2>1, RollingPods
  <2>3. ReadRolling'
    BY <1>0, <1>c
  <2>4. ASSUME ppc' = "patch"
        PROVE  /\ \A i \in Ordinals : i >= sts'.partition => New(pods[i])'
               /\ OthersServe(sts.partition - 1)'
    <3>1. /\ \A i \in Ordinals : i >= sts.partition => New(pods[i])
          /\ OthersServe(sts.partition - 1)
      BY <1>0, <1>c, <2>4
    <3>2. PICK k : k = sts.partition - 1
      OBVIOUS
    <3>3. k = sts'.partition - 1
      BY <1>c, <3>2
    <3>4. OthersServe(k)'
      <4>1. OthersServe(k)
        BY <3>1, <3>2
      <4> QED BY <2>2, <4>1
    <3>5. OthersServe(sts.partition - 1)'
      BY <3>3, <3>4
    <3>6. ASSUME NEW i \in Ordinals, i >= sts'.partition PROVE New(pods[i])'
      <4>1. i >= sts.partition /\ ~(i < sts.partition)
        BY <1>c, <1>t, <3>6
      <4> QED BY <2>2, <3>1, <4>1
    <3> QED BY <3>5, <3>6
  <2> QED BY <2>2, <2>3, <2>4
<1> USE DEF clusterVars, kubeVars, recVars, partVars, envVars
<1>1. CASE Elsewhere /\ ~partitionRead /\ ~partitionCheck
  <2>1. UNCHANGED <<edits, spec, view, sts, ppc, read>>
    BY <1>1, ElsewhereKeeps, ElsewherePartition
  <2>2. \A j \in Ordinals :
           /\ pods'[j].rev \in {pods[j].rev, 0}
           /\ j >= sts.replicas /\ pods[j] = NoPod => pods'[j] = NoPod
    BY <1>0, <1>1, ElsewherePods DEF NoPod
  <2> HIDE DEF StsRolling, SpecsRolling, ReadRolling, PatchRolling
  <2> QED BY <1>1, <1>a, <1>b, <1>c, <2>1, <2>2
<1>2. CASE UserEdit
  BY <1>0, <1>2 DEF UserEdit
<1>3. CASE \/ Reconcile \/ updateStatus \/ Crash \/ resizePVC
           \/ (\E i \in Ordinals : VolumeGrow(i))
  <2>1. /\ view' \in {view, spec} /\ UNCHANGED <<edits, spec, pods, sts>>
        /\ UNCHANGED <<ppc, read>> \/ ppc' = "idle"
    BY <1>3 DEF Reconcile, updateStatus, Crash, resizePVC, VolumeGrow
  <2>2. ~partitionCheck
    <3>1. CASE Reconcile \/ updateStatus \/ resizePVC \/ (\E i \in Ordinals : VolumeGrow(i))
      <4>1. ppc' = ppc
        BY <3>1, OthersKeep
      <4> QED BY <4>1 DEF partitionCheck
    <3>2. CASE Crash
      BY <1>0, <3>2 DEF Crash, partitionCheck, Happens, TypeOK, Budget
    <3> QED BY <1>3, <3>1, <3>2
  <2> HIDE DEF StsRolling, SpecsRolling, ReadRolling, PatchRolling
  <2> QED BY <1>a, <1>b, <1>c, <2>1, <2>2
<1>4. ASSUME NEW i \in Ordinals, PodCreate(i) PROVE Rolling'
  <2>1. UNCHANGED <<edits, spec, view, sts, ppc, read>> /\ ~partitionCheck
    BY <1>4 DEF PodCreate, partitionCheck
  <2>2. ASSUME NEW j \in Ordinals
        PROVE  /\ \/ pods'[j].rev \in {pods[j].rev, 0}
                  \/ j < sts.partition /\ pods'[j].rev # sts.tmpl
                  \/ ~(j < sts.partition) /\ pods'[j].rev = sts.tmpl
               /\ j >= sts.replicas /\ pods[j] = NoPod => pods'[j] = NoPod
    <3>1. CASE pods'[j] = pods[j]
      BY <3>1
    <3>2. CASE pods'[j] # pods[j]
      <4>1. j = i /\ i < sts.replicas
            /\ pods'[j].rev = IF i < sts.partition THEN CurrentRevision ELSE sts.tmpl
        BY <1>0, <1>4, <3>2, NewPod
      <4>2. ~(j >= sts.replicas)
        BY <1>t, <4>1
      <4>3. i < sts.partition => CurrentRevision # sts.tmpl
        <5>1. i < sts.partition => sts.partition > 0
          BY <1>t
        <5> QED BY <1>0, <5>1 DEF CurrentRevision
      <4> QED BY <4>1, <4>2, <4>3
    <3> QED BY <3>1, <3>2
  <2> HIDE DEF StsRolling, SpecsRolling, ReadRolling, PatchRolling
  <2> QED BY <1>a, <1>b, <1>c, <2>1, <2>2
<1>5. CASE stsDelete \/ stsApply \/ stsCreate \/ StatefulSetGone
  BY <1>0, <1>5 DEF stsDelete, stsApply, stsCreate, StatefulSetGone, Deployed
<1>6. CASE StatefulSetStatus
  <2>1. UNCHANGED <<edits, spec, view, pods, ppc, read>> /\ ~partitionCheck
    BY <1>6 DEF StatefulSetStatus, partitionCheck
  <2>2. /\ sts'.there /\ sts'.deleting = sts.deleting
        /\ sts'.tmpl = sts.tmpl /\ sts'.size = sts.size /\ sts'.replicas = sts.replicas
        /\ sts'.force = sts.force /\ sts'.partition = sts.partition
        /\ sts'.upd = sts.tmpl /\ sts'.updated = Counted
        /\ sts'.cur = IF Counted = sts.replicas /\ Cardinality(Ready) = sts.replicas
                      THEN sts.tmpl ELSE CurrentRevision
    BY <1>6, StatusFields
  <2>3. ASSUME sts.partition > 0 PROVE Counted < sts.replicas /\ sts'.cur = sts.cur
    <3>1. sts.replicas > 0
      BY <1>0, <1>t, <2>3
    <3>2. Counted < sts.replicas
      BY <1>0, <2>3, <3>1, RollingCount
    <3>3. Counted \in Nat
      <4>1. {i \in Ordinals : Running(i) /\ pods[i].rev = sts.tmpl} \in SUBSET Ordinals
        OBVIOUS
      <4> QED BY <4>1, PodCount, OrdinalFacts DEF Counted
    <3>4. Counted # sts.replicas
      BY <1>t, <3>2, <3>3
    <3>5. CurrentRevision = sts.cur
      BY <1>0, <2>3 DEF CurrentRevision
    <3> QED BY <2>2, <3>2, <3>4, <3>5
  <2>4. StsRolling'
    BY <1>0, <2>2, <2>3
  <2>5. SpecsRolling'
    BY <1>0, <2>1, <2>2 DEF Deployed, Wanted
  <2>6. PodsInv' /\ ReadRolling' /\ PatchRolling'
    <3> HIDE DEF StsRolling, SpecsRolling, ReadRolling, PatchRolling
    <3> QED BY <1>c, <2>1, <2>2
  <2> HIDE DEF StsRolling, SpecsRolling, ReadRolling, PatchRolling
  <2> QED BY <1>a, <2>4, <2>5, <2>6
<1>7. CASE partitionRead
  <2>1. /\ UNCHANGED <<edits, spec, view, sts, pods, seen, struck>>
        /\ ppc' = "check" /\ read' = sts /\ sts.observed /\ sts.partition > 0
    BY <1>7 DEF partitionRead, needPartitionUpdate
  <2>2. ReadRolling' /\ PatchRolling'
    BY <1>0, <2>1
  <2>3. PodsInv'
    BY <1>0, <2>1 DEF PodsInv, HasNoOthers, OthersServe, New
  <2> HIDE DEF StsRolling, SpecsRolling, ReadRolling, PatchRolling
  <2> QED BY <1>a, <1>b, <2>1, <2>2, <2>3
<1>8. CASE partitionCheck
  <2>1. UNCHANGED <<edits, spec, view, sts, pods, seen>> /\ ppc = "check"
    BY <1>8 DEF partitionCheck
  <2>2. CASE reconciled /\ isRolloutReady(read)
    <3>1. /\ ppc' = "patch" /\ read' = read
          /\ struck' = {i \in struck : seen[i].phase = "ready"}
      BY <1>8, <2>2 DEF partitionCheck
    <3>2. /\ \A i \in Ordinals : i >= sts.partition => New(pods[i])
          /\ \A j \in Ordinals \ {sts.partition - 1} :
                j < sts.replicas => seen[j].phase = "ready"
      BY <2>1, <2>2, RolloutReady
    <3>3. ReadRolling'
      BY <1>0, <2>1, <3>1
    <3>4. ASSUME NEW j \in Ordinals, seen[j].phase = "ready"
          PROVE  pods[j].phase = "ready" \/ j \in struck'
      BY <3>1, <3>4 DEF SeenInv
    <3>5. OthersServe(sts.partition - 1)'
      BY <2>1, <3>2, <3>4 DEF OthersServe
    <3>6. \A i \in Ordinals : New(pods[i])' <=> New(pods[i])
      BY <2>1 DEF New
    <3>7. PatchRolling'
      BY <2>1, <3>2, <3>5, <3>6
    <3>8. \A i \in Ordinals : i = sts.partition => i >= sts.partition
      BY <1>t
    <3>9. PodsInv'
      BY <1>0, <2>1, <3>2, <3>6, <3>8 DEF PodsInv, HasNoOthers
    <3> HIDE DEF StsRolling, SpecsRolling, ReadRolling, PatchRolling
    <3> QED BY <1>a, <1>b, <2>1, <3>3, <3>7, <3>9
  <2>3. CASE ~(reconciled /\ isRolloutReady(read))
    <3>1. ppc' = "idle" /\ struck' = struck
      BY <1>8, <2>3 DEF partitionCheck
    <3>2. ReadRolling' /\ PatchRolling'
      BY <3>1
    <3>3. PodsInv'
      BY <1>0, <2>1, <3>1 DEF PodsInv, HasNoOthers, OthersServe, New
    <3> HIDE DEF StsRolling, SpecsRolling, ReadRolling, PatchRolling
    <3> QED BY <1>a, <1>b, <2>1, <3>2, <3>3
  <2> QED BY <2>2, <2>3
<1>9. CASE patchNewPartition
  <2>1. /\ UNCHANGED <<edits, spec, view, pods, seen, struck>>
        /\ ppc = "patch" /\ ppc' = "idle"
    BY <1>9 DEF patchNewPartition
  <2>2. /\ sts'.there = sts.there /\ sts'.deleting = sts.deleting
        /\ sts'.tmpl = sts.tmpl /\ sts'.size = sts.size /\ sts'.replicas = sts.replicas
        /\ sts'.force = sts.force /\ sts'.cur = sts.cur /\ sts'.upd = sts.upd
        /\ sts'.updated = sts.updated
        /\ sts'.observed => sts.observed
        /\ sts.there /\ ~sts.force => sts'.partition \in {read.partition - 1, sts.replicas}
    BY <1>9, PatchFields
  <2>3. sts'.partition = sts.partition - 1 /\ sts.partition > 0
    <3>1. read.partition = sts.partition /\ sts.partition > 0
      BY <1>0, <2>1 DEF TypeInv, ReadInv
    <3>2. Admit([sts EXCEPT !.partition = sts.partition - 1])
      BY <1>0, <1>9, <3>1 DEF patchNewPartition, nextRolloutTargetIndex
    <3> DEFINE new == [sts EXCEPT !.partition = sts.partition - 1]
    <3>3. /\ new.partition = sts.partition - 1 /\ new.force = sts.force
          /\ new.tmpl = sts.tmpl /\ new.size = sts.size /\ new.replicas = sts.replicas
      BY <1>0 DEF TypeOK, StatefulSet
    <3>4. new \in StatefulSet
      <4>1. sts.partition - 1 \in 0 .. MaxReplicas
        BY <1>0, <3>1, OrdinalFacts DEF TypeOK, StatefulSet
      <4> QED BY <1>0, <4>1 DEF TypeOK, StatefulSet
    <3>5. Admit(new)
      BY <3>2
    <3> HIDE DEF new
    <3>6. new.partition # sts.partition
      BY <1>t, <3>3
    <3>7. StatefulSetDefault(new, sts) = new
      BY <1>0, <3>3, <3>6 DEF StatefulSetDefault, SameSpec
    <3>8. sts'.partition = StatefulSetDefault(new, sts).partition
      BY <1>0, <3>4, <3>5, AdmitFields DEF TypeOK
    <3> QED BY <3>1, <3>3, <3>7, <3>8
  <2>4. StsRolling'
    <3>1. sts'.partition <= sts'.replicas
      BY <1>0, <1>t, <2>2, <2>3
    <3> QED BY <1>0, <2>2, <2>3, <3>1
  <2>5. SpecsRolling'
    BY <1>0, <2>1, <2>2 DEF Deployed, Wanted
  <2>6. ReadRolling' /\ PatchRolling'
    BY <2>1
  <2>7. PodsInv'
    <3>1. HasNoOthers(pods)' /\ HasNoOthers(seen)'
      BY <1>0, <2>1, <2>2 DEF PodsInv, HasNoOthers
    <3>2. ASSUME NEW i \in Ordinals
          PROVE  /\ i < sts'.partition => pods'[i].rev # sts'.tmpl /\ seen'[i].rev # sts'.tmpl
                 /\ i > sts'.partition => New(pods[i])'
                 /\ i >= sts'.partition /\ seen'[i].rev = sts'.tmpl => New(pods[i])'
                 /\ i = sts'.partition /\ ~New(pods[i])' => OthersServe(i)'
      <4>0. i \in Nat /\ sts.partition \in Nat
        BY <1>t
      <4>1. New(pods[i])' <=> New(pods[i])
        BY <2>1, <2>2 DEF New
      <4>2. i >= sts.partition => New(pods[i])
        BY <1>0, <2>1
      <4>3. i < sts.partition => pods[i].rev # sts.tmpl /\ seen[i].rev # sts.tmpl
        BY <1>0 DEF PodsInv
      <4>4. i = sts'.partition => OthersServe(i)'
        <5>1. OthersServe(sts.partition - 1)
          BY <1>0, <2>1
        <5> QED BY <2>1, <2>2, <2>3, <5>1 DEF OthersServe
      <4>5. i < sts'.partition => i < sts.partition
        BY <2>3, <4>0
      <4>6. i > sts'.partition => i >= sts.partition
        BY <2>3, <4>0
      <4>7. i >= sts'.partition => i >= sts.partition \/ i < sts.partition
        BY <4>0
      <4> QED BY <2>1, <2>2, <4>1, <4>2, <4>3, <4>4, <4>5, <4>6, <4>7
    <3> QED BY <3>1, <3>2 DEF PodsInv
  <2> HIDE DEF StsRolling, SpecsRolling, ReadRolling, PatchRolling
  <2> QED BY <1>a, <2>4, <2>5, <2>6, <2>7
<1> HIDE DEF StsRolling, SpecsRolling, ReadRolling, PatchRolling
<1> QED BY <1>1, <1>2, <1>3, <1>4, <1>5, <1>6, <1>7, <1>8, <1>9, NextCases DEF Elsewhere

(* The invariant of a rollout holds at first. *)
LEMMA RollInit ==
    ASSUME \A s \in Scenarios : OneRollout(s), Init, TypeOK
    PROVE  RollInv
<1> PICK sc \in Scenarios : spec = sc.first /\ edits = sc.edits /\ budget = sc.budget
  BY DEF Init
<1>0. spec \in MySQLClusterSpec /\ spec.tmpl \in Templates /\ spec.tmpl # 0
  BY BrokenFacts DEF TypeOK, MySQLClusterSpec
<1>1. /\ view = spec /\ ppc = "idle" /\ seen = pods
      /\ sts.there /\ ~sts.deleting /\ sts.partition = 0
      /\ sts.tmpl = spec.tmpl /\ sts.size = spec.size /\ sts.force = spec.force
      /\ sts.cur = spec.tmpl /\ sts.replicas = Wanted(spec)
  BY DEF Init
<1>2. ASSUME NEW i \in Ordinals
      PROVE  /\ pods[i].rev \in {spec.tmpl, 0} /\ (i >= sts.replicas => pods[i] = NoPod)
             /\ pods[i].rev = 0 => pods[i] = NoPod
  <2>1. pods[i] = IF i < sts.replicas THEN [phase |-> "ready", rev |-> spec.tmpl] ELSE NoPod
    BY <1>1 DEF Init
  <2>2. i \in Nat /\ sts.replicas \in Nat
    BY OrdinalFacts DEF TypeOK, StatefulSet
  <2>3. i >= sts.replicas => ~(i < sts.replicas)
    BY <2>2
  <2> QED BY <1>0, <2>1, <2>3 DEF NoPod
<1>3. /\ Len(edits) <= 1 /\ ~spec.force
      /\ edits # <<>> =>
            /\ edits[1].tmpl # spec.tmpl /\ edits[1].size = spec.size
            /\ ~edits[1].force /\ Wanted(spec) <= Wanted(edits[1])
  BY DEF OneRollout
<1>4. Deployed(view) /\ Deployed(spec)
  BY <1>1 DEF Deployed
<1>5. edits # <<>> => Replaces(edits[1])
  BY <1>1, <1>3 DEF Replaces
<1>6. NotYetRolling
  BY <1>0, <1>1, <1>2, <1>3, <1>4, <1>5 DEF NotYetRolling, HasNoOthers
<1> QED BY <1>1, <1>2, <1>6 DEF RollInv, SeenInv

(* A Pod has a revision. *)
LEMMA RevisionStep ==
    ASSUME TypeInv, RollInv, Next
    PROVE  \A j \in Ordinals : pods'[j].rev = 0 => pods'[j] = NoPod
<1> SUFFICES ASSUME NEW j \in Ordinals, pods'[j].rev = 0 PROVE pods'[j] = NoPod
  OBVIOUS
<1>0. TypeOK /\ sts.tmpl # 0 /\ (pods[j].rev = 0 => pods[j] = NoPod)
  BY DEF TypeInv, RollInv, NotYetRolling, Rolling
<1>1. CASE Elsewhere
  BY <1>0, <1>1, ElsewherePods
<1>2. ASSUME NEW i \in Ordinals, PodCreate(i) PROVE pods'[j] = NoPod
  <2>1. CurrentRevision # 0
    BY <1>0 DEF CurrentRevision
  <2> QED BY <1>0, <1>2, <2>1, NewPod
<1>3. CASE \/ UserEdit \/ Reconcile \/ updateStatus \/ resizePVC
           \/ (\E i \in Ordinals : VolumeGrow(i))
           \/ stsDelete \/ stsApply \/ stsCreate \/ StatefulSetStatus \/ StatefulSetGone
  BY <1>0, <1>3, OthersKeep
<1>4. CASE Crash \/ patchNewPartition
  BY <1>0, <1>4 DEF Crash, patchNewPartition, kubeVars
<1> QED BY <1>1, <1>2, <1>3, <1>4, NextCases

(* Every step keeps the invariant of a rollout. *)
LEMMA RollStep == TypeInv /\ TypeInv' /\ RollInv /\ [Next]_vars => RollInv'
<1> SUFFICES ASSUME TypeInv, TypeInv', RollInv, [Next]_vars PROVE RollInv'
  OBVIOUS
<1>1. CASE Next
  <2>1. SeenInv'
    BY <1>1, SeenStep DEF RollInv, TypeInv
  <2>2. \A j \in Ordinals : pods'[j].rev = 0 => pods'[j] = NoPod
    BY <1>1, RevisionStep
  <2>3. NotYetRolling' \/ Rolling'
    <3>1. CASE NotYetRolling
      BY <1>1, <3>1, NotYetRollingStep
    <3>2. CASE Rolling
      BY <1>1, <3>2, RollingStep DEF RollInv
    <3> QED BY <3>1, <3>2 DEF RollInv
  <2> QED BY <2>1, <2>2, <2>3 DEF RollInv
<1>2. CASE UNCHANGED vars
  BY <1>2 DEF vars, clusterVars, kubeVars, recVars, partVars, envVars, RollInv, SeenInv,
              NotYetRolling, Rolling, PodsInv, PartitionInv, HasNoOthers, OthersServe, New,
              Replaces, Deployed, Wanted
<1> QED BY <1>1, <1>2

(* For every number of Pods, a rolling update to a new template takes a    *)
(* serving Pod away only while all others serve, except those that went    *)
(* down too late for the partition controller to see it: although it reads *)
(* the StatefulSet, the Pods and the MySQLCluster at different times, from *)
(* a cache that may be behind, patches without reading again, and may be   *)
(* restarted at any point, and although Pods fail and are created again    *)
(* meanwhile.  The update must not meet another one: see the README.       *)
THEOREM OneDownAtATimeAlways ==
    ASSUME \A s \in Scenarios : OneRollout(s)
    PROVE  Spec => OneDownAtATime
<1> DEFINE A == \A i \in Ordinals :
                   Rolls(i) /\ pods[i].phase = "ready" /\ ~sts.force =>
                       \A j \in Ordinals \ {i} :
                           j < sts.replicas => pods[j].phase = "ready" \/ j \in struck
<1>1. Init => TypeInv /\ RollInv
  BY InitType, RollInit DEF TypeInv
<1>2. (TypeInv /\ RollInv) /\ [Next]_vars => (TypeInv /\ RollInv)'
  BY NextType, RollStep
<1>3. TypeInv /\ RollInv => A
  <2> SUFFICES ASSUME TypeInv, RollInv, NEW i \in Ordinals, Rolls(i)
               PROVE  OthersServe(i)
    BY DEF OthersServe
  <2>1. /\ i >= sts.partition /\ i < sts.replicas /\ Running(i) /\ pods[i].rev # sts.tmpl
    BY DEF Rolls
  <2>2. i \in Nat /\ sts.partition \in Nat
    BY OrdinalFacts DEF TypeInv, TypeOK, StatefulSet
  <2>3. ~New(pods[i])
    BY <2>1 DEF RollInv, New, Running, NoPod
  <2>4. CASE NotYetRolling
    BY <2>3, <2>4 DEF NotYetRolling, New
  <2>5. CASE Rolling
    <3>1. ~(i > sts.partition) /\ (i = sts.partition => OthersServe(i))
      BY <2>3, <2>5 DEF Rolling, PodsInv
    <3>2. i = sts.partition
      BY <2>1, <2>2, <3>1
    <3> QED BY <3>1, <3>2
  <2> QED BY <2>4, <2>5 DEF RollInv
<1>4. TypeInv /\ RollInv /\ [Next]_vars => [A]_vars
  BY <1>3
<1> QED BY <1>1, <1>2, <1>4, PTL DEF Spec, OneDownAtATime

=============================================================================
