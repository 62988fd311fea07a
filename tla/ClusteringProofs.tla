--------------------------- MODULE ClusteringProofs ---------------------------
(***************************************************************************)
(* Safety of the maintenance loop for every number of replicas, every set  *)
(* of transactions and every bound on the events.                          *)
(***************************************************************************)
EXTENDS Clustering, FiniteSetTheorems, TLAPS

-----------------------------------------------------------------------------
(* The decision procedure: what its conclusions guarantee, for every       *)
(* number of replicas and every observation v.                             *)

(* Choosing the lowest ordinal (sort.Ints and [0], or the order in which a *)
(* loop visits instances) is well defined.  The ordinals below n, ordered  *)
(* by inclusion, stand for n, since finite sets are well-founded.          *)
LEMMA LowestOrdinalExists ==
    ASSUME NEW S \in SUBSET Nat, S # {}
    PROVE  /\ LowestOrdinal(S) \in S
           /\ \A j \in S : LowestOrdinal(S) <= j
<1> DEFINE Below(n) == 0 .. (n - 1)
           T == {Below(n) : n \in S}
           R == StrictSubsetOrdering(Nat)
<1>1. ASSUME NEW n \in S PROVE Below(n) \in FiniteSubsetsOf(Nat)
  <2>1. IsFiniteSet(Below(n))
    BY FS_Interval
  <2>2. Below(n) \subseteq Nat
    OBVIOUS
  <2> HIDE DEF Below
  <2> QED BY <2>1, <2>2 DEF FiniteSubsetsOf
<1>2. T \subseteq FiniteSubsetsOf(Nat) /\ T # {}
  <2> HIDE DEF Below
  <2> QED BY <1>1
<1>3. \E x \in T : \A y \in T : ~(<<y, x>> \in R)
  <2>1. IsWellFoundedOn(R, FiniteSubsetsOf(Nat))
    BY FS_StrictSubsetOrderingWellFounded
  <2> HIDE DEF R, T
  <2> QED BY <2>1, <1>2, WFMin
<1>4. PICK x \in S : \A y \in S : ~(<<Below(y), Below(x)>> \in R)
  <2> HIDE DEF R, Below
  <2> QED BY <1>3
<1>5. ASSUME NEW y \in S, y < x PROVE FALSE
  <2>1. Below(y) \subseteq Below(x) /\ y \in Below(x) /\ y \notin Below(y)
    BY <1>5
  <2>2. Below(y) \in SUBSET Nat /\ Below(x) \in SUBSET Nat
    OBVIOUS
  <2> HIDE DEF Below
  <2>3. <<Below(y), Below(x)>> \in R
    BY <2>1, <2>2 DEF StrictSubsetOrdering
  <2> QED BY <1>4, <2>3
<1>6. \A y \in S : x <= y
  BY <1>5
<1> QED BY <1>6 DEF LowestOrdinal

(* The ordinals are N natural numbers. *)
LEMMA IndexFacts ==
    /\ Index \subseteq Nat
    /\ IsFiniteSet(Index)
    /\ Cardinality(Index) = N
    /\ N > 1 => N \div 2 >= 1 /\ 0 \in Index /\ 1 \in Index
<1>1. IsFiniteSet(Index) /\ Cardinality(Index) = N
  BY NAssumption, FS_Interval DEF Index
<1> QED BY <1>1, NAssumption DEF Index

(* The replicas are the other N - 1 instances. *)
LEMMA ReplicasFacts ==
    ASSUME NEW v, v.primary \in Index
    PROVE  /\ IsFiniteSet(Replicas(v))
           /\ Cardinality(Replicas(v)) = N - 1
<1> QED BY IndexFacts, FS_RemoveElement DEF Replicas

(* The quorum argument of isFailed: N/2 + 1 of N - 1 replicas meet every   *)
(* N/2 of them.                                                            *)
THEOREM FailedMeetsQuorums ==
    ASSUME NEW v, v.primary \in Index
    PROVE  FailedMeetsAckQuorums(v)
<1> SUFFICES ASSUME DecideState(v) = "Failed",
                    NEW Q \in SUBSET Replicas(v),
                    Cardinality(Q) >= N \div 2
             PROVE  Q \cap failedOk(v) # {}
  BY DEF FailedMeetsAckQuorums
<1> DEFINE F == failedOk(v)
<1>1. Cardinality(F) > N \div 2
  BY DEF DecideState, isFailed
<1>2. F \subseteq Replicas(v)
  BY DEF failedOk
<1> HIDE DEF F
<1>3. IsFiniteSet(Replicas(v)) /\ Cardinality(Replicas(v)) = N - 1
  BY ReplicasFacts
<1>4. /\ IsFiniteSet(Q) /\ Cardinality(Q) \in Nat
      /\ IsFiniteSet(F) /\ Cardinality(F) \in Nat
  BY <1>2, <1>3, FS_Subset, FS_CardinalityType
<1>5. Cardinality(Q) + Cardinality(F) > Cardinality(Replicas(v))
  BY <1>1, <1>3, <1>4, NAssumption
<1>6. Q \cap F # {}
  BY <1>2, <1>3, <1>5, FS_MajoritiesIntersect
<1> QED BY <1>6 DEF F

(* A switchover and configure find what they dereference: a primary that   *)
(* answered, and a replica that follows it.                                *)
THEOREM OperationsHaveTargets ==
    ASSUME NEW v, v.primary \in Index
    PROVE  OperationsHaveTheirTargets(v)
<1> DEFINE D == DecideState(v)
<1>1. D = "Healthy" => isHealthy(v)
  BY DEF DecideState
<1>2. D = "Degraded" => isDegraded(v) /\ ~isHealthy(v)
  BY DEF DecideState
<1>3. D = "Incomplete" => ~isFailed(v) /\ ~isLost(v)
  BY DEF DecideState
<1> HIDE DEF D
<1>4. D \in {"Healthy", "Degraded", "Incomplete"} => PstKnown(v)
  <2>1. isHealthy(v) => PstKnown(v)
    BY DEF isHealthy
  <2>2. isDegraded(v) => PstKnown(v)
    BY DEF isDegraded
  <2>3. ~isFailed(v) /\ ~isLost(v) => PstKnown(v)
    <3>1. failedOk(v) \subseteq Replicas(v)
      BY DEF failedOk
    <3>2. Cardinality(failedOk(v)) \in Nat
      BY <3>1, ReplicasFacts, FS_Subset, FS_CardinalityType
    <3> QED BY <3>2, NAssumption DEF isFailed, isLost, PrimaryGone
  <2> QED BY <1>1, <1>2, <1>3, <2>1, <2>2, <2>3
<1>5. ASSUME D = "Healthy", N > 1
      PROVE  /\ Candidates(v) # {}
             /\ \A i \in Candidates(v) : i # v.primary /\ FollowsPrimary(v, i)
  <2>1. isHealthy(v)
    BY <1>1, <1>5
  <2>2. \A i \in Replicas(v) : i # v.primary /\ FollowsPrimary(v, i)
    BY <2>1 DEF isHealthy, Replicas
  <2>3. Replicas(v) # {}
    BY <1>5, IndexFacts DEF Replicas
  <2> QED BY <2>1, <2>2, <2>3 DEF Candidates
<1>6. ASSUME D = "Degraded"
      PROVE  /\ Candidates(v) # {}
             /\ \A i \in Candidates(v) : i # v.primary /\ FollowsPrimary(v, i)
  <2>1. Candidates(v) = degradedOk(v) /\ isDegraded(v)
    BY <1>2, <1>6 DEF Candidates
  <2>2. \A i \in degradedOk(v) : i # v.primary /\ FollowsPrimary(v, i)
    BY DEF degradedOk, Replicas
  <2>3. degradedOk(v) # {}
    <3>1. /\ Cardinality(degradedOk(v)) >= N \div 2
          /\ Cardinality(degradedOk(v)) # N - 1
      BY <2>1 DEF isDegraded
    <3>2. Cardinality({}) = 0
      BY FS_EmptySet
    <3> QED BY <3>1, <3>2, NAssumption, IndexFacts
  <2> QED BY <2>1, <2>2, <2>3
<1> QED BY <1>4, <1>5, <1>6 DEF OperationsHaveTheirTargets, D

-----------------------------------------------------------------------------
(* The operations of pkg/dbop and the steps of mysqld keep the instances   *)
(* well typed.                                                             *)

(* The choice of the next transaction stays within the set it is made from. *)
LEMMA OldestInSet ==
    ASSUME NEW S \in SUBSET Txn, S # {}
    PROVE  Oldest(S) \in S
<1>1. Oldest(S) = LowestOrdinal(S)
  BY DEF Oldest, LowestOrdinal
<1> QED BY <1>1, LowestOrdinalExists, TxnAssumption

(* While transactions remain unwritten, the next one is a transaction. *)
LEMMA NextTxnInTxn == ASSUME Unwritten # {} PROVE NextTxn \in Txn
<1>1. NextTxn = LowestOrdinal(Unwritten)
  BY DEF NextTxn, LowestOrdinal
<1>2. Unwritten \subseteq Txn
  BY DEF Unwritten
<1> QED BY <1>1, <1>2, LowestOrdinalExists, TxnAssumption

(* The instances an operation leaves behind. *)
LEMMA FreshType == FreshInstance \in Instance
BY DEF FreshInstance, Instance, Source, CloneStates

(* Releasing the sessions that wait for acks gives an instance. *)
LEMMA ReleasedType ==
    ASSUME NEW inst \in Instance PROVE Released(inst) \in Instance
BY DEF Released, Instance

(* A stopped instance is an instance. *)
LEMMA StoppedType ==
    ASSUME NEW inst \in Instance PROVE Stopped(inst) \in Instance
<1> DEFINE rel == Released(inst)
           clone == IF rel.clone = "in progress" THEN "failed" ELSE rel.clone
<1>1. rel \in Instance
  BY ReleasedType
<1>2. clone \in CloneStates
  <2>1. rel.clone \in CloneStates
    <3> HIDE DEF rel
    <3> QED BY <1>1 DEF Instance
  <2> HIDE DEF rel
  <2> QED BY <2>1 DEF CloneStates
<1>3. Stopped(inst) = [rel EXCEPT !.up = FALSE, !.ro = TRUE, !.io = FALSE,
                          !.sql = FALSE, !.ssM = FALSE, !.ssS = FALSE,
                          !.clone = clone]
  BY DEF Stopped
<1> HIDE DEF rel, clone
<1> QED BY <1>1, <1>2, <1>3 DEF Instance

(* A clone is an instance. *)
LEMMA ClonedType ==
    ASSUME NEW gtids \in SUBSET Txn PROVE Cloned(gtids) \in Instance
BY FreshType DEF Cloned, Instance, CloneStates

(* The status of an instance is a legal observation. *)
LEMMA GetStatusType ==
    ASSUME MySQLTypeOK, NEW i \in Index
    PROVE  GetStatus(i) \in InstanceStatus
<1>1. db[i] \in Instance
  BY DEF MySQLTypeOK
<1>2. Hosts(i) \subseteq Index
  BY DEF Hosts
<1>3. Connected(i) \in BOOLEAN
  BY DEF Connected
<1> HIDE DEF Hosts, Connected
<1> QED BY <1>1, <1>2, <1>3 DEF GetStatus, Instance, InstanceStatus

(* Replacing one instance by a well-typed one. *)
LEMMA UpdateType ==
    ASSUME MySQLTypeOK, NEW i, NEW X, i \in Index => X \in Instance,
           db' = [db EXCEPT ![i] = X],
           UNCHANGED <<uuid, acks, ext, acked>>
    PROVE  MySQLTypeOK'
BY DEF MySQLTypeOK

(* What the controller does to an instance. *)
LEMMA DbopType ==
    ASSUME MySQLTypeOK, NEW i,
           \/ KillConnections(i) \/ StopReplicaIOThread(i) \/ SetReadOnly(i)
           \/ SetWritable(i) \/ ConfigurePrimary(i) \/ StartReplica(i)
           \/ CloneStart(i)
    PROVE  MySQLTypeOK'
<1>0. i \in Index => db[i] \in Instance
  BY DEF MySQLTypeOK
<1>1. CASE KillConnections(i)
  <2>1. i \in Index => Released(db[i]) \in Instance
    BY <1>0, ReleasedType
  <2> QED BY <1>1, <2>1, UpdateType DEF KillConnections
<1>2. CASE StopReplicaIOThread(i)
  <2>1. i \in Index => [db[i] EXCEPT !.io = FALSE] \in Instance
    BY <1>0 DEF Instance
  <2> QED BY <1>2, <2>1, UpdateType DEF StopReplicaIOThread
<1>3. CASE SetReadOnly(i)
  <2>1. i \in Index => [db[i] EXCEPT !.ro = TRUE] \in Instance
    BY <1>0 DEF Instance
  <2> QED BY <1>3, <2>1, UpdateType DEF SetReadOnly
<1>4. CASE SetWritable(i)
  <2>1. i \in Index => [db[i] EXCEPT !.io = FALSE, !.sql = FALSE,
                            !.relay = {}, !.ro = FALSE] \in Instance
    BY <1>0 DEF Instance
  <2> QED BY <1>4, <2>1, UpdateType DEF SetWritable
<1>5. CASE ConfigurePrimary(i)
  <2>1. i \in Index => [db[i] EXCEPT !.ssM = TRUE] \in Instance
    BY <1>0 DEF Instance
  <2> QED BY <1>5, <2>1, UpdateType DEF ConfigurePrimary
<1>6. CASE StartReplica(i)
  <2>1. i \in Index => [db[i] EXCEPT !.io = TRUE, !.sql = TRUE] \in Instance
    BY <1>0 DEF Instance
  <2> QED BY <1>6, <2>1, UpdateType DEF StartReplica
<1>7. CASE CloneStart(i)
  <2>1. i \in Index => [db[i] EXCEPT !.clone = "in progress"] \in Instance
    BY <1>0 DEF Instance, CloneStates
  <2> QED BY <1>7, <2>1, UpdateType DEF CloneStart
<1> QED BY <1>1, <1>2, <1>3, <1>4, <1>5, <1>6, <1>7

(* ConfigureReplica up to START REPLICA keeps the types. *)
LEMMA ChangeSourceType ==
    ASSUME MySQLTypeOK, NEW i, NEW from \in Source, NEW semisync \in BOOLEAN,
           ChangeSource(i, from, semisync)
    PROVE  MySQLTypeOK'
<1> DEFINE X == [Released(db[i]) EXCEPT !.io = FALSE, !.sql = FALSE,
                     !.relay = {}, !.src = from, !.ssS = semisync,
                     !.ssM = FALSE]
<1>1. i \in Index => X \in Instance
  <2> SUFFICES ASSUME i \in Index PROVE X \in Instance
    OBVIOUS
  <2>1. Released(db[i]) \in Instance
    BY ReleasedType DEF MySQLTypeOK
  <2> QED BY <2>1 DEF Instance
<1>2. db' = [db EXCEPT ![i] = X] /\ UNCHANGED <<uuid, acks, ext, acked>>
  BY DEF ChangeSource
<1> HIDE DEF X
<1> QED BY <1>1, <1>2, UpdateType

(* The end of a clone, whatever its kind, keeps the types. *)
LEMMA CloneType ==
    ASSUME MySQLTypeOK, NEW i, NEW donor \in Index,
           CloneFrom(i, donor) \/ CloneEnd(i) \/ CloneFail(i)
    PROVE  MySQLTypeOK'
<1>1. CASE CloneFrom(i, donor)
  <2>1. Cloned(db[donor].exec) \in Instance
    BY ClonedType DEF MySQLTypeOK, Instance
  <2> QED BY <1>1, <2>1, UpdateType DEF CloneFrom
<1>2. CASE CloneEnd(i)
  <2>1. Cloned(ext) \in Instance
    BY ClonedType DEF MySQLTypeOK
  <2> QED BY <1>2, <2>1, UpdateType DEF CloneEnd
<1>3. CASE CloneFail(i)
  <2>1. i \in Index => [db[i] EXCEPT !.clone = "failed"] \in Instance
    <3>1. i \in Index => db[i] \in Instance
      BY DEF MySQLTypeOK
    <3> QED BY <3>1 DEF Instance, CloneStates
  <2> QED BY <1>3, <2>1, UpdateType DEF CloneFail
<1> QED BY <1>1, <1>2, <1>3

(* What mysqld does by itself. *)
LEMMA MysqldType ==
    ASSUME MySQLTypeOK, NEW i \in Index,
           \/ ClientWrite(i) \/ Commit(i) \/ Receive(i) \/ Apply(i)
           \/ Crash(i) \/ Start(i) \/ Wipe(i) \/ ExternalWrite
           \/ LoadDump(i) \/ Unlock(i) \/ StrayWrite(i)
    PROVE  MySQLTypeOK'
<1>0. db[i] \in Instance /\ db \in [Index -> Instance]
  BY DEF MySQLTypeOK
<1>1. CASE ClientWrite(i)
  <2>1. NextTxn \in Txn
    BY <1>1, NextTxnInTxn DEF ClientWrite
  <2>2. /\ [db[i] EXCEPT !.wait = @ \cup {NextTxn}] \in Instance
        /\ [db[i] EXCEPT !.exec = @ \cup {NextTxn}] \in Instance
    BY <1>0, <2>1 DEF Instance
  <2>3. db' \in [Index -> Instance] /\ acked' \subseteq Txn
    BY <1>0, <1>1, <2>1, <2>2 DEF ClientWrite, MySQLTypeOK
  <2>4. uuid' \in [Txn -> Origins]
    BY <1>1 DEF ClientWrite, MySQLTypeOK, Origins
  <2> QED BY <1>1, <2>3, <2>4 DEF ClientWrite, MySQLTypeOK
<1>2. CASE Commit(i)
  <2>1. PICK t \in db[i].wait :
          /\ db' = [db EXCEPT ![i] = [db[i] EXCEPT !.wait = @ \ {t},
                                                   !.exec = @ \cup {t}]]
          /\ acked' = acked \cup {t}
          /\ acks' = [acks EXCEPT ![t] = {}]
    BY <1>2 DEF Commit
  <2>2. t \in Txn
    BY <1>0 DEF Instance
  <2>3. [db[i] EXCEPT !.wait = @ \ {t}, !.exec = @ \cup {t}] \in Instance
    BY <1>0, <2>2 DEF Instance
  <2>4. db' \in [Index -> Instance]
    BY <1>0, <2>1, <2>3
  <2>5. acked' \subseteq Txn /\ acks' \in [Txn -> SUBSET Index]
    BY <2>1, <2>2 DEF MySQLTypeOK
  <2> QED BY <1>2, <2>4, <2>5 DEF Commit, MySQLTypeOK
<1>3. CASE Receive(i)
  <2> DEFINE s == db[i].src
             t == Oldest(Stream(s) \ Has(i))
  <2>1. s \in Index \cup {External}
    BY <1>0, <1>3 DEF Receive, Connected, Instance, Source
  <2>2. Stream(s) \subseteq Txn
    <3>1. CASE s = External
      BY <3>1 DEF Stream, MySQLTypeOK
    <3>2. CASE s \in Index /\ s # External
      <4>1. db[s] \in Instance
        BY <1>0, <3>2
      <4> QED BY <3>2, <4>1 DEF Stream, Instance
    <3> QED BY <2>1, <3>1, <3>2
  <2>3. t \in Txn
    BY <1>3, <2>2, OldestInSet DEF Receive
  <2>4. /\ db' = [db EXCEPT ![i] = [db[i] EXCEPT !.relay = @ \cup {t}]]
        /\ acks' = acks \/ acks' = [acks EXCEPT ![t] = @ \cup {i}]
        /\ UNCHANGED <<uuid, ext, acked>>
    BY <1>3 DEF Receive
  <2> HIDE DEF t, s
  <2>5. [db[i] EXCEPT !.relay = @ \cup {t}] \in Instance
    BY <1>0, <2>3 DEF Instance
  <2>6. db' \in [Index -> Instance]
    BY <1>0, <2>4, <2>5
  <2>7. acks' \in [Txn -> SUBSET Index]
    BY <2>4, <2>3 DEF MySQLTypeOK
  <2> QED BY <2>4, <2>6, <2>7 DEF MySQLTypeOK
<1>4. CASE Apply(i)
  <2> DEFINE t == Oldest(db[i].relay)
  <2>1. t \in Txn
    BY <1>0, <1>4, OldestInSet DEF Apply, Instance
  <2>2. db' = [db EXCEPT ![i] = [db[i] EXCEPT !.relay = @ \ {t},
                                              !.exec = @ \cup {t}]]
    BY <1>4 DEF Apply
  <2> HIDE DEF t
  <2>3. [db[i] EXCEPT !.relay = @ \ {t}, !.exec = @ \cup {t}] \in Instance
    BY <1>0, <2>1 DEF Instance
  <2>4. UNCHANGED <<uuid, acks, ext, acked>>
    BY <1>4 DEF Apply
  <2> QED BY <2>2, <2>3, <2>4, UpdateType
<1>5. CASE Crash(i)
  BY <1>0, <1>5, StoppedType, UpdateType DEF Crash
<1>6. CASE Start(i)
  <2>1. [db[i] EXCEPT !.up = TRUE] \in Instance
    BY <1>0 DEF Instance
  <2> QED BY <1>6, <2>1, UpdateType DEF Start
<1>7. CASE Wipe(i)
  <2>1. [FreshInstance EXCEPT !.up = FALSE] \in Instance
    BY FreshType DEF Instance
  <2>2. db' \in [Index -> Instance]
    BY <1>0, <1>7, <2>1 DEF Wipe
  <2>3. uuid' \in [Txn -> Origins]
    BY <1>7 DEF Wipe, MySQLTypeOK, Origins
  <2> QED BY <1>7, <2>2, <2>3 DEF Wipe, MySQLTypeOK
<1>8. CASE ExternalWrite
  <2>1. NextTxn \in Txn
    BY <1>8, NextTxnInTxn DEF ExternalWrite
  <2> QED BY <1>8, <2>1 DEF ExternalWrite, MySQLTypeOK, Origins
<1>9. CASE LoadDump(i)
  <2>1. NextTxn \in Txn
    BY <1>9, NextTxnInTxn DEF LoadDump
  <2>2. [db[i] EXCEPT !.exec = {NextTxn}, !.purged = {NextTxn}] \in Instance
    BY <1>0, <2>1 DEF Instance
  <2>3. db' \in [Index -> Instance] /\ acked' \subseteq Txn
    BY <1>0, <1>9, <2>1, <2>2 DEF LoadDump, MySQLTypeOK
  <2>4. uuid' \in [Txn -> Origins]
    BY <1>9 DEF LoadDump, MySQLTypeOK, Origins
  <2> QED BY <1>9, <2>3, <2>4 DEF LoadDump, MySQLTypeOK
<1>10. CASE Unlock(i)
  <2>1. [db[i] EXCEPT !.ro = FALSE] \in Instance
    BY <1>0 DEF Instance
  <2> QED BY <1>10, <2>1, UpdateType DEF Unlock
<1>11. CASE StrayWrite(i)
  <2>1. NextTxn \in Txn
    BY <1>11, NextTxnInTxn DEF StrayWrite
  <2>2. [db[i] EXCEPT !.exec = @ \cup {NextTxn}] \in Instance
    BY <1>0, <2>1 DEF Instance
  <2>3. db' \in [Index -> Instance] /\ uuid' \in [Txn -> Origins]
    BY <1>0, <1>11, <2>2 DEF StrayWrite, MySQLTypeOK, Origins
  <2> QED BY <1>11, <2>3 DEF StrayWrite, MySQLTypeOK
<1> QED BY <1>1, <1>2, <1>3, <1>4, <1>5, <1>6, <1>7, <1>8, <1>9, <1>10,
           <1>11

-----------------------------------------------------------------------------
(* Where a pass can go *)

ConfDest == (ConfSteps \cup {"idle"}) \X SUBSET Index

RepSteps == {"repStop", "repKill", "repReadOnly", "repClone", "repPurged",
             "repChange", "repStart"}

(* The calls that configureReplica may begin with are steps of configure. *)
LEMMA ReplicaEntryType ==
    ASSUME NEW i
    PROVE  /\ SourceEntry(i) \in RepSteps \cup {"done"}
           /\ CloneEntry(i) \in RepSteps \cup {"done"}
           /\ ReplicaEntry(i) \in RepSteps \cup {"done"}
<1>1. SourceEntry(i) \in RepSteps \cup {"done"}
  BY DEF SourceEntry, RepSteps
<1>2. CloneEntry(i) \in RepSteps \cup {"done"}
  BY <1>1 DEF CloneEntry, RepSteps
<1> QED BY <1>1, <1>2 DEF ReplicaEntry, RepSteps

(* Every stage of configure leads to another one or to the end. *)
LEMMA ConfigureDestinations ==
    ASSUME PassTypeOK
    PROVE  /\ ToIdle \in ConfDest
           /\ ToWritable \in ConfDest
           /\ ToLabel \in ConfDest
           /\ \A rest \in SUBSET Index : ToReplica(rest) \in ConfDest
           /\ ToReplicas \in ConfDest
           /\ ToSemiSync \in ConfDest
           /\ ToPrimWait \in ConfDest
           /\ ToMidSource \in ConfDest
           /\ ToPrimary \in ConfDest
           /\ ToKill \in ConfDest
<1> USE DEF ConfDest, ConfSteps
<1>0. ss.primary \in Index /\ ss.known \subseteq Index
  BY DEF PassTypeOK, StatusSetType
<1>1. ToIdle \in ConfDest
  BY DEF ToIdle
<1>2. ToWritable \in ConfDest
  BY <1>0, <1>1 DEF ToWritable
<1>3. ToLabel \in ConfDest
  BY <1>0, <1>2 DEF ToLabel, Alive
<1>4. ASSUME NEW rest \in SUBSET Index PROVE ToReplica(rest) \in ConfDest
  <2> DEFINE work == {i \in rest : ReplicaEntry(i) # "done"}
             next == {i \in rest : \E j \in work : i >= j}
             silent == \E i \in rest \ (next \cup ss.errants) : ~Answers(i)
  <2>0. ToReplica(rest) = IF silent THEN ToIdle
                          ELSE IF work = {} THEN ToLabel
                          ELSE <<ReplicaEntry(LowestOrdinal(work)), next>>
    BY DEF ToReplica
  <2>1. CASE silent \/ work = {}
    <3> HIDE DEF work, next, silent
    <3> QED BY <1>1, <1>3, <2>0, <2>1
  <2>2. CASE ~silent /\ work # {}
    <3>1. work \subseteq Index /\ next \subseteq Index
      OBVIOUS
    <3>2. LowestOrdinal(work) \in work
      <4> HIDE DEF work
      <4> QED BY <2>2, <3>1, LowestOrdinalExists, IndexFacts
    <3>3. ReplicaEntry(LowestOrdinal(work)) \in RepSteps
      BY <3>2, ReplicaEntryType
    <3> HIDE DEF work, next, silent
    <3> QED BY <2>0, <2>2, <3>1, <3>3 DEF RepSteps
  <2> QED BY <2>1, <2>2
<1>5. ToReplicas \in ConfDest
  BY <1>0, <1>4 DEF ToReplicas
<1>6. ToSemiSync \in ConfDest
  BY <1>0, <1>5 DEF ToSemiSync
<1>7. ToPrimWait \in ConfDest
  BY <1>0, <1>6 DEF ToPrimWait
<1>8. ToMidSource \in ConfDest
  BY <1>0, <1>5 DEF ToMidSource
<1>9. ToPrimary \in ConfDest
  BY <1>0, <1>7, <1>8 DEF ToPrimary
<1>10. ToKill \in ConfDest
  BY <1>0, <1>9 DEF ToKill, Alive
<1> QED BY <1>1, <1>2, <1>3, <1>4, <1>5, <1>6, <1>7, <1>8, <1>9, <1>10

(* A step of configureReplica leads to a stage of configure. *)
LEMMA ContinueDestination ==
    ASSUME PassTypeOK, NEW step \in RepSteps \cup {"done"}
    PROVE  ContinueReplica(step) \in ConfDest
<1>1. todo \subseteq Index
  BY DEF PassTypeOK
<1>2. CASE step = "done"
  BY <1>1, <1>2, ConfigureDestinations DEF ContinueReplica
<1>3. CASE step \in RepSteps
  BY <1>1, <1>3 DEF ContinueReplica, ConfDest, ConfSteps, RepSteps
<1> QED BY <1>2, <1>3

-----------------------------------------------------------------------------
(* Moving on and ending a pass *)

(* What later steps read of the snapshot and Take keeps. *)
SameView ==
    /\ ss'.primary = ss.primary /\ ss'.errants = ss.errants
    /\ ss'.known = ss.known /\ ss'.st = ss.st /\ ss'.cand = ss.cand
    /\ ss'.roles = ss.roles /\ ss'.state = ss.state

(* The forgotten snapshot is a snapshot. *)
LEMMA NoStatusSetType == NoStatusSet \in StatusSetType
BY NAssumption DEF NoStatusSet, StatusSetType, Index, Roles, States,
    NilStatus, InstanceStatus, Source, CloneStates

(* The end of a pass keeps the types. *)
LEMMA IdleType == ASSUME Idle PROVE PassTypeOK'
BY NoStatusSetType DEF Idle, PassTypeOK, PassSteps

(* Going to a destination reaches it and changes nothing in the snapshot   *)
(* that the invariant looks at, unless the pass ends.                      *)
LEMMA TakeType ==
    ASSUME PassTypeOK, NEW dest \in PassSteps \X SUBSET Index, Take(dest)
    PROVE  /\ PassTypeOK'
           /\ pc' = dest[1] /\ todo' = dest[2]
           /\ pc' # "idle" => SameView
<1>1. /\ pc' = dest[1] /\ todo' = dest[2]
      /\ ss' = IF dest[1] = "idle" THEN NoStatusSet
               ELSE [ss EXCEPT !.ready = {}, !.switchPod = FALSE,
                               !.annotated = {}]
  BY DEF Take
<1>2. ss \in StatusSetType
  BY DEF PassTypeOK
<1>3. [ss EXCEPT !.ready = {}, !.switchPod = FALSE, !.annotated = {}]
        \in StatusSetType
  BY <1>2 DEF StatusSetType
<1>4. ss' \in StatusSetType
  BY <1>1, <1>3, NoStatusSetType
<1>5. pc' # "idle" => SameView
  BY <1>1, <1>2 DEF SameView, StatusSetType
<1> QED BY <1>1, <1>4, <1>5 DEF PassTypeOK

(* The stages of configure are destinations. *)
LEMMA ConfDestType == ConfDest \subseteq PassSteps \X SUBSET Index
BY DEF ConfDest, ConfSteps, PassSteps

(* A pass that ends keeps the invariant. *)
LEMMA IdleKeeps ==
    ASSUME PassInv, pc' = "idle", UNCHANGED <<primaryIdx, errantList, role>>
    PROVE  PassInv'
BY DEF PassInv, SnapshotInv, SwitchInv, SwitchPlanned, RaceInv, LabelInv,
    OnePrimaryLabel, ConfSteps

(* Within configure nothing is disturbed but the labels. *)
LEMMA ConfigureKeeps ==
    ASSUME PassTypeOK, PassInv, pc \in ConfSteps,
           NEW dest \in ConfDest, Take(dest),
           UNCHANGED <<primaryIdx, errantList, role>>
    PROVE  PassTypeOK' /\ PassInv'
<1>1. /\ PassTypeOK' /\ pc' = dest[1]
      /\ pc' # "idle" => SameView
  BY ConfDestType, TakeType
<1>2. pc' \in ConfSteps \cup {"idle"}
  BY <1>1 DEF ConfDest
<1>3. CASE pc' = "idle"
  BY <1>1, <1>3, IdleKeeps
<1>4. CASE pc' \in ConfSteps
  <2>1. SameView
    BY <1>1, <1>4 DEF ConfSteps
  <2>2. SnapshotInv'
    BY <1>4, <2>1 DEF PassInv, SnapshotInv, SameView, ConfSteps
  <2>3. SwitchInv' /\ RaceInv'
    BY <1>4 DEF SwitchInv, SwitchPlanned, RaceInv, ConfSteps
  <2>4. LabelInv'
    BY <1>4, <2>1 DEF PassInv, LabelInv, OnePrimaryLabel, SameView, ConfSteps
  <2> QED BY <1>1, <2>2, <2>3, <2>4 DEF PassInv
<1> QED BY <1>2, <1>3, <1>4

-----------------------------------------------------------------------------
(* The steps of a pass *)

Inv == TypeOK /\ PassInv

(* The types of the Kubernetes objects, when none of them changes. *)
LEMMA KubeFrame ==
    ASSUME KubeTypeOK, UNCHANGED <<kubeVars, cut>> PROVE KubeTypeOK'
BY DEF KubeTypeOK, kubeVars

(* The types of the instances, when none of them changes. *)
LEMMA MySQLFrame ==
    ASSUME MySQLTypeOK, UNCHANGED mysqlVars PROVE MySQLTypeOK'
BY DEF MySQLTypeOK, mysqlVars

(* The instance of a call is one of those that remain. *)
LEMMA CalleeType ==
    ASSUME PassTypeOK, todo # {} PROVE Callee \in todo /\ Callee \in Index
BY LowestOrdinalExists, IndexFacts DEF Callee, PassTypeOK

(* A call of configure that succeeds. *)
LEMMA CallKeeps ==
    ASSUME Inv, pc \in ConfSteps, MySQLTypeOK',
           NEW dest \in ConfDest, Take(dest), UNCHANGED Outside
    PROVE  Inv'
<1>1. PassTypeOK' /\ PassInv'
  BY ConfigureKeeps DEF Inv, TypeOK, Outside, kubeVars
<1>2. KubeTypeOK' /\ events' \in [Events -> Nat]
  BY KubeFrame DEF Inv, TypeOK, Outside
<1> QED BY <1>1, <1>2 DEF Inv, TypeOK

(* A pass that ends. *)
LEMMA EndKeeps ==
    ASSUME Inv, MySQLTypeOK', Idle, UNCHANGED Outside
    PROVE  Inv'
<1>1. PassTypeOK' /\ PassInv'
  BY IdleType, IdleKeeps DEF Inv, Idle, Outside, kubeVars
<1>2. KubeTypeOK' /\ events' \in [Events -> Nat]
  BY KubeFrame DEF Inv, TypeOK, Outside
<1> QED BY <1>1, <1>2 DEF Inv, TypeOK

(* The calls of configureIntermediatePrimary, of configurePrimary and the  *)
(* final SetReadOnly keep the invariant.                                   *)
LEMMA PrimaryCalls ==
    ASSUME Inv, \/ midReadOnly \/ midSource \/ midStart \/ primStop
                \/ primWait \/ primSemiSync \/ makeWritable
    PROVE  Inv'
<1> USE DEF Calling
<1>0. PassTypeOK /\ MySQLTypeOK
  BY DEF Inv, TypeOK
<1>1. CASE midReadOnly
  <2>1. MySQLTypeOK' /\ pc \in ConfSteps
    BY <1>0, <1>1, DbopType DEF midReadOnly, ConfSteps
  <2> QED BY <1>0, <1>1, <2>1, ConfigureDestinations, CallKeeps DEF midReadOnly
<1>2. CASE midSource
  <2>1. MySQLTypeOK' /\ pc \in ConfSteps
    BY <1>0, <1>2, ChangeSourceType DEF midSource, ConfSteps, Source
  <2>2. <<"midStart", todo>> \in ConfDest
    BY <1>0 DEF ConfDest, ConfSteps, PassTypeOK
  <2> QED BY <1>2, <2>1, <2>2, CallKeeps DEF midSource
<1>3. CASE midStart
  <2>1. MySQLTypeOK' /\ pc \in ConfSteps
    BY <1>0, <1>3, DbopType DEF midStart, ConfSteps
  <2> QED BY <1>0, <1>3, <2>1, ConfigureDestinations, CallKeeps DEF midStart
<1>4. CASE primStop
  <2>1. MySQLTypeOK' /\ pc \in ConfSteps
    BY <1>0, <1>4, DbopType DEF primStop, ConfSteps
  <2> QED BY <1>0, <1>4, <2>1, ConfigureDestinations, CallKeeps DEF primStop
<1>5. CASE primWait
  <2>1. MySQLTypeOK' /\ pc \in ConfSteps
    BY <1>0, <1>5, MySQLFrame DEF primWait, ConfSteps
  <2> QED BY <1>0, <1>5, <2>1, ConfigureDestinations, CallKeeps DEF primWait
<1>6. CASE primSemiSync
  <2>1. MySQLTypeOK' /\ pc \in ConfSteps
    BY <1>0, <1>6, DbopType DEF primSemiSync, ConfSteps
  <2> QED BY <1>0, <1>6, <2>1, ConfigureDestinations, CallKeeps DEF primSemiSync
<1>7. CASE makeWritable
  <2>1. MySQLTypeOK'
    BY <1>0, <1>7, DbopType DEF makeWritable
  <2> QED BY <1>7, <2>1, EndKeeps DEF makeWritable
<1> QED BY <1>1, <1>2, <1>3, <1>4, <1>5, <1>6, <1>7

(* The calls of configureReplica keep the invariant. *)
LEMMA ReplicaCalls ==
    ASSUME Inv, \/ repStop \/ repKill \/ repReadOnly \/ repClone
                \/ repPurged \/ repChange \/ repStart
    PROVE  Inv'
<1> USE DEF Calling
<1>0. PassTypeOK /\ MySQLTypeOK
  BY DEF Inv, TypeOK
<1>a. ss.primary \in Index /\ ss.source \in BOOLEAN
  BY <1>0 DEF PassTypeOK, StatusSetType
<1>b. /\ ContinueReplica("done") \in ConfDest
      /\ ContinueReplica("repReadOnly") \in ConfDest
      /\ ContinueReplica("repStart") \in ConfDest
      /\ ContinueReplica(CloneEntry(Callee)) \in ConfDest
      /\ ContinueReplica(SourceEntry(Callee)) \in ConfDest
  BY <1>0, ContinueDestination, ReplicaEntryType DEF RepSteps
<1>1. CASE repStop
  <2>1. MySQLTypeOK' /\ pc \in ConfSteps
    BY <1>0, <1>1, DbopType DEF repStop, ConfSteps
  <2> QED BY <1>b, <1>1, <2>1, CallKeeps DEF repStop
<1>2. CASE repKill
  <2>1. MySQLTypeOK' /\ pc \in ConfSteps
    BY <1>0, <1>2, DbopType DEF repKill, ConfSteps
  <2> QED BY <1>b, <1>2, <2>1, CallKeeps DEF repKill
<1>3. CASE repReadOnly
  <2>1. MySQLTypeOK' /\ pc \in ConfSteps
    BY <1>0, <1>3, DbopType DEF repReadOnly, ConfSteps
  <2> QED BY <1>b, <1>3, <2>1, CallKeeps DEF repReadOnly
<1>4. CASE repClone
  <2>1. MySQLTypeOK' /\ pc \in ConfSteps
    BY <1>0, <1>a, <1>4, CloneType DEF repClone, ConfSteps
  <2> QED BY <1>b, <1>4, <2>1, CallKeeps DEF repClone
<1>5. CASE repPurged
  BY <1>0, <1>5, MySQLFrame, EndKeeps DEF repPurged
<1>6. CASE repChange
  <2>1. MySQLTypeOK' /\ pc \in ConfSteps
    BY <1>0, <1>a, <1>6, ChangeSourceType DEF repChange, ConfSteps, Source
  <2> QED BY <1>b, <1>6, <2>1, CallKeeps DEF repChange
<1>7. CASE repStart
  <2>1. MySQLTypeOK' /\ pc \in ConfSteps
    BY <1>0, <1>7, DbopType DEF repStart, ConfSteps
  <2> QED BY <1>b, <1>7, <2>1, CallKeeps DEF repStart
<1> QED BY <1>1, <1>2, <1>3, <1>4, <1>5, <1>6, <1>7

(* removeRoleLabel: the turns that remain are the Pods still labelled. *)
LEMMA RemoveLabelKeeps == ASSUME Inv, removeRoleLabel PROVE Inv'
<1>0. PassTypeOK /\ MySQLTypeOK /\ KubeTypeOK /\ PassInv
  BY DEF Inv, TypeOK
<1>1. /\ pc = "unlabel"
      /\ role' = [role EXCEPT ![Callee] = ""]
      /\ UNCHANGED <<mysqlVars, primaryIdx, errantList, cloned, condition,
                     source, restoring, offline, pods, terminating, demote,
                     prevent, cut, events>>
  BY DEF removeRoleLabel, SetRole
<1>2. role \in [Index -> Roles]
  BY <1>0 DEF KubeTypeOK
<1>3. MySQLTypeOK' /\ KubeTypeOK' /\ events' \in [Events -> Nat]
  <2>1. role' \in [Index -> Roles]
    BY <1>1, <1>2 DEF Roles
  <2> QED BY <1>0, <1>1, <2>1, MySQLFrame DEF KubeTypeOK, Inv, TypeOK
<1>4. \A i \in Index : role'[i] = "primary" => role[i] = "primary" /\ i # Callee
  BY <1>1, <1>2
<1>5. CASE todo # {Callee}
  <2>1. todo' = todo \ {Callee} /\ UNCHANGED <<pc, ss>>
    BY <1>5 DEF removeRoleLabel, NextTurn
  <2>2. PassTypeOK'
    BY <1>0, <2>1 DEF PassTypeOK
  <2>3. SnapshotInv' /\ SwitchInv' /\ RaceInv'
    BY <1>0, <1>1, <2>1 DEF PassInv, SnapshotInv, SwitchInv, SwitchPlanned, RaceInv
  <2>4. LabelInv'
    BY <1>0, <1>1, <1>4, <2>1 DEF PassInv, LabelInv, OnePrimaryLabel, ConfSteps
  <2> QED BY <1>3, <2>2, <2>3, <2>4 DEF Inv, TypeOK, PassInv
<1>6. CASE todo = {Callee}
  <2>1. Take(ToKill)
    BY <1>6 DEF removeRoleLabel, NextTurn
  <2>2. ToKill \in ConfDest
    BY <1>0, ConfigureDestinations
  <2>3. /\ PassTypeOK' /\ pc' = ToKill[1]
        /\ pc' # "idle" => SameView
    BY <1>0, <2>1, <2>2, TakeType, ConfDestType
  <2>4. pc' \in ConfSteps \cup {"idle"}
    BY <2>2, <2>3 DEF ConfDest
  <2>5. SnapshotInv'
    BY <1>0, <1>1, <2>3, <2>4 DEF PassInv, SnapshotInv, SameView, ConfSteps
  <2>6. SwitchInv' /\ RaceInv'
    BY <2>4 DEF SwitchInv, SwitchPlanned, RaceInv, ConfSteps
  <2>7. LabelInv'
    BY <1>0, <1>1, <1>4, <1>6, <2>3, <2>4
       DEF PassInv, LabelInv, OnePrimaryLabel, SameView, ConfSteps
  <2> QED BY <1>3, <2>3, <2>5, <2>6, <2>7 DEF Inv, TypeOK, PassInv
<1> QED BY <1>5, <1>6

(* addRoleLabel: only the Pod of the primary gets the primary label, and   *)
(* no other Pod has it by then.                                            *)
LEMMA AddLabelKeeps == ASSUME Inv, addRoleLabel PROVE Inv'
<1>0. PassTypeOK /\ MySQLTypeOK /\ KubeTypeOK /\ PassInv
  BY DEF Inv, TypeOK
<1> DEFINE r == IF Callee = ss.primary THEN "primary" ELSE "replica"
<1>1. /\ pc = "label"
      /\ role' = [role EXCEPT ![Callee] = r]
      /\ UNCHANGED <<mysqlVars, primaryIdx, errantList, cloned, condition,
                     source, restoring, offline, pods, terminating, demote,
                     prevent, cut, events>>
  BY DEF addRoleLabel, SetRole
<1>2. role \in [Index -> Roles]
  BY <1>0 DEF KubeTypeOK
<1>3. MySQLTypeOK' /\ KubeTypeOK' /\ events' \in [Events -> Nat]
  <2>1. role' \in [Index -> Roles]
    BY <1>1, <1>2 DEF Roles
  <2> QED BY <1>0, <1>1, <2>1, MySQLFrame DEF KubeTypeOK, Inv, TypeOK
<1>4. \A i \in Index : role'[i] = "primary" => i = ss.primary
  BY <1>0, <1>1, <1>2 DEF PassInv, LabelInv, ConfSteps
<1>5. /\ PassTypeOK'
      /\ pc' \in ConfSteps \cup {"idle"}
      /\ pc' # "idle" => SameView
  <2>1. CASE todo # {Callee}
    <3>1. todo' = todo \ {Callee} /\ UNCHANGED <<pc, ss>>
      BY <2>1 DEF addRoleLabel, NextTurn
    <3> QED BY <1>0, <1>1, <3>1 DEF PassTypeOK, SameView, ConfSteps
  <2>2. CASE todo = {Callee}
    <3>1. Take(ToWritable)
      BY <2>2 DEF addRoleLabel, NextTurn
    <3>2. ToWritable \in ConfDest
      BY <1>0, ConfigureDestinations
    <3>3. /\ PassTypeOK' /\ pc' = ToWritable[1]
          /\ pc' # "idle" => SameView
      BY <1>0, <3>1, <3>2, TakeType, ConfDestType
    <3> QED BY <3>2, <3>3 DEF ConfDest
  <2> QED BY <2>1, <2>2
<1>6. SnapshotInv'
  BY <1>0, <1>1, <1>5 DEF PassInv, SnapshotInv, SameView, ConfSteps
<1>7. SwitchInv' /\ RaceInv'
  BY <1>5 DEF SwitchInv, SwitchPlanned, RaceInv, ConfSteps
<1>8. LabelInv'
  BY <1>4, <1>5 DEF LabelInv, OnePrimaryLabel, SameView, ConfSteps
<1> QED BY <1>3, <1>5, <1>6, <1>7, <1>8 DEF Inv, TypeOK, PassInv

(* KillConnections on the Pods whose role changes keeps the invariant. *)
LEMMA KillAliveKeeps == ASSUME Inv, killAlive PROVE Inv'
<1>0. PassTypeOK /\ MySQLTypeOK /\ KubeTypeOK /\ PassInv
  BY DEF Inv, TypeOK
<1>1. MySQLTypeOK' /\ pc = "kill" /\ UNCHANGED Outside
  BY <1>0, DbopType DEF killAlive, Calling
<1>2. CASE todo = {Callee}
  <2>1. Take(ToPrimary)
    BY <1>2 DEF killAlive, NextTurn
  <2> QED BY <1>0, <1>1, <2>1, ConfigureDestinations, CallKeeps DEF ConfSteps
<1>3. CASE todo # {Callee}
  <2>1. todo' = todo \ {Callee} /\ UNCHANGED <<pc, ss>>
    BY <1>3 DEF killAlive, NextTurn
  <2>2. PassTypeOK' /\ KubeTypeOK' /\ events' \in [Events -> Nat]
    BY <1>0, <1>1, <2>1, KubeFrame DEF PassTypeOK, Inv, TypeOK, Outside
  <2>3. PassInv'
    BY <1>0, <1>1, <2>1 DEF PassInv, SnapshotInv, SwitchInv, SwitchPlanned,
       RaceInv, LabelInv, OnePrimaryLabel, ConfSteps, Outside, kubeVars
  <2> QED BY <1>1, <2>2, <2>3 DEF Inv, TypeOK
<1> QED BY <1>2, <1>3

(* Every step of configure keeps the invariant. *)
LEMMA ConfigureStep == ASSUME Inv, Configure PROVE Inv'
BY PrimaryCalls, ReplicaCalls, RemoveLabelKeeps, AddLabelKeeps, KillAliveKeeps
   DEF Configure

-----------------------------------------------------------------------------
(* Gathering the status *)

(* A missing status is represented by a status. *)
LEMMA NilStatusType == NilStatus \in InstanceStatus
BY DEF NilStatus, InstanceStatus, Source, CloneStates

(* The errants are instances other than the primary. *)
LEMMA WithErrantsType ==
    ASSUME NEW s \in StatusSetType, s.primary \notin s.recorded
    PROVE  /\ WithErrants(s) \in StatusSetType
           /\ WithErrants(s).primary = s.primary
           /\ WithErrants(s).roles = s.roles
           /\ s.primary \notin WithErrants(s).errants
<1>1. s.known \subseteq Index /\ s.recorded \subseteq Index
  BY DEF StatusSetType
<1>2. /\ detectErrants(s, uuid) \subseteq Index
      /\ s.primary \notin detectErrants(s, uuid)
  BY <1>1 DEF detectErrants
<1> QED BY <1>2 DEF WithErrants, StatusSetType

(* Forgetting the hung replicas keeps everything else. *)
LEMMA WithoutHangupsType ==
    ASSUME NEW s \in StatusSetType
    PROVE  /\ WithoutHangups(s) \in StatusSetType
           /\ WithoutHangups(s).primary = s.primary
           /\ WithoutHangups(s).roles = s.roles
           /\ WithoutHangups(s).errants = s.errants
<1> DEFINE st == [i \in Index |-> IF i \in hangupReplicas(s) THEN NilStatus
                                                            ELSE s.st[i]]
           known == s.known \ hangupReplicas(s)
<1>1. st \in [Index -> InstanceStatus]
  BY NilStatusType DEF StatusSetType
<1>2. known \subseteq Index
  BY DEF StatusSetType
<1>3. WithoutHangups(s) = [s EXCEPT !.known = known, !.st = st]
  BY DEF WithoutHangups
<1> HIDE DEF st, known
<1> QED BY <1>1, <1>2, <1>3 DEF StatusSetType

(* The candidate with the lowest ordinal is a candidate. *)
LEMMA CandidatesType ==
    ASSUME NEW s \in StatusSetType, Candidates(s) # {}
    PROVE  LowestOrdinal(Candidates(s)) \in Candidates(s) \cap Index
<1>1. Candidates(s) \subseteq Index
  BY DEF Candidates, Replicas, degradedOk
<1> QED BY <1>1, LowestOrdinalExists, IndexFacts

(* The decision is typed, and when it allows a switchover the candidate    *)
(* follows the primary.                                                    *)
LEMMA DecidedType ==
    ASSUME NEW s \in StatusSetType
    PROVE  /\ Decided(s) \in StatusSetType
           /\ Decided(s).primary = s.primary
           /\ Decided(s).roles = s.roles
           /\ Decided(s).errants = s.errants
           /\ Decided(s).state \in {"Healthy", "Degraded"} /\ N > 1 =>
                 Decided(s).cand \in Index \ s.errants
<1> DEFINE cand == IF Candidates(s) # {} THEN LowestOrdinal(Candidates(s))
                   ELSE NoTopRunner
           state == DecideState(s)
<1>1. cand \in Index \cup {NoTopRunner}
  BY CandidatesType
<1>2. state \in States
  BY DEF DecideState, States
<1>3. Decided(s) = [s EXCEPT !.state = state, !.cand = cand]
  BY DEF Decided
<1>4. state \in {"Healthy", "Degraded"} /\ N > 1 => cand \in Index \ s.errants
  <2> SUFFICES ASSUME state \in {"Healthy", "Degraded"}, N > 1
               PROVE  cand \in Index \ s.errants
    OBVIOUS
  <2>1. OperationsHaveTheirTargets(s)
    BY OperationsHaveTargets DEF StatusSetType
  <2>2. /\ Candidates(s) # {}
        /\ \A i \in Candidates(s) : FollowsPrimary(s, i)
    BY <2>1 DEF OperationsHaveTheirTargets
  <2>3. cand \in Candidates(s) /\ cand \in Index
    BY <2>2, CandidatesType
  <2> QED BY <2>2, <2>3 DEF FollowsPrimary
<1> HIDE DEF cand, state
<1> QED BY <1>1, <1>2, <1>3, <1>4 DEF StatusSetType

(* The snapshot starts from what the MySQLCluster and the Pods say. *)
LEMMA GatherBeginKeeps == ASSUME Inv, GatherBegin PROVE Inv'
<1>0. PassTypeOK /\ MySQLTypeOK /\ KubeTypeOK /\ PassInv
  BY DEF Inv, TypeOK
<1>1. MySQLTypeOK' /\ KubeTypeOK' /\ events' \in [Events -> Nat]
  BY <1>0, KubeFrame, MySQLFrame DEF GatherBegin, Outside, Inv, TypeOK
<1>2. ss' \in StatusSetType
  <2> DEFINE switchPod == primaryIdx \in terminating \cup demote
             demoted == primaryIdx \in demote
  <2>1. switchPod \in BOOLEAN /\ demoted \in BOOLEAN
    OBVIOUS
  <2>2. ss' = [NoStatusSet EXCEPT
                 !.primary = primaryIdx, !.source = source, !.cloned = cloned,
                 !.restoring = restoring, !.offline = offline,
                 !.recorded = errantList, !.missing = Index \ pods,
                 !.roles = role, !.switchPod = switchPod, !.demoted = demoted,
                 !.annotated = prevent]
    BY DEF GatherBegin
  <2> HIDE DEF switchPod, demoted
  <2> QED BY <1>0, <2>1, <2>2, NoStatusSetType DEF KubeTypeOK, StatusSetType
<1>3. /\ ss'.primary = primaryIdx /\ ss'.recorded = errantList
      /\ ss'.roles = role /\ pc' = "gather" /\ todo' = Index
      /\ UNCHANGED <<primaryIdx, errantList, role>>
  BY DEF GatherBegin, NoStatusSet, Outside, kubeVars
<1>4. PassTypeOK'
  BY <1>2, <1>3 DEF PassTypeOK, PassSteps
<1>5. PassInv'
  BY <1>0, <1>3 DEF PassInv, SnapshotInv, SwitchInv, SwitchPlanned, RaceInv,
     LabelInv, OnePrimaryLabel, ConfSteps
<1> QED BY <1>1, <1>4, <1>5 DEF Inv, TypeOK

(* The answer of an instance only adds its status. *)
LEMMA ReadStatusKeeps ==
    ASSUME Inv, NEW i \in Index, ReadStatus(i) PROVE Inv'
<1>0. PassTypeOK /\ MySQLTypeOK /\ KubeTypeOK /\ PassInv
  BY DEF Inv, TypeOK
<1>1. MySQLTypeOK' /\ KubeTypeOK' /\ events' \in [Events -> Nat]
  BY <1>0, KubeFrame, MySQLFrame DEF ReadStatus, Outside, Inv, TypeOK
<1>2. ss \in StatusSetType /\ GetStatus(i) \in InstanceStatus
  BY <1>0, GetStatusType DEF PassTypeOK
<1>3. /\ ss' = ss \/ ss' = [ss EXCEPT !.known = @ \cup {i}, !.st[i] = GetStatus(i)]
      /\ pc = "gather" /\ pc' \in {"gather", "recheck"}
      /\ todo' = todo \ {i}
      /\ UNCHANGED <<primaryIdx, errantList, role>>
  BY DEF ReadStatus, Outside, kubeVars
<1>4. /\ ss' \in StatusSetType
      /\ ss'.primary = ss.primary /\ ss'.recorded = ss.recorded
      /\ ss'.roles = ss.roles
  <2>1. CASE ss' = ss
    BY <1>2, <2>1
  <2>2. CASE ss' = [ss EXCEPT !.known = @ \cup {i}, !.st[i] = GetStatus(i)]
    BY <1>2, <2>2 DEF StatusSetType
  <2> QED BY <1>3, <2>1, <2>2
<1>5. PassTypeOK'
  BY <1>0, <1>3, <1>4 DEF PassTypeOK, PassSteps
<1>6. PassInv'
  BY <1>0, <1>3, <1>4 DEF PassInv, SnapshotInv, SwitchInv, SwitchPlanned, RaceInv,
     LabelInv, OnePrimaryLabel, ConfSteps
<1> QED BY <1>1, <1>5, <1>6 DEF Inv, TypeOK

(* An event is counted with a natural number. *)
LEMMA HappensType ==
    ASSUME events \in [Events -> Nat], NEW e \in Events, Happens(e)
    PROVE  events' \in [Events -> Nat]
BY DEF Happens

(* The conclusion leaves a primary that is not errant and a candidate that *)
(* can take over.                                                          *)
LEMMA FinishGatherKeeps == ASSUME Inv, FinishGather PROVE Inv'
<1>0. PassTypeOK /\ MySQLTypeOK /\ KubeTypeOK /\ PassInv
  BY DEF Inv, TypeOK
<1> DEFINE seen == WithErrants(Rechecked)
<1>2. PICK ready \in SUBSET pods, delay \in BOOLEAN :
         /\ Seen(seen, ready, delay)
         /\ ss' = Decided([WithoutHangups(seen) EXCEPT !.ready = ready,
                                                       !.prevent = delay])
  BY DEF FinishGather
<1>1. MySQLTypeOK' /\ KubeTypeOK' /\ events' \in [Events -> Nat]
  <2>1. events' = events \/ \E e \in {"delay", "flaky"} : Happens(e)
    BY <1>2 DEF Seen
  <2>2. events' \in [Events -> Nat]
    BY <2>1, HappensType DEF Inv, TypeOK, Events
  <2> QED BY <1>0, <2>2, KubeFrame, MySQLFrame DEF FinishGather
<1>3. ready \subseteq Index
  BY <1>0, <1>2 DEF KubeTypeOK
<1>4. delay \in BOOLEAN
  OBVIOUS
<1>5. /\ Rechecked \in StatusSetType
      /\ Rechecked.primary = ss.primary
      /\ Rechecked.recorded = ss.recorded
      /\ Rechecked.roles = ss.roles
  <2>1. ss \in StatusSetType /\ ss.primary \in Index
    BY <1>0 DEF PassTypeOK, StatusSetType
  <2>2. GetStatus(ss.primary) \in InstanceStatus
    BY <1>0, <2>1, GetStatusType
  <2> QED BY <2>1, <2>2 DEF Rechecked, StatusSetType
<1>6. pc = "recheck" /\ ss.primary \notin ss.recorded
  BY <1>0 DEF FinishGather, PassInv, SnapshotInv
<1>7. /\ seen \in StatusSetType /\ seen.primary = ss.primary
      /\ seen.roles = ss.roles /\ ss.primary \notin seen.errants
  BY <1>5, <1>6, WithErrantsType
<1> HIDE DEF seen
<1> DEFINE hung == WithoutHangups(seen)
<1>8. /\ hung \in StatusSetType /\ hung.primary = ss.primary
      /\ hung.roles = ss.roles /\ ss.primary \notin hung.errants
  BY <1>7, WithoutHangupsType
<1> HIDE DEF hung
<1> DEFINE kept == [hung EXCEPT !.ready = ready, !.prevent = delay]
<1>9. /\ kept \in StatusSetType /\ kept.primary = ss.primary
      /\ kept.roles = ss.roles /\ ss.primary \notin kept.errants
  BY <1>3, <1>4, <1>8 DEF StatusSetType
<1>10. ss' = Decided(kept)
  BY <1>2 DEF hung
<1> HIDE DEF kept
<1>11. /\ ss' \in StatusSetType /\ ss'.primary = ss.primary
       /\ ss'.roles = ss.roles /\ ss'.primary \notin ss'.errants
       /\ ss'.state \in {"Healthy", "Degraded"} /\ N > 1 =>
             ss'.cand \in Index \ ss'.errants
  BY <1>9, <1>10, DecidedType
<1>12. /\ pc' = "update" /\ UNCHANGED todo
       /\ UNCHANGED <<primaryIdx, errantList, role>>
  BY DEF FinishGather, Outside, kubeVars
<1>13. PassTypeOK'
  BY <1>0, <1>11, <1>12 DEF PassTypeOK, PassSteps
<1>14. SnapshotInv' /\ SwitchInv' /\ RaceInv'
  BY <1>0, <1>6, <1>11, <1>12 DEF PassInv, SnapshotInv, SwitchInv,
     SwitchPlanned, RaceInv
<1>15. LabelInv'
  BY <1>0, <1>6, <1>11, <1>12 DEF PassInv, LabelInv, OnePrimaryLabel, ConfSteps
<1> QED BY <1>1, <1>13, <1>14, <1>15 DEF Inv, TypeOK, PassInv

(* Every step of GatherStatus keeps the invariant. *)
LEMMA GatherStep == ASSUME Inv, Gather PROVE Inv'
BY GatherBeginKeeps, ReadStatusKeeps, FinishGatherKeeps DEF Gather

-----------------------------------------------------------------------------
(* The report and the choice of the operation *)

(* What do() begins, and under which conclusion. *)
LEMMA OperationDestination ==
    ASSUME PassTypeOK
    PROVE  \/ ToOperation = ToIdle
           \/ ToOperation = <<"clone", {ss.primary}>>
           \/ ToOperation = <<"foStop", ss.known \ {ss.primary}>>
           \/ ToOperation = <<"unlabel", StaleLabels>>
           \/ /\ ToOperation = <<"swReadOnly", {ss.primary}>>
              /\ ss.state \in {"Healthy", "Degraded"} /\ N > 1
           \/ ToOperation \in ConfDest /\ StaleLabels = {}
<1>1. \/ ToConfigure = <<"unlabel", StaleLabels>>
      \/ ToConfigure \in ConfDest /\ StaleLabels = {}
  BY ConfigureDestinations DEF ToConfigure
<1>2. CASE Switching
  BY <1>2 DEF ToOperation, Switching, Cloneable
<1>3. CASE ~Switching
  BY <1>1, <1>3 DEF ToOperation
<1> QED BY <1>2, <1>3

(* The errants reported are those of the snapshot. *)
LEMMA UpdateStatusKeeps == ASSUME Inv, updateStatus PROVE Inv'
<1>0. PassTypeOK /\ MySQLTypeOK /\ KubeTypeOK /\ PassInv
  BY DEF Inv, TypeOK
<1> DEFINE c == cloned \/ (source /\ ss.state # "Cloning")
<1>1. /\ pc = "update" /\ pc' = "annotate" /\ errantList' = ss.errants
      /\ condition' = ss.state /\ cloned' = c
      /\ UNCHANGED <<mysqlVars, primaryIdx, source, restoring, offline, pods,
                     terminating, role, demote, prevent, cut, todo, ss, events>>
  BY DEF updateStatus
<1>2. c \in BOOLEAN
  BY <1>0 DEF KubeTypeOK
<1> HIDE DEF c
<1>3. ss.errants \subseteq Index /\ ss.state \in States
  BY <1>0 DEF PassTypeOK, StatusSetType
<1>4. MySQLTypeOK' /\ KubeTypeOK' /\ events' \in [Events -> Nat]
  BY <1>0, <1>1, <1>2, <1>3, MySQLFrame DEF KubeTypeOK, Inv, TypeOK
<1>5. PassTypeOK'
  BY <1>0, <1>1 DEF PassTypeOK, PassSteps
<1>6. SnapshotInv' /\ SwitchInv' /\ RaceInv'
  BY <1>0, <1>1 DEF PassInv, SnapshotInv, SwitchInv, SwitchPlanned, RaceInv
<1>7. LabelInv'
  BY <1>0, <1>1 DEF PassInv, LabelInv, OnePrimaryLabel, ConfSteps
<1> QED BY <1>4, <1>5, <1>6, <1>7 DEF Inv, TypeOK, PassInv

(* The operation that follows from the state is entered with what the      *)
(* invariant demands of it.                                                *)
LEMMA AnnotateKeeps == ASSUME Inv, annotate PROVE Inv'
<1>0. PassTypeOK /\ MySQLTypeOK /\ KubeTypeOK /\ PassInv
  BY DEF Inv, TypeOK
<1>1. /\ pc = "annotate" /\ Take(ToOperation)
      /\ prevent' = IF ss.prevent THEN prevent \cup Patched ELSE prevent \ Patched
      /\ UNCHANGED <<mysqlVars, primaryIdx, errantList, cloned, condition,
                     source, restoring, offline, pods, terminating, role,
                     demote, cut, events>>
  BY DEF annotate
<1>2. /\ ss.primary \in Index /\ ss.known \subseteq Index
      /\ ss.annotated \subseteq Index
  BY <1>0 DEF PassTypeOK, StatusSetType
<1>3. prevent' \subseteq Index
  BY <1>0, <1>1, <1>2 DEF Patched, KubeTypeOK
<1>4. MySQLTypeOK' /\ KubeTypeOK' /\ events' \in [Events -> Nat]
  BY <1>0, <1>1, <1>3, MySQLFrame DEF KubeTypeOK, Inv, TypeOK
<1>5. ToOperation \in PassSteps \X SUBSET Index
  <2>1. StaleLabels \subseteq Index
    BY DEF StaleLabels
  <2> QED BY <1>0, <1>2, <2>1, OperationDestination, ConfDestType
         DEF PassSteps, ToIdle
<1>6. /\ PassTypeOK' /\ pc' = ToOperation[1] /\ todo' = ToOperation[2]
      /\ pc' # "idle" => SameView
  BY <1>0, <1>1, <1>5, TakeType
<1>a. /\ primaryIdx' = primaryIdx /\ errantList' = errantList
      /\ role' = role /\ ss.primary = primaryIdx
      /\ errantList = ss.errants /\ primaryIdx \notin errantList
  BY <1>0, <1>1 DEF PassInv, SnapshotInv
<1>b. pc' \notin {"gather", "recheck", "update", "annotate", "foRecheck",
                  "foCompare", "foTop", "foWait", "foIndex", "swKill",
                  "swStatus", "swWait", "swIndex", "swDemote", "panic"}
  BY <1>0, <1>6, OperationDestination DEF ConfDest, ConfSteps, ToIdle
<1>7. SnapshotInv'
  BY <1>6, <1>a, <1>b DEF SnapshotInv, SameView
<1>8. RaceInv'
  BY <1>b DEF RaceInv
<1>9. SwitchInv'
  <2> SUFFICES ASSUME pc' = "swReadOnly" PROVE (ss.cand \in Index \ ss.errants)'
    BY <1>b DEF SwitchInv, SwitchPlanned
  <2>1. ss.state \in {"Healthy", "Degraded"} /\ N > 1
    BY <1>0, <1>6, OperationDestination DEF ConfDest, ConfSteps, ToIdle
  <2>2. ss.cand \in Index \ ss.errants
    BY <1>0, <1>1, <2>1 DEF PassInv, SwitchInv, SwitchPlanned
  <2> QED BY <1>6, <2>2 DEF SameView
<1>10. LabelInv'
  <2>1. \A i \in Index : role[i] = "primary" => i = ss.primary \/ i \in StaleLabels
    BY <1>0, <1>1 DEF PassInv, LabelInv, StaleLabels
  <2>2. pc' = "unlabel" => todo' = StaleLabels
    <3>1. ToOperation[1] = "unlabel" => ToOperation[2] = StaleLabels
      BY <1>0, OperationDestination DEF ConfDest, ConfSteps, ToIdle
    <3> QED BY <1>6, <3>1
  <2>3. pc' \in ConfSteps => StaleLabels = {}
    BY <1>0, <1>6, OperationDestination DEF ConfDest, ConfSteps, ToIdle
  <2>4. OnePrimaryLabel'
    BY <1>0, <1>a DEF PassInv, LabelInv, OnePrimaryLabel
  <2>5. pc' \in ConfSteps \cup {"unlabel"} => ss'.primary = ss.primary
    BY <1>6 DEF SameView, ConfSteps
  <2> QED BY <1>a, <1>b, <2>1, <2>2, <2>3, <2>4, <2>5 DEF LabelInv
<1> QED BY <1>4, <1>6, <1>7, <1>8, <1>9, <1>10 DEF Inv, TypeOK, PassInv

(* A Pod that cannot be annotated ends the pass or the process. *)
LEMMA AnnotateStopsKeeps == ASSUME Inv, annotateStops PROVE Inv'
<1>0. PassTypeOK /\ MySQLTypeOK /\ KubeTypeOK /\ PassInv
  BY DEF Inv, TypeOK
<1>1. /\ prevent' \subseteq prevent
      /\ UNCHANGED <<mysqlVars, primaryIdx, errantList, cloned, condition,
                     source, restoring, offline, pods, terminating, role,
                     demote, cut, events>>
      /\ \/ pc' = "panic" /\ UNCHANGED <<todo, ss>>
         \/ Idle
  BY DEF annotateStops
<1>2. MySQLTypeOK' /\ KubeTypeOK' /\ events' \in [Events -> Nat]
  BY <1>0, <1>1, MySQLFrame DEF KubeTypeOK, Inv, TypeOK
<1>3. CASE Idle
  BY <1>0, <1>1, <1>2, <1>3, IdleType, IdleKeeps DEF Idle, Inv, TypeOK
<1>4. CASE pc' = "panic" /\ UNCHANGED <<todo, ss>>
  <2>1. PassTypeOK'
    BY <1>0, <1>4 DEF PassTypeOK, PassSteps
  <2>2. PassInv'
    BY <1>0, <1>1, <1>4 DEF PassInv, SnapshotInv, SwitchInv, SwitchPlanned,
       RaceInv, LabelInv, OnePrimaryLabel, ConfSteps
  <2> QED BY <1>2, <2>1, <2>2 DEF Inv, TypeOK
<1> QED BY <1>1, <1>3, <1>4

(* Every step between the conclusion and the operation keeps the           *)
(* invariant.                                                              *)
LEMMA ReportStep == ASSUME Inv, Report PROVE Inv'
<1>1. CASE ControllerRestart
  BY <1>1, MySQLFrame, EndKeeps DEF ControllerRestart, Inv, TypeOK
<1> QED BY <1>1, UpdateStatusKeeps, AnnotateKeeps, AnnotateStopsKeeps DEF Report

-----------------------------------------------------------------------------
(* clone and switchover *)

(* Both steps of clone keep the invariant. *)
LEMMA CloneStep == ASSUME Inv, Clone PROVE Inv'
<1>0. PassTypeOK /\ MySQLTypeOK /\ KubeTypeOK /\ PassInv
  BY DEF Inv, TypeOK
<1>1. CASE cloneBegin
  <2>1. /\ pc = "clone" /\ pc' = "cloneWait" /\ UNCHANGED <<todo, ss, Outside>>
        /\ MySQLTypeOK'
    BY <1>0, <1>1, DbopType DEF cloneBegin, Calling
  <2>2. PassTypeOK' /\ KubeTypeOK' /\ events' \in [Events -> Nat]
    BY <1>0, <2>1, KubeFrame DEF PassTypeOK, PassSteps, Outside, Inv, TypeOK
  <2>3. PassInv'
    BY <1>0, <2>1 DEF PassInv, SnapshotInv, SwitchInv, SwitchPlanned,
       RaceInv, LabelInv, OnePrimaryLabel, ConfSteps, Outside, kubeVars
  <2> QED BY <2>1, <2>2, <2>3 DEF Inv, TypeOK
<1>2. CASE cloneEnd
  BY <1>0, <1>2, MySQLFrame, EndKeeps DEF cloneEnd
<1> QED BY <1>1, <1>2 DEF Clone

SwitchSteps == {"swReadOnly", "swKill", "swStatus", "swWait", "swIndex"}

(* A call of switchover that succeeds. *)
LEMMA SwitchCallKeeps ==
    ASSUME Inv, pc \in SwitchSteps, MySQLTypeOK', UNCHANGED Outside,
           NEW d \in SwitchSteps \X SUBSET Index, Take(d)
    PROVE  Inv'
<1>0. PassTypeOK /\ MySQLTypeOK /\ KubeTypeOK /\ PassInv
  BY DEF Inv, TypeOK
<1>1. /\ PassTypeOK' /\ pc' = d[1]
      /\ pc' # "idle" => SameView
  BY <1>0, TakeType DEF SwitchSteps, PassSteps
<1>2. pc' \in SwitchSteps
  BY <1>1
<1>3. SameView
  BY <1>1, <1>2 DEF SwitchSteps
<1>4. KubeTypeOK' /\ events' \in [Events -> Nat]
  BY <1>0, KubeFrame DEF Outside, Inv, TypeOK
<1>5. PassInv'
  BY <1>0, <1>2, <1>3 DEF PassInv, SnapshotInv, SwitchInv, SwitchPlanned, RaceInv,
     LabelInv, OnePrimaryLabel, ConfSteps, SwitchSteps, SameView, Outside, kubeVars
<1> QED BY <1>1, <1>4, <1>5 DEF Inv, TypeOK

(* A switchover records a primary that is not errant. *)
LEMMA SwitchIndexKeeps == ASSUME Inv, swIndex PROVE Inv'
<1>0. PassTypeOK /\ MySQLTypeOK /\ KubeTypeOK /\ PassInv
  BY DEF Inv, TypeOK
<1> DEFINE d == IF ss.demoted THEN <<"swDemote", {}>> ELSE ToIdle
<1>1. /\ pc = "swIndex" /\ primaryIdx' = ss.cand /\ Take(d)
      /\ UNCHANGED <<mysqlVars, errantList, cloned, condition, source,
                     restoring, offline, pods, terminating, role, demote,
                     prevent, cut, events>>
  BY DEF swIndex
<1>2. ss.cand \in Index \ ss.errants
  BY <1>0, <1>1 DEF PassInv, SwitchInv, SwitchPlanned
<1>3. MySQLTypeOK' /\ KubeTypeOK' /\ events' \in [Events -> Nat]
  BY <1>0, <1>1, <1>2, MySQLFrame DEF KubeTypeOK, Inv, TypeOK
<1>4. d \in PassSteps \X SUBSET Index
  BY DEF PassSteps, ToIdle
<1>5. d[1] \in {"swDemote", "idle"}
  BY DEF ToIdle
<1> HIDE DEF d
<1>6. /\ PassTypeOK' /\ pc' \in {"swDemote", "idle"}
      /\ pc' # "idle" => SameView
  BY <1>0, <1>1, <1>4, <1>5, TakeType
<1>7. SnapshotInv'
  BY <1>0, <1>1, <1>2, <1>6 DEF PassInv, SnapshotInv, SameView
<1>8. SwitchInv' /\ RaceInv'
  BY <1>6 DEF SwitchInv, SwitchPlanned, RaceInv
<1>9. LabelInv'
  BY <1>0, <1>1, <1>6 DEF PassInv, LabelInv, OnePrimaryLabel, ConfSteps
<1> QED BY <1>3, <1>6, <1>7, <1>8, <1>9 DEF Inv, TypeOK, PassInv

(* Every step of switchover keeps the invariant. *)
LEMMA SwitchoverStep == ASSUME Inv, Switchover PROVE Inv'
<1> USE DEF Calling
<1>0. PassTypeOK /\ MySQLTypeOK /\ KubeTypeOK /\ PassInv
  BY DEF Inv, TypeOK
<1>a. /\ <<"swKill", todo>> \in SwitchSteps \X SUBSET Index
      /\ <<"swStatus", todo>> \in SwitchSteps \X SUBSET Index
      /\ <<"swIndex", {}>> \in SwitchSteps \X SUBSET Index
  BY <1>0 DEF PassTypeOK, SwitchSteps
<1>1. CASE swReadOnly
  <2>1. MySQLTypeOK' /\ pc \in SwitchSteps
    BY <1>0, <1>1, DbopType DEF swReadOnly, SwitchSteps
  <2> QED BY <1>a, <1>1, <2>1, SwitchCallKeeps DEF swReadOnly
<1>2. CASE swReadOnlySlow
  <2>1. MySQLTypeOK' /\ UNCHANGED <<passVars, Outside>>
    BY <1>0, <1>2, DbopType DEF swReadOnlySlow
  <2>2. KubeTypeOK' /\ PassTypeOK' /\ events' \in [Events -> Nat]
    BY <1>0, <2>1, KubeFrame DEF Outside, passVars, PassTypeOK, Inv, TypeOK
  <2>3. PassInv'
    BY <1>0, <2>1 DEF PassInv, SnapshotInv, SwitchInv, SwitchPlanned, RaceInv,
       LabelInv, OnePrimaryLabel, Runners, Outside, kubeVars, passVars
  <2> QED BY <2>1, <2>2, <2>3 DEF Inv, TypeOK
<1>3. CASE swKill
  <2>1. MySQLTypeOK' /\ pc \in SwitchSteps
    BY <1>0, <1>3, DbopType DEF swKill, SwitchSteps
  <2> QED BY <1>a, <1>3, <2>1, SwitchCallKeeps DEF swKill
<1>4. CASE swStatus
  <2>1. /\ pc = "swStatus" /\ pc' = "swWait" /\ todo' = {ss.cand}
        /\ ss' = [ss EXCEPT !.goal = db[ss.primary].exec]
        /\ UNCHANGED <<mysqlVars, Outside>>
    BY <1>4 DEF swStatus
  <2>2. ss \in StatusSetType /\ ss.primary \in Index /\ ss.cand \in Index
    BY <1>0, <2>1 DEF PassTypeOK, StatusSetType, PassInv, SwitchInv, SwitchPlanned
  <2>3. db[ss.primary].exec \subseteq Txn
    BY <1>0, <2>2 DEF MySQLTypeOK, Instance
  <2>4. ss' \in StatusSetType /\ SameView
    BY <2>1, <2>2, <2>3 DEF StatusSetType, SameView
  <2>5. PassTypeOK'
    BY <2>1, <2>2, <2>4 DEF PassTypeOK, PassSteps
  <2>6. MySQLTypeOK' /\ KubeTypeOK' /\ events' \in [Events -> Nat]
    BY <1>0, <2>1, KubeFrame, MySQLFrame DEF Outside, Inv, TypeOK
  <2>7. PassInv'
    BY <1>0, <2>1, <2>4 DEF PassInv, SnapshotInv, SwitchInv, SwitchPlanned, RaceInv,
       LabelInv, OnePrimaryLabel, ConfSteps, SameView, Outside, kubeVars
  <2> QED BY <2>5, <2>6, <2>7 DEF Inv, TypeOK
<1>5. CASE swWait
  <2>1. MySQLTypeOK' /\ pc \in SwitchSteps
    BY <1>0, <1>5, MySQLFrame DEF swWait, SwitchSteps
  <2> QED BY <1>a, <1>5, <2>1, SwitchCallKeeps DEF swWait
<1>6. CASE swIndex
  BY <1>6, SwitchIndexKeeps
<1>7. CASE swDemote
  <2>1. MySQLTypeOK' /\ KubeTypeOK' /\ events' \in [Events -> Nat]
    BY <1>0, <1>7, MySQLFrame DEF swDemote, KubeTypeOK, Inv, TypeOK
  <2>2. PassTypeOK' /\ PassInv'
    BY <1>0, <1>7, IdleType, IdleKeeps DEF swDemote, Idle
  <2> QED BY <2>1, <2>2 DEF Inv, TypeOK
<1> QED BY <1>1, <1>2, <1>3, <1>4, <1>5, <1>6, <1>7 DEF Switchover

-----------------------------------------------------------------------------
(* failover *)

(* The compared instances are instances of the cluster. *)
LEMMA RunnersType ==
    ASSUME PassTypeOK PROVE Runners \subseteq Index
BY DEF Runners, PassTypeOK, StatusSetType

(* Stopping the IO threads keeps the invariant. *)
LEMMA FailoverStopKeeps == ASSUME Inv, foStop PROVE Inv'
<1>0. PassTypeOK /\ MySQLTypeOK /\ KubeTypeOK /\ PassInv
  BY DEF Inv, TypeOK
<1>1. /\ pc = "foStop" /\ NextTurn(<<"foRecheck", Runners>>)
      /\ UNCHANGED Outside /\ MySQLTypeOK'
  BY <1>0, DbopType DEF foStop, Calling
<1>2. KubeTypeOK' /\ events' \in [Events -> Nat]
  BY <1>0, <1>1, KubeFrame DEF Outside, Inv, TypeOK
<1>3. /\ PassTypeOK' /\ SameView
      /\ \/ pc' = "foStop"
         \/ pc' = "foRecheck" /\ todo' = Runners
  <2>1. CASE todo = {Callee}
    <3>1. Take(<<"foRecheck", Runners>>)
      BY <1>1, <2>1 DEF NextTurn
    <3>2. <<"foRecheck", Runners>> \in PassSteps \X SUBSET Index
      BY <1>0, RunnersType DEF PassSteps
    <3> QED BY <1>0, <3>1, <3>2, TakeType
  <2>2. CASE todo # {Callee}
    BY <1>0, <1>1, <2>2 DEF NextTurn, PassTypeOK, SameView
  <2> QED BY <2>1, <2>2
<1>4. SnapshotInv' /\ SwitchInv'
  BY <1>0, <1>1, <1>3 DEF PassInv, SnapshotInv, SwitchInv, SwitchPlanned, SameView,
     Outside, kubeVars
<1>5. RaceInv'
  BY <1>3 DEF RaceInv, Runners, SameView
<1>6. LabelInv'
  BY <1>0, <1>1, <1>3 DEF PassInv, LabelInv, OnePrimaryLabel, ConfSteps,
     Outside, kubeVars
<1> QED BY <1>1, <1>2, <1>3, <1>4, <1>5, <1>6 DEF Inv, TypeOK, PassInv

(* The comparison starts with every runner still to be looked at. *)
LEMMA FailoverRecheckKeeps == ASSUME Inv, foRecheck PROVE Inv'
<1>0. PassTypeOK /\ MySQLTypeOK /\ KubeTypeOK /\ PassInv
  BY DEF Inv, TypeOK
<1>1. /\ pc = "foRecheck" /\ Callee \in Index
      /\ ss' = [ss EXCEPT !.st[Callee] = GetStatus(Callee), !.cand = NoTopRunner]
      /\ \/ todo = {Callee} /\ todo' = Runners /\ pc' = "foCompare"
         \/ todo # {Callee} /\ todo' = todo \ {Callee} /\ pc' = pc
      /\ UNCHANGED <<mysqlVars, Outside>>
  BY <1>0 DEF foRecheck, Calling, Answers, Reachable, KubeTypeOK
<1>2. MySQLTypeOK' /\ KubeTypeOK' /\ events' \in [Events -> Nat]
  BY <1>0, <1>1, KubeFrame, MySQLFrame DEF Outside, Inv, TypeOK
<1>3. ss \in StatusSetType /\ GetStatus(Callee) \in InstanceStatus
  BY <1>0, <1>1, GetStatusType DEF PassTypeOK
<1>4. /\ ss' \in StatusSetType
      /\ ss'.primary = ss.primary /\ ss'.errants = ss.errants
      /\ ss'.known = ss.known /\ ss'.cand = NoTopRunner
  BY <1>1, <1>3 DEF StatusSetType
<1>5. PassTypeOK'
  BY <1>0, <1>1, <1>4, RunnersType DEF PassTypeOK, PassSteps
<1>6. Runners' = Runners
  BY <1>4 DEF Runners
<1>7. SnapshotInv' /\ SwitchInv'
  BY <1>0, <1>1, <1>4 DEF PassInv, SnapshotInv, SwitchInv, SwitchPlanned,
     Outside, kubeVars
<1>8. RaceInv'
  <2>1. todo \subseteq Runners
    BY <1>0, <1>1 DEF PassInv, RaceInv
  <2> QED BY <1>1, <1>4, <1>6, <2>1 DEF RaceInv
<1>9. LabelInv'
  BY <1>0, <1>1 DEF PassInv, LabelInv, OnePrimaryLabel, ConfSteps,
     Outside, kubeVars
<1> QED BY <1>2, <1>5, <1>7, <1>8, <1>9 DEF Inv, TypeOK, PassInv

(* One turn of FindTopRunner: the leader is ahead of all that were looked  *)
(* at, because the sets it is compared with contain it or are contained.   *)
LEMMA TopRunnerTurn ==
    ASSUME NEW R, NEW st, NEW T, NEW i \in R, NEW latest \in R \cup {NoTopRunner},
           latest # NoTopRunner /\ InTheRace(st[i]) =>
               Comparable(st[i], st[latest]),
           \A j \in R : InTheRace(st[j]) /\ j \notin T =>
               latest # NoTopRunner /\ Gtids(st[j]) \subseteq Gtids(st[latest]),
           NoTopRunner \notin R
    PROVE  /\ topRunner(latest, i, st) \in R \cup {NoTopRunner}
           /\ \A j \in R : InTheRace(st[j]) /\ j \notin T \ {i} =>
                 /\ topRunner(latest, i, st) # NoTopRunner
                 /\ Gtids(st[j]) \subseteq Gtids(st[topRunner(latest, i, st)])
<1>1. CASE ~InTheRace(st[i])
  BY <1>1 DEF topRunner
<1>2. CASE InTheRace(st[i]) /\ latest = NoTopRunner
  BY <1>2 DEF topRunner
<1>3. CASE InTheRace(st[i]) /\ latest # NoTopRunner
  <2>1. CASE Gtids(st[i]) \subseteq Gtids(st[latest])
    BY <1>3, <2>1 DEF topRunner
  <2>2. CASE ~(Gtids(st[i]) \subseteq Gtids(st[latest]))
    <3>1. Gtids(st[latest]) \subseteq Gtids(st[i])
      BY <1>3, <2>2 DEF Comparable
    <3>2. topRunner(latest, i, st) = i
      BY <1>3, <2>2 DEF topRunner
    <3> QED BY <3>1, <3>2
  <2> QED BY <2>1, <2>2
<1> QED BY <1>1, <1>2, <1>3

(* A turn of FindTopRunner leaves the leader ahead of all that were looked *)
(* at.                                                                     *)
LEMMA FailoverCompareKeeps == ASSUME Inv, foCompare PROVE Inv'
<1>0. PassTypeOK /\ MySQLTypeOK /\ KubeTypeOK /\ PassInv
  BY DEF Inv, TypeOK
<1> DEFINE top == topRunner(ss.cand, Callee, ss.st)
<1>1. /\ pc = "foCompare"
      /\ Comparing => Comparable(ss.st[Callee], ss.st[ss.cand])
      /\ ss' = [ss EXCEPT !.cand = top]
      /\ todo' = todo \ {Callee}
      /\ \/ todo = {Callee} /\ pc' = "foTop"
         \/ todo # {Callee} /\ pc' = pc
      /\ UNCHANGED <<mysqlVars, Outside>>
  BY DEF foCompare
<1>2. MySQLTypeOK' /\ KubeTypeOK' /\ events' \in [Events -> Nat]
  BY <1>0, <1>1, KubeFrame, MySQLFrame DEF Outside, Inv, TypeOK
<1>3. todo \subseteq Runners /\ todo # {} /\ Callee \in todo
  BY <1>0, <1>1, CalleeType DEF PassInv, RaceInv
<1>4. Runners \subseteq Index /\ NoTopRunner \notin Runners
  BY <1>0, RunnersType, IndexFacts DEF NoTopRunner
<1>5. /\ ss.cand \in Runners \cup {NoTopRunner}
      /\ \A i \in Runners : InTheRace(ss.st[i]) /\ i \notin todo =>
            /\ ss.cand # NoTopRunner
            /\ Gtids(ss.st[i]) \subseteq Gtids(ss.st[ss.cand])
  BY <1>0, <1>1 DEF PassInv, RaceInv
<1>6. /\ top \in Runners \cup {NoTopRunner}
      /\ \A i \in Runners : InTheRace(ss.st[i]) /\ i \notin todo \ {Callee} =>
            top # NoTopRunner /\ Gtids(ss.st[i]) \subseteq Gtids(ss.st[top])
  BY <1>1, <1>3, <1>4, <1>5, TopRunnerTurn DEF Comparing
<1> HIDE DEF top
<1>7. /\ ss' \in StatusSetType
      /\ ss'.primary = ss.primary /\ ss'.errants = ss.errants
      /\ ss'.known = ss.known /\ ss'.cand = top /\ ss'.st = ss.st
  BY <1>0, <1>1, <1>4, <1>6 DEF PassTypeOK, StatusSetType
<1>8. PassTypeOK'
  BY <1>0, <1>1, <1>7 DEF PassTypeOK, PassSteps
<1>9. Runners' = Runners
  BY <1>7 DEF Runners
<1>10. SnapshotInv' /\ SwitchInv'
  BY <1>0, <1>1, <1>7 DEF PassInv, SnapshotInv, SwitchInv, SwitchPlanned,
     Outside, kubeVars
<1>11. RaceInv'
  <2>1. CASE todo # {Callee} /\ pc' = "foCompare"
    BY <1>1, <1>3, <1>6, <1>7, <1>9, <2>1 DEF RaceInv
  <2>2. CASE todo = {Callee} /\ pc' = "foTop"
    BY <1>1, <1>6, <1>7, <1>9, <2>2 DEF RaceInv
  <2> QED BY <1>1, <2>1, <2>2
<1>12. LabelInv'
  BY <1>0, <1>1 DEF PassInv, LabelInv, OnePrimaryLabel, ConfSteps,
     Outside, kubeVars
<1> QED BY <1>2, <1>8, <1>10, <1>11, <1>12 DEF Inv, TypeOK, PassInv

(* A failover records a primary that is not errant. *)
LEMMA FailoverIndexKeeps == ASSUME Inv, foIndex PROVE Inv'
<1>0. PassTypeOK /\ MySQLTypeOK /\ KubeTypeOK /\ PassInv
  BY DEF Inv, TypeOK
<1>1. /\ pc = "foIndex" /\ primaryIdx' = ss.cand /\ Idle
      /\ UNCHANGED <<mysqlVars, errantList, cloned, condition, source,
                     restoring, offline, pods, terminating, role, demote,
                     prevent, cut, events>>
  BY DEF foIndex
<1>2. ss.cand \in Runners
  BY <1>0, <1>1 DEF PassInv, RaceInv
<1>3. ss.cand \in Index /\ ss.cand \notin errantList
  BY <1>0, <1>1, <1>2, RunnersType DEF Runners, PassInv, SnapshotInv
<1>4. MySQLTypeOK' /\ KubeTypeOK' /\ events' \in [Events -> Nat]
  BY <1>0, <1>1, <1>3, MySQLFrame DEF KubeTypeOK, Inv, TypeOK
<1>5. PassTypeOK'
  BY <1>1, IdleType
<1>6. PassInv'
  BY <1>0, <1>1, <1>3 DEF Idle, PassInv, SnapshotInv, SwitchInv, SwitchPlanned,
     RaceInv, LabelInv, OnePrimaryLabel, ConfSteps
<1> QED BY <1>4, <1>5, <1>6 DEF Inv, TypeOK

(* Every step of failover keeps the invariant. *)
LEMMA FailoverStep == ASSUME Inv, Failover PROVE Inv'
<1>0. PassTypeOK /\ MySQLTypeOK /\ KubeTypeOK /\ PassInv
  BY DEF Inv, TypeOK
<1>1. CASE foTop
  <2>1. /\ pc = "foTop" /\ ss.cand # NoTopRunner /\ pc' = "foWait"
        /\ todo' = {ss.cand} /\ ss' = [ss EXCEPT !.goal = ss.st[ss.cand].retrieved]
        /\ UNCHANGED <<mysqlVars, Outside>>
    BY <1>1 DEF foTop
  <2>2. ss \in StatusSetType /\ ss.cand \in Index
    BY <1>0, <2>1, RunnersType DEF PassTypeOK, PassInv, RaceInv
  <2>3. ss.st[ss.cand].retrieved \subseteq Txn
    BY <2>2 DEF StatusSetType, InstanceStatus
  <2>4. ss' \in StatusSetType /\ SameView
    BY <2>1, <2>2, <2>3 DEF StatusSetType, SameView
  <2>5. PassTypeOK'
    BY <2>1, <2>2, <2>4 DEF PassTypeOK, PassSteps
  <2>6. MySQLTypeOK' /\ KubeTypeOK' /\ events' \in [Events -> Nat]
    BY <1>0, <2>1, KubeFrame, MySQLFrame DEF Outside, Inv, TypeOK
  <2>7. SnapshotInv' /\ SwitchInv' /\ RaceInv'
    BY <1>0, <2>1, <2>4 DEF PassInv, SnapshotInv, SwitchInv, SwitchPlanned,
       RaceInv, Runners, SameView, Outside, kubeVars
  <2>8. LabelInv'
    BY <1>0, <2>1 DEF PassInv, LabelInv, OnePrimaryLabel, ConfSteps,
       Outside, kubeVars
  <2> QED BY <2>5, <2>6, <2>7, <2>8 DEF Inv, TypeOK, PassInv
<1>2. CASE foGiveUp
  BY <1>0, <1>2, MySQLFrame, EndKeeps DEF foGiveUp
<1>3. CASE foWait
  <2>1. /\ pc = "foWait" /\ Take(<<"foIndex", {}>>)
        /\ UNCHANGED <<mysqlVars, Outside>>
    BY <1>3 DEF foWait, Calling
  <2>2. PassTypeOK' /\ pc' = "foIndex" /\ SameView
    BY <1>0, <2>1, TakeType DEF PassSteps
  <2>3. MySQLTypeOK' /\ KubeTypeOK' /\ events' \in [Events -> Nat]
    BY <1>0, <2>1, KubeFrame, MySQLFrame DEF Outside, Inv, TypeOK
  <2>4. SnapshotInv' /\ SwitchInv' /\ RaceInv'
    BY <1>0, <2>1, <2>2 DEF PassInv, SnapshotInv, SwitchInv, SwitchPlanned,
       RaceInv, Runners, SameView, Outside, kubeVars
  <2>5. LabelInv'
    BY <1>0, <2>1, <2>2 DEF PassInv, LabelInv, OnePrimaryLabel, ConfSteps,
       Outside, kubeVars
  <2> QED BY <2>2, <2>3, <2>4, <2>5 DEF Inv, TypeOK, PassInv
<1> QED BY <1>1, <1>2, <1>3, FailoverStopKeeps, FailoverRecheckKeeps,
           FailoverCompareKeeps, FailoverIndexKeeps DEF Failover

-----------------------------------------------------------------------------
(* Failures and the environment *)

(* A call that fails or times out, and an interrupted pass, keep the       *)
(* invariant.                                                              *)
LEMMA FailureStep ==
    ASSUME Inv, CallFails \/ CallTimesOut \/ Abort PROVE Inv'
<1>0. MySQLTypeOK /\ KubeTypeOK /\ PassInv /\ events \in [Events -> Nat]
  BY DEF Inv, TypeOK
<1>1. CASE CallFails
  BY <1>0, <1>1, MySQLFrame, EndKeeps DEF CallFails
<1>2. CASE CallTimesOut
  BY <1>0, <1>2, MySQLFrame, EndKeeps DEF CallTimesOut
<1>3. CASE Abort
  <2>1. Idle /\ UNCHANGED <<mysqlVars, kubeVars, cut>> /\ Happens("abort")
    BY <1>3 DEF Abort
  <2>2. MySQLTypeOK' /\ KubeTypeOK' /\ events' \in [Events -> Nat]
    BY <1>0, <2>1, MySQLFrame, KubeFrame, HappensType DEF Events
  <2>3. PassTypeOK' /\ PassInv'
    BY <1>0, <2>1, IdleType, IdleKeeps DEF Idle, kubeVars
  <2> QED BY <2>2, <2>3 DEF Inv, TypeOK
<1> QED BY <1>1, <1>2, <1>3

(* The invariant of a pass depends on what only passes change. *)
LEMMA PassFrame ==
    ASSUME PassTypeOK, PassInv,
           UNCHANGED <<passVars, primaryIdx, errantList, role>>
    PROVE  PassTypeOK' /\ PassInv'
<1>1. PassTypeOK'
  BY DEF PassTypeOK, passVars
<1>2. PassInv'
  BY DEF PassInv, SnapshotInv, SwitchInv, SwitchPlanned, RaceInv,
     LabelInv, OnePrimaryLabel, Runners, passVars
<1> QED BY <1>1, <1>2

(* What mysqld does by itself, and what happens to it, keeps the           *)
(* invariant.                                                              *)
LEMMA MysqldKeeps ==
    ASSUME Inv, NEW i \in Index,
           SourceWrites \/ Mysqld(i) \/ InstanceCrash(i) \/ InstanceStart(i)
             \/ InstanceUnlocked(i) \/ InstanceDiverges(i) \/ VolumeLost(i)
    PROVE  Inv'
<1>0. PassTypeOK /\ MySQLTypeOK /\ KubeTypeOK /\ PassInv /\ events \in [Events -> Nat]
  BY DEF Inv, TypeOK
<1>1. MySQLTypeOK'
  BY <1>0, MysqldType, CloneType DEF SourceWrites, Mysqld, Writes, Commits,
     Receives, Applies, EndsClone, FailsClone, InstanceCrash, InstanceStart,
     InstanceUnlocked, InstanceDiverges, VolumeLost
<1>2. UNCHANGED <<passVars, kubeVars, cut>>
  BY DEF SourceWrites, Mysqld, Writes, Commits, Receives, Applies, EndsClone,
     FailsClone, InstanceCrash, InstanceStart, InstanceUnlocked,
     InstanceDiverges, VolumeLost, Outside
<1>3. events' \in [Events -> Nat]
  <2>1. \/ events' = events
        \/ \E e \in {"write", "external", "crash", "midcrash", "clonefail",
                   "wipe", "unlock", "stray"} : Happens(e)
    BY DEF SourceWrites, Mysqld, Writes, Commits, Receives, Applies, EndsClone,
       FailsClone, InstanceCrash, InstanceStart, InstanceUnlocked,
     InstanceDiverges, VolumeLost, Outside
  <2> QED BY <1>0, <2>1, HappensType DEF Events
<1>4. PassTypeOK' /\ PassInv' /\ KubeTypeOK'
  BY <1>0, <1>2, PassFrame, KubeFrame DEF kubeVars
<1> QED BY <1>1, <1>3, <1>4 DEF Inv, TypeOK

(* Requests of the user, lost connections and Pods that come keep the      *)
(* invariant.                                                              *)
LEMMA ClusterKeeps ==
    ASSUME Inv, \/ RequestDemote \/ RemoveSource \/ SetOffline
                \/ \E i \in Index : \/ ConnectionLost(i) \/ ConnectionBack(i)
                                    \/ PodTerminate(i) \/ PodCreate(i)
    PROVE  Inv'
<1>0. PassTypeOK /\ MySQLTypeOK /\ KubeTypeOK /\ PassInv /\ events \in [Events -> Nat]
  BY DEF Inv, TypeOK
<1> USE DEF RequestDemote, RemoveSource, SetOffline, ConnectionLost,
            ConnectionBack, PodTerminate, PodCreate
<1>1. UNCHANGED <<mysqlVars, passVars, primaryIdx, errantList, role>>
  BY DEF kubeVars
<1>2. KubeTypeOK'
  BY <1>0 DEF KubeTypeOK, kubeVars
<1>3. events' \in [Events -> Nat]
  <2>1. \/ events' = events
        \/ \E e \in {"demote", "late", "promote", "offline", "cut", "delete"} : Happens(e)
    OBVIOUS
  <2> QED BY <1>0, <2>1, HappensType DEF Events
<1> QED BY <1>0, <1>1, <1>2, <1>3, MySQLFrame, PassFrame DEF Inv, TypeOK

(* The restore Job keeps the invariant. *)
LEMMA RestoreKeeps == ASSUME Inv, Restore PROVE Inv'
<1>0. PassTypeOK /\ MySQLTypeOK /\ KubeTypeOK /\ PassInv /\ events \in [Events -> Nat]
  BY DEF Inv, TypeOK
<1>1. MySQLTypeOK'
  <2>1. 0 \in Index
    BY NAssumption DEF Index
  <2> QED BY <1>0, <2>1, MysqldType DEF Restore
<1>2. KubeTypeOK'
  BY <1>0 DEF KubeTypeOK, Restore
<1>3. PassTypeOK' /\ PassInv'
  BY <1>0, PassFrame DEF Restore
<1> QED BY <1>0, <1>1, <1>2, <1>3 DEF Inv, TypeOK, Restore

(* A Pod that goes takes its labels with it, which the invariant allows at *)
(* every point of a pass.                                                  *)
LEMMA PodGoneKeeps == ASSUME Inv, NEW i \in Index, PodGone(i) PROVE Inv'
<1>0. PassTypeOK /\ MySQLTypeOK /\ KubeTypeOK /\ PassInv /\ events \in [Events -> Nat]
  BY DEF Inv, TypeOK
<1> DEFINE inst == IF db[i].up THEN Stopped(db[i]) ELSE db[i]
<1>1. /\ db' = [db EXCEPT ![i] = inst]
      /\ pods' = pods \ {i}
      /\ terminating' = terminating \ {i}
      /\ role' = [role EXCEPT ![i] = ""]
      /\ demote' = demote \ {i}
      /\ prevent' = prevent \ {i}
      /\ ss' = ss \/ ss' = [ss EXCEPT !.gone = @ \cup {i}]
      /\ UNCHANGED <<uuid, acks, ext, acked, primaryIdx, errantList, cloned,
                     condition, source, restoring, offline, cut, pc, todo,
                     events>>
  BY DEF PodGone
<1>2. inst \in Instance
  BY <1>0, StoppedType DEF MySQLTypeOK
<1> HIDE DEF inst
<1>3. MySQLTypeOK'
  BY <1>0, <1>1, <1>2 DEF MySQLTypeOK
<1>4. role' \in [Index -> Roles]
  BY <1>0, <1>1 DEF KubeTypeOK, Roles
<1>5. KubeTypeOK'
  BY <1>0, <1>1, <1>4 DEF KubeTypeOK
<1>6. ss' \in StatusSetType /\ SameView /\ ss'.recorded = ss.recorded
  <2>1. ss \in StatusSetType
    BY <1>0 DEF PassTypeOK
  <2>2. CASE ss' = ss
    BY <2>1, <2>2 DEF SameView
  <2>3. CASE ss' = [ss EXCEPT !.gone = @ \cup {i}]
    BY <2>1, <2>3 DEF SameView, StatusSetType
  <2> QED BY <1>1, <2>2, <2>3
<1>7. PassTypeOK'
  BY <1>0, <1>1, <1>6 DEF PassTypeOK
<1>8. SnapshotInv' /\ SwitchInv' /\ RaceInv'
  BY <1>0, <1>1, <1>6 DEF PassInv, SnapshotInv, SwitchInv, SwitchPlanned,
     RaceInv, Runners, SameView
<1>9. LabelInv'
  <2>1. \A j \in Index : role'[j] = "primary" => role[j] = "primary"
    BY <1>0, <1>1 DEF KubeTypeOK
  <2> QED BY <1>0, <1>1, <1>6, <2>1 DEF PassInv, LabelInv, OnePrimaryLabel, SameView
<1> QED BY <1>0, <1>1, <1>3, <1>5, <1>7, <1>8, <1>9 DEF Inv, TypeOK, PassInv

(* Every step outside of the controller keeps the invariant. *)
LEMMA EnvironmentStep == ASSUME Inv, Environment PROVE Inv'
<1>1. 0 \in Index
  BY NAssumption DEF Index
<1> QED BY <1>1, MysqldKeeps, ClusterKeeps, RestoreKeeps, PodGoneKeeps
       DEF Environment

-----------------------------------------------------------------------------
(* The theorems *)

(* The invariant holds at first. *)
LEMMA InitInv == Init => Inv
<1> SUFFICES ASSUME Init PROVE Inv
  OBVIOUS
<1>0. /\ StartReplicating \/ StartFresh
      /\ source \in BOOLEAN /\ restoring \in BOOLEAN
      /\ events \in [Events -> Nat]
  BY ClusteringAssumption DEF Init
<1>1. 0 \in Index
  BY NAssumption DEF Index
<1>2. Seeds \subseteq Txn
  BY ClusteringAssumption
<1>3. MySQLTypeOK
  <2>1. \A i \in Index : ReplicatingInstance(i) \in Instance
    <3> SUFFICES ASSUME NEW i \in Index PROVE ReplicatingInstance(i) \in Instance
      OBVIOUS
    <3> DEFINE several == N > 1
    <3>1. several \in BOOLEAN
      OBVIOUS
    <3>2. ReplicatingInstance(i) =
            IF i = 0
            THEN [FreshInstance EXCEPT !.exec = Seeds, !.ro = FALSE, !.ssM = several]
            ELSE [FreshInstance EXCEPT !.exec = Seeds, !.src = 0, !.io = TRUE,
                                       !.sql = TRUE, !.ssS = TRUE]
      BY DEF ReplicatingInstance
    <3> HIDE DEF several
    <3>3. /\ [FreshInstance EXCEPT !.exec = Seeds, !.ro = FALSE, !.ssM = several]
               \in Instance
          /\ [FreshInstance EXCEPT !.exec = Seeds, !.src = 0, !.io = TRUE,
                                   !.sql = TRUE, !.ssS = TRUE] \in Instance
      BY <1>1, <1>2, <3>1, FreshType DEF Instance, Source
    <3> QED BY <3>2, <3>3
  <2>2. db \in [Index -> Instance]
    BY <2>1, <1>0, FreshType DEF StartReplicating, StartFresh
  <2>3. uuid \in [Txn -> Origins] /\ acked \subseteq Txn
    BY <1>0, <1>1, <1>2 DEF StartReplicating, StartFresh, Origins
  <2> QED BY <2>2, <2>3 DEF Init, MySQLTypeOK
<1>4. KubeTypeOK
  <2>1. role \in [Index -> Roles]
    BY <1>0 DEF StartReplicating, StartFresh, Roles
  <2> QED BY <1>0, <1>1, <2>1 DEF Init, KubeTypeOK, States
<1>5. PassTypeOK
  BY NoStatusSetType DEF Init, PassTypeOK, PassSteps
<1>6. OnePrimaryLabel
  <2>1. \A i \in Index : role[i] = "primary" => i = 0
    <3>1. CASE StartReplicating
      BY <3>1 DEF StartReplicating
    <3>2. CASE StartFresh
      BY <3>2 DEF StartFresh
    <3> QED BY <1>0, <3>1, <3>2
  <2> QED BY <2>1 DEF OnePrimaryLabel
<1>7. PassInv
  BY <1>1, <1>6 DEF Init, PassInv, SnapshotInv, SwitchInv, SwitchPlanned, RaceInv,
     LabelInv, ConfSteps
<1> QED BY <1>0, <1>3, <1>4, <1>5, <1>7 DEF Inv, TypeOK

(* The invariant is inductive: one step per part of the next-state         *)
(* relation.                                                               *)
LEMMA NextInv == Inv /\ [Next]_vars => Inv'
<1> SUFFICES ASSUME Inv, [Next]_vars PROVE Inv'
  OBVIOUS
<1>1. CASE Pass
  BY <1>1, GatherStep, ReportStep, CloneStep, SwitchoverStep, FailoverStep,
     ConfigureStep, FailureStep DEF Pass
<1>2. CASE CallTimesOut \/ Abort
  BY <1>2, FailureStep
<1>3. CASE Environment
  BY <1>3, EnvironmentStep
<1>4. CASE UNCHANGED vars
  <2>1. UNCHANGED <<mysqlVars, kubeVars, cut, passVars, events>>
    BY <1>4 DEF vars
  <2>2. MySQLTypeOK' /\ KubeTypeOK' /\ PassTypeOK' /\ PassInv'
    BY <2>1, MySQLFrame, KubeFrame, PassFrame DEF Inv, TypeOK, kubeVars
  <2> QED BY <2>1, <2>2 DEF Inv, TypeOK
<1> QED BY <1>1, <1>2, <1>3, <1>4 DEF Next

(* The inductive invariant. *)
THEOREM Invariance == Spec => []Inv
BY InitInv, NextInv, PTL DEF Spec

(* Every variable keeps its type, the pass and its snapshot included. *)
THEOREM TypeCorrect == Spec => []TypeOK
<1>1. Inv => TypeOK
  BY DEF Inv
<1> QED BY <1>1, Invariance, PTL

(* However passes are cut short and failures, requests and Pod deletions   *)
(* interleave with them, the recorded primary is never one of the recorded *)
(* errant replicas.                                                        *)
THEOREM PrimaryNeverErrant == Spec => []PrimaryNotErrant
<1>1. Inv => PrimaryNotErrant
  BY DEF Inv, PassInv, SnapshotInv, PrimaryNotErrant
<1> QED BY <1>1, Invariance, PTL

(* Two Pods never carry the primary label at the same time. *)
THEOREM OnePrimary == Spec => []OnePrimaryLabel
<1>1. Inv => OnePrimaryLabel
  BY DEF Inv, PassInv, LabelInv
<1> QED BY <1>1, Invariance, PTL

(* The instance that a failover waits for and records is ahead of all      *)
(* instances that it compared.                                             *)
THEOREM FailoverTop == Spec => []TopRunnerIsTop
<1>1. Inv => TopRunnerIsTop
  BY DEF Inv, PassInv, RaceInv, TopRunnerIsTop
<1> QED BY <1>1, Invariance, PTL

(* Every conclusion that a pass acts on is sound for its operations. *)
THEOREM Conclusions == Spec => []ConclusionSound
<1>1. Inv => ConclusionSound
  <2> SUFFICES ASSUME Inv PROVE ConclusionSound
    OBVIOUS
  <2>1. ss.primary \in Index
    BY DEF Inv, TypeOK, PassTypeOK, StatusSetType
  <2> QED BY <2>1, FailedMeetsQuorums, OperationsHaveTargets DEF ConclusionSound
<1> QED BY <1>1, Invariance, PTL

=============================================================================
