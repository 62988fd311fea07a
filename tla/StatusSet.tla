------------------------------ MODULE StatusSet ------------------------------
(***************************************************************************)
(* The decision procedure of MOCO's clustering loop: what the controller   *)
(* concludes from one observation of a MySQLCluster                        *)
(* (clustering/status.go) and how a failover picks the next primary        *)
(* (pkg/dbop/gtid.go).  Everything here is a pure operator; Clustering     *)
(* makes the observations and acts on the conclusions.                     *)
(*                                                                         *)
(* A GTID set is a set of transactions; the empty string is {}.  Only the  *)
(* UUID part of a GTID matters besides its identity, and is given by a     *)
(* function from transactions to the instance that created them.           *)
(***************************************************************************)
EXTENDS Integers, FiniteSets

CONSTANTS
    N,      \* spec.replicas of the MySQLCluster
    Txn     \* the transactions (GTIDs) of the instance, a set of integers

(* The webhook admits positive odd numbers of replicas. *)
ASSUME NAssumption == N \in Nat \ {0} /\ N % 2 = 1
ASSUME TxnAssumption == Txn \subseteq Nat /\ Txn # {}

Index == 0 .. (N - 1)   \* the ordinals of the Pods
NoSource == -1          \* SHOW REPLICA STATUS returns no row (ReplicaStatus = nil)
External == N           \* the mysqld named by spec.replicationSourceSecretName
Source == Index \cup {NoSource, External}

CloneStates == {"none", "in progress", "failed", "completed"}

(* dbop.MySQLInstanceStatus: the fields the clustering code reads.         *)
(* super_read_only and read_only always agree, because mysqld starts with  *)
(* super_read_only=1 and SetReadOnly changes both.  `retrieved` is the     *)
(* part of Retrieved_Gtid_Set that is not executed yet; `hosts` are the    *)
(* instances of the cluster that SHOW REPLICAS lists.                      *)
InstanceStatus ==
    [exec: SUBSET Txn, retrieved: SUBSET Txn, purged: SUBSET Txn,
     ro: BOOLEAN, src: Source, io: BOOLEAN, ssM: BOOLEAN, ssS: BOOLEAN,
     waiting: BOOLEAN, hosts: SUBSET Index, clone: CloneStates]

NilStatus ==
    [exec |-> {}, retrieved |-> {}, purged |-> {},
     ro |-> TRUE, src |-> NoSource, io |-> FALSE, ssM |-> FALSE, ssS |-> FALSE,
     waiting |-> FALSE, hosts |-> {}, clone |-> "none"]

States == {"Undecided", "Incomplete", "Healthy", "Cloning", "Restoring",
           "Degraded", "Failed", "Lost", "Offline"}

NoTopRunner == -1       \* no leader yet; at the end of FindTopRunner, ErrNoTopRunner

Roles == {"", "primary", "replica"}

(* StatusSet.  `known` are the indexes whose MySQLStatus is not nil,       *)
(* `missing` those whose Pod pointer is nil; source, cloned, restoring,    *)
(* offline and recorded come from the MySQLCluster, roles, ready,          *)
(* annotated (prevent-delete), switchPod and demoted from the Pods.  cand  *)
(* is the next primary, goal the GTID set WaitForGTID is called with; gone *)
(* are the Pods whose address, resolved once, is no longer theirs.         *)
StatusSetType ==
    [primary: Index, source: BOOLEAN, cloned: BOOLEAN, restoring: BOOLEAN,
     offline: BOOLEAN, recorded: SUBSET Index, missing: SUBSET Index,
     roles: [Index -> Roles], switchPod: BOOLEAN, demoted: BOOLEAN,
     annotated: SUBSET Index,
     gone: SUBSET Index, ready: SUBSET Index, known: SUBSET Index, st: [Index -> InstanceStatus],
     errants: SUBSET Index, prevent: BOOLEAN, cand: Index \cup {NoTopRunner}, goal: SUBSET Txn,
     state: States]

Replicas(ss) == Index \ {ss.primary}
Pst(ss) == ss.st[ss.primary]
PstKnown(ss) == ss.primary \in ss.known

(* ss.ExecutedGTID: empty unless the primary answered the re-check. *)
ExecutedGTID(ss) == IF PstKnown(ss) THEN Pst(ss).exec ELSE {}

-----------------------------------------------------------------------------
(* Errant transactions *)

(* Fault: the GTIDs of the primary's own UUID count as well. *)
containErrantTransactions_OwnUUID(primary, diff, uuid) == diff # {}

(* The GTIDs of the primary's own UUID are ignored: a replica may be ahead *)
(* of gtid_executed on a busy primary.                                     *)
containErrantTransactions(primary, diff, uuid) ==
    \E t \in diff : uuid[t] # primary

(* Without an executed set to compare with, the errant replicas are those  *)
(* recorded in the MySQLCluster.                                           *)
detectErrants(ss, uuid) ==
    IF ExecutedGTID(ss) # {}
    THEN {i \in ss.known \ {ss.primary} :
            containErrantTransactions(ss.primary,
                ss.st[i].exec \ ExecutedGTID(ss), uuid)}
    ELSE ss.recorded

(* A non-primary instance with sessions waiting for a semi-sync ack is     *)
(* treated as if it had not answered.                                      *)
hangupReplicas(ss) == {i \in ss.known \ {ss.primary} : ss.st[i].waiting}

-----------------------------------------------------------------------------
(* The predicates of DecideState *)

replicasInCluster(hosts) == Cardinality(hosts \cap Index)

lostData(ss) ==
    /\ ExecutedGTID(ss) = {}
    /\ \E i \in ss.known \ {ss.primary} : ss.st[i].exec # {}

isOffline(ss) == ss.offline

isCloning(ss) ==
    /\ ss.source
    /\ ~ss.cloned
    /\ \/ ~PstKnown(ss)
       \/ Pst(ss).clone \notin {"none", "completed"}
       \/ Pst(ss).clone = "none" /\ Pst(ss).exec = {}

isRestoring(ss) == ss.restoring

(* Fault: every primary must be writable, an intermediate one too. *)
primaryModeOk_Writable(ss) == ~Pst(ss).ro

(* An intermediate primary must be read-only, any other one writable. *)
primaryModeOk(ss) == Pst(ss).ro = ss.source

(* Fault: errant replicas are accepted. *)
FollowsPrimary_Errant(ss, i) ==
    i \in ss.known /\ ss.st[i].ro /\ ss.st[i].src = ss.primary

FollowsPrimary(ss, i) ==
    /\ i \in ss.known
    /\ i \notin ss.errants
    /\ ss.st[i].ro
    /\ ss.st[i].src = ss.primary

isHealthy(ss) ==
    /\ ss.ready = Index
    /\ \A i \in Replicas(ss) : FollowsPrimary(ss, i)
    /\ PstKnown(ss)
    /\ replicasInCluster(Pst(ss).hosts) = N - 1
    /\ primaryModeOk(ss)

(* The replicas that isDegraded counts; they are also ss.Candidates. *)
degradedOk(ss) ==
    {i \in Replicas(ss) : i \in ss.ready /\ FollowsPrimary(ss, i)}

isDegraded(ss) ==
    /\ ss.primary \in ss.ready
    /\ ~lostData(ss)
    /\ PstKnown(ss)
    /\ primaryModeOk(ss)
    /\ replicasInCluster(Pst(ss).hosts) >= N \div 2
    /\ Cardinality(degradedOk(ss)) >= N \div 2
    /\ Cardinality(degradedOk(ss)) # N - 1

PrimaryGone(ss) == ~PstKnown(ss) \/ lostData(ss)

(* The replicas that isFailed and isLost count. *)
failedOk(ss) ==
    {i \in Replicas(ss) : /\ i \in ss.known
                          /\ ss.st[i].src # NoSource
                          /\ i \notin ss.errants
                          /\ ss.st[i].exec # {}}

(* Faults: off by one in either direction. *)
isFailed_TooEager(ss) == PrimaryGone(ss) /\ Cardinality(failedOk(ss)) >= N \div 2
isFailed_TooShy(ss) == PrimaryGone(ss) /\ Cardinality(failedOk(ss)) > N \div 2 + 1

isFailed(ss) == PrimaryGone(ss) /\ Cardinality(failedOk(ss)) > N \div 2

isLost(ss) == PrimaryGone(ss) /\ Cardinality(failedOk(ss)) <= N \div 2

DecideState(ss) ==
    IF isOffline(ss) THEN "Offline"
    ELSE IF isCloning(ss) THEN "Cloning"
    ELSE IF isRestoring(ss) THEN "Restoring"
    ELSE IF isHealthy(ss) THEN "Healthy"
    ELSE IF isDegraded(ss) THEN "Degraded"
    ELSE IF isFailed(ss) THEN "Failed"
    ELSE IF isLost(ss) THEN "Lost"
    ELSE "Incomplete"

(* ss.Candidates of a Healthy or Degraded cluster; isHealthy lists every   *)
(* replica.  The other states use no candidate chosen here.                *)
Candidates(ss) == IF isHealthy(ss) THEN Replicas(ss) ELSE degradedOk(ss)

LowestOrdinal(S) == CHOOSE i \in S : \A j \in S : i <= j

-----------------------------------------------------------------------------
(* The choice of the next primary at a failover *)

Gtids(status) == status.retrieved \cup status.exec

(* FindTopRunner skips the instances without replication or data. *)
InTheRace(status) == status.src # NoSource /\ Gtids(status) # {}

(* Fault: diverged instances are not told apart from those behind. *)
Comparable_Assumed(one, other) == TRUE

(* The two IsSubsetGTID queries: one of the sets must contain the other,   *)
(* or the instances have diverged (ErrErrantTransactions).                 *)
Comparable(one, other) ==
    Gtids(one) \subseteq Gtids(other) \/ Gtids(other) \subseteq Gtids(one)

(* The leader after one turn of the loop: `latest` leads so far. *)
topRunner(latest, i, st) ==
    IF ~InTheRace(st[i]) THEN latest
    ELSE IF latest = NoTopRunner THEN i
    ELSE IF Gtids(st[i]) \subseteq Gtids(st[latest]) THEN latest
    ELSE i

-----------------------------------------------------------------------------
(* What the conclusions promise to the operations that act on them *)

(* Failed, the only state in which a failover is attempted, is concluded   *)
(* only when the replicas that will be compared meet every set of replicas *)
(* that can have acknowledged a transaction (rpl_semi_sync_master_         *)
(* wait_for_slave_count = N/2), so no acknowledged transaction can be      *)
(* missing from all of them (status.go isFailed, operations.go failover).  *)
FailedMeetsAckQuorums(ss) ==
    DecideState(ss) = "Failed" =>
        \A Q \in SUBSET Replicas(ss) :
            Cardinality(Q) >= N \div 2 => Q \cap failedOk(ss) # {}

(* configure dereferences the status of the primary, and switchover also   *)
(* that of a candidate that must be a working replica: the states that     *)
(* lead to them imply that both exist (process.go do, operations.go).      *)
OperationsHaveTheirTargets(ss) ==
    /\ DecideState(ss) \in {"Healthy", "Degraded", "Incomplete"} => PstKnown(ss)
    /\ DecideState(ss) = "Degraded" \/ (DecideState(ss) = "Healthy" /\ N > 1)
         => /\ Candidates(ss) # {}
            /\ \A i \in Candidates(ss) :
                  i # ss.primary /\ FollowsPrimary(ss, i)

=============================================================================
