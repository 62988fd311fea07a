# Verification of MOCO

TLA+ models of [MOCO](https://github.com/cybozu-go/moco), a Kubernetes operator
for MySQL clusters with semi-synchronous replication; model-checking runs for
TLC; proofs for TLAPS.  Paths below are relative to the repository.
`PROJECT.json` lists components, runs, mutants, the correspondence of
definitions and source lines, findings, hazards and theorems.

## 1. The system

One controller process (leader election ensures that there is one) watches
MySQLCluster resources.  For each it creates a StatefulSet and its surroundings
and runs a goroutine that maintains the replication of the instances.

| component | code | state | operations | interacts with |
|---|---|---|---|---|
| state decision | `clustering/status.go` | `StatusSet`, rebuilt in each pass | `DecideState` and its predicates | input of the loop |
| maintenance loop | `clustering/process.go`, `operations.go` | status of the MySQLCluster; labels and annotations of Pods | `GatherStatus`, `updateStatus`, `clone`, `switchover`, `failover`, `configure` | mysqld through `pkg/dbop`, moco-agent, API server |
| database operations | `pkg/dbop` | none | `GetStatus`, `ConfigureReplica`, `ConfigurePrimary`, `StopReplicaIOThread`, `WaitForGTID`, `SetReadOnly`, `KillConnections`, `FindTopRunner` | mysqld |
| mysqld (external) | settings in `pkg/mycnf/generator.go` | GTID sets, relay log, read-only flags, replication threads, semi-sync | commits, acks, replication, crash and restart | other instances, clients |
| cluster manager | `clustering/manager.go`, `process.go` | map of goroutines, mutex, WaitGroup, channel and context per goroutine, metrics | `Update`, `UpdateNoStart`, `Stop`, `Pause`, `StopAll`; life of a goroutine | reconciler, Pod watcher, `run.go` |
| reconciler | `controllers/mysqlcluster_controller.go` | conditions, finalizer, owned objects | create, update, finalize, stop and start clustering or reconciliation | cluster manager, API server |
| Pod watcher | `controllers/pod_watcher.go` | none | signals deletion and demotion | cluster manager |
| partition controller | `controllers/partition_controller.go` | partition of the StatefulSet | rolling update, one Pod at a time | StatefulSet, Pods |
| backup, restore | `backup/`, `pkg/bkop/` | objects in a bucket, backup and restore status | choose Pod, dump, binlog, load | mysqld, API server |
| volumes | `controllers/pvc.go` | PVCs, StatefulSet | resize, re-create | API server |
| webhooks | `api/v1beta2/` | none | admission | API server |
| kubectl-moco | `cmd/kubectl-moco` | none | `switchover`, `start`, `stop` | annotations |

What is hard about it:

- **Many actors.**  A pass makes dozens of calls; between any two of them
  clients write, instances replicate, crash or become unreachable, users demote
  or delete Pods, and the pass itself may end.  It acts on a snapshot that it
  does not refresh.
- **Failure.**  The controller may lose an instance that goes on working for
  its clients.  An instance that restarts forgets semi-sync and its replication
  threads and keeps its relay log.
- **Order.**  Read-only before the GTID set, IO threads before the comparison,
  old labels before new ones, Pause before the recorded stop.
- **Repetition.**  A reconciliation, a rolling update, a backup and a restore
  are each a sequence of writes that may stop anywhere and is begun again from
  what it left, by a process that remembers nothing.
- **Time.**  Timeouts of `WaitForGTID` and `SET super_read_only`, late caches,
  a readiness that is older than the statuses.

What makes the parts correct: no acknowledged transaction is lost and no errant
one spreads; at most one Pod is labelled as the primary; a working majority is
brought back to Healthy; requests are obeyed once; one goroutine per cluster,
none after a stop, and the status says so; a rolling update takes one Pod down at
a time and a cluster converges to its spec; a restored cluster has the data of
one moment of the past.  `PROJECT.json` lists the hazards
with the line where each bites and the properties that cover it.

## 2. Modules

| module | models | extends |
|---|---|---|
| `StatusSet` | the decision procedure and the top runner as pure operators | |
| `MySQL` | the instances and the effect of each dbop call | `StatusSet` |
| `Clustering` | a pass of the loop, step by step, with Kubernetes objects, failures and users | `MySQL` |
| `MCClustering` | scenarios for TLC | `Clustering` |
| `ClusterManager` | goroutines, reconciler, Pod watcher, start, stop, deletion, shutdown | |
| `MCClusterManager` | scenarios for TLC | `ClusterManager` |
| `Ledger` | abstract: what a cluster promises to its clients; implemented by `Clustering` | |
| `Rollout` | StatefulSet, Pods, volumes and PDB under the reconciler, the webhook and the partition controller | |
| `MCRollout` | scenarios for TLC | `Rollout` |
| `Backup` | the backup and restore Jobs, the bucket and the binary logs | |
| `MCBackup` | scenarios for TLC | `Backup` |
| `ClusteringProofs`, `ClusterManagerProofs`, `LedgerProofs`, `RolloutProofs`, `BackupProofs` | theorems (`ClusteringProofs`: of `StatusSet` and `MySQL` too) | the module of the name |
| `FailoverProofs` | the theorem about the comparison of a failover | `ClusteringProofs` |
| `DurabilityProofs` | acknowledged transactions, refinement of `Ledger` | `FailoverProofs` |
| `HandoverProofs` | switchovers and errant detection | `DurabilityProofs` |

### StatusSet

`ss` is a record with the fields of `StatusSet` and the parts of MySQLCluster
and Pods that the code reads through it.  `known` is the set of indexes whose
`MySQLStatus` is not nil.  A GTID set is a set of transactions, the UUID of a
GTID is the instance that created it.  Of `Retrieved_Gtid_Set` the part not yet
executed is kept; wherever the code uses the whole (`FindTopRunner`,
`WaitForGTID`) the executed rest makes no difference.  `super_read_only` and
`read_only` are one flag, since `my.cnf` and `SetReadOnly` change both.
`isHealthy` and `isDegraded` both append to `ss.Candidates`; what a failing
`isHealthy` has appended is also appended by `isDegraded` in every state in
which a candidate is used, so `Candidates` is given directly.

### MySQL

`db[i]` holds one instance.  `wait` are transactions in its binary log that
wait for acks before the engine commit (AFTER_SYNC); `acked` is a history
variable: what clients were told is committed.  mysqld's own behaviour
(`ClientWrite`, `Commit`, `Receive`, `Apply`, `Crash`, `Start`, ...) is external
and modelled from the settings that MOCO gives it and from how `pkg/dbop` uses it:

- semi-sync waits for `N/2` acks with a timeout of a day, which is taken as no timeout;
- a restart sets read-only, stops both replication threads
  (`skip_replica_start`), turns semi-sync off until it is configured again, and
  keeps the relay log (`relay_log_recovery=OFF`); what is in the binary log is
  committed by the recovery;
- `CHANGE REPLICATION SOURCE` with both threads stopped, and `RESET REPLICA`,
  delete the relay log;
- killing a session that waits for acks commits its transaction locally.

### Clustering

`pc` is the next remote call of the pass, `todo` the instances that a loop of
the code has still to visit, `ss` the snapshot.  Each call is an action; code
between two calls is folded into the action before it (the operators `To...`,
which give the next call).  `Calling(s)` is the guard that the instance of the
call answers; if it does not, `CallFails` ends the pass as the error does in
the code.  A configured replica is still asked for `SubtractGTID`, which changes
nothing: that call is merged into the step before it (`ToReplica`).

`CallTimesOut` stands for the second argument of
`WAIT_FOR_EXECUTED_GTID_SET` and for the read timeout of the connection (a minute,
`pkg/dbop/operator.go`), which also ends the wait without limit of
`configurePrimary`.  `Abort` is an API error, a cancelled context or the end of
the controller at any point.

The environment writes, crashes instances between passes (`crash`) or also in
the middle of one (`midcrash`), cuts the controller off, asks for a switch of the
primary (`demote`) or, having read the index before a switch, annotates a Pod that
is not the primary any more (`late`), deletes Pods and volumes, stops and starts
(`offline`), promotes an intermediate cluster,
unlocks an instance, writes a stray transaction, fails a clone, shows late
readiness (`flaky`) and replication delay (`delay`).

### ClusterManager

One MySQLCluster is followed.  `procs` are the goroutines, `cur` the entry of
the map, `mgr` the state of `StopAll`, which holds the mutex while it waits.
The reconciler reads a cache; status updates carry a version, and instead of
numbers each reader knows whether its version is current.  A pass is reduced to
reading, writing the status and operating.

Passes, the resources of a reconciliation and its status updates may fail
(`Faults`) until `Heal`.  A status update that fails, by a conflict or otherwise, leaves
the new conditions in the object in memory, with which the deferred `updateStatus`
goes on (`RecordFails`, then `Report` with `rpc = "error"`): the stop may be recorded by
that second write, without the gauge.  Of the conditions those that the
properties and this path need are kept (`active`, `health`, `reconciling`, `success`);
`StatefulSetReady` and the generation, which `updateStatus` also sets, are left out.

### Ledger

The ledger of acknowledged transactions only grows, and the leader holds all of
it.  `Clustering` implements it (`ImplementsLedger`) with `log <- acked`,
`leader <- primaryIdx` and `held[i] <- db[i].exec`: every step of a pass, of mysqld or
of the environment is a step of the ledger or leaves it alone.  This says more
than `Durability`: the election itself is a step, to an instance that already has
everything; the data of the leader never shrinks; and a replica loses data only
by becoming empty or a copy of the leader.  An acknowledgement need not come from
the leader: a deposed primary may answer for a transaction that its successor
has.  Run `safety` checks the refinement on its scenarios; section 4 says under
which conditions it is proved.  It does not cover what `chained` shows, nor a
primary that loses its volume or is cloned from an external source.

### Rollout

`spec` is reduced to the version of the Pod template, the size of the claim, the
number of replicas, `offline` and `force-rolling-update`.  The reconciler is a
sequence of steps (`reconcilePVC`, one `resizePVC` per volume,
`stsDelete`, `stsCreate` or `stsApply`, `reconcileV1PDB`, `updateStatus`), each of
which may be the last one (`reconcileError`, `Crash`).  The partition controller
is three: it reads the StatefulSet, then the MySQLCluster and the Pods in its
cache, then patches; edits, failures and the StatefulSet controller come between.
`Admit` is the API server with the webhook.  Generations are a flag that says
whether the observed one is current.  The StatefulSet controller, kubelet and the
garbage collector are external; the loop of `Clustering` appears as the Healthy
condition, which is written later than it is observed.

### Backup

Transactions are the numbers of a linear history, an instance has executed a
prefix, a binary log file is its number and what precedes it, an archive the set
of its transactions, and time is counted in seconds.  A Job is a sequence of
steps that may end after each.  A record names the instances of its UUID set, or
only its source if no instance answered when the set was read (`LastUUIDs`).  The
restore Job, its failure and its repetition
act on one instance `rst`.  `Restored(p)` is what a restoration to time `p` would
give at any moment.  The model assumes

- that no two backups start in the same second (they would share their keys);
- that a binary log file expires only when the last backup has all of it
  (docs/backup.md, "Lost binlog files");
- that a primary is replaced by an instance with the whole history, which is
  what `Clustering` is about;
- that replicas do not lag while an instance is cloned (see section 6).

## 3. Runs

Events are bounded by budgets.  A scenario is a start (a replicating cluster, new
instances, a cluster with a replication source, one to be restored) with a
budget for each kind of event; `Init` chooses one, so that one run answers one
question for many combinations.  The combinations are in `MCClustering` and
`MCClusterManager` with a comment each.

Three instances are the least with a quorum that is neither one nor all; with
one seed and two new transactions an instance can be ahead, behind or diverged.
Two or three events are enough for each hazard, since a hazard needs at most a
failure, another event and a write; larger budgets multiply the states and the
violations found needed no more.  Two goroutine slots are needed for an old and
a new one; a third would need two stops while one pass lasts (the theorems hold
for any number).

| run | instance | states | shows |
|---|---|---|---|
| `safety` | 3 instances, 3 transactions, 11 scenarios | 1.29 M | durability, refinement of `Ledger`, lossless switchover, sound errant detection, labels, top runner, conclusions |
| `live` | 3 instances, 2 transactions, 15 scenarios | 321 k | recovery, demotion obeyed, labels withdrawn, errant replicas cut off, replicas and intermediate primaries locked |
| `failover` | one crash | 30 k | a dead primary is replaced, even if it never comes back |
| `manager` | 2 goroutines, 4 scenarios | 352 k | one live goroutine, stop and start obeyed and recorded, metrics, shutdown |
| `rollout` | 1 or 3 Pods, 14 scenarios of edits and failures | 589 k | one Pod down at a time, a broken template contained, volumes, convergence |
| `backup` | 3 instances, 3 backups, 3 transactions, 9 scenarios | 3.0 M | restored data is a prefix, chains are complete, `restoredTime` is true |
| `chained`, `stuck`, `nilpod`, `unlabelled`, `manager_failing`, `expansion` | one scenario each | | counterexamples, section 6 |

Every property of a passing run has a mutant: a plausible mistake in a
definition that maps to code (an operator with the comment "Fault"), under which
TLC finds the property violated.

**Deadlock** is checked in the runs of `Clustering` and `ClusterManager`: the loop
never stops for good.  It is not in `rollout` and `backup`, where the system comes
to rest when nothing is left to do.

In `rollout` one or two edits meet one or two failures, errors or events: the
controllers remember nothing between reconciliations, so that a second pass over
the same state shows what any number shows.  Three Pods are the least in which a
newer, the next and an older one differ.  In `backup` three Jobs are needed for a
chain that is broken and resumed, and two transactions for a gap.

**Fairness.**

- `Progress`: the loop is driven by a ticker and its calls return, fail or time
  out, hence weak fairness of the pass as a whole; running mysqlds commit,
  replicate and apply, and kubelet and the StatefulSet controller finish what
  they began.  No fairness is assumed of failures, users or the network.
- `LiveSpec` assumes no more, so an instance may stay down: `FailoverHappens`.
- `RepairSpec` adds that stopped containers are restarted, the network heals
  and a restore ends: `Recovery` and the other properties of `live`.
- `FairSpec`: watch events arrive, queued requests are served, a goroutine goes
  on.  `Quit` is strongly fair: `select` chooses at random among ready cases, so
  a context that stays done is noticed eventually although the ticker fires.
- `Fairness` of `Rollout`: each controller, kubelet for each Pod, the cache and the
  loop go on (work queues retry and requeue), a sick cluster recovers and a
  backup ends.  Nothing is assumed of edits, failures, errors and the autoresizer.
- `HealthySpec` adds that calls do not fail for ever.

Some liveness properties have a condition, which is part of what they say:
`Recovery` excepts errant transactions and hung replicas (the loop leaves both
to an administrator), `RolesAdjusted` and `NoStaleRole` speak of a cluster that
stays Healthy, `MetricsReported` excepts a deleted and re-created cluster.
`Convergence` excepts a template that does not work and a volume that outgrew the
wanted size (`ErrReduceVolumeSize`).  `OneDownAtATime` excepts Pods that went down
after the partition controller looked, which no client of the API can exclude;
`struck` is the history that says which.

## 4. Proofs

For every odd number of replicas, every set of transactions, every scenario:

- `ClusteringProofs`, of every observation: `FailedMeetsQuorums` (an ack quorum has
  `N/2` replicas, the compared ones are more than `N/2` of `N-1`, so they meet) and
  `OperationsHaveTargets`.  They rest on lemmas about cardinality and on
  `LowestOrdinalExists`, which derives the least element of a set of naturals from
  the well-foundedness of finite sets.
- `ClusteringProofs`, of the loop: `Invariance`, `TypeCorrect`, `PrimaryNeverErrant`,
  `OnePrimary`, `FailoverTop`, `Conclusions`.  Lemmas say that each operation and
  each step of mysqld keeps `MySQLTypeOK`.
- `ClusterManagerProofs`: `ManagerTypes`, `OneMaintainer`, `StopAllEndsAll`,
  `StopStaysRecorded`, for any set of goroutine slots.
- `LedgerProofs`: `LedgerHeld`, for any sets of instances and transactions: what
  an implementation of `Ledger` gives to its clients.  The
  invariant adds to `NothingLost` that the leader is an instance, so that a step
  of another instance does not touch it.
- `BackupProofs` and `RolloutProofs`: `BackupTypes` and `RolloutTypes`.

For every scenario that meets a condition, which is a hypothesis of the theorem:

| theorem | property | condition |
|---|---|---|
| `FailoverProofs!ComparisonStaysFresh` | `ComparisonNotStale` | `ClonesFirst`: a cluster with a replication source keeps it and is not taken offline |
| `DurabilityProofs!AcknowledgedSurvives`, `ClusterKeepsPromise` | `Durability`, `ImplementsLedger` | `OwnData`: no replication source, no restore, no unlocked instance; and of each step `DataKept`, `SemiSyncFirst` |
| `HandoverProofs!AlarmsAreTrue`, `SwitchoverComplete` | `NoFalseErrant`, `SwitchoverLossless` | `Undisturbed`: `OwnData`, and nobody writes to single instances of a cluster whose primary is being switched; and of each step `LogKept` |
| `HandoverProofs!NoFalseAlarm`, `NothingLeftBehind` | the same | `Undisturbed`, and `KeepsVolumes`: the cluster is configured and has data, no volume is lost |
| `BackupProofs!RestoresPrefixAlways`, `ChainCompleteAlways`, `RestoredTruthfullyAlways` | the property of the name | `KeepsBinlogs`: no binary log file expires while a replica lags or Jobs overlap, no instance is cloned while replicas lag |
| `RolloutProofs!VolumesFollowTemplateAlways` | `VolumesFollowTemplate` | `GrowsAtRest`: only the first edit enlarges the volumes, and if it does the cluster is not offline and no Pod fails |
| `RolloutProofs!BrokenContainedAlways` | `BrokenContained` | `BreaksOnce`: only the first edit may bring a broken template, and it neither resizes, removes Pods nor forces the update |
| `RolloutProofs!OneDownAtATimeAlways` | `OneDownAtATime` | `OneRollout`: at most one edit, of the template, maybe with more Pods |

Three conditions are on the steps of a behaviour.  `DataKept`: no instance deletes
anything from its binary log, or from its relay log before it is executed;
`SemiSyncFirst`: semi-sync is still on when the primary is made writable;
`LogKept`: nothing is lost from a binary log.  The code takes the first two for granted
and does not ensure them (section 6, findings 1 and `operations.go:455`), so that
`AcknowledgedSurvives` says that nothing else loses an acknowledged transaction:
the acks, the fencing of old primaries, the comparison of a failover and the
waits are right for every number of replicas and any sequence of events.
`LogKept`, on the other hand, follows from the code in a cluster that keeps its
volumes (`HandoverProofs!LogsAreKept`), so that `NoFalseAlarm` and
`NothingLeftBehind` do without it.  They are about clusters that have data, which have
reached every instance (`Seeds # {}`); in an empty one a replica may yet be cloned.
Behaviours with and without failovers, switchovers and losses of other kinds
meet the conditions: the invariants below were checked with TLC with the conditions
as an action constraint, on scenarios with cuts, crashes in the middle of a pass,
demotions, interrupted passes, deleted Pods, lost volumes, stray transactions
and an offline cluster.

All scenarios of the runs `backup` and `rollout` meet the conditions on
scenarios in the lines about them, but for `OneRollout`.  Those of `safety` all meet
`ClonesFirst`, and all but the one that is restored meet `OwnData`, `Undisturbed`
and `KeepsVolumes`.  Those of `rollout` with two edits, with a resize, with
`force-rolling-update` or that go offline do not meet `OneRollout`; for them
`OneDownAtATime` is only model-checked.  None of the conditions can be dropped.
With larger scenarios TLC finds:

- `ClonesFirst`: a clone from outside begins and its pass is aborted; the source
  is removed and the cluster configured; a switchover and a crash later a
  failover compares the instance, and the clone ends after it was re-checked.
- `DataKept`: what run `chained` is about.  With two lost connections and two
  writes no instance need restart: a primary is cut off, the failover stops the IO
  threads and its wait times out; the primary is back, and the replicas whose IO
  threads do not run are configured again, which deletes a relay log with an
  acknowledged transaction; the primary is cut off again and replaced by an
  instance without it.
- `SemiSyncFirst`: after a switchover the new primary restarts just before it is
  made writable, commits a transaction without an ack, and is cut off and replaced.
- `OwnData`: an instance that is unlocked by hand acknowledges what the primary does
  not have.
- `KeepsVolumes`: the volume of the next primary is lost after `swWait`, or that of an
  errant replica after its status was read.
- `Undisturbed`: with a request to switch and one stray transaction both
  `NoFalseErrant` and `SwitchoverLossless` are violated: a new primary reads the
  binary log of the old one until it is configured, and an old primary may get a
  transaction after its GTID set was read.
- `KeepsBinlogs`: a clone that starts after a lagging dump (section 6,
  `backup.go:234`); a later record with a smaller GTID set, whose files expire; a
  Job that continues a record older than the one that expiry looked at.
- `GrowsAtRest`: what run `expansion` is about; `reconcilePVC` skips the resize and
  the StatefulSet gets the larger claim template.  Of an offline cluster it
  resizes nothing either (section 6, `pvc.go:92`).
- `BreaksOnce`: with a broken template as the second edit, the stale patch of the
  partition (section 6, `partition_controller.go:308`) lets two Pods have it if one of them fails; and an
  offline cluster has no Pods to keep the old revision, so that the broken one
  becomes current.
- `OneRollout`: the patch meant for the first update is applied to the second, so
  that a serving Pod is rolled while the next one, whose readiness the check of
  the first update did not ask for, is down; and after a resize the StatefulSet is
  re-created without a current revision, so that a failed Pod gets the new
  template at once.

### The inductive invariants

**The loop**: `Inv == TypeOK /\ PassInv`.  None of the properties is inductive
alone, because a step acts on the snapshot:

- `SnapshotInv`: the snapshot agrees with the status as far as only the loop
  writes it (primary index, errant list);
- `SwitchInv`: the candidate of a planned switchover is a non-errant instance,
  from the decision (`OperationsHaveTargets`) up to the write of the index;
- `RaceInv`: during a comparison the leader is ahead of all instances that were
  looked at;
- `LabelInv`: after `removeRoleLabel` no other Pod than that of the primary is
  labelled as the primary, and before it every such Pod is in the snapshot.

Each action has a step in the proof; actions that leave the pass alone go
through one lemma.

**The comparison of a failover**: `CompareInv`, relative to `Inv`.
`StoppedInv` says that an instance whose turn has come has its IO thread stopped
and, once re-checked, nothing foreign that its snapshot lacks (`Fixed`).  What
could add to it are the IO thread, which only the pass starts; a clone, excluded by
`CloneInv` (only the primary of a cluster that has not been cloned is cloned from
outside, and nothing else is begun before that ends); a restore, excluded by
`NotRestoring`; and a recovery that commits waiting sessions, whose transactions
are the instance's own (`WaitInv`).

**Acknowledged transactions**: `StoreInv /\ StageInv`, with `PlainInv` (what `OwnData`
excludes stays away).

- `HistoryInv`: an ack stands for a copy, and an acknowledged transaction is on more
  than half of the instances.  This is where `DataKept` is used.
- `ModeInv`: a writable instance has semi-sync and is not a replica
  (`SemiSyncFirst`).
- `FenceInv`: a former primary that is still writable feeds too few replicas to
  get the acks for anything that the present one lacks.  Without it the
  invariant is not inductive: an old primary that was only cut off goes on.
- `SeenInv`, `LoopInv`: what a pass has seen is still true where it acts on it, and
  `configure` connects replicas only to the primary and only after they are locked.
- `FailoverInv`: more than half are compared, none of them can get an ack any more
  (`CannotAck`), and the snapshot has what each has of the acknowledged
  transactions.  More than half compared and more than half holders have one
  instance in common (`Majorities`), and the leader is ahead of it (`RaceInv`).
- `CarryInv`: a switchover locks the old primary before its GTID set is read, and
  what can still be acknowledged is in that set.

The refinement then needs no more: `NextKinds` sorts the actions into those that
change one instance, those that change the primary, and `Commit` of a transaction
with its acks; `LedgerStep` gives the step of `Ledger` for each.

**Switchovers and alarms**: `ChannelInv /\ CourseInv`, with `PlainInv`.  `LockInv` and
`LogInv` are about each instance: what a relay log holds comes from its source.
`QuietInv` is the heart: the primary gets nothing from another instance, not even
right after it was recorded, when it still reads the binary log of its
predecessor, since that one is locked and has nothing new.  So what a replica
has and the primary lacks, when the primary is read last (`ViewInv`), it did not get
from the primary.  `HandInv` says that a switchover starts from a primary that is not
a replica, and waits for all that this one will ever have; `RelayInv` that a
failover ends with an empty relay log, without which `QuietInv` would not hold
after it; `StrayInv` keeps administrators and switchovers apart.

**Kept logs**: `SeedInv`: every instance has data, in every snapshot too, so
`configureReplica` never finds an empty replica to clone; what else could delete a
binary log are lost volumes and clones from outside.

**The manager**: `ManagerInv` adds to the types that a goroutine not in the map is
cancelled or free and that a stopped manager has an empty map and no goroutine.
`StopInv` is for the recorded stop.  The reconciler may read a cache that does not
have its own last write: `RecordInv` says that whoever has not seen the record has
read the request to stop, and that nothing was started since; so a `Pause` that is
repeated on such a version finds no goroutine.  `PauseInv` says that a paused
goroutine reads no more, and that the version it may still write is one without
the record.  `VersionInv` covers the failing updates: the object with which a
reconciliation goes on after an error may differ from the current version only while
that one asks to stop and the map is empty.

**Backup**: `Inv` in `Backup` relates a record to what exists: `Taken` (its dump is there,
an instance with the same server UUID has all binary logs since then, the
source from the recorded file on), `JobInv` (what a Job carries from step to step,
while instances are cloned, restarted and promoted), `BucketInv` (an archive begins
where its dump ends and has no gap), `ChainInv` (a recorded chain reaches from dump
to dump), and for the restore Job that its data is what the objects chosen give.

**Rollout**: `TypeInv` adds that the StatefulSet that was read has a partition
above zero, without which the patch could be negative.  For the volumes, `VolumeInv`:
either no size that is still wanted exceeds those there are (`NoMoreGrowth`), or
everything is at rest and the volumes not on the list of `resizePVCs` have the wanted size
(`GrowingAtRest`).  For broken templates, `BrokenInv`: the template is not deployed yet,
or it is and only the last Pod can have it, since the partition never falls below that
Pod while it is not ready, or it is gone.  For `OneDownAtATime`, `RollInv`:
Pods below the partition are old, those above it are new, and until the one at
the partition is new the others serve or are struck (`PodsInv`); a pending patch
was computed for the partition and the template there are (`PartitionInv`).

The assumptions are `NAssumption` (the webhook admits odd numbers of replicas),
`TxnAssumption`, `ClusteringAssumption`, `ManagerAssumption`, `RolloutAssumption`
and `BackupAssumption` (scenarios have their type, bounds are not zero); TLC
evaluates them in every run.  Every inductive invariant was checked with TLC on the
scenarios of the runs and on larger ones before it was proved.

Only model-checked: liveness (`Recovery` and the others of `live`, `FailoverHappens`, `Convergence`,
`StopObeyed`, `StartObeyed`, `MetricsReported`, `ShutdownReturns`), which with
ENABLED is out of reach of the installed provers.  Every invariant and every
safety action property of a passing run has a theorem, with the
conditions above.  The runs check more than the theorems where these have
conditions on steps: `safety` checks `Durability` and `ImplementsLedger` on all steps of
its scenarios, and `chained` shows a longer one that violates `Durability`.

## 5. What is not modelled

- Secrets, Services, ConfigMaps, certificates, the containers of the Pod template
  and the CronJob of the backup: the layout of objects, without a protocol of
  their own.  Labels and annotations synchronised to volumes; storage classes
  that do not support expansion; conversion and most of the validation.
- In a backup: sizes, compression, and the restoration of one schema or of chosen
  users.  More than ten Pods in a rolling update, where the code's own comment
  says that the order by name is wrong.
- The generator of my.cnf, passwords, events and bucket clients: pure functions
  and I/O.
- mysqld's asynchronous fallback after the semi-sync timeout of a day, and
  purging of binary logs other than through clone and dump.
- The group commit order within one instance: transactions are totally ordered
  by their number, replicated and applied in that order.
- `kubectl moco switchover` annotates in one step; that the index it has read may
  be old is the event `late`, which allows any Pod, also one that never was the
  primary.
- Caches other than those of the manager and the partition controller: `GatherBegin` reads the
  labels and annotations of Pods, which the code lists from the cache
  (`status.go:165`), as they are; so does the reconciler of `Rollout` with the
  StatefulSet and the volumes (`pvc.go:43`).
- `FinishGather` takes the readiness of Pods when the statuses have been gathered, and the code
  when it lists the Pods before; `flaky` stands for the difference.
- In `Backup`, `DumpBinlog` (`backup.go:382`) and `Put` (442) are one step, so that of two
  overlapping Jobs the one that reads first does not write last; and a `Put` that
  succeeds although `tar` or `zstd` fails afterwards (445-449), which leaves a truncated
  archive behind, does not happen.  `NewBackupManager` reads the cluster (74) and lists
  the Pods (97) in one step.
- What a cancelled goroutine still does to the instances while its successor has
  begun: `Clustering` runs one pass at a time.
- Signals of the channel of a goroutine are dropped as in the code, but a pass is
  also begun by the ticker, so that no property depends on them.
- The partial effects of a few `SET` statements sent back to back
  (`ConfigurePrimary`, `SetReadOnly(false)`).  `CHANGE REPLICATION SOURCE` and
  `START REPLICA` are separate steps.
- A cluster of one instance is within the theorems but has no run.

Two steps allow more than the code does: `swReadOnlySlow` may kill connections more
than once while `super_read_only` blocks, where `operations.go:178` kills once; and
`resizePVC` succeeds on a volume that was grown since it was listed, where
`r.Update` (`pvc.go:149`) is a conflict and the reconciliation is repeated.

## 6. Findings

Each has a run in which TLC finds the counterexample.

1. `chained` (`clustering/operations.go:645`): configuring a restarted replica
   deletes its relay log, which may be the only other copy of an acknowledged
   transaction.  This is the loss that `relay_log_recovery=OFF` is meant to
   prevent.  A restart is not needed: a failover that times out has stopped the
   IO threads of all replicas, and they are configured again in the same way.
2. `stuck` (`operations.go:277`): a failover to a replica that restarted with a
   backlog waits for an SQL thread that nobody starts.
3. `nilpod` (`operations.go:357`): a pass over an offline cluster dereferences the
   nil Pods.
4. `unlabelled` (`operations.go:447`): a pass that ends after replication is
   started and before labels are added leaves a Pod without a label for as long
   as the cluster is Healthy.
5. `manager_failing` (`controllers/mysqlcluster_controller.go:1829`): stop, start,
   stop with failing passes leaves the goroutine running.
6. `expansion` (`controllers/pvc.go:54`): a larger volume that is asked for while a
   Pod is down or an update is rolled out is skipped, yet the StatefulSet gets the
   larger claim template, after which nothing resizes the volumes.

Observed while modelling, without a run of their own:

- `operations.go:455`: a primary whose mysqld restarts between `ConfigurePrimary` and
  `SetReadOnly(false)` is writable without semi-sync until the next pass
  (docs/clustering.md:44).
- `operations.go:524`: the promotion of an intermediate primary waits for the
  retrieved set of the snapshot, not for what arrived until the IO thread was
  stopped; `RESET REPLICA` deletes the rest.
- `status.go:295`: an old primary with sessions that wait for acks is ignored, so
  nobody kills them (docs/clustering.md:106).
- `operations.go:549`: an errant replica that is writable is not locked
  (docs/clustering.md:251).
- `process.go:143`: the goroutine of a deleted cluster can delete the metrics of
  one created again under its name.
- `mysqlcluster_controller.go:1829`: a controller that starts while clustering is
  stopped does not export `clustering_stopped` (docs/metrics.md:33).
- `mysqlcluster_controller.go:1852`: if the update that records the stop fails, the
  deferred `updateStatus` (244) still writes the changed conditions, without the
  gauge of line 1858, and the next reconciliation returns at 1829:
  `clustering_stopped` stays 0 for a cluster that is stopped (docs/metrics.md:33).  TLC finds
  it in `ClusterManager` with one request and a failing update.
- `pvc.go:92`: the volumes to resize are those of `sts.Spec.Replicas`, which is 0 for an
  offline cluster: its volumes are not resized, the claim template is replaced, and
  they stay small when it is back (docs/change-pvc-template.md:37).
- `partition_controller.go:308`: the partition is patched without a resource
  version.  An edit between the check and the patch first raises the partition,
  and the patch, which the webhook leaves alone, then lowers it by more than one
  (docs/rolling-update-strategy.md:54); section 4 says what follows from it.
- `partition_controller.go:170`: the Healthy condition and the Pods may be older than
  a failure; see `OneDownAtATime`.
- `mysqlcluster_controller.go:1755`: the generation is recorded as reconciled also
  after an error, so the partition controller does not wait for the completion
  that its comment at line 73 speaks of.
- A StatefulSet that was re-created has no current revision: a Pod that fails
  during the update that follows gets the new template whatever the partition is.
- `pvc.go:141`: a volume that an autoresizer has grown past the wanted size fails
  every reconciliation before the StatefulSet is updated.
- `backup.go:176`: of two overlapping Jobs both update the status, since a conflict
  is retried with a new read; docs/backup.md:229 says that only one can.
- `backup.go:161`: a Job that ends between the dump and the status, or whose binary
  logs fail, leaves a dump without binary logs; a restoration to a later time
  takes that dump and gives what it has, without an error.
- `backup.go:234`: with a lagging source, an instance that was cloned from the primary
  before the backup counts as one that has the binary logs since it; if it
  becomes the source, the transactions that the dump lacked are in no archive.
- `backup.go:150`: the time of a backup is taken before its dump, so a restoration to
  that time may have transactions committed after it (docs/backup.md:207).
- `pkg/bkop/restore.go:18`: a failed restoration leaves the instance writable for
  its users with the privilege, where docs/backup.md:213 says read-only.
- `cmd/moco-backup/cmd/restore.go:40`: after three refused connections the Job
  succeeds without having restored anything.

## 7. Plan

Done: all modules of section 2 with their runs; the types of every module; every
safety property as a theorem (section 4).  What remains:

1. A model in which `configureReplica` keeps a relay log that is not executed, as a
   proposal for finding 1; for it `DataKept` should follow as `LogKept` does, from
   `KeepsVolumes`.
2. Runs with one instance, and cached Pods in `GatherBegin`.
3. Restoring a single schema, and storage classes without expansion.
