---------------------------- MODULE ClusterManager ----------------------------
(***************************************************************************)
(* Who runs the maintenance loop of a MySQLCluster, and when: the map of   *)
(* goroutines in clustering/manager.go, their life in clustering/          *)
(* process.go, and the controllers that start, signal, pause and stop them *)
(* (controllers/mysqlcluster_controller.go, controllers/pod_watcher.go,    *)
(* cmd/moco-controller/cmd/run.go).  What a pass does is module            *)
(* Clustering's; here it only reads the MySQLCluster, reports and operates.*)
(*                                                                         *)
(* One MySQLCluster is followed; the entries of the map are independent.   *)
(* It is written with optimistic locking: a status update made from a      *)
(* version that is not the current one is a conflict.  Versions are not    *)
(* counted: each reader knows whether its version is still current.  A     *)
(* status update may also fail for another reason.                         *)
(***************************************************************************)
EXTENDS Naturals, FiniteSets

CONSTANTS
    Slots,          \* the goroutines that exist at the same time
    NoProcess,      \* the map has no entry for the cluster
    Scenarios       \* the starts, each with bounds on what happens

(* What may fail: passes, the reconciler's resources and its status        *)
(* updates.                                                                *)
Faults == {"pass", "resources", "status"}

(* Whether the controller starts while clustering is stopped, what fails   *)
(* at first, and how many requests of kubectl moco start and stop,         *)
(* deletions of the MySQLCluster, shutdowns and crashes of the controller  *)
(* follow.                                                                 *)
ASSUME ManagerAssumption ==
    /\ NoProcess \notin Slots
    /\ Scenarios \subseteq
          [stopped: BOOLEAN, failing: SUBSET Faults,
           requests: Nat, deletes: Nat, restarts: Nat]

VARIABLES
    mc,         \* the MySQLCluster in the API server
    cache,      \* the MySQLCluster in the controllers' cache
    synced,     \* the cached version is the current one
    queued,     \* a reconciliation is requested
    rpc, view, fresh,   \* the reconciliation in progress, the object it
                        \* works on and whether its version is current
    cur,        \* processes[key]
    procs,      \* the goroutines
    mgr,        \* StopAll: not called, waiting with the lock held, returned
    series,     \* the exported available, healthy, ... gauges
    attached,   \* the goroutines whose metrics are the exported ones
    gauge,      \* the exported clustering_stopped
    failing,    \* what fails: Pods are missing, an object is refused, ...
    requests, deletes, restarts     \* how many may still happen

kubeVars == <<mc, cache, synced>>
reconcilerVars == <<queued, rpc, view, fresh>>
managerVars == <<cur, procs, mgr>>
metricsVars == <<series, attached, gauge>>
boundVars == <<failing, requests, deletes, restarts>>
vars == <<kubeVars, reconcilerVars, managerVars, metricsVars, boundVars>>

Conditions == {"", "True", "False"}

(* stop, halt: the annotations clustering-stopped and                      *)
(* reconciliation-stopped.  active, reconciling, success: the conditions   *)
(* ClusteringActive, ReconciliationActive and ReconcileSuccess; health:    *)
(* Available, Healthy.                                                     *)
MySQLCluster ==
    [there: BOOLEAN, deleting: BOOLEAN, stop: BOOLEAN, halt: BOOLEAN,
     active: Conditions, reconciling: Conditions, success: Conditions,
     health: {"", "Known", "Unknown"}]

NewCluster ==
    [there |-> TRUE, deleting |-> FALSE, stop |-> FALSE, halt |-> FALSE,
     active |-> "", reconciling |-> "", success |-> "", health |-> ""]

StoppedCluster ==
    [NewCluster EXCEPT !.stop = TRUE, !.active = "False",
                       !.reconciling = "True", !.success = "True",
                       !.health = "Unknown"]

Gone == [NewCluster EXCEPT !.there = FALSE]

Phases == {"free", "select", "gather", "read", "write", "operate"}

(* ch: the channel of capacity one holds a signal; current: the            *)
(* MySQLCluster that updateStatus has read is still the current version.   *)
managerProcess ==
    [phase: Phases, cancelled: BOOLEAN, pause: BOOLEAN, ch: BOOLEAN,
     current: BOOLEAN]

Free == [phase |-> "free", cancelled |-> FALSE, pause |-> FALSE,
         ch |-> FALSE, current |-> FALSE]

TypeOK ==
    /\ mc \in MySQLCluster /\ cache \in MySQLCluster /\ view \in MySQLCluster
    /\ synced \in BOOLEAN /\ queued \in BOOLEAN /\ fresh \in BOOLEAN
    /\ rpc \in {"idle", "resources", "manage", "record", "report", "error",
               "finalize"}
    /\ cur \in Slots \cup {NoProcess}
    /\ procs \in [Slots -> managerProcess]
    /\ mgr \in {"running", "stopping", "stopped"}
    /\ series \in {"absent", "zero", "value", "NaN"}
    /\ attached \subseteq Slots
    /\ gauge \in {"absent", "0", "1"}
    /\ failing \subseteq Faults
    /\ requests \in Nat /\ deletes \in Nat /\ restarts \in Nat

Init ==
    /\ \E s \in Scenarios :
          /\ mc = IF s.stopped THEN StoppedCluster ELSE NewCluster
          /\ failing = s.failing
          /\ requests = s.requests
          /\ deletes = s.deletes
          /\ restarts = s.restarts
    /\ cache = mc /\ view = Gone
    /\ synced = TRUE /\ queued = TRUE /\ fresh = FALSE
    /\ rpc = "idle"
    /\ cur = NoProcess
    /\ procs = [p \in Slots |-> Free]
    /\ mgr = "running"
    /\ series = "absent" /\ attached = {} /\ gauge = "absent"

Outdated(ps) == [p \in Slots |-> [ps[p] EXCEPT !.current = FALSE]]

-----------------------------------------------------------------------------
(* The user *)

Write(new) ==
    /\ mc' = new
    /\ synced' = FALSE
    /\ fresh' = FALSE
    /\ procs' = Outdated(procs)
    /\ UNCHANGED <<cache, queued, rpc, view, cur, mgr, metricsVars>>

Request(new) ==
    /\ mc.there
    /\ new # mc
    /\ requests > 0
    /\ requests' = requests - 1
    /\ Write(new)
    /\ UNCHANGED <<failing, deletes, restarts>>

stopClustering == Request([mc EXCEPT !.stop = TRUE])
startClustering == Request([mc EXCEPT !.stop = FALSE])
stopReconciliation == Request([mc EXCEPT !.halt = TRUE])
startReconciliation == Request([mc EXCEPT !.halt = FALSE])

Delete ==
    /\ mc.there /\ ~mc.deleting
    /\ deletes > 0
    /\ deletes' = deletes - 1
    /\ Write([mc EXCEPT !.deleting = TRUE])
    /\ UNCHANGED <<failing, requests, restarts>>

(* Under the same name. *)
Create ==
    /\ ~mc.there
    /\ Write(NewCluster)
    /\ UNCHANGED boundVars

-----------------------------------------------------------------------------
(* The methods of clusterManager.  They hold the lock, which StopAll keeps *)
(* while it waits for the goroutines.                                      *)

Unlocked == mgr # "stopping"

(* newManagerProcess looks the metrics up, or creates them. *)
Spawn ==
    \E p \in Slots :
        /\ procs[p].phase = "free"
        /\ cur' = p
        /\ procs' = [procs EXCEPT ![p] = [Free EXCEPT !.phase = "select",
                                                      !.ch = TRUE]]
        /\ series' = IF series = "absent" THEN "zero" ELSE series
        /\ attached' = attached \cup {p}

Signal ==
    /\ procs' = [procs EXCEPT ![cur].ch = TRUE]
    /\ UNCHANGED <<cur, series, attached>>

(* Fault: an Update that comes after StopAll starts a goroutine. *)
update_Late(noStart) ==
    /\ Unlocked
    /\ IF cur # NoProcess THEN Signal
       ELSE IF noStart THEN UNCHANGED <<cur, procs, series, attached>>
       ELSE Spawn

update(noStart) ==
    /\ Unlocked
    /\ IF mgr = "stopped" \/ (cur = NoProcess /\ noStart)
       THEN UNCHANGED <<cur, procs, series, attached>>
       ELSE IF cur # NoProcess THEN Signal
       ELSE Spawn

(* Fault: the goroutine is forgotten and not cancelled. *)
Release_Running(pause) ==
    /\ Unlocked
    /\ cur' = NoProcess
    /\ UNCHANGED <<procs, series, attached>>

(* Fault: the entry stays in the map. *)
Release_Kept(pause) ==
    /\ Unlocked
    /\ procs' = IF cur = NoProcess THEN procs
                ELSE [procs EXCEPT ![cur].cancelled = TRUE, ![cur].pause = pause]
    /\ UNCHANGED <<cur, series, attached>>

(* Stop, and Pause, which has the metrics kept. *)
Release(pause) ==
    /\ Unlocked
    /\ cur' = NoProcess
    /\ procs' = IF cur = NoProcess THEN procs
                ELSE [procs EXCEPT ![cur].cancelled = TRUE, ![cur].pause = pause]
    /\ UNCHANGED <<series, attached>>

StopAll ==
    /\ mgr = "running"
    /\ restarts > 0
    /\ restarts' = restarts - 1
    /\ mgr' = "stopping"
    /\ cur' = NoProcess
    /\ procs' = IF cur = NoProcess THEN procs
                ELSE [procs EXCEPT ![cur].cancelled = TRUE]
    /\ UNCHANGED <<kubeVars, reconcilerVars, metricsVars, failing, requests, deletes>>

(* wg.Wait returns. *)
StopAllReturns ==
    /\ mgr = "stopping"
    /\ \A p \in Slots : procs[p].phase = "free"
    /\ mgr' = "stopped"
    /\ UNCHANGED <<kubeVars, reconcilerVars, cur, procs, metricsVars, boundVars>>

-----------------------------------------------------------------------------
(* The reconciler.  Requests for one MySQLCluster are served one at a time *)

(* A watch event: any change, one of the status too, requests a run. *)
Sync ==
    /\ ~synced
    /\ cache' = mc
    /\ synced' = TRUE
    /\ queued' = TRUE
    /\ UNCHANGED <<mc, rpc, view, fresh, managerVars, metricsVars, boundVars>>

Reconcile ==
    /\ rpc = "idle"
    /\ queued
    /\ queued' = FALSE
    /\ view' = cache
    /\ fresh' = synced
    /\ rpc' = IF cache.there /\ ~cache.deleting /\ ~cache.halt THEN "resources"
              ELSE "manage"
    /\ UNCHANGED <<kubeVars, managerVars, metricsVars, boundVars>>

(* Secrets, StatefulSet, Services, ...: done, or failed and to be retried. *)
ResourcesDone ==
    /\ rpc = "resources"
    /\ rpc' = "manage"
    /\ UNCHANGED <<kubeVars, queued, view, fresh, managerVars, metricsVars, boundVars>>

ResourcesFail ==
    /\ rpc = "resources"
    /\ "resources" \in failing
    /\ rpc' = "error"
    /\ queued' = TRUE
    /\ UNCHANGED <<kubeVars, view, fresh, managerVars, metricsVars, boundVars>>

(* The MySQLCluster is gone or going. *)
ReconcileStop ==
    /\ rpc = "manage"
    /\ ~view.there \/ view.deleting
    /\ Release(FALSE)
    /\ rpc' = IF view.there THEN "finalize" ELSE "idle"
    /\ UNCHANGED <<kubeVars, queued, view, fresh, mgr, gauge, boundVars>>

ReconcileUpdate ==
    /\ rpc = "manage"
    /\ view.there /\ ~view.deleting /\ ~view.stop
    /\ update(FALSE)
    /\ gauge' = "0"
    /\ rpc' = "report"
    /\ UNCHANGED <<kubeVars, queued, view, fresh, mgr, boundVars>>

(* clusteringStopV1 does nothing once the condition says so. *)
ReconcileStopped ==
    /\ rpc = "manage"
    /\ view.there /\ ~view.deleting /\ view.stop
    /\ view.active = "False"
    /\ rpc' = "report"
    /\ UNCHANGED <<kubeVars, queued, view, fresh, managerVars, metricsVars, boundVars>>

ReconcilePause ==
    /\ rpc = "manage"
    /\ view.there /\ ~view.deleting /\ view.stop
    /\ view.active # "False"
    /\ Release(TRUE)
    /\ rpc' = "record"
    /\ UNCHANGED <<kubeVars, queued, view, fresh, mgr, gauge, boundVars>>

(* The reconciler's own write leaves it with the current version. *)
StatusUpdate(new) ==
    /\ fresh
    /\ mc' = new
    /\ view' = new
    /\ synced' = FALSE
    /\ procs' = Outdated(procs)
    /\ UNCHANGED <<cache, fresh>>

(* Fault: the health conditions are left as they are. *)
Inactive_Healthy(c) == [c EXCEPT !.active = "False"]

Inactive(c) ==
    [c EXCEPT !.active = "False",
              !.health = IF @ = "" THEN "" ELSE "Unknown"]

RecordStopped ==
    /\ rpc = "record"
    /\ StatusUpdate(Inactive(view))
    /\ gauge' = "1"
    /\ rpc' = "report"
    /\ UNCHANGED <<queued, cur, mgr, series, attached, boundVars>>

(* The update is a conflict or fails for another reason. *)
Refused == ~fresh \/ "status" \in failing

(* The object in memory keeps its new conditions.  The deferred            *)
(* updateStatus, which a halted reconciliation does not have, goes on with *)
(* it.                                                                     *)
RecordFails ==
    /\ rpc = "record"
    /\ Refused
    /\ view' = Inactive(view)
    /\ rpc' = IF view.halt THEN "idle" ELSE "error"
    /\ queued' = TRUE
    /\ UNCHANGED <<kubeVars, fresh, managerVars, metricsVars, boundVars>>

(* Fault: a status that no condition has. *)
Reported_Inactive(c, ok) == [c EXCEPT !.reconciling = "ReconciliationInactive"]

(* reconciliationStopV1, or updateStatus, after an error or not. *)
Reported(c, ok) ==
    IF c.halt THEN [c EXCEPT !.reconciling = "False"]
    ELSE [c EXCEPT !.reconciling = "True", !.success = IF ok THEN "True" ELSE "False"]

(* What is compared is the object before and after this step alone. *)
NewReport == Reported(view, rpc = "report")

Report ==
    /\ rpc \in {"report", "error"}
    /\ rpc' = "idle"
    /\ IF NewReport = view THEN UNCHANGED <<mc, view, synced, procs, cache, fresh>>
       ELSE StatusUpdate(NewReport)
    /\ UNCHANGED <<queued, cur, mgr, metricsVars, boundVars>>

(* finalizeV1, and the removal of the finalizer. *)
Finalize ==
    /\ rpc = "finalize"
    /\ StatusUpdate(Gone)
    /\ gauge' = "absent"
    /\ rpc' = "idle"
    /\ UNCHANGED <<queued, cur, mgr, series, attached, boundVars>>

(* The last write of the reconciliation fails, and it is repeated. *)
WriteFails ==
    /\ rpc = "finalize" \/ (rpc \in {"report", "error"} /\ NewReport # view)
    /\ Refused
    /\ gauge' = IF rpc = "finalize" THEN "absent" ELSE gauge
    /\ rpc' = "idle"
    /\ queued' = TRUE
    /\ UNCHANGED <<kubeVars, view, fresh, managerVars, series, attached, boundVars>>

(* PodWatcher: a Pod of the cluster is deleted or demoted. *)
PodEvent ==
    /\ update(TRUE)
    /\ UNCHANGED <<kubeVars, reconcilerVars, mgr, gauge, boundVars>>

-----------------------------------------------------------------------------
(* A goroutine.  A call with a cancelled context is an error, which ends   *)
(* the pass.                                                               *)

Go(p, phase) ==
    procs' = [procs EXCEPT ![p].phase = phase, ![p].current = FALSE]

(* select takes any of its cases that is ready, the ticker's or the        *)
(* channel's also when the context is done.                                *)
Begin(p) ==
    /\ procs[p].phase = "select"
    /\ \E ch \in {procs[p].ch, FALSE} :
          procs' = [procs EXCEPT ![p].phase = "gather", ![p].ch = ch]
    /\ UNCHANGED <<kubeVars, reconcilerVars, cur, mgr, metricsVars, boundVars>>

(* Fault: the goroutine takes the lock to remove its entry. *)
Quit_Locking(p) ==
    /\ procs[p].phase = "select"
    /\ procs[p].cancelled
    /\ Unlocked
    /\ procs' = [procs EXCEPT ![p] = Free]
    /\ series' = "absent"
    /\ attached' = {}
    /\ UNCHANGED <<kubeVars, reconcilerVars, cur, mgr, gauge, boundVars>>

(* Fault: the metrics are deleted after a pause as well. *)
Quit_Deleting(p) ==
    /\ procs[p].phase = "select"
    /\ procs[p].cancelled
    /\ procs' = [procs EXCEPT ![p] = Free]
    /\ series' = "absent"
    /\ attached' = {}
    /\ UNCHANGED <<kubeVars, reconcilerVars, cur, mgr, gauge, boundVars>>

Quit(p) ==
    /\ procs[p].phase = "select"
    /\ procs[p].cancelled
    /\ procs' = [procs EXCEPT ![p] = Free]
    /\ IF procs[p].pause
       THEN series' = "NaN" /\ attached' = attached \ {p}
       ELSE series' = "absent" /\ attached' = {}
    /\ UNCHANGED <<kubeVars, reconcilerVars, cur, mgr, gauge, boundVars>>

GatherStatus(p) ==
    /\ procs[p].phase = "gather"
    /\ ~procs[p].cancelled
    /\ mc.there
    /\ Go(p, "read")
    /\ UNCHANGED <<kubeVars, reconcilerVars, cur, mgr, metricsVars, boundVars>>

(* updateStatus reads the current version and sets the metrics. *)
ReadStatus(p) ==
    /\ procs[p].phase = "read"
    /\ ~procs[p].cancelled
    /\ mc.there
    /\ procs' = [procs EXCEPT ![p].phase = "write", ![p].current = TRUE]
    /\ series' = IF p \in attached THEN "value" ELSE series
    /\ UNCHANGED <<kubeVars, reconcilerVars, cur, mgr, attached, gauge, boundVars>>

Active(c) == [c EXCEPT !.active = "True", !.health = "Known"]

(* Fault: the write is not conditional on the version. *)
WriteStatus_Blind(p) ==
    /\ procs[p].phase = "write"
    /\ mc.there
    /\ procs' = [Outdated(procs) EXCEPT ![p].phase = "select"]
    /\ mc' = Active(mc)
    /\ synced' = FALSE
    /\ fresh' = FALSE
    /\ UNCHANGED <<cache, queued, rpc, view, cur, mgr, metricsVars, boundVars>>

(* The request may have been sent before the context was cancelled: then   *)
(* it takes effect although the pass ends with an error.                   *)
WriteStatus(p) ==
    /\ procs[p].phase = "write"
    /\ procs[p].current
    /\ procs' = [(IF Active(mc) = mc THEN procs ELSE Outdated(procs)) EXCEPT
                    ![p].phase = IF procs[p].cancelled THEN "select" ELSE "operate",
                    ![p].current = FALSE]
    /\ mc' = Active(mc)
    /\ synced' = (synced /\ Active(mc) = mc)
    /\ fresh' = (fresh /\ Active(mc) = mc)
    /\ UNCHANGED <<cache, queued, rpc, view, cur, mgr, metricsVars, boundVars>>

(* RetryOnConflict reads it again. *)
RetryStatus(p) ==
    /\ procs[p].phase = "write"
    /\ ~procs[p].current
    /\ Go(p, "read")
    /\ UNCHANGED <<kubeVars, reconcilerVars, cur, mgr, metricsVars, boundVars>>

(* The operation, and p.Update("redo") if it asks for another pass. *)
Operate(p) ==
    /\ procs[p].phase = "operate"
    /\ \E redo \in BOOLEAN :
          procs' = [procs EXCEPT ![p].phase = "select", ![p].ch = @ \/ redo]
    /\ UNCHANGED <<kubeVars, reconcilerVars, cur, mgr, metricsVars, boundVars>>

PassFails(p) ==
    /\ procs[p].phase \in {"gather", "read", "write"}
    /\ "pass" \in failing \/ procs[p].cancelled \/ ~mc.there
    /\ Go(p, "select")
    /\ UNCHANGED <<kubeVars, reconcilerVars, cur, mgr, metricsVars, boundVars>>

Heal ==
    /\ failing # {}
    /\ failing' = {}
    /\ UNCHANGED <<kubeVars, reconcilerVars, managerVars, metricsVars,
                   requests, deletes, restarts>>

-----------------------------------------------------------------------------
(* The controller process *)

(* It comes back with nothing in memory and reads all objects. *)
Restarted ==
    /\ cache' = mc
    /\ synced' = TRUE
    /\ queued' = TRUE
    /\ rpc' = "idle" /\ view' = Gone /\ fresh' = FALSE
    /\ cur' = NoProcess
    /\ procs' = [p \in Slots |-> Free]
    /\ mgr' = "running"
    /\ series' = "absent" /\ attached' = {} /\ gauge' = "absent"
    /\ UNCHANGED <<mc, failing, requests, deletes>>

Restart == mgr = "stopped" /\ Restarted /\ UNCHANGED restarts

Crash ==
    /\ restarts > 0
    /\ restarts' = restarts - 1
    /\ Restarted

-----------------------------------------------------------------------------
User == stopClustering \/ startClustering \/ stopReconciliation
        \/ startReconciliation \/ Delete

Reconciler == Reconcile \/ ResourcesDone \/ ResourcesFail \/ ReconcileStop
              \/ ReconcileUpdate \/ ReconcileStopped \/ ReconcilePause
              \/ RecordStopped \/ RecordFails \/ Report \/ Finalize \/ WriteFails

Process(p) == Begin(p) \/ Quit(p) \/ GatherStatus(p) \/ ReadStatus(p)
              \/ WriteStatus(p) \/ RetryStatus(p) \/ Operate(p) \/ PassFails(p)

Next ==
    \/ User \/ Create \/ Heal
    \/ Sync \/ Reconciler \/ PodEvent
    \/ \E p \in Slots : Process(p)
    \/ StopAll \/ StopAllReturns \/ Restart \/ Crash

Spec == Init /\ [][Next]_vars

(* Watch events arrive, requests are served, a goroutine goes on, and it   *)
(* leaves select when its context stays done.  Calls may go on failing.    *)
FairSpec ==
    /\ Spec
    /\ WF_vars(Sync) /\ WF_vars(Reconciler)
    /\ \A p \in Slots : WF_vars(Process(p)) /\ SF_vars(Quit(p))
    /\ WF_vars(StopAllReturns \/ Restart)

(* Failures come to an end. *)
HealthySpec == FairSpec /\ WF_vars(Heal)

-----------------------------------------------------------------------------
Live(p) == procs[p].phase # "free" /\ ~procs[p].cancelled

(* No two goroutines maintain the cluster, and none escapes the map: what  *)
(* Stop, Pause and StopAll remove from it is cancelled (manager.go).       *)
OneLiveProcess == \A p \in Slots : Live(p) => cur = p

(* The recorded end of clustering is not undone by a goroutine that was    *)
(* still writing when it was paused: its write is a conflict               *)
(* (clusteringStopV1, updateStatus of process.go).                         *)
StopNotUndone ==
    [][\A p \in Slots :
          WriteStatus(p) /\ procs[p].pause => mc.active # "False"]_vars

(* No goroutine outlives StopAll, not even one that a reconciliation wants *)
(* to start while StopAll waits.                                           *)
ShutdownComplete == mgr = "stopped" => \A p \in Slots : procs[p].phase = "free"

(* StopAll, which waits with the lock held, returns. *)
ShutdownReturns == mgr = "stopping" ~> mgr # "stopping"

(* A request to stop clustering, once not revoked, ends the goroutine and  *)
(* is recorded (clusteringStopV1).                                         *)
StopObeyed ==
    <>[](mc.there /\ ~mc.deleting /\ mc.stop) =>
        <>[](/\ \A p \in Slots : ~Live(p)
             /\ mc.active = "False" /\ mc.health # "Known")

(* docs/designdoc/clustering_stop.md: the annotation stops the goroutine.  *)
StopEndsProcess ==
    <>[](mc.there /\ ~mc.deleting /\ mc.stop) => <>[](\A p \in Slots : ~Live(p))

(* A cluster that is not stopped is maintained, whether its reconciliation *)
(* is stopped or not, and says so in its conditions and in                 *)
(* clustering_stopped, also when clustering was stopped in between or the  *)
(* cluster deleted and created again (reconcileV1, updateStatus).          *)
StartObeyed ==
    <>[](mc.there /\ ~mc.deleting /\ ~mc.stop) =>
        <>[](/\ cur # NoProcess /\ mc.active = "True" /\ mc.health = "Known"
             /\ gauge = "0")

(* The gauges of a maintained cluster are exported, even if clustering was *)
(* stopped in between and the old goroutine ends after the new one has     *)
(* begun (pauseMetrics).  A cluster that is deleted and created again is   *)
(* excepted: the end of its old goroutine deletes the gauges of the new    *)
(* one (deleteMetrics).                                                    *)
MetricsReported ==
    [](mc.there /\ ~mc.deleting) /\ <>[]~mc.stop => <>[](series = "value")

=============================================================================
