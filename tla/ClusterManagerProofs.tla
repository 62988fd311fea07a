------------------------- MODULE ClusterManagerProofs -------------------------
(* For any number of goroutines: the map of clusterManager knows the only  *)
(* goroutine that is not cancelled, and none outlives StopAll.             *)
EXTENDS ClusterManager, TLAPS

(* Why the two invariants are inductive: StopAll leaves no entry, and      *)
(* nothing is started as long as it waits or after it has returned.        *)
ManagerInv ==
    /\ TypeOK
    /\ OneLiveProcess
    /\ ShutdownComplete
    /\ mgr # "running" => cur = NoProcess

(* The MySQLClusters that are written are MySQLClusters. *)
LEMMA ClusterTypes ==
    /\ NewCluster \in MySQLCluster
    /\ StoppedCluster \in MySQLCluster
    /\ Gone \in MySQLCluster
    /\ \A c \in MySQLCluster :
          /\ [c EXCEPT !.stop = TRUE] \in MySQLCluster
          /\ [c EXCEPT !.stop = FALSE] \in MySQLCluster
          /\ [c EXCEPT !.halt = TRUE] \in MySQLCluster
          /\ [c EXCEPT !.halt = FALSE] \in MySQLCluster
          /\ [c EXCEPT !.deleting = TRUE] \in MySQLCluster
          /\ Inactive(c) \in MySQLCluster
          /\ \A ok \in BOOLEAN : Reported(c, ok) \in MySQLCluster
          /\ Active(c) \in MySQLCluster
<1>1. /\ NewCluster \in MySQLCluster
      /\ StoppedCluster \in MySQLCluster
      /\ Gone \in MySQLCluster
  BY DEF NewCluster, StoppedCluster, Gone, MySQLCluster, Conditions
<1>2. ASSUME NEW c \in MySQLCluster
      PROVE  /\ [c EXCEPT !.stop = TRUE] \in MySQLCluster
             /\ [c EXCEPT !.stop = FALSE] \in MySQLCluster
             /\ [c EXCEPT !.halt = TRUE] \in MySQLCluster
             /\ [c EXCEPT !.halt = FALSE] \in MySQLCluster
             /\ [c EXCEPT !.deleting = TRUE] \in MySQLCluster
             /\ Inactive(c) \in MySQLCluster
             /\ Active(c) \in MySQLCluster
  BY <1>2 DEF MySQLCluster, Inactive, Active, Conditions
<1>3. ASSUME NEW c \in MySQLCluster, NEW ok \in BOOLEAN
      PROVE  Reported(c, ok) \in MySQLCluster
  <2>1. CASE c.halt BY <1>3, <2>1 DEF MySQLCluster, Reported, Conditions
  <2>2. CASE ~c.halt /\ ok BY <1>3, <2>2 DEF MySQLCluster, Reported, Conditions
  <2>3. CASE ~c.halt /\ ~ok BY <1>3, <2>3 DEF MySQLCluster, Reported, Conditions
  <2> QED BY <2>1, <2>2, <2>3
<1> QED BY <1>1, <1>2, <1>3

(* A goroutine that forgets a version is a goroutine. *)
LEMMA OutdatedType ==
    ASSUME procs \in [Slots -> managerProcess]
    PROVE  /\ Outdated(procs) \in [Slots -> managerProcess]
           /\ \A p \in Slots : /\ Outdated(procs)[p].phase = procs[p].phase
                               /\ Outdated(procs)[p].cancelled = procs[p].cancelled
                               /\ Outdated(procs)[p].pause = procs[p].pause
  BY DEF Outdated, managerProcess

(* A step that changes no goroutine's phase or context, nor the manager,   *)
(* keeps the invariant if it keeps the types.                              *)
LEMMA SameLives ==
    ASSUME ManagerInv, TypeOK', UNCHANGED <<cur, mgr>>,
           \A p \in Slots : /\ procs'[p].phase = "free" <=> procs[p].phase = "free"
                            /\ procs[p].cancelled => procs'[p].cancelled
    PROVE  ManagerInv'
  BY DEF ManagerInv, OneLiveProcess, ShutdownComplete, Live

(* Initially nothing runs. *)
LEMMA ManagerInit == Init => ManagerInv
<1> SUFFICES ASSUME Init PROVE ManagerInv OBVIOUS
<1>1. Free \in managerProcess BY DEF Free, managerProcess, Phases
<1>2. /\ mc \in MySQLCluster
      /\ failing \subseteq Faults
      /\ requests \in Nat /\ deletes \in Nat /\ restarts \in Nat
  BY ClusterTypes, ManagerAssumption DEF Init
<1>3. TypeOK
  BY <1>1, <1>2, ClusterTypes DEF Init, TypeOK
<1> QED BY <1>3 DEF Init, ManagerInv, OneLiveProcess, ShutdownComplete, Live, Free

(* The requests of the user keep the invariant. *)
LEMMA UserKeeps == ASSUME ManagerInv, User \/ Create PROVE ManagerInv'
<1>1. PICK new \in MySQLCluster : Write(new)
  BY ClusterTypes
  DEF User, stopClustering, startClustering, stopReconciliation,
      startReconciliation, Request, Delete, Create, ManagerInv, TypeOK
<1>2. requests' \in Nat /\ deletes' \in Nat /\ restarts' \in Nat
      /\ failing' \subseteq Faults
  BY DEF User, stopClustering, startClustering, stopReconciliation,
         startReconciliation, Request, Delete, Create, ManagerInv, TypeOK, boundVars
<1>3. TypeOK'
  BY <1>1, <1>2, OutdatedType DEF Write, ManagerInv, TypeOK, metricsVars
<1> QED BY <1>1, <1>3, OutdatedType, SameLives DEF Write, ManagerInv, TypeOK

(* The end of the failures and a watch event keep the invariant. *)
LEMMA HealKeeps == ASSUME ManagerInv, Heal \/ Sync PROVE ManagerInv'
<1>1. TypeOK'
  <2>1. CASE Heal
    BY <2>1 DEF Heal, ManagerInv, TypeOK, kubeVars, reconcilerVars, managerVars, metricsVars
  <2>2. CASE Sync
    BY <2>2 DEF Sync, ManagerInv, TypeOK, managerVars, metricsVars, boundVars
  <2> QED BY <2>1, <2>2
<1>2. UNCHANGED <<cur, mgr, procs>> BY DEF Heal, Sync, managerVars
<1> QED BY <1>1, <1>2, SameLives

-----------------------------------------------------------------------------
(* The methods of clusterManager *)

(* update signals the goroutine of the map or starts the only one. *)
LEMMA UpdateKeeps ==
    ASSUME ManagerInv, NEW noStart \in BOOLEAN, update(noStart), UNCHANGED mgr
    PROVE  /\ cur' \in Slots \cup {NoProcess}
           /\ procs' \in [Slots -> managerProcess]
           /\ series' \in {"absent", "zero", "value", "NaN"}
           /\ attached' \subseteq Slots
           /\ OneLiveProcess' /\ ShutdownComplete'
           /\ mgr' # "running" => cur' = NoProcess
<1>0. /\ procs \in [Slots -> managerProcess]
      /\ cur \in Slots \cup {NoProcess}
      /\ series \in {"absent", "zero", "value", "NaN"}
      /\ attached \subseteq Slots
      /\ mgr \in {"running", "stopping", "stopped"}
  BY DEF ManagerInv, TypeOK
<1>1. CASE UNCHANGED <<cur, procs, series, attached>>
  BY <1>0, <1>1 DEF ManagerInv, OneLiveProcess, ShutdownComplete, Live
<1>2. CASE Signal /\ cur # NoProcess
  <2>1. procs' \in [Slots -> managerProcess]
    BY <1>0, <1>2 DEF Signal, managerProcess
  <2>2. \A p \in Slots : /\ procs'[p].phase = procs[p].phase
                         /\ procs'[p].cancelled = procs[p].cancelled
    BY <1>0, <1>2 DEF Signal, managerProcess
  <2>3. UNCHANGED <<cur, series, attached>> BY <1>2 DEF Signal
  <2> QED BY <1>0, <2>1, <2>2, <2>3
          DEF ManagerInv, OneLiveProcess, ShutdownComplete, Live
<1>3. CASE Spawn /\ cur = NoProcess /\ mgr # "stopped"
  <2>1. PICK p \in Slots :
          /\ procs[p].phase = "free"
          /\ cur' = p
          /\ procs' = [procs EXCEPT ![p] = [Free EXCEPT !.phase = "select", !.ch = TRUE]]
          /\ series' = IF series = "absent" THEN "zero" ELSE series
          /\ attached' = attached \cup {p}
    BY <1>3 DEF Spawn
  <2>2. [Free EXCEPT !.phase = "select", !.ch = TRUE] \in managerProcess
    BY DEF Free, managerProcess, Phases
  <2>3. procs' \in [Slots -> managerProcess] BY <1>0, <2>1, <2>2
  <2>4. \A q \in Slots : ~Live(q)
    BY <1>3, ManagerAssumption DEF ManagerInv, OneLiveProcess
  <2>5. OneLiveProcess'
    BY <1>0, <2>1, <2>4 DEF OneLiveProcess, Live
  <2>6. mgr = "running" BY <1>0, <1>3 DEF update, Unlocked
  <2> QED BY <1>0, <2>1, <2>3, <2>5, <2>6 DEF ShutdownComplete
<1> QED BY <1>1, <1>2, <1>3 DEF update

(* Stop and Pause cancel what they remove. *)
LEMMA ReleaseKeeps ==
    ASSUME ManagerInv, NEW pause \in BOOLEAN, Release(pause), UNCHANGED mgr
    PROVE  /\ cur' \in Slots \cup {NoProcess}
           /\ procs' \in [Slots -> managerProcess]
           /\ UNCHANGED <<series, attached>>
           /\ OneLiveProcess' /\ ShutdownComplete'
           /\ mgr' # "running" => cur' = NoProcess
<1>0. procs \in [Slots -> managerProcess] /\ cur \in Slots \cup {NoProcess}
  BY DEF ManagerInv, TypeOK
<1>1. procs' \in [Slots -> managerProcess]
  BY <1>0 DEF Release, managerProcess
<1>2. \A p \in Slots : /\ procs'[p].phase = procs[p].phase
                       /\ p = cur \/ procs[p].cancelled => procs'[p].cancelled
  BY <1>0, ManagerAssumption DEF Release, managerProcess
<1>3. OneLiveProcess' BY <1>2 DEF ManagerInv, OneLiveProcess, Live
<1> QED BY <1>1, <1>2, <1>3 DEF Release, ManagerInv, ShutdownComplete

(* StopAll cancels the goroutine and returns when all are gone. *)
LEMMA StopAllKeeps == ASSUME ManagerInv, StopAll \/ StopAllReturns PROVE ManagerInv'
<1>0. procs \in [Slots -> managerProcess] /\ cur \in Slots \cup {NoProcess}
  BY DEF ManagerInv, TypeOK
<1>1. CASE StopAll
  <2>1. procs' \in [Slots -> managerProcess]
    BY <1>0, <1>1 DEF StopAll, managerProcess
  <2>2. \A p \in Slots : /\ procs'[p].phase = procs[p].phase
                         /\ p = cur \/ procs[p].cancelled => procs'[p].cancelled
    BY <1>0, <1>1, ManagerAssumption DEF StopAll, managerProcess
  <2>3. TypeOK'
    BY <1>1, <2>1 DEF StopAll, ManagerInv, TypeOK, kubeVars, reconcilerVars, metricsVars
  <2>4. OneLiveProcess' BY <2>2 DEF ManagerInv, OneLiveProcess, Live
  <2> QED BY <1>1, <2>3, <2>4 DEF StopAll, ManagerInv, ShutdownComplete
<1>2. CASE StopAllReturns
  <2>1. TypeOK'
    BY <1>2 DEF StopAllReturns, ManagerInv, TypeOK, kubeVars, reconcilerVars,
                metricsVars, boundVars
  <2> QED BY <1>2, <2>1
          DEF StopAllReturns, ManagerInv, OneLiveProcess, ShutdownComplete, Live
<1> QED BY <1>1, <1>2

-----------------------------------------------------------------------------
(* The reconciler *)

(* A status update, one that fails and the steps before the manager is called  *)
(* leave the goroutines alone.                                             *)
LEMMA ReconcilerWrites ==
    ASSUME ManagerInv,
           \/ Reconcile \/ ResourcesDone \/ ResourcesFail \/ ReconcileStopped
           \/ RecordStopped \/ RecordFails \/ Report \/ Finalize \/ WriteFails
    PROVE  ManagerInv'
<1> USE DEF kubeVars, reconcilerVars, managerVars, metricsVars, boundVars
<1>0. /\ procs \in [Slots -> managerProcess]
      /\ mc \in MySQLCluster /\ view \in MySQLCluster /\ cache \in MySQLCluster
  BY DEF ManagerInv, TypeOK
<1>1. CASE \/ Reconcile \/ ResourcesDone \/ ResourcesFail \/ ReconcileStopped
           \/ RecordFails \/ WriteFails
  <2>1. UNCHANGED <<cur, mgr, procs>>
    BY <1>1 DEF Reconcile, ResourcesDone, ResourcesFail, ReconcileStopped, RecordFails,
                WriteFails
  <2>2. TypeOK'
    <3>1. CASE RecordFails
      BY <1>0, <3>1, ClusterTypes DEF RecordFails, ManagerInv, TypeOK
    <3>2. CASE ~RecordFails
      BY <1>1, <3>2 DEF Reconcile, ResourcesDone, ResourcesFail, ReconcileStopped,
                        WriteFails, ManagerInv, TypeOK
    <3> QED BY <3>1, <3>2
  <2> QED BY <2>1, <2>2, SameLives
<1>2. CASE RecordStopped \/ Finalize
  <2>1. PICK new \in MySQLCluster : StatusUpdate(new)
    BY <1>0, <1>2, ClusterTypes DEF RecordStopped, Finalize
  <2>2. TypeOK'
    BY <1>0, <1>2, <2>1, OutdatedType
    DEF RecordStopped, Finalize, StatusUpdate, ManagerInv, TypeOK
  <2>3. UNCHANGED <<cur, mgr>> BY <1>2 DEF RecordStopped, Finalize
  <2> QED BY <1>0, <2>1, <2>2, <2>3, OutdatedType, SameLives DEF StatusUpdate
<1>3. CASE Report
  <2>1. UNCHANGED <<cur, mgr>> BY <1>3 DEF Report
  <2>2. CASE UNCHANGED <<mc, view, synced, procs, cache, fresh>>
    <3>1. TypeOK' BY <1>3, <2>2 DEF Report, ManagerInv, TypeOK
    <3> QED BY <2>1, <2>2, <3>1, SameLives
  <2>3. CASE StatusUpdate(NewReport)
    <3>1. NewReport \in MySQLCluster BY <1>0, ClusterTypes DEF NewReport
    <3>2. TypeOK'
      BY <1>0, <1>3, <2>3, <3>1, OutdatedType DEF Report, StatusUpdate, ManagerInv, TypeOK
    <3> QED BY <1>0, <2>1, <2>3, <3>2, OutdatedType, SameLives DEF StatusUpdate
  <2> QED BY <1>3, <2>2, <2>3 DEF Report
<1> QED BY <1>1, <1>2, <1>3

(* The calls of the reconciler and of PodWatcher keep the invariant. *)
LEMMA CallsKeep ==
    ASSUME ManagerInv, ReconcileStop \/ ReconcilePause \/ ReconcileUpdate \/ PodEvent
    PROVE  ManagerInv'
<1> USE DEF kubeVars, reconcilerVars, managerVars, metricsVars, boundVars
<1>1. CASE ReconcileStop
  BY <1>1, ReleaseKeeps DEF ReconcileStop, ManagerInv, TypeOK
<1>2. CASE ReconcilePause
  BY <1>2, ReleaseKeeps DEF ReconcilePause, ManagerInv, TypeOK
<1>3. CASE ReconcileUpdate
  BY <1>3, UpdateKeeps DEF ReconcileUpdate, ManagerInv, TypeOK
<1>4. CASE PodEvent
  BY <1>4, UpdateKeeps DEF PodEvent, ManagerInv, TypeOK
<1> QED BY <1>1, <1>2, <1>3, <1>4

-----------------------------------------------------------------------------
(* A goroutine *)

(* A goroutine that goes on is not free, before and after. *)
LEMMA ProcessKeeps ==
    ASSUME ManagerInv, NEW p \in Slots,
           \/ Begin(p) \/ GatherStatus(p) \/ ReadStatus(p)
           \/ WriteStatus(p) \/ RetryStatus(p) \/ Operate(p) \/ PassFails(p)
    PROVE  ManagerInv'
<1> USE DEF kubeVars, reconcilerVars, managerVars, metricsVars, boundVars
<1>0. procs \in [Slots -> managerProcess] /\ mc \in MySQLCluster
  BY DEF ManagerInv, TypeOK
<1>1. CASE \/ Begin(p) \/ GatherStatus(p) \/ ReadStatus(p)
           \/ RetryStatus(p) \/ Operate(p) \/ PassFails(p)
  <2>1. /\ procs' \in [Slots -> managerProcess]
        /\ procs[p].phase # "free" /\ procs'[p].phase # "free"
        /\ procs'[p].cancelled = procs[p].cancelled
        /\ \A q \in Slots \ {p} : procs'[q] = procs[q]
    BY <1>0, <1>1 DEF Begin, GatherStatus, ReadStatus, RetryStatus, Operate,
                      PassFails, Go, managerProcess, Phases
  <2>2. UNCHANGED <<cur, mgr>>
    BY <1>1 DEF Begin, GatherStatus, ReadStatus, RetryStatus, Operate, PassFails
  <2>3. TypeOK'
    BY <1>1, <2>1 DEF Begin, GatherStatus, ReadStatus, RetryStatus, Operate,
                      PassFails, ManagerInv, TypeOK
  <2> QED BY <2>1, <2>2, <2>3, SameLives
<1>2. CASE WriteStatus(p)
  <2> DEFINE ps == IF Active(mc) = mc THEN procs ELSE Outdated(procs)
  <2>1. /\ ps \in [Slots -> managerProcess]
        /\ \A q \in Slots : /\ ps[q].phase = procs[q].phase
                            /\ ps[q].cancelled = procs[q].cancelled
    BY <1>0, OutdatedType
  <2>2. PICK next \in {"select", "operate"} :
          procs' = [ps EXCEPT ![p].phase = next, ![p].current = FALSE]
    <3>1. CASE procs[p].cancelled BY <1>2, <3>1 DEF WriteStatus
    <3>2. CASE ~procs[p].cancelled BY <1>2, <3>2 DEF WriteStatus
    <3> QED BY <3>1, <3>2
  <2> HIDE DEF ps
  <2>3. /\ procs' \in [Slots -> managerProcess]
        /\ procs'[p].phase # "free"
        /\ procs'[p].cancelled = procs[p].cancelled
        /\ \A q \in Slots \ {p} : procs'[q] = ps[q]
    BY <2>1, <2>2 DEF managerProcess, Phases
  <2>4. UNCHANGED <<cur, mgr>> /\ procs[p].phase = "write" BY <1>2 DEF WriteStatus
  <2>5. TypeOK'
    BY <1>0, <1>2, <2>3, ClusterTypes DEF WriteStatus, ManagerInv, TypeOK
  <2> QED BY <2>1, <2>3, <2>4, <2>5, SameLives
<1> QED BY <1>1, <1>2

(* Only a cancelled goroutine ends. *)
LEMMA QuitKeeps == ASSUME ManagerInv, NEW p \in Slots, Quit(p) PROVE ManagerInv'
<1>0. procs \in [Slots -> managerProcess] BY DEF ManagerInv, TypeOK
<1>1. Free \in managerProcess BY DEF Free, managerProcess, Phases
<1>2. procs' = [procs EXCEPT ![p] = Free] /\ UNCHANGED <<cur, mgr>> BY DEF Quit
<1>3. TypeOK'
  BY <1>0, <1>1, <1>2 DEF Quit, ManagerInv, TypeOK, kubeVars, reconcilerVars, boundVars
<1>4. OneLiveProcess'
  BY <1>0, <1>2 DEF ManagerInv, OneLiveProcess, Live, Free
<1>5. ShutdownComplete' BY <1>0, <1>2 DEF ManagerInv, ShutdownComplete, Free
<1> QED BY <1>2, <1>3, <1>4, <1>5 DEF ManagerInv

(* A new controller process runs nothing yet. *)
LEMMA RestartKeeps == ASSUME ManagerInv, Restart \/ Crash PROVE ManagerInv'
<1>1. Free \in managerProcess BY DEF Free, managerProcess, Phases
<1>2. Restarted BY DEF Restart, Crash
<1>3. restarts' \in Nat BY DEF Restart, Crash, ManagerInv, TypeOK
<1>4. TypeOK'
  BY <1>1, <1>2, <1>3, ClusterTypes, ManagerAssumption DEF Restarted, ManagerInv, TypeOK
<1> QED BY <1>2, <1>4
        DEF Restarted, ManagerInv, OneLiveProcess, ShutdownComplete, Live, Free

(* The invariant is inductive. *)
LEMMA ManagerNext == ManagerInv /\ [Next]_vars => ManagerInv'
<1> SUFFICES ASSUME ManagerInv, [Next]_vars PROVE ManagerInv' OBVIOUS
<1>1. CASE Next
  <2>1. CASE Reconciler
    BY <2>1, ReconcilerWrites, CallsKeep DEF Reconciler
  <2>2. ASSUME NEW p \in Slots, Process(p) PROVE ManagerInv'
    BY <2>2, ProcessKeeps, QuitKeeps DEF Process
  <2> QED BY <1>1, <2>1, <2>2, UserKeeps, HealKeeps, CallsKeep, StopAllKeeps,
             RestartKeeps DEF Next
<1>2. CASE UNCHANGED vars
  BY <1>2 DEF vars, kubeVars, reconcilerVars, managerVars, metricsVars, boundVars,
              ManagerInv, TypeOK, OneLiveProcess, ShutdownComplete, Live
<1> QED BY <1>1, <1>2

(* The types of the state, for any number of goroutines. *)
THEOREM ManagerTypes == Spec => []TypeOK
<1>1. ManagerInv => TypeOK BY DEF ManagerInv
<1> QED BY <1>1, ManagerInit, ManagerNext, PTL DEF Spec

(* The cluster is never maintained by two goroutines that are not          *)
(* cancelled, however Update, Stop, Pause, StopAll and restarts of the     *)
(* controller follow each other (manager.go).                              *)
THEOREM OneMaintainer == Spec => []OneLiveProcess
<1>1. ManagerInv => OneLiveProcess BY DEF ManagerInv
<1> QED BY <1>1, ManagerInit, ManagerNext, PTL DEF Spec

(* No goroutine outlives StopAll (manager.go).                             *)
THEOREM StopAllEndsAll == Spec => []ShutdownComplete
<1>1. ManagerInv => ShutdownComplete BY DEF ManagerInv
<1> QED BY <1>1, ManagerInit, ManagerNext, PTL DEF Spec

-----------------------------------------------------------------------------
(* The recorded stop *)

Stops(c) == c.there /\ ~c.deleting /\ c.stop

(* What the reconciler and the cache have read: a version that is said to  *)
(* be the current one is, and a reconciliation that has the current one    *)
(* leaves the cache with it until it writes.  After an error its object    *)
(* may have the conditions that could not be written.                      *)
VersionInv ==
    /\ synced => cache = mc
    /\ fresh /\ rpc \notin {"idle", "error"} => view = mc
    /\ fresh /\ rpc \in {"resources", "manage", "record"} => synced
    /\ fresh /\ rpc = "error" /\ view # mc =>
          synced /\ Stops(mc) /\ cur = NoProcess

(* Whoever does not know yet that the stop is recorded has read the        *)
(* request to stop, and no goroutine was started since then.               *)
RecordInv ==
    /\ rpc = "record" => Stops(view) /\ cur = NoProcess
    /\ mc.active = "False" =>
          /\ cache.active # "False" => Stops(cache) /\ cur = NoProcess
          /\ rpc \in {"resources", "manage"} =>
                IF view.active = "False" THEN cache.active = "False"
                ELSE Stops(view) /\ cur = NoProcess

(* A paused goroutine is cancelled, so that it reads no new version, and   *)
(* the version that it may still write is one in which the stop is not     *)
(* recorded.                                                               *)
PauseInv ==
    \A p \in Slots : procs[p].pause =>
        /\ procs[p].cancelled
        /\ procs[p].phase = "write" /\ procs[p].current => mc.active # "False"

StopInv == VersionInv /\ RecordInv /\ PauseInv

(* Initially the cache is up to date, and nothing runs. *)
LEMMA StopInit == Init => StopInv
<1> SUFFICES ASSUME Init PROVE StopInv OBVIOUS
<1>1. cache = mc /\ ~fresh /\ rpc = "idle" BY DEF Init
<1>2. \A p \in Slots : ~procs[p].pause BY DEF Init, Free
<1> QED BY <1>1, <1>2 DEF StopInv, VersionInv, RecordInv, PauseInv

(* A write of the user does not touch the record of the stop, or makes a   *)
(* new MySQLCluster, which has none; all versions that were read are old.  *)
LEMMA UserKeepsStop == ASSUME ManagerInv, StopInv, User \/ Create PROVE StopInv'
<1>0. mc \in MySQLCluster /\ procs \in [Slots -> managerProcess]
  BY DEF ManagerInv, TypeOK
<1>1. /\ ~synced' /\ ~fresh' /\ procs' = Outdated(procs)
      /\ UNCHANGED <<cache, rpc, view, cur>>
  BY DEF User, stopClustering, startClustering, stopReconciliation, startReconciliation,
         Request, Delete, Create, Write
<1>2. mc'.active \in {mc.active, ""}
  <2>1. CASE stopClustering
    BY <1>0, <2>1 DEF stopClustering, Request, Write, MySQLCluster
  <2>2. CASE startClustering
    BY <1>0, <2>2 DEF startClustering, Request, Write, MySQLCluster
  <2>3. CASE stopReconciliation
    BY <1>0, <2>3 DEF stopReconciliation, Request, Write, MySQLCluster
  <2>4. CASE startReconciliation
    BY <1>0, <2>4 DEF startReconciliation, Request, Write, MySQLCluster
  <2>5. CASE Delete BY <1>0, <2>5 DEF Delete, Write, MySQLCluster
  <2>6. CASE Create BY <2>6 DEF Create, Write, NewCluster
  <2> QED BY <2>1, <2>2, <2>3, <2>4, <2>5, <2>6 DEF User
<1>3. \A p \in Slots : /\ procs'[p].pause = procs[p].pause
                       /\ procs'[p].cancelled = procs[p].cancelled
                       /\ ~procs'[p].current
  BY <1>0, <1>1 DEF Outdated, managerProcess
<1> QED BY <1>1, <1>2, <1>3 DEF StopInv, VersionInv, RecordInv, PauseInv, Stops

(* The end of the failures and a watch event leave the MySQLCluster alone. *)
LEMMA HealKeepsStop == ASSUME StopInv, Heal \/ Sync PROVE StopInv'
  BY DEF Heal, Sync, StopInv, VersionInv, RecordInv, PauseInv, Stops, kubeVars,
         reconcilerVars, managerVars

(* Update starts a goroutine only for a reconciliation that has read that  *)
(* clustering is not to be stopped.                                        *)
LEMMA UpdateKeepsStop ==
    ASSUME ManagerInv, StopInv, ReconcileUpdate \/ PodEvent PROVE StopInv'
<1>0. procs \in [Slots -> managerProcess] /\ cur \in Slots \cup {NoProcess}
  BY DEF ManagerInv, TypeOK
<1>1. UNCHANGED <<kubeVars, view, fresh>> /\ \E noStart \in BOOLEAN : update(noStart)
  BY DEF ReconcileUpdate, PodEvent, reconcilerVars
<1>2. \A p \in Slots : procs'[p].pause =>
          /\ procs[p].pause /\ procs'[p].cancelled = procs[p].cancelled
          /\ procs'[p].phase = procs[p].phase /\ procs'[p].current = procs[p].current
  <2>1. CASE UNCHANGED procs BY <2>1
  <2>2. CASE Signal /\ cur # NoProcess BY <1>0, <2>2 DEF Signal, managerProcess
  <2>3. CASE Spawn BY <1>0, <2>3 DEF Spawn, Free
  <2> QED BY <1>1, <2>1, <2>2, <2>3 DEF update
<1>3. PauseInv' BY <1>1, <1>2 DEF StopInv, PauseInv, kubeVars
<1>4. CASE ReconcileUpdate
  BY <1>1, <1>3, <1>4 DEF ReconcileUpdate, StopInv, VersionInv, RecordInv, Stops, kubeVars
<1>5. CASE PodEvent
  <2>1. cur = NoProcess => cur' = NoProcess
    BY <1>5 DEF PodEvent, update
  <2> QED BY <1>1, <1>3, <1>5, <2>1
          DEF PodEvent, StopInv, VersionInv, RecordInv, Stops, kubeVars, reconcilerVars
<1> QED BY <1>4, <1>5

(* A goroutine is paused by a reconciliation that has read a version in    *)
(* which the stop is not recorded, and the stop has not been recorded      *)
(* since, or there is no goroutine to pause.                               *)
LEMMA ReleaseKeepsStop ==
    ASSUME ManagerInv, StopInv, ReconcileStop \/ ReconcilePause PROVE StopInv'
<1>0. procs \in [Slots -> managerProcess] /\ cur \in Slots \cup {NoProcess}
  BY DEF ManagerInv, TypeOK
<1>1. UNCHANGED <<kubeVars, view, fresh>> /\ cur' = NoProcess
  BY DEF ReconcileStop, ReconcilePause, Release
<1>2. VersionInv' /\ RecordInv'
  BY <1>1 DEF ReconcileStop, ReconcilePause, StopInv, VersionInv, RecordInv, Stops, kubeVars
<1>3. CASE cur = NoProcess
  BY <1>1, <1>2, <1>3
  DEF ReconcileStop, ReconcilePause, Release, StopInv, PauseInv, kubeVars
<1>4. CASE cur # NoProcess
  <2>1. PICK pause \in BOOLEAN :
          /\ procs' = [procs EXCEPT ![cur].cancelled = TRUE, ![cur].pause = pause]
          /\ pause => ReconcilePause
    BY <1>4 DEF ReconcileStop, ReconcilePause, Release
  <2>2. /\ \A p \in Slots \ {cur} : procs'[p] = procs[p]
        /\ procs'[cur].cancelled /\ procs'[cur].pause = pause
    BY <1>0, <1>4, <2>1 DEF managerProcess
  <2>3. pause => mc.active # "False"
    BY <1>4, <2>1 DEF ReconcilePause, StopInv, RecordInv
  <2> QED BY <1>0, <1>1, <1>2, <2>2, <2>3 DEF StopInv, PauseInv, kubeVars
<1> QED BY <1>3, <1>4

(* A status update of the reconciler makes all versions old that the       *)
(* goroutines have read, and the record of the stop leaves the cache with  *)
(* the request.                                                            *)
LEMMA ReconcilerKeepsStop ==
    ASSUME ManagerInv, StopInv,
           \/ Reconcile \/ ResourcesDone \/ ResourcesFail \/ ReconcileStopped
           \/ RecordStopped \/ RecordFails \/ Report \/ Finalize \/ WriteFails
    PROVE  StopInv'
<1>0. procs \in [Slots -> managerProcess] /\ view \in MySQLCluster
  BY DEF ManagerInv, TypeOK
<1>1. CASE \/ Reconcile \/ ResourcesDone \/ ResourcesFail \/ ReconcileStopped
           \/ RecordFails \/ WriteFails
           \/ (Report /\ UNCHANGED <<mc, view, synced, procs, cache, fresh>>)
  <2>1. UNCHANGED <<kubeVars, procs, cur>>
    BY <1>1 DEF Reconcile, ResourcesDone, ResourcesFail, ReconcileStopped, RecordFails,
                WriteFails, Report, managerVars, kubeVars
  <2>2. PauseInv' BY <2>1 DEF StopInv, PauseInv, kubeVars
  <2>3. VersionInv' /\ RecordInv'
    BY <1>1, <2>1
    DEF Reconcile, ResourcesDone, ResourcesFail, ReconcileStopped, RecordFails, WriteFails,
        Report, kubeVars, StopInv, VersionInv, RecordInv, Stops
  <2> QED BY <2>2, <2>3 DEF StopInv
<1>2. CASE \/ RecordStopped \/ Finalize
           \/ (Report /\ StatusUpdate(NewReport))
  <2>1. /\ fresh /\ fresh' /\ mc' = view' /\ ~synced' /\ UNCHANGED <<cache, cur>>
        /\ procs' = Outdated(procs) /\ rpc' \in {"report", "idle"}
    BY <1>2 DEF RecordStopped, Finalize, Report, StatusUpdate
  <2>2. PauseInv'
    BY <1>0, <2>1 DEF StopInv, PauseInv, Outdated, managerProcess
  <2>3. CASE RecordStopped
    <3>1. Stops(cache) /\ cur = NoProcess
      BY <2>1, <2>3 DEF RecordStopped, StopInv, VersionInv, RecordInv
    <3> QED BY <2>1, <2>2, <3>1 DEF StopInv, VersionInv, RecordInv, Stops
  <2>4. CASE Finalize
    <3>1. mc'.active = "" BY <2>4 DEF Finalize, StatusUpdate, Gone, NewCluster
    <3> QED BY <2>1, <2>2, <3>1 DEF StopInv, VersionInv, RecordInv, Stops
  <2>5. CASE Report /\ StatusUpdate(NewReport)
    <3>1. mc'.active = view.active /\ rpc \in {"report", "error"} /\ rpc' = "idle"
      BY <1>0, <2>5 DEF Report, StatusUpdate, NewReport, Reported, MySQLCluster
    <3>2. CASE view = mc
      BY <2>1, <2>2, <3>1, <3>2 DEF StopInv, VersionInv, RecordInv, Stops
    <3>3. CASE view # mc
      BY <2>1, <2>2, <3>1, <3>3 DEF StopInv, VersionInv, RecordInv, Stops
    <3> QED BY <3>2, <3>3
  <2> QED BY <1>2, <2>3, <2>4, <2>5
<1> QED BY <1>1, <1>2 DEF Report

(* A paused goroutine reads nothing, and what a goroutine writes says that *)
(* clustering is active.                                                   *)
LEMMA ProcessKeepsStop ==
    ASSUME ManagerInv, StopInv, NEW p \in Slots, Process(p) PROVE StopInv'
<1>0. procs \in [Slots -> managerProcess] /\ mc \in MySQLCluster
  BY DEF ManagerInv, TypeOK
<1>1. CASE Process(p) /\ ~WriteStatus(p)
  <2>1. UNCHANGED <<kubeVars, reconcilerVars, cur>>
    BY <1>1 DEF Process, Begin, Quit, GatherStatus, ReadStatus, RetryStatus, Operate, PassFails
  <2>2. \A q \in Slots \ {p} : procs'[q] = procs[q]
    BY <1>0, <1>1 DEF Process, Begin, Quit, GatherStatus, ReadStatus, RetryStatus, Operate,
                      PassFails, Go
  <2>3. /\ procs'[p].pause => procs[p].pause /\ procs'[p].cancelled = procs[p].cancelled
        /\ procs'[p].phase = "write" => ~procs[p].cancelled
    BY <1>0, <1>1 DEF Process, Begin, Quit, GatherStatus, ReadStatus, RetryStatus, Operate,
                      PassFails, Go, managerProcess, Free
  <2> QED BY <2>1, <2>2, <2>3
          DEF StopInv, VersionInv, RecordInv, PauseInv, Stops, kubeVars, reconcilerVars
<1>2. CASE WriteStatus(p)
  <2>1. mc'.active = "True" /\ UNCHANGED <<cache, rpc, view, cur>>
    BY <1>0, <1>2 DEF WriteStatus, Active, MySQLCluster
  <2>2. /\ synced' => synced /\ mc' = mc
        /\ fresh' => fresh /\ mc' = mc
        /\ fresh' /\ synced => synced'
    BY <1>2 DEF WriteStatus
  <2>3. \A q \in Slots : procs'[q].pause => procs[q].pause
                         /\ procs'[q].cancelled = procs[q].cancelled
    <3> DEFINE ps == IF Active(mc) = mc THEN procs ELSE Outdated(procs)
    <3>1. /\ ps \in [Slots -> managerProcess]
          /\ \A q \in Slots : /\ ps[q].pause = procs[q].pause
                              /\ ps[q].cancelled = procs[q].cancelled
      BY <1>0, OutdatedType
    <3>2. PICK next : procs' = [ps EXCEPT ![p].phase = next, ![p].current = FALSE]
      BY <1>2 DEF WriteStatus
    <3> HIDE DEF ps
    <3> QED BY <3>1, <3>2 DEF managerProcess
  <2> QED BY <2>1, <2>2, <2>3 DEF StopInv, VersionInv, RecordInv, PauseInv
<1> QED BY <1>1, <1>2

(* StopAll and the end of the process leave the MySQLCluster alone. *)
LEMMA ShutdownKeepsStop ==
    ASSUME ManagerInv, StopInv, StopAll \/ StopAllReturns \/ Restart \/ Crash PROVE StopInv'
<1>0. procs \in [Slots -> managerProcess] /\ cur \in Slots \cup {NoProcess}
  BY DEF ManagerInv, TypeOK
<1>1. CASE StopAll
  <2>1. \A p \in Slots : /\ procs'[p].pause = procs[p].pause
                         /\ procs[p].cancelled => procs'[p].cancelled
                         /\ procs'[p].phase = procs[p].phase
                         /\ procs'[p].current = procs[p].current
    BY <1>0, <1>1 DEF StopAll, managerProcess
  <2>2. UNCHANGED <<kubeVars, reconcilerVars>> /\ cur' = NoProcess BY <1>1 DEF StopAll
  <2> QED BY <2>1, <2>2
          DEF StopInv, VersionInv, RecordInv, PauseInv, Stops, kubeVars, reconcilerVars
<1>2. CASE StopAllReturns
  BY <1>2 DEF StopAllReturns, StopInv, VersionInv, RecordInv, PauseInv, Stops, kubeVars,
              reconcilerVars
<1>3. CASE Restart \/ Crash
  <2>1. Restarted BY <1>3 DEF Restart, Crash
  <2> QED BY <2>1 DEF Restarted, StopInv, VersionInv, RecordInv, PauseInv, Stops, Free
<1> QED BY <1>1, <1>2, <1>3

(* The invariant of the recorded stop is inductive relative to ManagerInv. *)
LEMMA StopStep == ManagerInv /\ StopInv /\ [Next]_vars => StopInv'
<1> SUFFICES ASSUME ManagerInv, StopInv, [Next]_vars PROVE StopInv' OBVIOUS
<1>1. CASE Next
  <2>1. CASE Reconciler
    BY <2>1, UpdateKeepsStop, ReleaseKeepsStop, ReconcilerKeepsStop DEF Reconciler
  <2> QED BY <1>1, <2>1, UserKeepsStop, HealKeepsStop, UpdateKeepsStop, ProcessKeepsStop,
             ShutdownKeepsStop DEF Next
<1>2. CASE UNCHANGED vars
  BY <1>2 DEF vars, kubeVars, reconcilerVars, managerVars, StopInv, VersionInv, RecordInv,
              PauseInv, Stops
<1> QED BY <1>1, <1>2

(* A paused goroutine whose last status update is still under way never    *)
(* overwrites the recorded end of clustering, whatever the reconciler has  *)
(* in its cache, however requests to stop and to start, shutdowns and      *)
(* crashes of the controller follow each other (clusteringStopV1 of the    *)
(* reconciler, updateStatus of process.go).                                *)
THEOREM StopStaysRecorded == Spec => StopNotUndone
<1>1. StopInv =>
        \A p \in Slots : WriteStatus(p) /\ procs[p].pause => mc.active # "False"
  BY DEF StopInv, PauseInv, WriteStatus
<1> QED BY <1>1, ManagerInit, ManagerNext, StopInit, StopStep, PTL DEF Spec, StopNotUndone

=============================================================================
