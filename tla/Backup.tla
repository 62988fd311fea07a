------------------------------- MODULE Backup -------------------------------
(***************************************************************************)
(* The backup Job and the restore Job of moco-backup.                      *)
(*                                                                         *)
(* A backup is a full dump, and the binary logs since the last backup.     *)
(* The dump is stored under the time of the backup, the binary logs under  *)
(* that of the last one, and the MySQLCluster status records where the     *)
(* next backup has to continue.  A restoration takes the nearest dump      *)
(* before the wanted time and the binary logs stored with it.              *)
(*                                                                         *)
(* Transactions are numbered in the order of the one history that module   *)
(* Clustering keeps; an instance has executed a prefix of it.  log[k] is   *)
(* the second in which transaction k was committed.  Binary log files are  *)
(* reduced to their number and to how many transactions precede them,      *)
(* archives to the transactions in them.  mysqld, mysqlsh and mysqlbinlog, *)
(* the buckets and the CronJob controller are external.                    *)
(***************************************************************************)
EXTENDS Integers, FiniteSets, Sequences

CONSTANTS
    N,          \* instances
    MaxTxn,     \* the most transactions
    MaxTime,    \* the last second
    Slots,      \* Jobs that may run at the same time
    Scenarios   \* what may happen

(* How often each event may happen; overlap: two Jobs may run at a time;   *)
(* lag: replicas may be behind.                                            *)
Scenario ==
    [commit: 0 .. MaxTxn, tick: 0 .. MaxTime - 1, jobs: Nat, rotate: Nat, purge: Nat,
     lose: Nat, failover: Nat, down: Nat, error: Nat, restore: Nat, overlap: BOOLEAN, lag: BOOLEAN]

ASSUME BackupAssumption ==
    /\ N \in Nat /\ N % 2 = 1 /\ MaxTxn \in Nat /\ MaxTime \in Nat \ {0}
    /\ Slots # {}
    /\ Scenarios \subseteq Scenario

VARIABLES
    clock, log,
    inst,           \* the instances
    primary,        \* status.currentPrimaryIndex
    backup,         \* status.backup
    dumps, binlogs, \* the bucket
    job,            \* the backup Jobs
    rst,            \* the restore Job and the instance it writes to
    budget,         \* what may still happen
    recorded        \* history: the backups in the order of their records

clusterVars == <<clock, log, inst, primary>>
bucketVars == <<dumps, binlogs>>
vars == <<clusterVars, backup, bucketVars, job, rst, budget, recorded>>

Idx == 0 .. N - 1
Time == 1 .. MaxTime
Txn == 1 .. MaxTxn
Count == 0 .. MaxTxn
Absent == -1        \* no such object, no answer

(* first is the number of the oldest binary log file, starts[n] how many   *)
(* transactions precede the n-th file.                                     *)
Instance ==
    [uuid: Nat, exec: Count, first: Nat, starts: Seq(Count), ready: BOOLEAN]

(* time 0: no backup yet; uuid, uuids: SourceUUID, UUIDSet. *)
BackupStatus ==
    [time: Time \cup {0}, src: Idx, uuid: Nat \cup {Absent},
     uuids: [Idx -> Nat \cup {Absent}], file: Nat, gtid: Count, warned: BOOLEAN]
NoBackup ==
    [time |-> 0, src |-> 0, uuid |-> Absent, uuids |-> [i \in Idx |-> Absent],
     file |-> 0, gtid |-> 0, warned |-> FALSE]

(* last and primary: the MySQLCluster as it was when the Job began; pods:  *)
(* the ready Pods of then, by the server_uuid they had; now: the status    *)
(* that the Job prepares.                                                  *)
Job ==
    [pc: {"idle", "uuids", "choose", "full", "binlog", "status"},
     last: BackupStatus, primary: Idx, pods: [Idx -> Nat \cup {Absent}],
     now: BackupStatus, chain: BOOLEAN]
NoJob ==
    [pc |-> "idle", last |-> NoBackup, primary |-> 0,
     pods |-> [i \in Idx |-> Absent], now |-> NoBackup, chain |-> FALSE]

(* point: the wanted time; dump, binlog: the chosen objects; locked:       *)
(* super_read_only; restored: status.restoredTime is set; want: history,   *)
(* what the objects had when they were chosen.                             *)
Restoration ==
    [pc: {"none", "wait", "prepare", "load", "apply", "finish", "status", "failed", "ended"},
     point: Time \cup {0}, dump: Time \cup {0}, binlog: BOOLEAN,
     data: SUBSET Txn, locked: BOOLEAN, restored: BOOLEAN, want: SUBSET Txn]
NoRestoration ==
    [pc |-> "none", point |-> 0, dump |-> 0, binlog |-> FALSE,
     data |-> {}, locked |-> TRUE, restored |-> FALSE, want |-> {}]

TypeOK ==
    /\ clock \in Time /\ log \in Seq(Time) /\ Len(log) <= MaxTxn
    /\ inst \in [Idx -> Instance] /\ primary \in Idx
    /\ \A i \in Idx : inst[i].exec <= Len(log)
    /\ backup \in BackupStatus
    /\ dumps \in [Time -> Count \cup {Absent}]
    /\ binlogs \in [Time -> (SUBSET Txn) \cup {{Absent}}]
    /\ job \in [Slots -> Job]
    /\ rst \in Restoration
    /\ recorded \in Seq([prev: Time, time: Time, gtid: Count])

Init ==
    /\ clock = 1 /\ log = <<>> /\ primary = 0
    /\ inst = [i \in Idx |->
                  [uuid |-> 0, exec |-> 0, first |-> 1, starts |-> <<0>>, ready |-> TRUE]]
    /\ backup = NoBackup
    /\ dumps = [t \in Time |-> Absent]
    /\ binlogs = [t \in Time |-> {Absent}]
    /\ job = [j \in Slots |-> NoJob]
    /\ rst = NoRestoration
    /\ budget \in Scenarios
    /\ recorded = <<>>

Happens(kind) ==
    /\ budget[kind] > 0
    /\ budget' = [budget EXCEPT ![kind] = @ - 1]

-----------------------------------------------------------------------------
(* External: time, clients and instances *)

Tick ==
    /\ Happens("tick") /\ clock' = clock + 1
    /\ UNCHANGED <<log, inst, primary, backup, bucketVars, job, rst, recorded>>

(* Unless replicas lag, every ready one gets the transaction at once. *)
Commit ==
    /\ inst[primary].ready /\ Happens("commit")
    /\ log' = Append(log, clock)
    /\ inst' = [i \in Idx |->
                   IF i = primary \/ (~budget.lag /\ inst[i].ready)
                   THEN [inst[i] EXCEPT !.exec = Len(log')] ELSE inst[i]]
    /\ UNCHANGED <<clock, primary, backup, bucketVars, job, rst, recorded>>

Replicate(i) ==
    /\ inst[i].exec < inst[primary].exec
    /\ inst' = [inst EXCEPT ![i].exec = @ + 1]
    /\ UNCHANGED <<clock, log, primary, backup, bucketVars, job, rst, budget, recorded>>

(* A new binary log file, by its size or by a restart of mysqld. *)
Rotate(i) ==
    /\ Happens("rotate")
    /\ inst' = [inst EXCEPT ![i].starts = Append(@, inst[i].exec)]
    /\ UNCHANGED <<clock, log, primary, backup, bucketVars, job, rst, recorded>>

(* The oldest file expires.  The period is longer than that of backups:    *)
(* the last backup has all that is in the file.                            *)
Purge(i) ==
    /\ Len(inst[i].starts) > 1 /\ inst[i].starts[2] <= backup.gtid
    /\ Happens("purge")
    /\ inst' = [inst EXCEPT ![i].starts = Tail(@), ![i].first = @ + 1]
    /\ UNCHANGED <<clock, log, primary, backup, bucketVars, job, rst, recorded>>

(* A replica loses its volume and is cloned from the primary: a new        *)
(* server_uuid and no older binary logs.                                   *)
Lose(i) ==
    /\ i # primary /\ Happens("lose")
    /\ inst' = [inst EXCEPT ![i] =
                   [uuid |-> @.uuid + 1, exec |-> inst[primary].exec, first |-> 1,
                    starts |-> <<inst[primary].exec>>, ready |-> FALSE]]
    /\ UNCHANGED <<clock, log, primary, backup, bucketVars, job, rst, recorded>>

(* Only an instance with the whole history is promoted. *)
Failover(i) ==
    /\ i # primary /\ inst[i].ready /\ inst[i].exec = Len(log) /\ Happens("failover")
    /\ primary' = i
    /\ UNCHANGED <<clock, log, inst, backup, bucketVars, job, rst, recorded>>

Down(i) ==
    /\ inst[i].ready /\ Happens("down")
    /\ inst' = [inst EXCEPT ![i].ready = FALSE]
    /\ UNCHANGED <<clock, log, primary, backup, bucketVars, job, rst, recorded>>

Up(i) ==
    /\ ~inst[i].ready /\ (budget.lag \/ inst[i].exec = inst[primary].exec)
    /\ inst' = [inst EXCEPT ![i].ready = TRUE]
    /\ UNCHANGED <<clock, log, primary, backup, bucketVars, job, rst, budget, recorded>>

Environment ==
    \/ Tick \/ Commit
    \/ \E i \in Idx : Replicate(i) \/ Rotate(i) \/ Purge(i) \/ Lose(i) \/ Failover(i)
                      \/ Down(i) \/ Up(i)

-----------------------------------------------------------------------------
(* The backup Job *)

(* NewBackupManager reads the MySQLCluster once; Backup lists the Pods. *)
NewBackupManager(j) ==
    /\ job[j].pc = "idle" /\ Happens("jobs")
    /\ budget.overlap \/ \A k \in Slots : job[k].pc = "idle"
    /\ job' = [job EXCEPT ![j] = [NoJob EXCEPT
                  !.pc = "uuids", !.last = backup, !.primary = primary,
                  !.pods = [i \in Idx |-> IF inst[i].ready THEN inst[i].uuid ELSE Absent]]]
    /\ UNCHANGED <<clusterVars, backup, bucketVars, rst, recorded>>

(* An instance that does not answer is left out. *)
GetUUIDSet(j) ==
    /\ job[j].pc = "uuids"
    /\ job' = [job EXCEPT
                  ![j].pc = "choose",
                  ![j].now.uuids =
                      [i \in Idx |-> IF job[j].pods[i] # Absent /\ inst[i].ready
                                     THEN inst[i].uuid ELSE Absent]]
    /\ UNCHANGED <<clusterVars, backup, bucketVars, rst, budget, recorded>>

(* Fault: the instances do not have to be the ones of the last backup. *)
getIdxsWithUnchangedUUID_Fault(current, last) == {i \in Idx : current[i] # Absent}

getIdxsWithUnchangedUUID(current, last) ==
    {i \in Idx : current[i] # Absent /\ current[i] = last[i]}

(* The instances of a backup: if none was recorded, its source. *)
LastUUIDs(s) ==
    IF \A i \in Idx : s.uuids[i] = Absent
    THEN [i \in Idx |-> IF i = s.src THEN s.uuid ELSE Absent] ELSE s.uuids

Lowest(S) == CHOOSE i \in S : \A k \in S : i <= k

(* A ready replica, or else the primary. *)
AnyReady(ready, p) ==
    IF ready \ {p} # {} THEN Lowest(ready \ {p}) ELSE p

(* The source, and whether it has the binary logs since the last backup.   *)
(* No choice: no ready Pod exists.                                         *)
ChoosePod(b) ==
    LET ready == {i \in Idx : b.pods[i] # Absent}
        same == getIdxsWithUnchangedUUID(b.now.uuids, LastUUIDs(b.last))
        replicas == same \ {b.primary}
    IN IF b.last.time = 0 \/ same = {}
       THEN {[src |-> AnyReady(ready, b.primary), chain |-> FALSE] : i \in ready}
       ELSE {[src |-> IF b.last.src \in replicas THEN b.last.src ELSE AnyReady(replicas, b.primary),
              chain |-> TRUE]}

(* The Pod that was listed still answers at its address. *)
Answers(b, i) == inst[i].ready /\ inst[i].uuid = b.pods[i]

CurrentBinlog(i) == inst[i].first + Len(inst[i].starts) - 1

(* ChoosePod, GetServerStatus and the time of the backup, in a second of   *)
(* its own: a schedule does not start two.  Skipped binary logs are a      *)
(* warning.                                                                *)
Choose(j) ==
    LET b == job[j] IN
    /\ b.pc = "choose"
    /\ dumps[clock] = Absent /\ \A k \in Slots : job[k].now.time # clock
    /\ \E c \in ChoosePod(b) :
          /\ Answers(b, c.src)
          /\ job' = [job EXCEPT ![j] = [b EXCEPT
                        !.pc = "full", !.chain = c.chain,
                        !.now = [@ EXCEPT !.src = c.src, !.uuid = inst[c.src].uuid,
                                          !.time = clock, !.file = CurrentBinlog(c.src),
                                          !.warned = b.last.time # 0 /\ ~c.chain]]]
    /\ UNCHANGED <<clusterVars, backup, bucketVars, rst, budget, recorded>>

(* Fault: the GTID set of the dump is not found. *)
backupFull_Fault(j) ==
    LET b == job[j] IN
    /\ b.pc = "full" /\ Answers(b, b.now.src)
    /\ dumps' = [dumps EXCEPT ![b.now.time] = inst[b.now.src].exec]
    /\ job' = [job EXCEPT ![j].pc = IF b.chain THEN "binlog" ELSE "status",
                          ![j].now.gtid = Absent]
    /\ UNCHANGED <<clusterVars, backup, binlogs, rst, budget, recorded>>

(* The dump and its gtid_executed. *)
backupFull(j) ==
    LET b == job[j] IN
    /\ b.pc = "full" /\ Answers(b, b.now.src)
    /\ dumps' = [dumps EXCEPT ![b.now.time] = inst[b.now.src].exec]
    /\ job' = [job EXCEPT ![j].pc = IF b.chain THEN "binlog" ELSE "status",
                          ![j].now.gtid = inst[b.now.src].exec]
    /\ UNCHANGED <<clusterVars, backup, binlogs, rst, budget, recorded>>

(* The file to begin with: that of the last backup, if it was taken from   *)
(* the same instance; otherwise the oldest (SortBinlogs).                  *)
FirstBinlog(b) ==
    IF b.now.src = b.last.src THEN b.last.file ELSE inst[b.now.src].first

(* DumpBinlog: from a file to the last one, without what the last backup   *)
(* has.                                                                    *)
DumpBinlog(i, file, gtid) ==
    {k \in Txn : /\ k > inst[i].starts[file - inst[i].first + 1]
                 /\ k <= inst[i].exec /\ k > gtid}

(* Fault: the binary logs are stored with the dump just taken. *)
BinlogKey_Fault(b) == b.now.time

BinlogKey(b) == b.last.time

backupBinlog(j) ==
    LET b == job[j] IN
    /\ b.pc = "binlog"
    /\ Answers(b, b.now.src)
    /\ FirstBinlog(b) \in inst[b.now.src].first .. CurrentBinlog(b.now.src)
    /\ binlogs' = [binlogs EXCEPT
                      ![BinlogKey(b)] = DumpBinlog(b.now.src, FirstBinlog(b), b.last.gtid)]
    /\ job' = [job EXCEPT ![j].pc = "status"]
    /\ UNCHANGED <<clusterVars, backup, dumps, rst, budget, recorded>>

(* The file is gone or a command fails: a warning. *)
backupNoBinlog(j) ==
    LET b == job[j] IN
    /\ b.pc = "binlog"
    /\ \/ /\ FirstBinlog(b) \notin inst[b.now.src].first .. CurrentBinlog(b.now.src)
          /\ UNCHANGED budget
       \/ ~Answers(b, b.now.src) /\ UNCHANGED budget
       \/ Happens("error")
    /\ job' = [job EXCEPT ![j].pc = "status", ![j].now.warned = TRUE]
    /\ UNCHANGED <<clusterVars, backup, bucketVars, rst, recorded>>

(* The record is written on whatever the MySQLCluster is by then           *)
(* (RetryOnConflict).                                                      *)
updateStatus(j) ==
    LET b == job[j] IN
    /\ b.pc = "status"
    /\ backup' = b.now
    /\ recorded' = IF b.chain /\ ~b.now.warned
                   THEN Append(recorded, [prev |-> b.last.time, time |-> b.now.time,
                                          gtid |-> b.now.gtid])
                   ELSE recorded
    /\ job' = [job EXCEPT ![j] = NoJob]
    /\ UNCHANGED <<clusterVars, bucketVars, rst, budget>>

(* No source answers, or the Job is killed. *)
JobFails(j) ==
    LET b == job[j] IN
    /\ b.pc # "idle"
    /\ \/ /\ b.pc = "choose" /\ \A c \in ChoosePod(b) : ~Answers(b, c.src)
          /\ UNCHANGED budget
       \/ b.pc = "full" /\ ~Answers(b, b.now.src) /\ UNCHANGED budget
       \/ Happens("error")
    /\ job' = [job EXCEPT ![j] = NoJob]
    /\ UNCHANGED <<clusterVars, backup, bucketVars, rst, recorded>>

BackupJob(j) ==
    \/ NewBackupManager(j) \/ GetUUIDSet(j) \/ Choose(j) \/ backupFull(j)
    \/ backupBinlog(j) \/ backupNoBinlog(j) \/ updateStatus(j) \/ JobFails(j)

-----------------------------------------------------------------------------
(* The restore Job *)

(* FindNearestDump: the latest dump that is not after the wanted time, and *)
(* the binary logs stored with it.                                         *)
DumpsUpTo(p) == {t \in Time : t <= p /\ dumps[t] # Absent}
Latest(S) == CHOOSE t \in S : \A u \in S : u <= t

(* LoadDump and LoadBinlog, up to the wanted time (--stop-datetime). *)
LoadDump(t) == 1 .. dumps[t]
LoadBinlog(t, p) == {k \in binlogs[t] : k \in DOMAIN log /\ log[k] < p}

(* What a restoration to time p gives. *)
Restored(p) ==
    IF DumpsUpTo(p) = {} THEN {}
    ELSE LET t == Latest(DumpsUpTo(p)) IN
         LoadDump(t) \cup (IF t = p THEN {} ELSE LoadBinlog(t, p))

(* reconcileV1RestoreJob: there is no Job and no restoredTime. *)
RestoreJob ==
    /\ rst.pc = "none" /\ ~rst.restored
    /\ Happens("restore")
    /\ \E p \in IF rst.point = 0 THEN 1 .. clock ELSE {rst.point} :
          rst' = [rst EXCEPT !.pc = "wait", !.point = p]
    /\ UNCHANGED <<clusterVars, backup, bucketVars, job, recorded>>

(* The objects are listed when mysqld answers; it need not be read-only    *)
(* after ten minutes.                                                      *)
FindNearestDump ==
    /\ rst.pc = "wait"
    /\ LET ts == DumpsUpTo(rst.point) IN
       rst' = IF ts = {} THEN [rst EXCEPT !.pc = "failed"]
              ELSE [rst EXCEPT !.pc = "prepare", !.dump = Latest(ts),
                               !.binlog = binlogs[Latest(ts)] # {Absent},
                               !.want = Restored(rst.point)]
    /\ UNCHANGED <<clusterVars, backup, bucketVars, job, budget, recorded>>

PrepareRestore ==
    /\ rst.pc = "prepare"
    /\ rst' = [rst EXCEPT !.pc = "load", !.locked = FALSE]
    /\ UNCHANGED <<clusterVars, backup, bucketVars, job, budget, recorded>>

(* util.loadDump refuses an instance that has the data already. *)
loadDump ==
    /\ rst.pc = "load"
    /\ rst' = IF rst.data # {} THEN [rst EXCEPT !.pc = "failed"]
              ELSE [rst EXCEPT !.data = LoadDump(rst.dump),
                               !.pc = IF rst.dump # rst.point /\ rst.binlog THEN "apply"
                                      ELSE "finish"]
    /\ UNCHANGED <<clusterVars, backup, bucketVars, job, budget, recorded>>

(* What has been done when a step fails. *)
Partly ==
    CASE rst.pc = "load" /\ rst.data = {} -> SUBSET LoadDump(rst.dump)
      [] rst.pc = "apply" -> {{k \in LoadBinlog(rst.dump, rst.point) : k <= n} : n \in Count}
      [] OTHER -> {{}}

(* Fault: as in the backup Job, failing binary logs are only a warning. *)
applyBinlog_Fault ==
    /\ rst.pc = "apply"
    /\ \E part \in Partly : rst' = [rst EXCEPT !.pc = "finish", !.data = @ \cup part]
    /\ UNCHANGED <<clusterVars, backup, bucketVars, job, budget, recorded>>

(* Transactions that the dump has are skipped by their GTID. *)
applyBinlog ==
    /\ rst.pc = "apply"
    /\ rst' = [rst EXCEPT !.pc = "finish",
                          !.data = @ \cup LoadBinlog(rst.dump, rst.point)]
    /\ UNCHANGED <<clusterVars, backup, bucketVars, job, budget, recorded>>

FinishRestore ==
    /\ rst.pc = "finish"
    /\ rst' = [rst EXCEPT !.pc = "status", !.locked = TRUE]
    /\ UNCHANGED <<clusterVars, backup, bucketVars, job, budget, recorded>>

RecordRestored ==
    /\ rst.pc = "status"
    /\ rst' = [rst EXCEPT !.pc = "ended", !.restored = TRUE]
    /\ UNCHANGED <<clusterVars, backup, bucketVars, job, budget, recorded>>

(* A step fails, and the Job is not retried (backoffLimit 0); or mysqld    *)
(* refuses three connections, and the Job ends as if it had succeeded.     *)
RestoreFails ==
    /\ rst.pc \in {"wait", "prepare", "load", "apply", "finish", "status"}
    /\ Happens("error")
    /\ \E part \in Partly :
          \E pc \in IF rst.pc = "wait" THEN {"failed", "ended"} ELSE {"failed"} :
             rst' = [rst EXCEPT !.pc = pc, !.data = @ \cup part]
    /\ UNCHANGED <<clusterVars, backup, bucketVars, job, recorded>>

(* The user deletes the Job. *)
DeleteRestoreJob ==
    /\ rst.pc \in {"failed", "ended"} /\ ~rst.restored
    /\ budget.restore > 0
    /\ rst' = [rst EXCEPT !.pc = "none"]
    /\ UNCHANGED <<clusterVars, backup, bucketVars, job, budget, recorded>>

Restore ==
    \/ RestoreJob \/ FindNearestDump \/ PrepareRestore \/ loadDump \/ applyBinlog
    \/ FinishRestore \/ RecordRestored \/ RestoreFails \/ DeleteRestoreJob

-----------------------------------------------------------------------------
Next == Environment \/ (\E j \in Slots : BackupJob(j)) \/ Restore

Spec == Init /\ [][Next]_vars

-----------------------------------------------------------------------------
(* Properties *)

(* Whatever time is restored, the data is that of some moment: no          *)
(* transaction is missing before one that is there.  Failovers, a change   *)
(* of the source, a source that was cloned since, expired files, failed    *)
(* and concurrent Jobs leave no gap between a dump and its binary logs     *)
(* (ChoosePod, backupBinlog, FindNearestDump).                             *)
RestoresPrefix ==
    \A p \in Time : \E n \in Count : Restored(p) = 1 .. n

(* Unless Jobs may overlap: between two backups of which the second        *)
(* continued the first without a warning, no Job in between having left a  *)
(* dump, every time after the first can be restored: all that the second   *)
(* has and that is older.                                                  *)
ChainComplete ==
    ~budget.overlap =>
        \A n \in DOMAIN recorded :
            LET b == recorded[n] IN
            (\A t \in Time : b.prev < t /\ t < b.time => dumps[t] = Absent) =>
                \A p \in b.prev + 1 .. b.time :
                    {k \in 1 .. b.gtid : log[k] < p} \subseteq Restored(p)

(* status.restoredTime, which lets the clustering start, says the truth:   *)
(* nothing of what was chosen is missing, there is no gap, what comes from *)
(* binary logs is older than the wanted time, and the instance is locked   *)
(* again, whatever failed before and how often the Job was repeated.       *)
RestoredTruthfully ==
    rst.restored =>
        /\ rst.locked
        /\ budget.lag \/ rst.want \subseteq rst.data
        /\ \E n \in Count : rst.data = 1 .. n
        /\ \A k \in rst.data : k <= dumps[rst.dump] \/ log[k] < rst.point

-----------------------------------------------------------------------------
(* An inductive invariant, from which the properties follow.               *)

(* The scenarios in which binary logs are kept as long as they are needed: *)
(* no file expires while a replica lags or a Job overlaps another, and no  *)
(* instance is cloned while replicas lag.                                  *)
KeepsBinlogs(s) ==
    /\ s.lag => s.lose = 0 /\ s.purge = 0
    /\ s.overlap => s.purge = 0

BudgetInv ==
    /\ budget \in Scenario
    /\ Len(log) + budget.commit <= MaxTxn /\ clock + budget.tick <= MaxTime

(* What typing rests on: a source has a binary log file, a Job that has a  *)
(* source has its second, and one that continues a backup has that backup. *)
ShapeInv ==
    /\ TypeOK /\ BudgetInv
    /\ \A i \in Idx : Len(inst[i].starts) > 0
    /\ \A j \in Slots :
          job[j].pc \in {"full", "binlog", "status"} =>
              job[j].now.time # 0 /\ (job[j].chain => job[j].last.time # 0)
    /\ rst.pc \in {"wait", "prepare", "load", "apply", "finish", "status"} => rst.point # 0
    /\ rst.pc \in {"prepare", "load", "apply", "finish", "status"} => rst.dump # 0

(* Commit times are in order, the primary has the whole history, and so    *)
(* has every ready instance unless replicas lag.                           *)
LogInv ==
    /\ \A k \in DOMAIN log : log[k] <= clock /\ \A l \in k .. Len(log) : log[k] <= log[l]
    /\ inst[primary].exec = Len(log)
    /\ ~budget.lag => \A i \in Idx : inst[i].ready => inst[i].exec = Len(log)

InstInv ==
    \A i \in Idx :
        /\ \A n \in DOMAIN inst[i].starts : inst[i].starts[n] <= inst[i].exec
        /\ budget.lag => inst[i].starts[1] = 0

(* The binary log file that was current when a source was looked at, while *)
(* it exists, begins with a transaction that is not after g.               *)
FileBefore(i, file, g) ==
    /\ file <= CurrentBinlog(i)
    /\ file >= inst[i].first => inst[i].starts[file - inst[i].first + 1] <= g

(* A record of a backup that was taken: its dump is there, an instance     *)
(* with an unchanged server_uuid has all binary logs since then, and the   *)
(* source has them from the recorded file on.                              *)
Taken(s) ==
    /\ s.time \in Time /\ s.time <= clock
    /\ dumps[s.time] = s.gtid /\ s.gtid <= Len(log)
    /\ \A i \in Idx : LastUUIDs(s)[i] <= inst[i].uuid
    /\ \A i \in Idx : LastUUIDs(s)[i] = inst[i].uuid =>
          /\ inst[i].starts[1] <= s.gtid
          /\ i = s.src => s.gtid <= inst[i].exec /\ FileBefore(i, s.file, s.gtid)

Recorded(s) == s = NoBackup \/ Taken(s)

(* The binary logs stored with dump t reach up to transaction g. *)
Covers(t, g) == \A k \in 1 .. g : dumps[t] < k => k \in binlogs[t]

(* A Job has seen each instance under the server_uuid it has or had.  Once *)
(* it has a source, it has a second of its own, and the source, if it is   *)
(* still the same instance, is the one of the last backup in a chain.      *)
JobInv(b) ==
    /\ b.pc = "idle" => b = NoJob
    /\ Recorded(b.last)
    /\ \A i \in Idx :
          /\ b.pods[i] <= inst[i].uuid /\ b.now.uuids[i] <= inst[i].uuid
          /\ b.now.uuids[i] # Absent => b.pods[i] # Absent /\ b.pods[i] <= b.now.uuids[i]
    /\ b.pc \notin {"full", "binlog", "status"} => b.now.time = 0
    /\ b.pc \in {"full", "binlog", "status"} =>
          /\ b.now.time \in Time /\ b.now.time <= clock /\ b.last.time < b.now.time
          /\ b.now.uuid = b.pods[b.now.src]
          /\ b.now.uuids[b.now.src] \in {Absent, b.pods[b.now.src]}
          /\ b.chain => /\ b.last.time # 0
                        /\ b.now.uuids[b.now.src] # Absent
                        /\ b.now.uuids[b.now.src] = LastUUIDs(b.last)[b.now.src]
    /\ b.pc = "full" =>
          /\ dumps[b.now.time] = Absent
          /\ inst[b.now.src].uuid = b.pods[b.now.src] =>
                FileBefore(b.now.src, b.now.file, inst[b.now.src].exec)
    /\ b.pc = "binlog" => b.chain
    /\ b.pc \in {"binlog", "status"} =>
          Taken(b.now) /\ (~budget.lag => b.last.gtid <= b.now.gtid)
    /\ ~budget.overlap =>
          /\ b.pc # "idle" => b.last = backup
          /\ b.pc = "status" /\ b.chain /\ ~b.now.warned => Covers(b.last.time, b.now.gtid)

JobsInv ==
    /\ \A j \in Slots : JobInv(job[j])
    /\ \A j, k \in Slots : j # k =>
          /\ job[j].now.time = job[k].now.time => job[j].now.time = 0
          /\ ~budget.overlap => job[j].pc = "idle" \/ job[k].pc = "idle"

(* An archive of binary logs begins where the dump that it is stored with  *)
(* ends, and has no gap.                                                   *)
BucketInv ==
    \A t \in Time :
        /\ dumps[t] # Absent => t <= clock /\ dumps[t] <= Len(log)
        /\ binlogs[t] # {Absent} =>
              /\ dumps[t] # Absent
              /\ \E n \in 0 .. Len(log) : binlogs[t] = dumps[t] + 1 .. n

(* No Job writes binary logs before those of the last backup. *)
ChainInv ==
    ~budget.overlap =>
        \A n \in DOMAIN recorded :
            LET b == recorded[n] IN
            /\ dumps[b.prev] # Absent /\ dumps[b.time] = b.gtid
            /\ b.prev < backup.time
            /\ Covers(b.prev, b.gtid)

(* What the chosen objects give by now. *)
Chosen ==
    LoadDump(rst.dump) \cup
        (IF rst.dump # rst.point /\ rst.binlog THEN LoadBinlog(rst.dump, rst.point) ELSE {})

Complete ==
    /\ ~budget.lag => rst.want \subseteq rst.data
    /\ \E n \in Count : rst.data = 1 .. n
    /\ \A k \in rst.data : k <= dumps[rst.dump] \/ (k \in DOMAIN log /\ log[k] < rst.point)

RestInv ==
    /\ rst.pc \in {"prepare", "load", "apply", "finish", "status"} \/ rst.restored =>
          /\ rst.dump \in Time /\ dumps[rst.dump] # Absent
          /\ rst.binlog => binlogs[rst.dump] # {Absent}
    /\ rst.pc \in {"prepare", "load", "apply"} /\ ~budget.lag => rst.want \subseteq Chosen
    /\ rst.pc = "apply" => rst.data = LoadDump(rst.dump) /\ rst.dump # rst.point /\ rst.binlog
    /\ rst.pc \in {"finish", "status"} \/ rst.restored => Complete
    /\ rst.pc = "status" \/ rst.restored => rst.locked
    /\ rst.restored => rst.pc = "ended"

Inv ==
    /\ ShapeInv /\ KeepsBinlogs(budget) /\ LogInv /\ InstInv
    /\ Recorded(backup) /\ JobsInv /\ BucketInv /\ ChainInv /\ RestInv

=============================================================================
