---------------------------- MODULE BackupProofs ----------------------------
(***************************************************************************)
(* Module Backup for every number of instances, transactions, seconds,     *)
(* Jobs and events.                                                        *)
(***************************************************************************)
EXTENDS Backup, FiniteSetTheorems, TLAPS

(* What the assumption says of the bounds and the sets built from them. *)
LEMMA ConstantFacts ==
    /\ N \in Nat /\ N > 0 /\ MaxTxn \in Nat /\ MaxTime \in Nat /\ MaxTime > 0
    /\ 0 \in Idx /\ Idx \subseteq Nat
    /\ 1 \in Time /\ Time \subseteq Nat /\ 0 \notin Time
    /\ Count \subseteq Nat /\ 0 \in Count /\ Txn \subseteq Count
<1>1. N \in Nat /\ N % 2 = 1 /\ MaxTxn \in Nat /\ MaxTime \in Nat \ {0}
  BY BackupAssumption
<1>2. N # 0
  BY <1>1
<1> QED BY <1>1, <1>2 DEF Idx, Time, Count, Txn

(* A bounded set of numbers has a greatest one.  The numbers from n on,    *)
(* ordered by inclusion, stand for n, since finite sets are well-founded.  *)
LEMMA GreatestExists ==
    ASSUME NEW m \in Nat, NEW S \in SUBSET (0 .. m), S # {}
    PROVE  \E x \in S : \A y \in S : y <= x
<1> DEFINE From(n) == n .. m
           T == {From(n) : n \in S}
           R == StrictSubsetOrdering(Nat)
<1>1. ASSUME NEW n \in S PROVE From(n) \in FiniteSubsetsOf(Nat)
  <2>1. IsFiniteSet(From(n))
    BY FS_Interval
  <2>2. From(n) \subseteq Nat
    OBVIOUS
  <2> HIDE DEF From
  <2> QED BY <2>1, <2>2 DEF FiniteSubsetsOf
<1>2. T \subseteq FiniteSubsetsOf(Nat) /\ T # {}
  <2> HIDE DEF From
  <2> QED BY <1>1
<1>3. \E x \in T : \A y \in T : ~(<<y, x>> \in R)
  <2>1. IsWellFoundedOn(R, FiniteSubsetsOf(Nat))
    BY FS_StrictSubsetOrderingWellFounded
  <2> HIDE DEF R, T
  <2> QED BY <2>1, <1>2, WFMin
<1>4. PICK x \in S : \A y \in S : ~(<<From(y), From(x)>> \in R)
  <2> HIDE DEF R, From
  <2> QED BY <1>3
<1>5. ASSUME NEW y \in S, x < y PROVE FALSE
  <2>1. From(y) \subseteq From(x) /\ x \in From(x) /\ x \notin From(y)
    BY <1>5
  <2>2. From(y) \in SUBSET Nat /\ From(x) \in SUBSET Nat
    OBVIOUS
  <2> HIDE DEF From
  <2>3. <<From(y), From(x)>> \in R
    BY <2>1, <2>2 DEF StrictSubsetOrdering
  <2> QED BY <1>4, <2>3
<1>6. \A y \in S : y <= x
  BY <1>5
<1> QED BY <1>6

(* FindNearestDump: the latest of some dumps is one of them. *)
LEMMA LatestExists ==
    ASSUME NEW S \in SUBSET Time, S # {}
    PROVE  Latest(S) \in S /\ \A u \in S : u <= Latest(S)
<1>1. S \in SUBSET (0 .. MaxTime)
  BY ConstantFacts DEF Time
<1>2. \E x \in S : \A y \in S : y <= x
  BY <1>1, GreatestExists, ConstantFacts
<1> QED BY <1>2 DEF Latest

(* ChoosePod: the first of some instances is one of them. *)
LEMMA LowestExists ==
    ASSUME NEW S \in SUBSET Idx, S # {}
    PROVE  Lowest(S) \in S
<1> DEFINE T == {N - i : i \in S}
<1>1. T \in SUBSET (0 .. N) /\ T # {}
  <2>1. \A i \in S : N - i \in 0 .. N
    BY ConstantFacts DEF Idx
  <2> QED BY <2>1
<1>2. PICK x \in T : \A y \in T : y <= x
  BY <1>1, GreatestExists, ConstantFacts
<1>3. PICK i \in S : x = N - i
  BY <1>2
<1>4. \A k \in S : i <= k
  BY <1>2, <1>3, ConstantFacts DEF Idx
<1> QED BY <1>4 DEF Lowest

(* Everything that happens is taken from the budget and nothing else. *)
LEMMA HappensFacts ==
    ASSUME budget \in Scenario,
           NEW kind \in {"commit", "tick", "jobs", "rotate", "purge", "lose", "failover",
                         "down", "error", "restore"},
           Happens(kind)
    PROVE  /\ budget' \in Scenario
           /\ budget'.lag = budget.lag /\ budget'.overlap = budget.overlap
           /\ KeepsBinlogs(budget) => KeepsBinlogs(budget')
           /\ kind = "commit" => budget'.commit = budget.commit - 1
           /\ kind = "tick" => budget'.tick = budget.tick - 1
           /\ kind # "commit" => budget'.commit = budget.commit
           /\ kind # "tick" => budget'.tick = budget.tick
           /\ kind = "purge" => budget.purge > 0
           /\ kind = "lose" => budget.lose > 0
BY ConstantFacts DEF Happens, Scenario, KeepsBinlogs

-----------------------------------------------------------------------------
(* Types *)

(* Everything is well typed at first. *)
LEMMA ShapeInit == Init => ShapeInv
<1> SUFFICES ASSUME Init PROVE ShapeInv
  OBVIOUS
<1>1. NoBackup \in BackupStatus
  BY ConstantFacts DEF NoBackup, BackupStatus
<1>2. NoJob \in Job /\ NoJob.pc = "idle"
  BY <1>1, ConstantFacts DEF NoJob, Job
<1>3. NoRestoration \in Restoration /\ NoRestoration.pc = "none"
  BY ConstantFacts DEF NoRestoration, Restoration
<1>4. budget \in Scenario
  BY BackupAssumption DEF Init
<1>5. <<0>> \in Seq(Count) /\ Len(<<0>>) > 0
  BY ConstantFacts
<1>6. TypeOK
  <2>1. inst \in [Idx -> Instance] /\ \A i \in Idx : inst[i].exec = 0 /\ inst[i].starts = <<0>>
    BY <1>5, ConstantFacts DEF Init, Instance
  <2>2. log \in Seq(Time) /\ Len(log) = 0 /\ Len(log) <= MaxTxn
    BY ConstantFacts DEF Init
  <2>3. recorded \in Seq([prev: Time, time: Time, gtid: Count])
    BY DEF Init
  <2>4. job \in [Slots -> Job] /\ rst \in Restoration /\ backup \in BackupStatus
    BY <1>1, <1>2, <1>3 DEF Init
  <2> QED BY <2>1, <2>2, <2>3, <2>4, ConstantFacts DEF Init, TypeOK
<1>7. BudgetInv
  BY <1>4, ConstantFacts DEF Init, BudgetInv, Scenario
<1> QED BY <1>2, <1>3, <1>5, <1>6, <1>7 DEF Init, ShapeInv

(* The fields of an instance, and updates of them. *)
LEMMA InstanceFields ==
    ASSUME NEW q \in Instance
    PROVE  /\ q.uuid \in Nat /\ q.exec \in Count /\ q.exec \in Nat /\ q.first \in Nat
           /\ q.starts \in Seq(Count) /\ Len(q.starts) \in Nat
<1>1. q.uuid \in Nat /\ q.exec \in Count /\ q.first \in Nat /\ q.starts \in Seq(Count)
  BY DEF Instance
<1>2. Len(q.starts) \in Nat
  BY <1>1
<1> QED BY <1>1, <1>2, ConstantFacts

(* The updates of an instance keep its type. *)
LEMMA InstanceUpdates ==
    ASSUME NEW q \in Instance, NEW e \in Count, NEW s \in Seq(Count), NEW f \in Nat
    PROVE  /\ [q EXCEPT !.exec = e] \in Instance
           /\ [q EXCEPT !.starts = s] \in Instance
           /\ [q EXCEPT !.starts = s, !.first = f] \in Instance
BY DEF Instance

(* Time, clients and instances. *)
LEMMA ShapeEnvironment ==
    ASSUME ShapeInv, Environment PROVE ShapeInv'
<1>0. /\ budget \in Scenario /\ clock \in Nat /\ clock >= 1 /\ Len(log) \in Nat
      /\ primary \in Idx /\ inst \in [Idx -> Instance] /\ log \in Seq(Time)
      /\ budget.commit \in Nat /\ budget.tick \in Nat
  <2>1. /\ budget \in Scenario /\ clock \in Time /\ log \in Seq(Time)
        /\ primary \in Idx /\ inst \in [Idx -> Instance]
    BY DEF ShapeInv, TypeOK, BudgetInv
  <2>2. budget.commit \in Nat /\ budget.tick \in Nat
    BY <2>1 DEF Scenario
  <2>3. clock \in Nat /\ clock >= 1
    BY <2>1, ConstantFacts DEF Time
  <2>4. Len(log) \in Nat
    BY <2>1
  <2> QED BY <2>1, <2>2, <2>3, <2>4
<1> USE DEF ShapeInv
<1>a. ASSUME NEW i \in Idx
      PROVE  /\ inst[i] \in Instance
             /\ inst[i].uuid \in Nat /\ inst[i].exec \in Count /\ inst[i].exec \in Nat
             /\ inst[i].first \in Nat /\ inst[i].starts \in Seq(Count)
             /\ Len(inst[i].starts) \in Nat /\ inst[i].exec <= Len(log) /\ Len(inst[i].starts) > 0
  <2>1. inst[i] \in Instance /\ inst[i].exec <= Len(log) /\ Len(inst[i].starts) > 0
    BY <1>0, <1>a DEF TypeOK
  <2> QED BY <2>1, InstanceFields
<1>1. CASE Tick
  <2>1. Happens("tick") /\ clock' = clock + 1 /\ UNCHANGED <<log, inst>>
    BY <1>1 DEF Tick
  <2>2. BudgetInv' /\ clock' \in Time
    BY <1>0, <2>1, HappensFacts, ConstantFacts DEF BudgetInv, Time, Happens
  <2> QED BY <1>1, <2>2 DEF Tick, TypeOK, bucketVars
<1>2. CASE Commit
  <2>1. Happens("commit") /\ log' = Append(log, clock) /\ UNCHANGED clock
    BY <1>2 DEF Commit
  <2>2. log' \in Seq(Time) /\ Len(log') = Len(log) + 1
    BY <1>0, <2>1 DEF TypeOK
  <2>3. BudgetInv' /\ Len(log') \in Count /\ Len(log') <= MaxTxn
    BY <1>0, <2>1, <2>2, HappensFacts, ConstantFacts DEF BudgetInv, Count, Happens
  <2>4. ASSUME NEW i \in Idx
        PROVE  /\ inst'[i] \in Instance /\ inst'[i].exec <= Len(log')
               /\ inst'[i].starts = inst[i].starts
    <3>1. inst'[i] = [inst[i] EXCEPT !.exec = Len(log')] \/ inst'[i] = inst[i]
      BY <1>2, <2>4 DEF Commit
    <3>2. CASE inst'[i] = inst[i]
      BY <1>0, <1>a, <2>2, <3>2
    <3>3. CASE inst'[i] = [inst[i] EXCEPT !.exec = Len(log')]
      <4>1. inst'[i] \in Instance
        BY <1>a, <2>3, <3>3, InstanceUpdates
      <4>2. inst'[i].exec = Len(log') /\ inst'[i].starts = inst[i].starts
        BY <1>a, <3>3 DEF Instance
      <4> QED BY <1>0, <2>2, <4>1, <4>2
    <3> QED BY <3>1, <3>2, <3>3
  <2>5. inst' \in [Idx -> Instance]
    BY <1>2, <2>4 DEF Commit
  <2> QED BY <1>2, <2>2, <2>3, <2>4, <2>5 DEF Commit, TypeOK, bucketVars
(* An event that changes one instance. *)
<1>3. ASSUME NEW i \in Idx, NEW r \in Instance, inst' = [inst EXCEPT ![i] = r],
             r.exec <= Len(log), Len(r.starts) > 0, BudgetInv',
             UNCHANGED <<clock, log, primary, backup, bucketVars, job, rst, recorded>>
      PROVE  ShapeInv'
  <2>1. inst' \in [Idx -> Instance]
    BY <1>0, <1>3
  <2>2. \A k \in Idx : inst'[k].exec <= Len(log) /\ Len(inst'[k].starts) > 0
    BY <1>0, <1>3 DEF TypeOK
  <2> QED BY <1>3, <2>1, <2>2 DEF TypeOK, bucketVars
<1>4. ASSUME NEW kind \in {"rotate", "purge", "lose", "down", "failover"}, Happens(kind),
             UNCHANGED <<clock, log>>
      PROVE  BudgetInv'
  BY <1>0, <1>4, HappensFacts DEF BudgetInv
<1>5. ASSUME NEW i \in Idx, Replicate(i) PROVE ShapeInv'
  <2> DEFINE r == [inst[i] EXCEPT !.exec = @ + 1]
  <2>1. inst[i].exec + 1 <= Len(log) /\ inst[i].exec + 1 \in Count
    <3>1. inst[i].exec < inst[primary].exec /\ inst[primary].exec <= Len(log) /\ Len(log) <= MaxTxn
          /\ inst[primary].exec \in Nat
      BY <1>0, <1>a, <1>5 DEF Replicate, TypeOK
    <3> QED BY <1>0, <1>a, <3>1, ConstantFacts DEF Count
  <2>3. r \in Instance /\ r.exec <= Len(log) /\ Len(r.starts) > 0
    BY <1>0, <1>a, <2>1 DEF Instance
  <2>2. inst' = [inst EXCEPT ![i] = r] /\ BudgetInv'
    BY <1>0, <1>5 DEF Replicate, BudgetInv
  <2> HIDE DEF r
  <2> QED BY <1>3, <1>5, <2>3, <2>2 DEF Replicate
<1>6. ASSUME NEW i \in Idx, Rotate(i) PROVE ShapeInv'
  <2> DEFINE r == [inst[i] EXCEPT !.starts = Append(@, inst[i].exec)]
  <2>1. /\ Append(inst[i].starts, inst[i].exec) \in Seq(Count)
        /\ Len(Append(inst[i].starts, inst[i].exec)) = Len(inst[i].starts) + 1
    BY <1>a
  <2>2. r \in Instance /\ r.exec <= Len(log) /\ Len(r.starts) > 0
    <3>1. r.exec = inst[i].exec /\ r.starts = Append(inst[i].starts, inst[i].exec)
      BY <1>a DEF Instance
    <3>2. r \in Instance
      BY <1>a, <2>1, InstanceUpdates
    <3> QED BY <1>a, <2>1, <3>1, <3>2
  <2>3. inst' = [inst EXCEPT ![i] = r] /\ BudgetInv'
    BY <1>0, <1>4, <1>6 DEF Rotate
  <2> HIDE DEF r
  <2> QED BY <1>3, <1>6, <2>2, <2>3 DEF Rotate
<1>7. ASSUME NEW i \in Idx, Purge(i) PROVE ShapeInv'
  <2> DEFINE r == [inst[i] EXCEPT !.starts = Tail(@), !.first = @ + 1]
  <2>1. Tail(inst[i].starts) \in Seq(Count) /\ Len(Tail(inst[i].starts)) = Len(inst[i].starts) - 1
    <3>1. Len(inst[i].starts) > 1
      BY <1>7 DEF Purge
    <3> QED BY <1>a, <3>1
  <2>2. r \in Instance /\ r.exec <= Len(log) /\ Len(r.starts) > 0
    <3>1. Len(inst[i].starts) > 1
      BY <1>7 DEF Purge
    <3>2. inst[i].first + 1 \in Nat
      BY <1>a
    <3>3. r.exec = inst[i].exec /\ r.starts = Tail(inst[i].starts)
      BY <1>a DEF Instance
    <3>4. r \in Instance
      BY <1>a, <2>1, <3>2, InstanceUpdates
    <3> QED BY <1>a, <2>1, <3>1, <3>3, <3>4
  <2>3. inst' = [inst EXCEPT ![i] = r] /\ BudgetInv'
    BY <1>0, <1>4, <1>7 DEF Purge
  <2> HIDE DEF r
  <2> QED BY <1>3, <1>7, <2>2, <2>3 DEF Purge
<1>8. ASSUME NEW i \in Idx, Lose(i) PROVE ShapeInv'
  <2> DEFINE r == [uuid |-> inst[i].uuid + 1, exec |-> inst[primary].exec, first |-> 1,
                   starts |-> <<inst[primary].exec>>, ready |-> FALSE]
  <2>1. r \in Instance /\ r.exec <= Len(log) /\ Len(r.starts) > 0
    BY <1>0, <1>a DEF Instance
  <2>2. inst' = [inst EXCEPT ![i] = r] /\ BudgetInv'
    BY <1>0, <1>4, <1>8 DEF Lose
  <2> HIDE DEF r
  <2> QED BY <1>3, <1>8, <2>1, <2>2 DEF Lose
<1>9. ASSUME NEW i \in Idx, Failover(i) PROVE ShapeInv'
  BY <1>4, <1>9 DEF Failover, TypeOK, bucketVars
<1>10. ASSUME NEW i \in Idx, Down(i) PROVE ShapeInv'
  <2> DEFINE r == [inst[i] EXCEPT !.ready = FALSE]
  <2>1. r \in Instance /\ r.exec <= Len(log) /\ Len(r.starts) > 0
    BY <1>0, <1>a DEF Instance
  <2>2. inst' = [inst EXCEPT ![i] = r] /\ BudgetInv'
    BY <1>0, <1>4, <1>10 DEF Down
  <2> HIDE DEF r
  <2> QED BY <1>3, <1>10, <2>1, <2>2 DEF Down
<1>11. ASSUME NEW i \in Idx, Up(i) PROVE ShapeInv'
  <2> DEFINE r == [inst[i] EXCEPT !.ready = TRUE]
  <2>1. r \in Instance /\ r.exec <= Len(log) /\ Len(r.starts) > 0
    BY <1>0, <1>a DEF Instance
  <2>2. inst' = [inst EXCEPT ![i] = r] /\ BudgetInv'
    BY <1>0, <1>11 DEF Up, BudgetInv
  <2> HIDE DEF r
  <2> QED BY <1>3, <1>11, <2>1, <2>2 DEF Up
<1> QED BY <1>1, <1>2, <1>5, <1>6, <1>7, <1>8, <1>9, <1>10, <1>11 DEF Environment

(* The source is an instance; in a chain it is one whose server_uuid is    *)
(* that of the last backup.                                                *)
LEMMA ChoosePodFacts ==
    ASSUME NEW b \in Job, NEW c \in ChoosePod(b)
    PROVE  /\ c.src \in Idx /\ c.chain \in BOOLEAN
           /\ c.chain => /\ b.last.time # 0
                         /\ b.now.uuids[c.src] # Absent
                         /\ b.now.uuids[c.src] = LastUUIDs(b.last)[c.src]
<1> DEFINE ready == {i \in Idx : b.pods[i] # Absent}
           same == getIdxsWithUnchangedUUID(b.now.uuids, LastUUIDs(b.last))
           replicas == same \ {b.primary}
<1>0. b.primary \in Idx /\ b.last.src \in Idx
  BY DEF Job, BackupStatus
<1>1. ASSUME NEW S \in SUBSET Idx
      PROVE  AnyReady(S, b.primary) \in (S \ {b.primary}) \cup {b.primary}
             /\ (S \ {b.primary} # {} => AnyReady(S, b.primary) \in S)
  <2>1. S \ {b.primary} # {} => Lowest(S \ {b.primary}) \in S \ {b.primary}
    BY LowestExists
  <2> QED BY <2>1 DEF AnyReady
<1>2. CASE b.last.time = 0 \/ same = {}
  <2>1. c.src = AnyReady(ready, b.primary) /\ c.chain = FALSE
    BY <1>2 DEF ChoosePod
  <2>2. AnyReady(ready, b.primary) \in (ready \ {b.primary}) \cup {b.primary}
    BY <1>1
  <2>3. c.src \in Idx
    BY <1>0, <2>1, <2>2
  <2> QED BY <2>1, <2>3
<1>3. CASE ~(b.last.time = 0 \/ same = {})
  <2>1. /\ c.src = IF b.last.src \in replicas THEN b.last.src ELSE AnyReady(replicas, b.primary)
        /\ c.chain = TRUE
    BY <1>3 DEF ChoosePod
  <2>2. same \subseteq Idx /\ \A i \in same : b.now.uuids[i] # Absent /\ b.now.uuids[i] = LastUUIDs(b.last)[i]
    BY DEF getIdxsWithUnchangedUUID
  <2> HIDE DEF same
  <2>3. c.src \in same
    <3>1. CASE b.last.src \in replicas
      BY <2>1, <3>1
    <3>2. CASE b.last.src \notin replicas /\ replicas # {}
      BY <1>1, <2>1, <2>2, <3>2
    <3>3. CASE replicas = {}
      <4>1. b.primary \in same
        BY <1>3, <3>3
      <4>2. AnyReady(replicas, b.primary) = b.primary
        BY <3>3 DEF AnyReady
      <4> QED BY <2>1, <3>3, <4>1, <4>2
    <3> QED BY <3>1, <3>2, <3>3
  <2> QED BY <1>3, <2>1, <2>2, <2>3
<1> QED BY <1>2, <1>3

(* The backup Jobs. *)
LEMMA ShapeJob ==
    ASSUME ShapeInv, NEW j \in Slots, BackupJob(j) PROVE ShapeInv'
<1> USE DEF ShapeInv
<1> DEFINE b == job[j]
<1>0. /\ b \in Job /\ b.last \in BackupStatus /\ b.now \in BackupStatus /\ b.primary \in Idx
      /\ backup \in BackupStatus /\ primary \in Idx /\ budget \in Scenario
      /\ job \in [Slots -> Job]
  BY DEF TypeOK, BudgetInv, Job
<1>a. NoBackup \in BackupStatus
  BY ConstantFacts DEF NoBackup, BackupStatus
<1>b. NoJob \in Job /\ NoJob.pc = "idle"
  BY <1>a, ConstantFacts DEF NoJob, Job
<1>c. \A i \in Idx : inst[i].uuid \in Nat /\ inst[i].exec \in Count
  BY InstanceFields DEF TypeOK
(* A step of a Job that changes nothing but the Job. *)
<1>1. ASSUME NEW r \in Job, job' = [job EXCEPT ![j] = r], BudgetInv',
             r.pc \in {"full", "binlog", "status"} =>
                 r.now.time # 0 /\ (r.chain => r.last.time # 0),
             dumps' \in [Time -> Count \cup {Absent}],
             binlogs' \in [Time -> (SUBSET Txn) \cup {{Absent}}],
             recorded' \in Seq([prev: Time, time: Time, gtid: Count]),
             backup' \in BackupStatus,
             UNCHANGED <<clusterVars, rst>>
      PROVE  ShapeInv'
  <2>1. job' \in [Slots -> Job]
    BY <1>0, <1>1
  <2>2. \A k \in Slots : job'[k].pc \in {"full", "binlog", "status"} =>
            job'[k].now.time # 0 /\ (job'[k].chain => job'[k].last.time # 0)
    BY <1>0, <1>1
  <2>3. clock' = clock /\ log' = log /\ inst' = inst /\ primary' = primary /\ rst' = rst
    BY <1>1 DEF clusterVars
  <2>4. TypeOK'
    BY <1>1, <2>1, <2>3 DEF TypeOK
  <2> QED BY <1>1, <2>2, <2>3, <2>4
<1>2. ASSUME NEW kind \in {"jobs", "error"}, Happens(kind), UNCHANGED clusterVars
      PROVE  BudgetInv'
  BY <1>0, <1>2, HappensFacts DEF BudgetInv, clusterVars
<1>3. UNCHANGED <<clusterVars, budget>> => BudgetInv'
  BY DEF BudgetInv, clusterVars
<1>4. CASE NewBackupManager(j)
  <2> DEFINE r == [NoJob EXCEPT
                  !.pc = "uuids", !.last = backup, !.primary = primary,
                  !.pods = [i \in Idx |-> IF inst[i].ready THEN inst[i].uuid ELSE Absent]]
  <2>1. [i \in Idx |-> IF inst[i].ready THEN inst[i].uuid ELSE Absent] \in [Idx -> Nat \cup {Absent}]
    BY <1>c
  <2>2. r \in Job /\ r.pc = "uuids"
    BY <1>0, <1>b, <2>1 DEF Job
  <2>3. job' = [job EXCEPT ![j] = r] /\ BudgetInv'
    BY <1>2, <1>4 DEF NewBackupManager
  <2> HIDE DEF r
  <2> QED BY <1>1, <1>4, <2>2, <2>3 DEF NewBackupManager, TypeOK, bucketVars
<1>5. CASE GetUUIDSet(j)
  <2> DEFINE u == [i \in Idx |-> IF job[j].pods[i] # Absent /\ inst[i].ready
                                 THEN inst[i].uuid ELSE Absent]
             r == [b EXCEPT !.pc = "choose", !.now = [b.now EXCEPT !.uuids = u]]
  <2>1. u \in [Idx -> Nat \cup {Absent}]
    BY <1>c
  <2>2. job' = [job EXCEPT ![j] = r] /\ BudgetInv'
    BY <1>0, <1>3, <1>5 DEF GetUUIDSet, Job, BackupStatus
  <2> HIDE DEF u
  <2>3. [b.now EXCEPT !.uuids = u] \in BackupStatus
    BY <1>0, <2>1 DEF BackupStatus
  <2>4. r \in Job /\ r.pc = "choose"
    BY <1>0, <2>3 DEF Job
  <2> HIDE DEF r
  <2> QED BY <1>1, <1>5, <2>2, <2>4 DEF GetUUIDSet, TypeOK, bucketVars
<1>6. CASE Choose(j)
  <2>1. PICK c \in ChoosePod(b) :
          job' = [job EXCEPT ![j] = [b EXCEPT
                        !.pc = "full", !.chain = c.chain,
                        !.now = [@ EXCEPT !.src = c.src, !.uuid = inst[c.src].uuid,
                                          !.time = clock, !.file = CurrentBinlog(c.src),
                                          !.warned = b.last.time # 0 /\ ~c.chain]]]
    BY <1>6 DEF Choose
  <2> DEFINE n == [b.now EXCEPT !.src = c.src, !.uuid = inst[c.src].uuid,
                                !.time = clock, !.file = CurrentBinlog(c.src),
                                !.warned = b.last.time # 0 /\ ~c.chain]
             r == [b EXCEPT !.pc = "full", !.chain = c.chain, !.now = n]
  <2>2. c.src \in Idx /\ c.chain \in BOOLEAN /\ (c.chain => b.last.time # 0)
    BY <1>0, <2>1, ChoosePodFacts
  <2>3. CurrentBinlog(c.src) \in Nat
    <3>1. inst[c.src] \in Instance /\ Len(inst[c.src].starts) > 0
      BY <2>2 DEF TypeOK
    <3>2. inst[c.src].first \in Nat /\ Len(inst[c.src].starts) \in Nat
      BY <3>1, InstanceFields
    <3> QED BY <3>1, <3>2 DEF CurrentBinlog
  <2>4. n \in BackupStatus /\ n.time = clock
    BY <1>0, <1>c, <2>2, <2>3 DEF BackupStatus, TypeOK
  <2>5. job' = [job EXCEPT ![j] = r] /\ BudgetInv'
    BY <1>0, <1>3, <1>6, <2>1 DEF Choose
  <2> HIDE DEF n
  <2>6. r \in Job /\ r.now.time = clock /\ r.last = b.last /\ r.chain = c.chain
    BY <1>0, <2>2, <2>4 DEF Job
  <2>7. clock # 0
    BY ConstantFacts DEF TypeOK
  <2> HIDE DEF r
  <2> QED BY <1>1, <1>6, <2>2, <2>5, <2>6, <2>7 DEF Choose, TypeOK, bucketVars
<1>7. CASE backupFull(j)
  <2> DEFINE n == [b.now EXCEPT !.gtid = inst[b.now.src].exec]
             r == [b EXCEPT !.pc = IF b.chain THEN "binlog" ELSE "status", !.now = n]
  <2>1. b.now.src \in Idx /\ inst[b.now.src].exec \in Count
    BY <1>0, <1>c DEF BackupStatus
  <2>2. n \in BackupStatus /\ n.time = b.now.time
    BY <1>0, <2>1 DEF BackupStatus
  <2>3. job' = [job EXCEPT ![j] = r] /\ BudgetInv'
    BY <1>0, <1>3, <1>7 DEF backupFull, Job, BackupStatus
  <2> HIDE DEF n
  <2>4. r \in Job /\ r.now.time = b.now.time /\ r.chain = b.chain /\ r.last = b.last
    BY <1>0, <2>2 DEF Job
  <2>5. b.now.time # 0 /\ (b.chain => b.last.time # 0)
    BY <1>7 DEF backupFull
  <2>6. dumps' \in [Time -> Count \cup {Absent}]
    BY <1>7, <2>1 DEF backupFull, TypeOK
  <2> HIDE DEF r
  <2> QED BY <1>1, <1>7, <2>3, <2>4, <2>5, <2>6 DEF backupFull, TypeOK, bucketVars
<1>8. CASE backupBinlog(j)
  <2> DEFINE r == [b EXCEPT !.pc = "status"]
  <2>1. r \in Job /\ r.now = b.now /\ r.chain = b.chain /\ r.last = b.last
    BY <1>0 DEF Job
  <2>2. job' = [job EXCEPT ![j] = r] /\ BudgetInv'
    <3>1. BudgetInv' /\ job' = [job EXCEPT ![j].pc = "status"]
      BY <1>3, <1>8 DEF backupBinlog
    <3> QED BY <1>0, <3>1 DEF Job
  <2>3. b.now.time # 0 /\ (b.chain => b.last.time # 0)
    BY <1>8 DEF backupBinlog
  <2>4. binlogs' \in [Time -> (SUBSET Txn) \cup {{Absent}}]
    BY <1>8 DEF backupBinlog, TypeOK, DumpBinlog
  <2> HIDE DEF r
  <2> QED BY <1>1, <1>8, <2>1, <2>2, <2>3, <2>4 DEF backupBinlog, TypeOK
<1>9. CASE backupNoBinlog(j)
  <2> DEFINE n == [b.now EXCEPT !.warned = TRUE]
             r == [b EXCEPT !.pc = "status", !.now = n]
  <2>1. n \in BackupStatus /\ n.time = b.now.time
    BY <1>0 DEF BackupStatus
  <2>2. job' = [job EXCEPT ![j] = r]
    BY <1>0, <1>9 DEF backupNoBinlog, Job, BackupStatus
  <2> HIDE DEF n
  <2>3. r \in Job /\ r.now.time = b.now.time /\ r.chain = b.chain /\ r.last = b.last
    BY <1>0, <2>1 DEF Job
  <2>4. b.now.time # 0 /\ (b.chain => b.last.time # 0)
    BY <1>9 DEF backupNoBinlog
  <2>5. BudgetInv'
    BY <1>2, <1>3, <1>9 DEF backupNoBinlog
  <2> HIDE DEF r
  <2> QED BY <1>1, <1>9, <2>2, <2>3, <2>4, <2>5 DEF backupNoBinlog, TypeOK, bucketVars
<1>10. CASE updateStatus(j)
  <2>1. job' = [job EXCEPT ![j] = NoJob] /\ BudgetInv' /\ backup' \in BackupStatus
    BY <1>0, <1>3, <1>10 DEF updateStatus
  <2>2. recorded' \in Seq([prev: Time, time: Time, gtid: Count])
    <3>1. CASE recorded' = recorded
      BY <3>1 DEF TypeOK
    <3>2. CASE b.chain /\ ~b.now.warned
      <4> DEFINE e == [prev |-> b.last.time, time |-> b.now.time, gtid |-> b.now.gtid]
      <4>1. b.now.time # 0 /\ b.last.time # 0
        BY <1>10, <3>2 DEF updateStatus
      <4>2. e \in [prev: Time, time: Time, gtid: Count]
        BY <1>0, <4>1 DEF BackupStatus
      <4>3. recorded' = Append(recorded, e)
        BY <1>10, <3>2 DEF updateStatus
      <4> HIDE DEF e
      <4> QED BY <4>2, <4>3 DEF TypeOK
    <3> QED BY <1>10, <3>1, <3>2 DEF updateStatus
  <2> QED BY <1>1, <1>b, <1>10, <2>1, <2>2 DEF updateStatus, TypeOK, bucketVars
<1>11. CASE JobFails(j)
  <2>1. job' = [job EXCEPT ![j] = NoJob] /\ BudgetInv'
    BY <1>2, <1>3, <1>11 DEF JobFails
  <2> QED BY <1>1, <1>b, <1>11, <2>1 DEF JobFails, TypeOK, bucketVars
<1> QED BY <1>4, <1>5, <1>6, <1>7, <1>8, <1>9, <1>10, <1>11 DEF BackupJob

(* The nearest dump is a dump. *)
LEMMA NearestDump ==
    ASSUME ShapeInv, NEW p \in Time, DumpsUpTo(p) # {}
    PROVE  LET t == Latest(DumpsUpTo(p)) IN
           /\ t \in Time /\ t <= p /\ dumps[t] # Absent /\ dumps[t] \in Count
           /\ \A u \in DumpsUpTo(p) : u <= t
<1>1. DumpsUpTo(p) \in SUBSET Time
  BY DEF DumpsUpTo
<1>2. Latest(DumpsUpTo(p)) \in DumpsUpTo(p) /\ \A u \in DumpsUpTo(p) : u <= Latest(DumpsUpTo(p))
  BY <1>1, LatestExists
<1> QED BY <1>2 DEF DumpsUpTo, ShapeInv, TypeOK

(* What is loaded are transactions. *)
LEMMA LoadedTxns ==
    ASSUME ShapeInv
    PROVE  /\ \A t \in Time : LoadDump(t) \subseteq Txn
           /\ \A t \in Time, p \in Time \cup {0} : LoadBinlog(t, p) \subseteq Txn
           /\ \A p \in Time : Restored(p) \subseteq Txn
<1>1. ASSUME NEW t \in Time PROVE LoadDump(t) \subseteq Txn
  BY ConstantFacts DEF ShapeInv, TypeOK, LoadDump, Txn, Count, Absent
<1>2. ASSUME NEW t, NEW p PROVE LoadBinlog(t, p) \subseteq Txn
  <2>1. log \in Seq(Time) /\ Len(log) <= MaxTxn
    BY DEF ShapeInv, TypeOK
  <2>2. DOMAIN log = 1 .. Len(log) /\ Len(log) \in Nat
    BY <2>1
  <2>3. DOMAIN log \subseteq Txn
    BY <2>1, <2>2, ConstantFacts DEF Txn
  <2> QED BY <2>3 DEF LoadBinlog
<1>3. ASSUME NEW p \in Time PROVE Restored(p) \subseteq Txn
  <2>1. DumpsUpTo(p) # {} => Latest(DumpsUpTo(p)) \in Time
    BY NearestDump
  <2> QED BY <1>1, <1>2, <2>1 DEF Restored
<1> QED BY <1>1, <1>2, <1>3

(* The restore Job. *)
LEMMA ShapeRestore ==
    ASSUME ShapeInv, Restore PROVE ShapeInv'
<1> USE DEF ShapeInv
<1>0. /\ rst \in Restoration /\ budget \in Scenario /\ rst.data \subseteq Txn
      /\ rst.point \in Time \cup {0} /\ rst.dump \in Time \cup {0}
      /\ clock \in Time /\ 1 .. clock \subseteq Time
  BY ConstantFacts DEF TypeOK, BudgetInv, Restoration, Time
(* A step that changes nothing but the restoration. *)
<1>1. ASSUME rst' \in Restoration,
             rst'.pc \in {"wait", "prepare", "load", "apply", "finish", "status"} => rst'.point # 0,
             rst'.pc \in {"prepare", "load", "apply", "finish", "status"} => rst'.dump # 0,
             BudgetInv', UNCHANGED <<clusterVars, backup, bucketVars, job, recorded>>
      PROVE  ShapeInv'
  <2>1. TypeOK'
    BY <1>1 DEF TypeOK, clusterVars, bucketVars
  <2> QED BY <1>1, <2>1 DEF clusterVars
<1>2. ASSUME NEW kind \in {"restore", "error"}, Happens(kind), UNCHANGED clusterVars
      PROVE  BudgetInv'
  BY <1>0, <1>2, HappensFacts DEF BudgetInv, clusterVars
<1>3. UNCHANGED <<clusterVars, budget>> => BudgetInv'
  BY DEF BudgetInv, clusterVars
<1>4. CASE RestoreJob
  <2>1. PICK p \in IF rst.point = 0 THEN 1 .. clock ELSE {rst.point} :
            rst' = [rst EXCEPT !.pc = "wait", !.point = p]
    BY <1>4 DEF RestoreJob
  <2>2. p \in Time
    BY <1>0, <2>1
  <2>3. rst' \in Restoration /\ rst'.pc = "wait" /\ rst'.point # 0
    BY <1>0, <2>1, <2>2, ConstantFacts DEF Restoration
  <2> QED BY <1>1, <1>2, <1>4, <2>3 DEF RestoreJob
<1>5. CASE FindNearestDump
  <2>1. rst.point \in Time
    BY <1>0, <1>5 DEF FindNearestDump
  <2>2. CASE DumpsUpTo(rst.point) = {}
    <3>1. rst' = [rst EXCEPT !.pc = "failed"]
      BY <1>5, <2>2 DEF FindNearestDump
    <3>2. rst' \in Restoration /\ rst'.pc = "failed"
      BY <1>0, <3>1 DEF Restoration
    <3> QED BY <1>1, <1>3, <1>5, <3>2 DEF FindNearestDump
  <2>3. CASE DumpsUpTo(rst.point) # {}
    <3> DEFINE t == Latest(DumpsUpTo(rst.point))
    <3>1. rst' = [rst EXCEPT !.pc = "prepare", !.dump = t, !.binlog = binlogs[t] # {Absent},
                             !.want = Restored(rst.point)]
      BY <1>5, <2>3 DEF FindNearestDump
    <3>2. t \in Time /\ Restored(rst.point) \subseteq Txn
      BY <2>1, <2>3, NearestDump, LoadedTxns
    <3> HIDE DEF t
    <3>3. rst' \in Restoration /\ rst'.dump = t /\ rst'.point = rst.point
      BY <1>0, <3>1, <3>2 DEF Restoration
    <3>4. t # 0 /\ rst.point # 0
      BY <2>1, <3>2, ConstantFacts
    <3> QED BY <1>1, <1>3, <1>5, <3>3, <3>4 DEF FindNearestDump
  <2> QED BY <2>2, <2>3
<1>6. CASE PrepareRestore
  <2>1. /\ rst' \in Restoration
        /\ rst'.point = rst.point /\ rst'.dump = rst.dump
    BY <1>0, <1>6 DEF PrepareRestore, Restoration
  <2> QED BY <1>1, <1>3, <1>6, <2>1 DEF PrepareRestore
<1>7. CASE loadDump
  <2>1. rst.dump \in Time /\ rst.point # 0
    BY <1>0, <1>7 DEF loadDump
  <2>2. LoadDump(rst.dump) \subseteq Txn
    BY <2>1, LoadedTxns
  <2>3. rst' \in Restoration /\ rst'.point = rst.point /\ rst'.dump = rst.dump
    BY <1>0, <1>7, <2>2 DEF loadDump, Restoration
  <2> QED BY <1>1, <1>3, <1>7, <2>1, <2>3, ConstantFacts DEF loadDump
<1>8. CASE applyBinlog
  <2>1. rst.dump \in Time /\ rst.point # 0
    BY <1>0, <1>8 DEF applyBinlog
  <2>2. LoadBinlog(rst.dump, rst.point) \subseteq Txn
    BY <1>0, <2>1, LoadedTxns
  <2>3. rst' \in Restoration /\ rst'.point = rst.point /\ rst'.dump = rst.dump
    BY <1>0, <1>8, <2>2 DEF applyBinlog, Restoration
  <2> QED BY <1>1, <1>3, <1>8, <2>1, <2>3, ConstantFacts DEF applyBinlog
<1>9. CASE FinishRestore
  <2>1. rst' \in Restoration /\ rst'.point = rst.point /\ rst'.dump = rst.dump
    BY <1>0, <1>9 DEF FinishRestore, Restoration
  <2> QED BY <1>1, <1>3, <1>9, <2>1 DEF FinishRestore
<1>10. CASE RecordRestored
  <2>1. rst' \in Restoration /\ rst'.pc = "ended"
    BY <1>0, <1>10 DEF RecordRestored, Restoration
  <2> QED BY <1>1, <1>3, <1>10, <2>1 DEF RecordRestored
<1>11. CASE RestoreFails
  <2>1. PICK part \in Partly, pc \in {"failed", "ended"} :
            rst' = [rst EXCEPT !.pc = pc, !.data = @ \cup part]
    BY <1>11 DEF RestoreFails
  <2>2. part \subseteq Txn
    <3>1. CASE rst.pc = "load" /\ rst.data = {}
      <4>1. rst.dump \in Time
        BY <1>0, <3>1
      <4> QED BY <2>1, <3>1, <4>1, LoadedTxns DEF Partly
    <3>2. CASE rst.pc = "apply"
      <4>1. rst.dump \in Time
        BY <1>0, <3>2
      <4>2. LoadBinlog(rst.dump, rst.point) \subseteq Txn
        BY <1>0, <4>1, LoadedTxns
      <4>3. part \in {{k \in LoadBinlog(rst.dump, rst.point) : k <= n} : n \in Count}
        BY <2>1, <3>2 DEF Partly
      <4> QED BY <4>2, <4>3
    <3>3. CASE ~(rst.pc = "load" /\ rst.data = {}) /\ rst.pc # "apply"
      <4>1. part = {}
        BY <2>1, <3>3 DEF Partly
      <4> QED BY <4>1
    <3> QED BY <3>1, <3>2, <3>3
  <2>3. rst' \in Restoration /\ rst'.pc \in {"failed", "ended"}
    BY <1>0, <2>1, <2>2 DEF Restoration
  <2> QED BY <1>1, <1>2, <1>11, <2>3 DEF RestoreFails
<1>12. CASE DeleteRestoreJob
  <2>1. rst' \in Restoration /\ rst'.pc = "none"
    BY <1>0, <1>12 DEF DeleteRestoreJob, Restoration
  <2> QED BY <1>1, <1>3, <1>12, <2>1 DEF DeleteRestoreJob
<1> QED BY <1>4, <1>5, <1>6, <1>7, <1>8, <1>9, <1>10, <1>11, <1>12 DEF Restore

(* Every step keeps the types. *)
LEMMA ShapeStep == ShapeInv /\ [Next]_vars => ShapeInv'
<1> SUFFICES ASSUME ShapeInv, [Next]_vars PROVE ShapeInv'
  OBVIOUS
<1>1. CASE UNCHANGED vars
  BY <1>1 DEF vars, clusterVars, bucketVars, ShapeInv, TypeOK, BudgetInv
<1> QED BY <1>1, ShapeEnvironment, ShapeJob, ShapeRestore DEF Next

(* Every variable of the backup and restore Jobs, of the bucket and of the *)
(* instances keeps its type.                                               *)
THEOREM BackupTypes == Spec => []TypeOK
<1>1. ShapeInv => TypeOK
  BY DEF ShapeInv
<1> QED BY <1>1, ShapeInit, ShapeStep, PTL DEF Spec

-----------------------------------------------------------------------------
(* How the instances, the history and the bucket change *)

(* The oldest binary log file of instance i expires, which happens only if *)
(* the last backup has it, no replica lags and no two Jobs overlap.        *)
Expired(i) ==
    /\ ~budget.lag /\ ~budget.overlap
    /\ inst'[i].starts[1] <= backup.gtid
    /\ UNCHANGED <<backup, job>>

(* An instance is replaced, or it goes on: it executes more transactions,  *)
(* and the files that it still has are those that it had.                  *)
Grows(i) ==
    \/ inst[i].uuid < inst'[i].uuid
    \/ /\ inst'[i].uuid = inst[i].uuid /\ inst[i].exec <= inst'[i].exec
       /\ inst[i].first <= inst'[i].first /\ CurrentBinlog(i) <= CurrentBinlog(i)'
       /\ \A f \in inst'[i].first .. CurrentBinlog(i) :
             inst'[i].starts[f - inst'[i].first + 1] = inst[i].starts[f - inst[i].first + 1]
       /\ inst'[i].starts[1] = inst[i].starts[1] \/ Expired(i)

(* Time passes, the history gets longer, and what was dumped stays. *)
Later ==
    /\ clock <= clock' /\ Len(log) <= Len(log')
    /\ \A k \in DOMAIN log : k \in DOMAIN log' /\ log'[k] = log[k]
    /\ budget'.lag = budget.lag /\ budget'.overlap = budget.overlap
    /\ KeepsBinlogs(budget')
    /\ \A i \in Idx : Grows(i)
    /\ \A t \in Time : dumps[t] # Absent => dumps'[t] = dumps[t]
    /\ \A t \in Time : binlogs[t] # {Absent} =>
          binlogs'[t] # {Absent} /\ (~budget.lag => binlogs[t] \subseteq binlogs'[t])

(* The types of the parts of the state. *)
Typed ==
    /\ clock \in Nat /\ Len(log) \in Nat /\ DOMAIN log = 1 .. Len(log) /\ Len(log) <= MaxTxn
    /\ \A k \in DOMAIN log : log[k] \in Nat
    /\ primary \in Idx /\ budget \in Scenario
    /\ \A i \in Idx : /\ inst[i] \in Instance
                      /\ inst[i].uuid \in Nat /\ inst[i].exec \in Nat /\ inst[i].first \in Nat
                      /\ inst[i].starts \in Seq(Count) /\ Len(inst[i].starts) \in Nat
                      /\ Len(inst[i].starts) > 0 /\ inst[i].exec <= Len(log)
                      /\ DOMAIN inst[i].starts = 1 .. Len(inst[i].starts)
                      /\ \A n \in 1 .. Len(inst[i].starts) : inst[i].starts[n] \in Nat
    /\ \A t \in Time : dumps[t] \in Count \cup {Absent} /\ dumps[t] \in Int

(* Facts about the state that every step uses. *)
LEMMA StateFacts ==
    ASSUME ShapeInv
    PROVE  /\ clock \in Nat /\ Len(log) \in Nat /\ DOMAIN log = 1 .. Len(log) /\ Len(log) <= MaxTxn
           /\ \A k \in DOMAIN log : log[k] \in Nat
           /\ primary \in Idx /\ budget \in Scenario
           /\ \A i \in Idx : /\ inst[i] \in Instance
                             /\ inst[i].uuid \in Nat /\ inst[i].exec \in Nat /\ inst[i].first \in Nat
                             /\ inst[i].starts \in Seq(Count) /\ Len(inst[i].starts) \in Nat
                             /\ Len(inst[i].starts) > 0 /\ inst[i].exec <= Len(log)
                             /\ DOMAIN inst[i].starts = 1 .. Len(inst[i].starts)
                             /\ \A n \in 1 .. Len(inst[i].starts) : inst[i].starts[n] \in Nat
           /\ \A t \in Time : dumps[t] \in Count \cup {Absent} /\ dumps[t] \in Int
<1>1. log \in Seq(Time) /\ Len(log) <= MaxTxn
  BY DEF ShapeInv, TypeOK
<1>2. Len(log) \in Nat /\ DOMAIN log = 1 .. Len(log) /\ \A k \in DOMAIN log : log[k] \in Time
  BY <1>1
<1>3. ASSUME NEW i \in Idx
      PROVE  /\ inst[i] \in Instance
             /\ inst[i].uuid \in Nat /\ inst[i].exec \in Nat /\ inst[i].first \in Nat
             /\ inst[i].starts \in Seq(Count) /\ Len(inst[i].starts) \in Nat
             /\ Len(inst[i].starts) > 0 /\ inst[i].exec <= Len(log)
  <2>1. inst[i] \in Instance /\ inst[i].exec <= Len(log) /\ Len(inst[i].starts) > 0
    BY DEF ShapeInv, TypeOK
  <2> QED BY <2>1, InstanceFields
<1>4. ASSUME NEW i \in Idx
      PROVE  /\ DOMAIN inst[i].starts = 1 .. Len(inst[i].starts)
             /\ \A n \in 1 .. Len(inst[i].starts) : inst[i].starts[n] \in Nat
  <2>1. inst[i].starts \in Seq(Count)
    BY <1>3
  <2>2. /\ DOMAIN inst[i].starts = 1 .. Len(inst[i].starts)
        /\ \A n \in 1 .. Len(inst[i].starts) : inst[i].starts[n] \in Count
    BY <2>1
  <2> QED BY <2>2, ConstantFacts
<1>5. \A t \in Time : dumps[t] \in Count \cup {Absent} /\ dumps[t] \in Int
  <2>1. dumps \in [Time -> Count \cup {Absent}]
    BY DEF ShapeInv, TypeOK
  <2>2. \A t \in Time : dumps[t] \in Count \cup {Absent}
    BY <2>1
  <2>3. Count \subseteq Int /\ Absent \in Int
    BY ConstantFacts DEF Absent
  <2> QED BY <2>2, <2>3
<1>6. clock \in Nat /\ primary \in Idx /\ budget \in Scenario
  BY ConstantFacts DEF ShapeInv, TypeOK, BudgetInv
<1>7. \A k \in DOMAIN log : log[k] \in Nat
  BY <1>2, ConstantFacts
<1> QED BY <1>1, <1>2, <1>3, <1>4, <1>5, <1>6, <1>7

(* The parts of the state have the types the arithmetic needs. *)
LEMMA StateTyped == ShapeInv => Typed
BY StateFacts DEF Typed

(* The same in the next state. *)
LEMMA NextTyped == ShapeInv' => Typed'
BY StateTyped, PTL

(* An instance whose binary logs do not change. *)
LEMMA GrowsSame ==
    ASSUME ShapeInv, NEW i \in Idx,
           inst'[i].uuid = inst[i].uuid, inst'[i].first = inst[i].first,
           inst'[i].starts = inst[i].starts, inst[i].exec <= inst'[i].exec
    PROVE  Grows(i)
BY StateFacts DEF Grows, CurrentBinlog

(* FLUSH BINARY LOGS loses nothing. *)
LEMMA GrowsRotate ==
    ASSUME ShapeInv, NEW i \in Idx, Rotate(i) PROVE Grows(i)
<1>1. inst'[i] = [inst[i] EXCEPT !.starts = Append(@, inst[i].exec)]
  BY StateFacts DEF Rotate, ShapeInv, TypeOK
<1>2. /\ inst'[i].uuid = inst[i].uuid /\ inst'[i].first = inst[i].first
      /\ inst'[i].exec = inst[i].exec
      /\ inst'[i].starts = Append(inst[i].starts, inst[i].exec)
  BY <1>1, StateFacts DEF Instance
<1>3. /\ inst[i].starts \in Seq(Count) /\ inst[i].exec \in Count
      /\ Len(inst[i].starts) \in Nat /\ Len(inst[i].starts) > 0 /\ inst[i].first \in Nat
      /\ inst[i].exec \in Nat
  BY StateFacts, InstanceFields
<1>4. /\ Len(inst'[i].starts) = Len(inst[i].starts) + 1
      /\ \A n \in 1 .. Len(inst[i].starts) : inst'[i].starts[n] = inst[i].starts[n]
  BY <1>2, <1>3
<1>5. CurrentBinlog(i) <= CurrentBinlog(i)'
  BY <1>2, <1>3, <1>4 DEF CurrentBinlog
<1>6. ASSUME NEW f \in inst'[i].first .. CurrentBinlog(i)
      PROVE  inst'[i].starts[f - inst'[i].first + 1] = inst[i].starts[f - inst[i].first + 1]
  <2>1. f - inst[i].first + 1 \in 1 .. Len(inst[i].starts)
    BY <1>2, <1>3, <1>6 DEF CurrentBinlog
  <2> QED BY <1>2, <1>4, <2>1
<1>7. inst'[i].starts[1] = inst[i].starts[1]
  BY <1>3, <1>4
<1>8. inst[i].exec <= inst'[i].exec /\ inst[i].first <= inst'[i].first
  BY <1>2, <1>3
<1> QED BY <1>2, <1>5, <1>6, <1>7, <1>8, Zenon DEF Grows

(* The place of a binary log file when the first one has expired. *)
LEMMA NextPlace ==
    ASSUME NEW m \in Nat, NEW l \in Nat, NEW f \in m + 1 .. m + l - 1
    PROVE  /\ f - (m + 1) + 1 \in 1 .. l - 1
           /\ f - (m + 1) + 1 + 1 = f - m + 1
OBVIOUS

(* A purge deletes only binary logs that no backup will ask for. *)
LEMMA GrowsPurge ==
    ASSUME Inv, NEW i \in Idx, Purge(i) PROVE Grows(i)
<1>0. ShapeInv /\ KeepsBinlogs(budget)
  BY DEF Inv
<1>1. inst'[i] = [inst[i] EXCEPT !.starts = Tail(@), !.first = @ + 1]
  BY <1>0, StateFacts DEF Purge, ShapeInv, TypeOK
<1>2. /\ inst'[i].uuid = inst[i].uuid /\ inst'[i].first = inst[i].first + 1
      /\ inst'[i].exec = inst[i].exec
      /\ inst'[i].starts = Tail(inst[i].starts)
  BY <1>0, <1>1, StateFacts DEF Instance
<1>3. /\ inst[i].starts \in Seq(Count) /\ inst[i].exec \in Nat
      /\ Len(inst[i].starts) \in Nat /\ Len(inst[i].starts) > 1 /\ inst[i].first \in Nat
      /\ inst[i].starts[2] <= backup.gtid
  BY <1>0, StateFacts DEF Purge
<1>4. /\ Len(inst'[i].starts) = Len(inst[i].starts) - 1
      /\ \A n \in 1 .. Len(inst[i].starts) - 1 : inst'[i].starts[n] = inst[i].starts[n + 1]
  BY <1>2, <1>3
<1>5. Expired(i)
  <2>1. budget.purge > 0 /\ budget \in Scenario
    BY <1>0, StateFacts, HappensFacts DEF Purge
  <2>2. ~budget.lag /\ ~budget.overlap
    BY <1>0, <2>1 DEF KeepsBinlogs, Scenario
  <2>3. inst'[i].starts[1] = inst[i].starts[2]
    BY <1>3, <1>4
  <2> QED BY <1>3, <2>2, <2>3 DEF Purge, Expired
<1>6. ASSUME NEW f \in inst'[i].first .. CurrentBinlog(i)
      PROVE  inst'[i].starts[f - inst'[i].first + 1] = inst[i].starts[f - inst[i].first + 1]
  <2> DEFINE m == inst[i].first  n == f - (m + 1) + 1
  <2>1. /\ m \in Nat /\ Len(inst[i].starts) \in Nat
        /\ f \in m + 1 .. m + Len(inst[i].starts) - 1
    BY <1>2, <1>3, <1>6 DEF CurrentBinlog
  <2>2. n \in 1 .. Len(inst[i].starts) - 1 /\ n + 1 = f - m + 1
    BY <2>1, NextPlace
  <2>3. inst'[i].starts[n] = inst[i].starts[n + 1]
    BY <1>4, <2>2
  <2> QED BY <1>2, <2>2, <2>3
<1>7. CurrentBinlog(i) <= CurrentBinlog(i)'
  BY <1>2, <1>3, <1>4 DEF CurrentBinlog
<1>8. inst[i].exec <= inst'[i].exec /\ inst[i].first <= inst'[i].first
  BY <1>2, <1>3
<1> QED BY <1>2, <1>5, <1>6, <1>7, <1>8, Zenon DEF Grows

(* Time, clients and instances leave the bucket and the Jobs alone. *)
LEMMA LaterEnvironment ==
    ASSUME Inv, Environment PROVE Later /\ UNCHANGED <<backup, bucketVars, job, rst, recorded>>
<1> USE DEF Inv
<1>0. ShapeInv /\ budget \in Scenario /\ KeepsBinlogs(budget)
  BY StateFacts
<1>1. ASSUME clock <= clock', Len(log) <= Len(log'),
             \A k \in DOMAIN log : k \in DOMAIN log' /\ log'[k] = log[k],
             budget'.lag = budget.lag, budget'.overlap = budget.overlap, KeepsBinlogs(budget'),
             \A i \in Idx : Grows(i), UNCHANGED bucketVars
      PROVE  Later
  BY <1>1 DEF Later, bucketVars
<1>2. UNCHANGED <<clock, log>> =>
          /\ clock <= clock' /\ Len(log) <= Len(log')
          /\ \A k \in DOMAIN log : k \in DOMAIN log' /\ log'[k] = log[k]
  BY <1>0, StateFacts
<1>3. UNCHANGED inst => \A i \in Idx : Grows(i)
  BY <1>0, GrowsSame, StateFacts
(* An event that changes one instance. *)
<1>4. ASSUME NEW i \in Idx, Grows(i), NEW r, inst' = [inst EXCEPT ![i] = r]
      PROVE  \A k \in Idx : Grows(k)
  <2>1. ASSUME NEW k \in Idx, k # i PROVE Grows(k)
    <3>1. inst'[k] = inst[k]
      BY <1>4, <2>1 DEF ShapeInv, TypeOK
    <3>2. inst[k].exec \in Nat
      BY <1>0, StateFacts
    <3>3. inst[k].exec <= inst'[k].exec
      BY <3>1, <3>2
    <3> QED BY <1>0, <3>1, <3>3, GrowsSame
  <2> QED BY <1>4, <2>1
<1>5. CASE Tick
  <2>1. clock' = clock + 1 /\ UNCHANGED <<log, inst, bucketVars>> /\ Happens("tick")
    BY <1>5 DEF Tick
  <2>2. /\ clock <= clock' /\ Len(log) <= Len(log')
        /\ \A k \in DOMAIN log : k \in DOMAIN log' /\ log'[k] = log[k]
    BY <1>0, <2>1, StateFacts
  <2>3. budget'.lag = budget.lag /\ budget'.overlap = budget.overlap /\ KeepsBinlogs(budget')
    BY <1>0, <2>1, HappensFacts
  <2> QED BY <1>1, <1>3, <1>5, <2>1, <2>2, <2>3 DEF Tick
<1>6. CASE Commit
  <2>1. Happens("commit") /\ log' = Append(log, clock) /\ UNCHANGED <<clock, bucketVars>>
    BY <1>6 DEF Commit
  <2>2. log \in Seq(Time) /\ clock \in Time
    BY DEF ShapeInv, TypeOK
  <2>3. Len(log') = Len(log) + 1 /\ \A k \in DOMAIN log : k \in DOMAIN log' /\ log'[k] = log[k]
    BY <2>1, <2>2
  <2>4. budget'.lag = budget.lag /\ budget'.overlap = budget.overlap /\ KeepsBinlogs(budget')
    BY <1>0, <2>1, HappensFacts
  <2>5. ASSUME NEW i \in Idx PROVE Grows(i)
    <3>1. inst'[i] = [inst[i] EXCEPT !.exec = Len(log')] \/ inst'[i] = inst[i]
      BY <1>6 DEF Commit
    <3>2. inst[i] \in Instance /\ inst[i].exec <= Len(log) /\ Len(log) \in Nat /\ inst[i].exec \in Nat
      BY <1>0, StateFacts
    <3>3. /\ inst'[i].uuid = inst[i].uuid /\ inst'[i].first = inst[i].first
          /\ inst'[i].starts = inst[i].starts
          /\ inst'[i].exec = Len(log') \/ inst'[i].exec = inst[i].exec
      BY <3>1, <3>2 DEF Instance
    <3>4. inst[i].exec <= inst'[i].exec
      BY <2>3, <3>2, <3>3
    <3> QED BY <1>0, <3>3, <3>4, GrowsSame
  <2>6. clock <= clock' /\ Len(log) <= Len(log')
    BY <1>0, <2>1, <2>3, StateFacts
  <2> QED BY <1>1, <1>6, <2>1, <2>3, <2>4, <2>5, <2>6 DEF Commit
<1>7. ASSUME NEW i \in Idx, Replicate(i)
      PROVE  Later /\ UNCHANGED <<backup, bucketVars, job, rst, recorded>>
  <2>1. inst' = [inst EXCEPT ![i] = [inst[i] EXCEPT !.exec = @ + 1]]
    BY <1>7 DEF Replicate
  <2>2. Grows(i)
    <3>1. inst'[i] = [inst[i] EXCEPT !.exec = @ + 1] /\ inst[i] \in Instance
      BY <1>0, <2>1, StateFacts DEF ShapeInv, TypeOK
    <3>2. /\ inst'[i].uuid = inst[i].uuid /\ inst'[i].first = inst[i].first
          /\ inst'[i].starts = inst[i].starts /\ inst'[i].exec = inst[i].exec + 1
      BY <3>1 DEF Instance
    <3> QED BY <1>0, <3>2, GrowsSame, StateFacts
  <2> QED BY <1>0, <1>1, <1>2, <1>4, <1>7, <2>1, <2>2 DEF Replicate
<1>8. ASSUME NEW i \in Idx, Rotate(i)
      PROVE  Later /\ UNCHANGED <<backup, bucketVars, job, rst, recorded>>
  <2>1. inst' = [inst EXCEPT ![i] = [inst[i] EXCEPT !.starts = Append(@, inst[i].exec)]]
    BY <1>8 DEF Rotate
  <2>2. Grows(i)
    BY <1>0, <1>8, GrowsRotate
  <2>3. budget'.lag = budget.lag /\ budget'.overlap = budget.overlap /\ KeepsBinlogs(budget')
    BY <1>0, <1>8, HappensFacts DEF Rotate
  <2> QED BY <1>1, <1>2, <1>4, <1>8, <2>1, <2>2, <2>3 DEF Rotate
<1>9. ASSUME NEW i \in Idx, Purge(i)
      PROVE  Later /\ UNCHANGED <<backup, bucketVars, job, rst, recorded>>
  <2>1. inst' = [inst EXCEPT ![i] = [inst[i] EXCEPT !.starts = Tail(@), !.first = @ + 1]]
    BY <1>9 DEF Purge
  <2>2. Grows(i)
    BY <1>9, GrowsPurge
  <2>3. budget'.lag = budget.lag /\ budget'.overlap = budget.overlap /\ KeepsBinlogs(budget')
    BY <1>0, <1>9, HappensFacts DEF Purge
  <2> QED BY <1>1, <1>2, <1>4, <1>9, <2>1, <2>2, <2>3 DEF Purge
<1>10. ASSUME NEW i \in Idx, Lose(i)
      PROVE  Later /\ UNCHANGED <<backup, bucketVars, job, rst, recorded>>
  <2>1. inst' = [inst EXCEPT ![i] =
                   [uuid |-> inst[i].uuid + 1, exec |-> inst[primary].exec, first |-> 1,
                    starts |-> <<inst[primary].exec>>, ready |-> FALSE]]
    BY <1>10 DEF Lose
  <2>2. Grows(i)
    <3>1. inst'[i].uuid = inst[i].uuid + 1
      BY <2>1 DEF ShapeInv, TypeOK
    <3> QED BY <1>0, <3>1, StateFacts DEF Grows
  <2>3. budget'.lag = budget.lag /\ budget'.overlap = budget.overlap /\ KeepsBinlogs(budget')
    BY <1>0, <1>10, HappensFacts DEF Lose
  <2> QED BY <1>1, <1>2, <1>4, <1>10, <2>1, <2>2, <2>3 DEF Lose
<1>11. ASSUME NEW i \in Idx, Failover(i)
      PROVE  Later /\ UNCHANGED <<backup, bucketVars, job, rst, recorded>>
  <2>1. budget'.lag = budget.lag /\ budget'.overlap = budget.overlap /\ KeepsBinlogs(budget')
    BY <1>0, <1>11, HappensFacts DEF Failover
  <2> QED BY <1>1, <1>2, <1>3, <1>11, <2>1 DEF Failover
<1>12. ASSUME NEW i \in Idx, NEW ready \in BOOLEAN, inst' = [inst EXCEPT ![i].ready = ready]
      PROVE  \A k \in Idx : Grows(k)
  <2>1. inst' = [inst EXCEPT ![i] = [inst[i] EXCEPT !.ready = ready]]
    BY <1>12
  <2>2. inst'[i] = [inst[i] EXCEPT !.ready = ready] /\ inst[i] \in Instance
    BY <1>0, <2>1, StateFacts DEF ShapeInv, TypeOK
  <2>3. /\ inst'[i].uuid = inst[i].uuid /\ inst'[i].first = inst[i].first
        /\ inst'[i].starts = inst[i].starts /\ inst'[i].exec = inst[i].exec
    BY <2>2 DEF Instance
  <2>4. Grows(i)
    BY <1>0, <2>3, GrowsSame, StateFacts
  <2> QED BY <1>4, <2>1, <2>4
<1>13. ASSUME NEW i \in Idx, Down(i)
      PROVE  Later /\ UNCHANGED <<backup, bucketVars, job, rst, recorded>>
  <2>1. budget'.lag = budget.lag /\ budget'.overlap = budget.overlap /\ KeepsBinlogs(budget')
    BY <1>0, <1>13, HappensFacts DEF Down
  <2> QED BY <1>1, <1>2, <1>12, <1>13, <2>1 DEF Down
<1>14. ASSUME NEW i \in Idx, Up(i)
      PROVE  Later /\ UNCHANGED <<backup, bucketVars, job, rst, recorded>>
  BY <1>0, <1>1, <1>2, <1>12, <1>14 DEF Up
<1> QED BY <1>5, <1>6, <1>7, <1>8, <1>9, <1>10, <1>11, <1>13, <1>14 DEF Environment

(* Steps that leave the instances, the dumps and the binary logs alone. *)
LEMMA LaterSame ==
    ASSUME Inv, UNCHANGED <<clusterVars, bucketVars>>,
           UNCHANGED budget \/ \E kind \in {"jobs", "error", "restore"} : Happens(kind)
    PROVE  Later
<1>1. /\ clock' = clock /\ log' = log /\ inst' = inst /\ dumps' = dumps /\ binlogs' = binlogs
      /\ ShapeInv /\ budget \in Scenario /\ KeepsBinlogs(budget)
  BY StateFacts DEF clusterVars, bucketVars, Inv
<1>2. \A i \in Idx : Grows(i)
  BY <1>1, GrowsSame, StateFacts
<1>3. budget'.lag = budget.lag /\ budget'.overlap = budget.overlap /\ KeepsBinlogs(budget')
  BY <1>1, HappensFacts
<1>4. clock <= clock' /\ Len(log) <= Len(log')
  BY <1>1, StateFacts
<1> QED BY <1>1, <1>2, <1>3, <1>4 DEF Later

(* The fields of a record of a backup and of a Job. *)
LEMMA StatusFields ==
    ASSUME NEW s \in BackupStatus
    PROVE  /\ s.time \in Time \cup {0} /\ s.time \in Nat /\ s.src \in Idx
           /\ s.file \in Nat /\ s.gtid \in Count /\ s.gtid \in Nat
           /\ \A i \in Idx : s.uuids[i] \in Nat \cup {Absent} /\ s.uuids[i] \in Int
           /\ s.uuid \in Int /\ \A i \in Idx : LastUUIDs(s)[i] \in Int
<1>1. s.time \in Time \cup {0} /\ s.src \in Idx /\ s.file \in Nat /\ s.gtid \in Count
      /\ s.uuids \in [Idx -> Nat \cup {Absent}] /\ s.uuid \in Nat \cup {Absent}
  BY DEF BackupStatus
<1>2. \A i \in Idx : s.uuids[i] \in Nat \cup {Absent}
  BY <1>1
<1>3. \A i \in Idx : s.uuids[i] \in Int
  BY <1>2 DEF Absent
<1>4. s.time \in Nat /\ s.gtid \in Nat
  BY <1>1, ConstantFacts
<1>5. s.uuid \in Int /\ Absent \in Int
  BY <1>1 DEF Absent
<1>6. \A i \in Idx : LastUUIDs(s)[i] \in Int
  BY <1>3, <1>5 DEF LastUUIDs
<1> QED BY <1>1, <1>2, <1>3, <1>4, <1>5, <1>6

(* The types of what a Job keeps. *)
LEMMA JobFields ==
    ASSUME NEW b \in Job
    PROVE  /\ b.last \in BackupStatus /\ b.now \in BackupStatus /\ b.primary \in Idx
           /\ b.chain \in BOOLEAN
           /\ \A i \in Idx : b.pods[i] \in Nat \cup {Absent} /\ b.pods[i] \in Int
<1>1. /\ b.last \in BackupStatus /\ b.now \in BackupStatus /\ b.primary \in Idx
      /\ b.chain \in BOOLEAN /\ b.pods \in [Idx -> Nat \cup {Absent}]
  BY DEF Job
<1>2. \A i \in Idx : b.pods[i] \in Nat \cup {Absent}
  BY <1>1
<1> QED BY <1>1, <1>2 DEF Absent

(* The file that was current at some time begins where it began. *)
LEMMA FileBeforeKept ==
    ASSUME ShapeInv, ShapeInv', NEW i \in Idx, Grows(i), inst'[i].uuid = inst[i].uuid,
           NEW file \in Nat, NEW g \in Nat, NEW h \in Nat, g <= h, FileBefore(i, file, g)
    PROVE  FileBefore(i, file, h)'
<1>1. /\ inst[i].first <= inst'[i].first /\ CurrentBinlog(i) <= CurrentBinlog(i)'
      /\ \A f \in inst'[i].first .. CurrentBinlog(i) :
            inst'[i].starts[f - inst'[i].first + 1] = inst[i].starts[f - inst[i].first + 1]
  BY StateFacts DEF Grows
<1>2. /\ inst[i].first \in Nat /\ Len(inst[i].starts) \in Nat /\ inst'[i].first \in Nat
      /\ \A n \in 1 .. Len(inst[i].starts) : inst[i].starts[n] \in Nat
  BY StateFacts, NextTyped DEF Typed
<1>2a. Len(inst'[i].starts) \in Nat
  BY NextTyped DEF Typed
<1>3. CurrentBinlog(i) \in Int /\ CurrentBinlog(i)' \in Int
  BY <1>2, <1>2a DEF CurrentBinlog
<1>4. file <= CurrentBinlog(i) /\ (file >= inst[i].first => inst[i].starts[file - inst[i].first + 1] <= g)
  BY DEF FileBefore
<1>5. file <= CurrentBinlog(i)'
  BY <1>1, <1>3, <1>4
<1>6. ASSUME file >= inst'[i].first
      PROVE  inst'[i].starts[file - inst'[i].first + 1] <= h
  <2>1. file \in inst'[i].first .. CurrentBinlog(i) /\ file >= inst[i].first
    BY <1>1, <1>2, <1>3, <1>4, <1>6
  <2>2. inst'[i].starts[file - inst'[i].first + 1] = inst[i].starts[file - inst[i].first + 1]
    BY <1>1, <2>1
  <2>3. inst[i].starts[file - inst[i].first + 1] <= g
    BY <1>4, <2>1
  <2>4. inst[i].starts[file - inst[i].first + 1] \in Nat
    <3>1. inst[i].first \in Nat /\ Len(inst[i].starts) \in Nat
      BY <1>2
    <3>2. file <= inst[i].first + Len(inst[i].starts) - 1 /\ file >= inst[i].first
      BY <1>4, <2>1 DEF CurrentBinlog
    <3>3. file - inst[i].first + 1 \in 1 .. Len(inst[i].starts)
      BY <3>1, <3>2
    <3> QED BY <1>2, <3>3
  <2> QED BY <2>2, <2>3, <2>4
<1> QED BY <1>5, <1>6 DEF FileBefore

(* A record stays true: what happens to the instances does not take its    *)
(* binary logs away.                                                       *)
LEMMA TakenKept ==
    ASSUME ShapeInv, ShapeInv', Later, NEW s \in BackupStatus, Taken(s),
           \A i \in Idx : Expired(i) => backup.gtid <= s.gtid, backup \in BackupStatus
    PROVE  Taken(s)'
<1>0. /\ s.time \in Nat /\ s.gtid \in Count /\ s.gtid \in Nat /\ s.file \in Nat
      /\ \A i \in Idx : LastUUIDs(s)[i] \in Int
      /\ backup.gtid \in Nat
  BY StatusFields
<1>1. s.time \in Time /\ s.time <= clock' /\ dumps'[s.time] = s.gtid /\ s.gtid <= Len(log')
  <2>1. /\ s.time \in Time /\ s.time <= clock /\ dumps[s.time] = s.gtid /\ s.gtid <= Len(log)
        /\ clock <= clock' /\ Len(log) <= Len(log')
    BY DEF Taken, Later
  <2>2. clock \in Nat /\ clock' \in Nat /\ Len(log) \in Nat /\ Len(log') \in Nat
    BY StateFacts, NextTyped DEF Typed
  <2>3. dumps[s.time] # Absent
    BY <1>0, <2>1 DEF Absent
  <2> QED BY <1>0, <2>1, <2>2, <2>3 DEF Later
<1>2. ASSUME NEW i \in Idx
      PROVE  /\ LastUUIDs(s)[i] <= inst'[i].uuid
             /\ LastUUIDs(s)[i] = inst'[i].uuid =>
                  /\ inst'[i].starts[1] <= s.gtid
                  /\ i = s.src => s.gtid <= inst'[i].exec /\ FileBefore(i, s.file, s.gtid)'
  <2>0. /\ inst[i].uuid \in Nat /\ inst'[i].uuid \in Nat
        /\ inst[i].exec \in Nat /\ inst'[i].exec \in Nat
        /\ inst[i].starts[1] \in Nat /\ inst'[i].starts[1] \in Nat
    BY StateFacts, NextTyped DEF Typed
  <2>1. LastUUIDs(s)[i] <= inst[i].uuid /\ Grows(i)
    BY DEF Taken, Later
  <2>2. LastUUIDs(s)[i] <= inst'[i].uuid
    BY <1>0, <2>0, <2>1 DEF Grows
  <2>3. ASSUME LastUUIDs(s)[i] = inst'[i].uuid
        PROVE  /\ inst'[i].starts[1] <= s.gtid
               /\ i = s.src => s.gtid <= inst'[i].exec /\ FileBefore(i, s.file, s.gtid)'
    <3>1. inst'[i].uuid = inst[i].uuid
      BY <1>0, <2>0, <2>1, <2>3 DEF Grows
    <3>2. /\ inst[i].exec <= inst'[i].exec
          /\ inst'[i].starts[1] = inst[i].starts[1] \/ Expired(i)
      BY <2>0, <2>1, <3>1 DEF Grows
    <3>3. /\ inst[i].starts[1] <= s.gtid
          /\ i = s.src => s.gtid <= inst[i].exec /\ FileBefore(i, s.file, s.gtid)
      BY <2>3, <3>1 DEF Taken
    <3>4. inst'[i].starts[1] <= s.gtid
      <4>1. CASE Expired(i)
        BY <1>0, <2>0, <4>1 DEF Expired
      <4> QED BY <3>2, <3>3, <4>1
    <3>5. i = s.src => FileBefore(i, s.file, s.gtid)'
      BY <1>0, <2>1, <3>1, <3>3, FileBeforeKept
    <3> QED BY <1>0, <2>0, <3>2, <3>3, <3>4, <3>5
  <2> QED BY <2>2, <2>3
<1> QED BY <1>1, <1>2 DEF Taken

(* What a backup recorded stays true of the instances. *)
LEMMA RecordedKept ==
    ASSUME ShapeInv, ShapeInv', Later, NEW s \in BackupStatus, Recorded(s),
           \A i \in Idx : Expired(i) => backup.gtid <= s.gtid, backup \in BackupStatus
    PROVE  Recorded(s)'
<1>1. CASE s = NoBackup
  BY <1>1 DEF Recorded
<1>2. CASE Taken(s)
  BY <1>2, TakenKept DEF Recorded
<1> QED BY <1>1, <1>2 DEF Recorded

-----------------------------------------------------------------------------
(* The bucket *)

(* What a Job in a chain writes: all that its source has and that the      *)
(* dump of the last backup does not have.                                  *)
LEMMA BinlogWritten ==
    ASSUME Inv, NEW j \in Slots, backupBinlog(j)
    PROVE  /\ job[j].last.time \in Time
           /\ dumps[job[j].last.time] = job[j].last.gtid /\ job[j].last.gtid \in Nat
           /\ job[j].now.src \in Idx /\ inst[job[j].now.src].ready
           /\ binlogs' = [binlogs EXCEPT
                 ![job[j].last.time] = job[j].last.gtid + 1 .. inst[job[j].now.src].exec]
<1> DEFINE b == job[j]
           i == b.now.src
<1>1. b \in Job /\ JobInv(b) /\ b.pc = "binlog" /\ ShapeInv
  BY DEF Inv, ShapeInv, TypeOK, JobsInv, backupBinlog
<1>2. b.last \in BackupStatus /\ b.now \in BackupStatus
  BY <1>1, JobFields
<1>3. i \in Idx /\ b.last.gtid \in Nat /\ b.last.time \in Nat
  BY <1>2, StatusFields
<1>4. /\ b.last.time # 0 /\ b.now.uuids[i] # Absent /\ b.now.uuids[i] = LastUUIDs(b.last)[i]
      /\ b.now.uuids[i] \in {Absent, b.pods[i]} /\ Recorded(b.last)
  BY <1>1 DEF JobInv
<1>5. Taken(b.last)
  <2>1. NoBackup.time = 0
    BY DEF NoBackup
  <2> QED BY <1>4, <2>1 DEF Recorded
<1>6. inst[i].ready /\ inst[i].uuid = LastUUIDs(b.last)[i]
  BY <1>4 DEF backupBinlog, Answers
<1>7. /\ inst[i].starts[1] <= b.last.gtid
      /\ i = b.last.src => FileBefore(i, b.last.file, b.last.gtid)
  BY <1>3, <1>5, <1>6 DEF Taken
<1>8. FirstBinlog(b) \in inst[i].first .. CurrentBinlog(i)
  BY DEF backupBinlog
<1>9. /\ inst[i].first \in Nat /\ inst[i].exec \in Nat /\ inst[i].exec <= MaxTxn
      /\ inst[i].starts[1] \in Nat /\ Len(inst[i].starts) \in Nat
  <2>1. /\ inst[i].first \in Nat /\ inst[i].exec \in Nat /\ inst[i].exec <= Len(log)
        /\ Len(inst[i].starts) \in Nat /\ Len(inst[i].starts) > 0
        /\ \A n \in 1 .. Len(inst[i].starts) : inst[i].starts[n] \in Nat
    BY <1>1, <1>3, StateFacts
  <2>2. Len(log) \in Nat /\ Len(log) <= MaxTxn /\ MaxTxn \in Nat
    BY <1>1, StateFacts, ConstantFacts
  <2> QED BY <2>1, <2>2
<1>10. inst[i].starts[FirstBinlog(b) - inst[i].first + 1] <= b.last.gtid
  <2>1. CASE i = b.last.src
    <3>1. FirstBinlog(b) = b.last.file
      BY <2>1 DEF FirstBinlog
    <3> QED BY <1>7, <1>8, <1>9, <2>1, <3>1 DEF FileBefore
  <2>2. CASE i # b.last.src
    <3>1. FirstBinlog(b) = inst[i].first
      BY <2>2 DEF FirstBinlog
    <3> QED BY <1>7, <1>9, <3>1
  <2> QED BY <2>1, <2>2
<1>11. inst[i].starts[FirstBinlog(b) - inst[i].first + 1] \in Nat
  <2>1. FirstBinlog(b) - inst[i].first + 1 \in 1 .. Len(inst[i].starts)
    BY <1>8, <1>9 DEF CurrentBinlog
  <2> QED BY <1>1, <1>3, <2>1, StateFacts
<1>12. DumpBinlog(i, FirstBinlog(b), b.last.gtid) = b.last.gtid + 1 .. inst[i].exec
  <2> DEFINE start == inst[i].starts[FirstBinlog(b) - inst[i].first + 1]
  <2>1. DumpBinlog(i, FirstBinlog(b), b.last.gtid) =
            {k \in Txn : k > start /\ k <= inst[i].exec /\ k > b.last.gtid}
    BY DEF DumpBinlog
  <2>2. start \in Nat /\ start <= b.last.gtid
    BY <1>10, <1>11
  <2> HIDE DEF start
  <2> QED BY <1>3, <1>9, <2>1, <2>2, ConstantFacts DEF Txn
<1>13. b.last.time \in Time /\ dumps[b.last.time] = b.last.gtid
  BY <1>5 DEF Taken
<1> QED BY <1>3, <1>6, <1>12, <1>13 DEF backupBinlog, BinlogKey

(* A Job adds a dump, and replaces binary logs by more of them. *)
LEMMA LaterJob ==
    ASSUME Inv, NEW j \in Slots, BackupJob(j) PROVE Later /\ UNCHANGED <<clusterVars, rst>>
<1> DEFINE b == job[j]
<1> USE DEF Inv
<1>1. CASE backupFull(j)
  <2>1. /\ UNCHANGED <<clusterVars, binlogs, budget>>
        /\ dumps' = [dumps EXCEPT ![b.now.time] = inst[b.now.src].exec]
        /\ b.pc = "full"
    BY <1>1 DEF backupFull
  <2>2. dumps[b.now.time] = Absent
    BY <2>1 DEF JobsInv, JobInv
  <2>3. \A t \in Time : dumps[t] # Absent => dumps'[t] = dumps[t]
    BY <2>1, <2>2 DEF ShapeInv, TypeOK
  <2>4. \A i \in Idx : Grows(i)
    BY <2>1, GrowsSame, StateFacts DEF clusterVars
  <2>5. clock <= clock' /\ Len(log) <= Len(log') /\ KeepsBinlogs(budget')
    BY <2>1, StateFacts DEF clusterVars
  <2> QED BY <1>1, <2>1, <2>3, <2>4, <2>5 DEF Later, clusterVars, backupFull
<1>2. CASE backupBinlog(j)
  <2>1. UNCHANGED <<clusterVars, dumps, budget>>
    BY <1>2 DEF backupBinlog
  <2>2. \A i \in Idx : Grows(i)
    BY <2>1, GrowsSame, StateFacts DEF clusterVars
  <2>3. clock <= clock' /\ Len(log) <= Len(log') /\ KeepsBinlogs(budget')
    BY <2>1, StateFacts DEF clusterVars
  <2>4. ASSUME NEW t \in Time, binlogs[t] # {Absent}
        PROVE  binlogs'[t] # {Absent} /\ (~budget.lag => binlogs[t] \subseteq binlogs'[t])
    <3> DEFINE g == b.last.gtid
               e == inst[b.now.src].exec
    <3>1. /\ binlogs' = [binlogs EXCEPT ![b.last.time] = g + 1 .. e]
          /\ dumps[b.last.time] = g /\ g \in Nat /\ b.now.src \in Idx
          /\ inst[b.now.src].ready
      BY <1>2, BinlogWritten
    <3>2. CASE t # b.last.time
      BY <2>4, <3>1, <3>2 DEF ShapeInv, TypeOK
    <3>3. CASE t = b.last.time
      <4>1. binlogs'[t] = g + 1 .. e
        BY <3>1, <3>3 DEF ShapeInv, TypeOK
      <4>2. e \in Nat /\ Len(log) \in Nat
        BY <3>1, StateFacts
      <4>3. binlogs'[t] # {Absent}
        <5>1. Absent \notin g + 1 .. e
          BY <3>1, <4>2 DEF Absent
        <5> QED BY <4>1, <5>1
      <4>4. PICK n \in 0 .. Len(log) : binlogs[t] = g + 1 .. n
        BY <2>4, <3>1, <3>3 DEF BucketInv
      <4>5. ~budget.lag => e = Len(log)
        BY <3>1 DEF LogInv
      <4> HIDE DEF g, e
      <4>6. ~budget.lag => binlogs[t] \subseteq binlogs'[t]
        BY <3>1, <4>1, <4>2, <4>4, <4>5
      <4> QED BY <4>3, <4>6
    <3> QED BY <3>2, <3>3
  <2> QED BY <1>2, <2>1, <2>2, <2>3, <2>4 DEF Later, clusterVars, backupBinlog
<1>3. CASE NewBackupManager(j)
  BY <1>3, LaterSame DEF NewBackupManager
<1>4. CASE GetUUIDSet(j)
  BY <1>4, LaterSame DEF GetUUIDSet
<1>5. CASE Choose(j)
  BY <1>5, LaterSame DEF Choose
<1>6. CASE backupNoBinlog(j)
  BY <1>6, LaterSame DEF backupNoBinlog
<1>7. CASE updateStatus(j)
  BY <1>7, LaterSame DEF updateStatus
<1>8. CASE JobFails(j)
  BY <1>8, LaterSame DEF JobFails
<1> QED BY <1>1, <1>2, <1>3, <1>4, <1>5, <1>6, <1>7, <1>8 DEF BackupJob

(* A restore leaves the cluster that was backed up alone. *)
LEMMA LaterRestore ==
    ASSUME Inv, Restore
    PROVE  Later /\ UNCHANGED <<clusterVars, backup, bucketVars, job, recorded>>
<1>1. /\ UNCHANGED <<clusterVars, backup, bucketVars, job, recorded>>
      /\ UNCHANGED budget \/ \E kind \in {"jobs", "error", "restore"} : Happens(kind)
  BY DEF Restore, RestoreJob, FindNearestDump, PrepareRestore, loadDump, applyBinlog,
         FinishRestore, RecordRestored, RestoreFails, DeleteRestoreJob
<1> QED BY <1>1, LaterSame

-----------------------------------------------------------------------------
(* The instances *)

(* Commit times are in order after one more commit. *)
LEMMA LogAppended ==
    ASSUME ShapeInv, LogInv, log' = Append(log, clock), clock' = clock
    PROVE  \A k \in DOMAIN log' : log'[k] <= clock' /\ \A l \in k .. Len(log') : log'[k] <= log'[l]
<1>1. log \in Seq(Time) /\ clock \in Time /\ Len(log) \in Nat /\ clock \in Nat
      /\ \A k \in 1 .. Len(log) : log[k] \in Nat
  BY StateFacts DEF ShapeInv, TypeOK
<1>2. /\ DOMAIN log' = 1 .. Len(log) + 1 /\ Len(log') = Len(log) + 1
      /\ \A k \in 1 .. Len(log) : log'[k] = log[k]
      /\ log'[Len(log) + 1] = clock
  BY <1>1
<1>3. \A k \in 1 .. Len(log) : log[k] <= clock /\ \A l \in k .. Len(log) : log[k] <= log[l]
  BY <1>1 DEF LogInv
<1>4. ASSUME NEW k \in 1 .. Len(log) + 1 PROVE log'[k] <= clock'
  BY <1>1, <1>2, <1>3
<1>5. ASSUME NEW k \in 1 .. Len(log) + 1, NEW l \in k .. Len(log) + 1 PROVE log'[k] <= log'[l]
  <2>1. CASE l = Len(log) + 1
    BY <1>2, <1>4, <2>1
  <2>2. CASE l # Len(log) + 1
    <3>1. k \in 1 .. Len(log) /\ l \in k .. Len(log) /\ l \in 1 .. Len(log)
      BY <1>1, <2>2
    <3> QED BY <1>2, <1>3, <3>1
  <2> QED BY <2>1, <2>2
<1> QED BY <1>2, <1>4, <1>5

(* Clients, purges and new primaries keep the history in order. *)
LEMMA LogEnvironment ==
    ASSUME Inv, Environment PROVE LogInv' /\ InstInv'
<1> USE DEF Inv
<1>0. Later
  BY LaterEnvironment
<1>1. /\ clock \in Nat /\ Len(log) \in Nat /\ DOMAIN log = 1 .. Len(log)
      /\ \A k \in DOMAIN log : log[k] \in Nat
      /\ primary \in Idx /\ budget'.lag = budget.lag
      /\ inst \in [Idx -> Instance]
  BY <1>0, StateFacts DEF Later, ShapeInv, TypeOK
<1>2. \A i \in Idx : /\ inst[i] \in Instance /\ inst[i].exec \in Nat /\ inst[i].exec <= Len(log)
                     /\ inst[i].starts \in Seq(Count) /\ Len(inst[i].starts) \in Nat
                     /\ Len(inst[i].starts) > 0
                     /\ DOMAIN inst[i].starts = 1 .. Len(inst[i].starts)
                     /\ \A n \in 1 .. Len(inst[i].starts) : inst[i].starts[n] \in Nat
  BY StateFacts
<1>3. \A k \in DOMAIN log : log[k] <= clock /\ \A l \in k .. Len(log) : log[k] <= log[l]
  BY DEF LogInv
<1>4. UNCHANGED <<clock, log>> =>
          \A k \in DOMAIN log' : log'[k] <= clock' /\ \A l \in k .. Len(log') : log'[k] <= log'[l]
  BY <1>3
(* The binary logs of one instance. *)
<1> DEFINE Files(r) == /\ \A n \in DOMAIN r.starts : r.starts[n] <= r.exec
                       /\ budget.lag => r.starts[1] = 0
<1>5. \A i \in Idx : Files(inst[i])
  BY DEF InstInv
<1>6. ASSUME \A i \in Idx : Files(inst'[i]) PROVE InstInv'
  BY <1>1, <1>6 DEF InstInv
<1>7. ASSUME NEW i \in Idx, NEW r, inst' = [inst EXCEPT ![i] = r], Files(r)
      PROVE  InstInv'
  <2>1. \A k \in Idx : Files(inst'[k])
    BY <1>1, <1>5, <1>7
  <2> QED BY <1>6, <2>1
<1>8. UNCHANGED inst => InstInv'
  BY <1>5, <1>6
(* The instances that have the whole history. *)
<1>9. /\ inst[primary].exec = Len(log)
      /\ ~budget.lag => \A i \in Idx : inst[i].ready => inst[i].exec = Len(log)
  BY DEF LogInv
<1>10. ASSUME UNCHANGED <<clock, log, primary>>, NEW i \in Idx, NEW r, inst' = [inst EXCEPT ![i] = r],
              i = primary => r.exec = Len(log),
              ~budget.lag => (r.ready => r.exec = Len(log))
       PROVE  LogInv'
  <2>1. inst'[primary].exec = Len(log)
    BY <1>1, <1>9, <1>10
  <2>2. ~budget.lag => \A k \in Idx : inst'[k].ready => inst'[k].exec = Len(log)
    BY <1>1, <1>9, <1>10
  <2> QED BY <1>1, <1>4, <1>10, <2>1, <2>2 DEF LogInv
<1>11. CASE Tick
  <2>1. clock' = clock + 1 /\ UNCHANGED <<log, inst, primary>>
    BY <1>11 DEF Tick
  <2>2. \A k \in DOMAIN log : log[k] <= clock + 1
    BY <1>1, <1>3
  <2>3. LogInv'
    BY <1>1, <1>3, <1>9, <2>1, <2>2 DEF LogInv
  <2> QED BY <1>8, <2>1, <2>3
<1>12. CASE Commit
  <2>1. log' = Append(log, clock) /\ UNCHANGED <<clock, primary>>
    BY <1>12 DEF Commit
  <2>2. Len(log') = Len(log) + 1
    BY <2>1 DEF ShapeInv, TypeOK
  <2>3. \A i \in Idx : inst'[i] = IF i = primary \/ (~budget.lag /\ inst[i].ready)
                                  THEN [inst[i] EXCEPT !.exec = Len(log')] ELSE inst[i]
    BY <1>12 DEF Commit
  <2>4. ASSUME NEW i \in Idx
        PROVE  /\ Files(inst'[i])
               /\ i = primary => inst'[i].exec = Len(log')
               /\ ~budget.lag /\ inst'[i].ready => inst'[i].exec = Len(log')
    <3>1. CASE inst'[i] = [inst[i] EXCEPT !.exec = Len(log')]
      <4>1. inst'[i].exec = Len(log') /\ inst'[i].starts = inst[i].starts
        BY <1>2, <3>1 DEF Instance
      <4>2. \A n \in DOMAIN inst[i].starts : inst[i].starts[n] <= Len(log')
        <5>1. ASSUME NEW n \in DOMAIN inst[i].starts PROVE inst[i].starts[n] <= Len(log')
          <6>1. inst[i].starts[n] \in Nat /\ inst[i].exec \in Nat /\ inst[i].exec <= Len(log)
            BY <1>2
          <6>2. inst[i].starts[n] <= inst[i].exec
            BY <1>5
          <6> QED BY <1>1, <2>2, <6>1, <6>2
        <5> QED BY <5>1
      <4> QED BY <1>5, <4>1, <4>2
    <3>2. CASE inst'[i] # [inst[i] EXCEPT !.exec = Len(log')]
      BY <1>5, <2>3, <3>2
    <3> QED BY <3>1, <3>2
  <2>5. \A k \in DOMAIN log' : log'[k] <= clock' /\ \A l \in k .. Len(log') : log'[k] <= log'[l]
    BY <2>1, LogAppended
  <2>6. inst'[primary'].exec = Len(log')
    BY <1>1, <2>1, <2>4
  <2>7. ~budget'.lag => \A i \in Idx : inst'[i].ready => inst'[i].exec = Len(log')
    BY <1>1, <2>4
  <2>8. LogInv'
    BY <2>5, <2>6, <2>7 DEF LogInv
  <2> QED BY <1>6, <2>4, <2>8
<1>13. ASSUME NEW i \in Idx, Replicate(i) PROVE LogInv' /\ InstInv'
  <2> DEFINE r == [inst[i] EXCEPT !.exec = @ + 1]
  <2>1. inst' = [inst EXCEPT ![i] = r] /\ UNCHANGED <<clock, log, primary>>
    BY <1>13 DEF Replicate
  <2>2. r.exec = inst[i].exec + 1 /\ r.starts = inst[i].starts /\ r.ready = inst[i].ready
    BY <1>2 DEF Instance
  <2>3. inst[i].exec < inst[primary].exec
    BY <1>13 DEF Replicate
  <2>4. i # primary /\ inst[i].exec # Len(log)
    BY <1>1, <1>2, <1>9, <2>3
  <2>5. Files(r)
    BY <1>2, <1>5, <2>2
  <2>6. ~budget.lag => (r.ready => r.exec = Len(log))
    BY <1>9, <2>2, <2>4
  <2> HIDE DEF r
  <2> QED BY <1>7, <1>10, <2>1, <2>4, <2>5, <2>6
<1>14. ASSUME NEW i \in Idx, Rotate(i) PROVE LogInv' /\ InstInv'
  <2> DEFINE r == [inst[i] EXCEPT !.starts = Append(@, inst[i].exec)]
  <2>1. inst' = [inst EXCEPT ![i] = r] /\ UNCHANGED <<clock, log, primary>>
    BY <1>14 DEF Rotate
  <2>2. r.exec = inst[i].exec /\ r.ready = inst[i].ready /\ r.starts = Append(inst[i].starts, inst[i].exec)
    BY <1>2 DEF Instance
  <2>3. inst[i].starts \in Seq(Count) /\ inst[i].exec \in Count
    BY <1>2, InstanceFields
  <2>4. /\ DOMAIN r.starts = 1 .. Len(inst[i].starts) + 1
        /\ \A n \in 1 .. Len(inst[i].starts) : r.starts[n] = inst[i].starts[n]
        /\ r.starts[Len(inst[i].starts) + 1] = inst[i].exec
    BY <2>2, <2>3
  <2>5. Files(r)
    BY <1>2, <1>5, <2>2, <2>4
  <2> HIDE DEF r
  <2> QED BY <1>7, <1>9, <1>10, <2>1, <2>2, <2>5
<1>15. ASSUME NEW i \in Idx, Purge(i) PROVE LogInv' /\ InstInv'
  <2> DEFINE r == [inst[i] EXCEPT !.starts = Tail(@), !.first = @ + 1]
  <2>1. inst' = [inst EXCEPT ![i] = r] /\ UNCHANGED <<clock, log, primary>>
    BY <1>15 DEF Purge
  <2>2. r.exec = inst[i].exec /\ r.ready = inst[i].ready /\ r.starts = Tail(inst[i].starts)
    BY <1>2 DEF Instance
  <2>3. inst[i].starts \in Seq(Count) /\ Len(inst[i].starts) > 1
    BY <1>2, <1>15 DEF Purge
  <2>4. /\ DOMAIN r.starts = 1 .. Len(inst[i].starts) - 1
        /\ \A n \in 1 .. Len(inst[i].starts) - 1 : r.starts[n] = inst[i].starts[n + 1]
    BY <2>2, <2>3
  <2>5. ~budget.lag
    <3>1. budget.purge > 0 /\ budget \in Scenario
      BY <1>15, StateFacts, HappensFacts DEF Purge
    <3> QED BY <3>1 DEF KeepsBinlogs, Scenario
  <2>6. Files(r)
    BY <1>2, <1>5, <2>2, <2>4, <2>5
  <2> HIDE DEF r
  <2> QED BY <1>7, <1>9, <1>10, <2>1, <2>2, <2>6
<1>16. ASSUME NEW i \in Idx, Lose(i) PROVE LogInv' /\ InstInv'
  <2> DEFINE r == [uuid |-> inst[i].uuid + 1, exec |-> inst[primary].exec, first |-> 1,
                   starts |-> <<inst[primary].exec>>, ready |-> FALSE]
  <2>1. inst' = [inst EXCEPT ![i] = r] /\ UNCHANGED <<clock, log, primary>> /\ i # primary
    BY <1>16 DEF Lose
  <2>2. r.exec = Len(log) /\ ~r.ready /\ r.starts = <<Len(log)>>
    BY <1>9
  <2>3. ~budget.lag
    <3>1. budget.lose > 0 /\ budget \in Scenario
      BY <1>16, StateFacts, HappensFacts DEF Lose
    <3> QED BY <3>1 DEF KeepsBinlogs, Scenario
  <2>4. Files(r)
    BY <1>1, <2>2, <2>3
  <2> HIDE DEF r
  <2> QED BY <1>7, <1>10, <2>1, <2>2, <2>4
<1>17. ASSUME NEW i \in Idx, Failover(i) PROVE LogInv' /\ InstInv'
  <2>1. UNCHANGED <<clock, log, inst>> /\ primary' = i /\ inst[i].exec = Len(log)
    BY <1>17 DEF Failover
  <2>2. LogInv'
    BY <1>1, <1>4, <1>9, <2>1 DEF LogInv
  <2> QED BY <1>8, <2>1, <2>2
<1>18. ASSUME NEW i \in Idx, Down(i) PROVE LogInv' /\ InstInv'
  <2> DEFINE r == [inst[i] EXCEPT !.ready = FALSE]
  <2>1. inst' = [inst EXCEPT ![i] = r] /\ UNCHANGED <<clock, log, primary>>
    BY <1>18 DEF Down
  <2>2. r.exec = inst[i].exec /\ ~r.ready /\ r.starts = inst[i].starts
    BY <1>2 DEF Instance
  <2>3. Files(r)
    BY <1>5, <2>2
  <2> HIDE DEF r
  <2> QED BY <1>7, <1>9, <1>10, <2>1, <2>2, <2>3
<1>19. ASSUME NEW i \in Idx, Up(i) PROVE LogInv' /\ InstInv'
  <2> DEFINE r == [inst[i] EXCEPT !.ready = TRUE]
  <2>1. inst' = [inst EXCEPT ![i] = r] /\ UNCHANGED <<clock, log, primary>>
    BY <1>19 DEF Up
  <2>2. r.exec = inst[i].exec /\ r.starts = inst[i].starts
    BY <1>2 DEF Instance
  <2>3. ~budget.lag => r.exec = Len(log)
    BY <1>9, <1>19, <2>2 DEF Up
  <2>4. Files(r)
    BY <1>5, <2>2
  <2> HIDE DEF r
  <2> QED BY <1>7, <1>9, <1>10, <2>1, <2>2, <2>3, <2>4
<1> QED BY <1>11, <1>12, <1>13, <1>14, <1>15, <1>16, <1>17, <1>18, <1>19 DEF Environment

-----------------------------------------------------------------------------
(* The Jobs *)

(* A Job that does not act: nothing that happens around it takes away what *)
(* it relies on, as long as its dump is its own and, without overlapping   *)
(* Jobs, the record and the binary logs it has read about stay.            *)
LEMMA JobKept ==
    ASSUME Inv, ShapeInv', Later, NEW b \in Job, JobInv(b),
           b.pc = "full" => dumps'[b.now.time] = Absent,
           ~budget.overlap /\ b.pc # "idle" => UNCHANGED <<backup, binlogs>>
    PROVE  JobInv(b)'
<1>0. ShapeInv /\ backup \in BackupStatus
  BY DEF Inv, ShapeInv, TypeOK
<1>1. /\ b.last \in BackupStatus /\ b.now \in BackupStatus
      /\ \A i \in Idx : b.pods[i] \in Int
  BY JobFields
<1>2. /\ b.now.time \in Nat /\ b.last.time \in Nat /\ b.now.src \in Idx /\ b.now.file \in Nat
      /\ b.last.gtid \in Nat /\ b.now.gtid \in Nat
      /\ \A i \in Idx : b.now.uuids[i] \in Int
  BY <1>1, StatusFields
<1>3. clock \in Nat /\ clock' \in Nat /\ clock <= clock' /\ budget'.lag = budget.lag
      /\ budget'.overlap = budget.overlap
  BY <1>0, StateFacts, NextTyped DEF Typed, Later
<1>4. \A i \in Idx : inst[i].uuid \in Nat /\ inst'[i].uuid \in Nat /\ inst[i].uuid <= inst'[i].uuid
  <2>1. \A i \in Idx : inst[i].uuid \in Nat
    BY <1>0, StateFacts
  <2>2. \A i \in Idx : inst'[i].uuid \in Nat
    BY NextTyped DEF Typed
  <2> QED BY <2>1, <2>2 DEF Later, Grows
<1>5. b.pc = "idle" => b = NoJob
  BY DEF JobInv
<1>6. Recorded(b.last)'
  <2>1. CASE b.pc = "idle"
    BY <1>5, <2>1 DEF Recorded, NoJob
  <2>2. CASE b.pc # "idle"
    <3>1. \A i \in Idx : Expired(i) => backup.gtid <= b.last.gtid
      BY <1>2, <2>2 DEF Expired, JobInv
    <3> QED BY <1>0, <1>1, <3>1, RecordedKept DEF JobInv
  <2> QED BY <2>1, <2>2
<1>7. ASSUME NEW i \in Idx
      PROVE  /\ b.pods[i] <= inst'[i].uuid /\ b.now.uuids[i] <= inst'[i].uuid
             /\ b.now.uuids[i] # Absent => b.pods[i] # Absent /\ b.pods[i] <= b.now.uuids[i]
  <2>1. /\ b.pods[i] <= inst[i].uuid /\ b.now.uuids[i] <= inst[i].uuid
        /\ b.now.uuids[i] # Absent => b.pods[i] # Absent /\ b.pods[i] <= b.now.uuids[i]
    BY DEF JobInv
  <2> QED BY <1>1, <1>2, <1>4, <2>1
<1>8. /\ b.pc \notin {"full", "binlog", "status"} => b.now.time = 0
      /\ b.pc \in {"full", "binlog", "status"} =>
            /\ b.now.time \in Time /\ b.now.time <= clock' /\ b.last.time < b.now.time
            /\ b.now.uuid = b.pods[b.now.src]
            /\ b.now.uuids[b.now.src] \in {Absent, b.pods[b.now.src]}
            /\ b.chain => /\ b.last.time # 0
                          /\ b.now.uuids[b.now.src] # Absent
                          /\ b.now.uuids[b.now.src] = LastUUIDs(b.last)[b.now.src]
      /\ b.pc = "binlog" => b.chain
  <2>1. b.pc \in {"full", "binlog", "status"} => b.now.time <= clock
    BY DEF JobInv
  <2>2. b.pc \in {"full", "binlog", "status"} => b.now.time <= clock'
    BY <1>2, <1>3, <2>1
  <2> QED BY <2>2 DEF JobInv
<1>9. ASSUME b.pc = "full"
      PROVE  /\ dumps'[b.now.time] = Absent
             /\ inst'[b.now.src].uuid = b.pods[b.now.src] =>
                   FileBefore(b.now.src, b.now.file, inst[b.now.src].exec)'
  <2> DEFINE i == b.now.src
  <2>1. ASSUME inst'[i].uuid = b.pods[i] PROVE FileBefore(i, b.now.file, inst[i].exec)'
    <3>1. b.pods[i] <= inst[i].uuid
      BY <1>2 DEF JobInv
    <3>2. inst'[i].uuid = inst[i].uuid
      BY <1>1, <1>2, <1>4, <2>1, <3>1
    <3>3. FileBefore(i, b.now.file, inst[i].exec)
      BY <1>9, <2>1, <3>2 DEF JobInv
    <3>4. Grows(i) /\ inst[i].exec \in Nat
      BY <1>0, <1>2, StateFacts DEF Later
    <3>5. inst'[i].exec \in Nat
      BY <1>2, NextTyped DEF Typed
    <3>6. inst[i].exec <= inst'[i].exec
      BY <1>2, <1>4, <3>2, <3>4 DEF Grows
    <3> HIDE DEF i
    <3>7. ASSUME NEW h \in Nat, inst[i].exec <= h PROVE FileBefore(i, b.now.file, h)'
      BY <1>0, <1>2, <3>2, <3>3, <3>4, <3>7, FileBeforeKept DEF i
    <3>8. ASSUME NEW h \in Nat, h = inst'[i].exec, FileBefore(i, b.now.file, h)'
          PROVE  FileBefore(i, b.now.file, inst[i].exec)'
      BY <3>8 DEF FileBefore
    <3> QED BY <3>5, <3>6, <3>7, <3>8
  <2> QED BY <1>9, <2>1
<1>10. ASSUME b.pc \in {"binlog", "status"}
       PROVE  Taken(b.now)' /\ (~budget'.lag => b.last.gtid <= b.now.gtid)
  <2>1. Taken(b.now) /\ (~budget.lag => b.last.gtid <= b.now.gtid)
    BY <1>10 DEF JobInv
  <2>2. ASSUME NEW i \in Idx, Expired(i) PROVE backup.gtid <= b.now.gtid
    <3>1. ~budget.lag /\ ~budget.overlap
      BY <2>2 DEF Expired
    <3>2. b.last = backup
      BY <1>10, <3>1 DEF JobInv
    <3> QED BY <2>1, <3>1, <3>2
  <2>3. Taken(b.now)'
    BY <1>0, <1>1, <2>1, <2>2, TakenKept
  <2> QED BY <1>3, <2>1, <2>3
<1>11. ASSUME ~budget'.overlap
       PROVE  /\ b.pc # "idle" => b.last = backup'
              /\ b.pc = "status" /\ b.chain /\ ~b.now.warned => Covers(b.last.time, b.now.gtid)'
  <2>1. b.pc # "idle" => b.last = backup /\ backup' = backup /\ binlogs' = binlogs
    BY <1>3, <1>11 DEF JobInv
  <2>2. ASSUME b.pc = "status", b.chain, ~b.now.warned PROVE Covers(b.last.time, b.now.gtid)'
    <3>1. Covers(b.last.time, b.now.gtid)
      BY <1>3, <1>11, <2>2 DEF JobInv
    <3>2. b.last.time # 0 /\ Recorded(b.last)
      BY <2>2 DEF JobInv
    <3>3. Taken(b.last)
      BY <3>2 DEF Recorded, NoBackup
    <3>4. dumps'[b.last.time] = dumps[b.last.time]
      <4>1. b.last.time \in Time /\ dumps[b.last.time] = b.last.gtid
        BY <3>3 DEF Taken
      <4>2. dumps[b.last.time] # Absent
        BY <1>2, <4>1 DEF Absent
      <4> QED BY <4>1, <4>2 DEF Later
    <3>5. binlogs' = binlogs
      BY <2>1, <2>2
    <3> QED BY <3>1, <3>4, <3>5 DEF Covers
  <2> QED BY <2>1, <2>2
<1> QED BY <1>5, <1>6, <1>7, <1>8, <1>9, <1>10, <1>11 DEF JobInv

(* Steps of the Jobs leave the instances and the history alone, and so     *)
(* what is known of records.                                               *)
LEMMA RecordedSame ==
    ASSUME NEW s, Recorded(s), UNCHANGED clusterVars, s # NoBackup => dumps'[s.time] = dumps[s.time]
    PROVE  Recorded(s)'
<1>1. clock' = clock /\ log' = log /\ inst' = inst
  BY DEF clusterVars
<1>2. CASE s = NoBackup
  BY <1>2 DEF Recorded
<1>3. CASE s # NoBackup
  BY <1>1, <1>3 DEF Recorded, Taken, FileBefore, CurrentBinlog
<1> QED BY <1>2, <1>3

(* What a record says of its dump. *)
LEMMA RecordFacts ==
    ASSUME ShapeInv, NEW s \in BackupStatus, Recorded(s)
    PROVE  /\ s.time <= clock /\ s.gtid <= Len(log)
           /\ s.time # 0 => Taken(s)
           /\ s.time # 0 => s.time \in Time /\ dumps[s.time] = s.gtid /\ dumps[s.time] # Absent
<1>1. /\ clock \in Nat /\ Len(log) \in Nat /\ s.gtid \in Nat
  BY StateFacts, StatusFields
<1>2. CASE s = NoBackup
  BY <1>1, <1>2 DEF NoBackup
<1>3. CASE Taken(s)
  BY <1>1, <1>3 DEF Taken, Absent
<1> QED BY <1>2, <1>3 DEF Recorded

(* Nothing is claimed of a slot without a Job. *)
LEMMA NoJobInv == ASSUME ShapeInv' PROVE JobInv(NoJob)'
<1>1. \A i \in Idx : inst'[i].uuid \in Nat
  BY NextTyped DEF Typed
<1>2. \A i \in Idx : NoJob.pods[i] = Absent /\ NoJob.now.uuids[i] = Absent
  BY DEF NoJob, NoBackup
<1>3. NoJob.pc = "idle" /\ NoJob.last = NoBackup /\ NoJob.now.time = 0
  BY DEF NoJob, NoBackup
<1>4. Recorded(NoJob.last)'
  BY <1>3 DEF Recorded
<1>5. \A i \in Idx : Absent <= inst'[i].uuid
  BY <1>1 DEF Absent
<1> QED BY <1>2, <1>3, <1>4, <1>5 DEF JobInv

(* A Job that begins. *)
LEMMA JobBegins ==
    ASSUME Inv, ShapeInv', NEW j \in Slots, NewBackupManager(j), NEW r \in Job, r = job'[j]
    PROVE  JobInv(r)'
<1>0. ShapeInv /\ job \in [Slots -> Job]
  BY DEF Inv, ShapeInv, TypeOK
<1> DEFINE pods == [i \in Idx |-> IF inst[i].ready THEN inst[i].uuid ELSE Absent]
<1>1. r = [NoJob EXCEPT !.pc = "uuids", !.last = backup, !.primary = primary, !.pods = pods]
  BY <1>0 DEF NewBackupManager
<1>2. r.pc = "uuids" /\ r.last = backup /\ r.pods = pods /\ r.now = NoBackup
  BY <1>1 DEF NoJob
<1>3. /\ UNCHANGED <<clusterVars, backup, bucketVars>>
  BY DEF NewBackupManager
<1>4. inst' = inst /\ dumps' = dumps /\ backup' = backup
  BY <1>3 DEF clusterVars, bucketVars
<1>5. Recorded(r.last)'
  BY <1>2, <1>3, <1>4, RecordedSame DEF Inv
<1>6. \A i \in Idx : /\ r.pods[i] <= inst'[i].uuid
                     /\ r.now.uuids[i] = Absent /\ r.now.uuids[i] <= inst'[i].uuid
  <2>1. \A i \in Idx : inst[i].uuid \in Nat
    BY <1>0, StateFacts
  <2>2. \A i \in Idx : r.now.uuids[i] = Absent
    BY <1>2 DEF NoBackup
  <2> QED BY <1>2, <1>4, <2>1, <2>2 DEF Absent
<1>7. r.now.time = 0
  BY <1>2 DEF NoBackup
<1> HIDE DEF pods
<1> QED BY <1>2, <1>4, <1>5, <1>6, <1>7 DEF JobInv

(* A Job that has the server_uuids. *)
LEMMA JobIdentifies ==
    ASSUME Inv, ShapeInv', NEW j \in Slots, GetUUIDSet(j), NEW r \in Job, r = job'[j]
    PROVE  JobInv(r)'
<1> DEFINE b == job[j]
           u == [i \in Idx |-> IF b.pods[i] # Absent /\ inst[i].ready THEN inst[i].uuid ELSE Absent]
<1>0. ShapeInv /\ job \in [Slots -> Job] /\ b \in Job /\ JobInv(b) /\ b.pc = "uuids"
  BY DEF Inv, ShapeInv, TypeOK, JobsInv, GetUUIDSet
<1>1. b.now \in BackupStatus /\ \A i \in Idx : b.pods[i] \in Int
  BY <1>0, JobFields
<1>2. r = [b EXCEPT !.pc = "choose", !.now = [b.now EXCEPT !.uuids = u]]
  BY <1>0 DEF GetUUIDSet, Job, BackupStatus
<1>3. /\ r.pc = "choose" /\ r.last = b.last /\ r.pods = b.pods
      /\ r.now = [b.now EXCEPT !.uuids = u]
  BY <1>0, <1>2 DEF Job
<1>4. r.now.time = b.now.time /\ r.now.uuids = u
  BY <1>1, <1>3 DEF BackupStatus
<1>5. /\ UNCHANGED <<clusterVars, backup, bucketVars, budget>>
  BY DEF GetUUIDSet
<1>6. inst' = inst /\ dumps' = dumps /\ backup' = backup /\ budget' = budget
  BY <1>5 DEF clusterVars, bucketVars
<1>7. Recorded(r.last)'
  BY <1>0, <1>3, <1>5, <1>6, RecordedSame DEF JobInv
<1>8. ASSUME NEW i \in Idx
      PROVE  /\ r.pods[i] <= inst'[i].uuid /\ r.now.uuids[i] <= inst'[i].uuid
             /\ r.now.uuids[i] # Absent => r.pods[i] # Absent /\ r.pods[i] <= r.now.uuids[i]
  <2>1. inst[i].uuid \in Nat /\ b.pods[i] <= inst[i].uuid
    BY <1>0, StateFacts DEF JobInv
  <2>2. r.now.uuids[i] = IF b.pods[i] # Absent /\ inst[i].ready THEN inst[i].uuid ELSE Absent
    BY <1>4
  <2> QED BY <1>1, <1>3, <1>6, <2>1, <2>2 DEF Absent
<1>9. r.now.time = 0 /\ (~budget'.overlap => r.last = backup')
  BY <1>0, <1>3, <1>4, <1>6 DEF JobInv
<1> HIDE DEF u
<1> QED BY <1>3, <1>7, <1>8, <1>9 DEF JobInv

(* A Job that has its source and its second. *)
LEMMA JobChooses ==
    ASSUME Inv, ShapeInv', NEW j \in Slots, Choose(j), NEW r \in Job, r = job'[j]
    PROVE  JobInv(r)' /\ r.now.time = clock
<1> DEFINE b == job[j]
<1>0. ShapeInv /\ job \in [Slots -> Job] /\ b \in Job /\ JobInv(b) /\ b.pc = "choose"
  BY DEF Inv, ShapeInv, TypeOK, JobsInv, Choose
<1>1. /\ b.last \in BackupStatus /\ b.now \in BackupStatus
      /\ \A i \in Idx : b.pods[i] \in Int
  BY <1>0, JobFields
<1>2. PICK c \in ChoosePod(b) :
        /\ Answers(b, c.src)
        /\ job' = [job EXCEPT ![j] = [b EXCEPT
                      !.pc = "full", !.chain = c.chain,
                      !.now = [@ EXCEPT !.src = c.src, !.uuid = inst[c.src].uuid,
                                        !.time = clock, !.file = CurrentBinlog(c.src),
                                        !.warned = b.last.time # 0 /\ ~c.chain]]]
  BY DEF Choose
<1> DEFINE i == c.src
           n == [b.now EXCEPT !.src = c.src, !.uuid = inst[c.src].uuid,
                              !.time = clock, !.file = CurrentBinlog(c.src),
                              !.warned = b.last.time # 0 /\ ~c.chain]
<1>3. /\ i \in Idx /\ c.chain \in BOOLEAN
      /\ c.chain => /\ b.last.time # 0
                    /\ b.now.uuids[i] # Absent /\ b.now.uuids[i] = LastUUIDs(b.last)[i]
  BY <1>0, ChoosePodFacts
<1>4. r = [b EXCEPT !.pc = "full", !.chain = c.chain, !.now = n]
  BY <1>0, <1>2
<1>5. /\ n.src = i /\ n.time = clock /\ n.file = CurrentBinlog(i) /\ n.uuids = b.now.uuids
      /\ n.uuid = inst[i].uuid
  BY <1>1 DEF BackupStatus
<1> HIDE DEF n
<1>6. r.pc = "full" /\ r.chain = c.chain /\ r.now = n /\ r.last = b.last /\ r.pods = b.pods
  BY <1>0, <1>4 DEF Job
<1>7. UNCHANGED <<clusterVars, backup, bucketVars, budget>>
  BY DEF Choose
<1>8. /\ inst' = inst /\ dumps' = dumps /\ backup' = backup /\ budget' = budget /\ clock' = clock
  BY <1>7 DEF clusterVars, bucketVars
<1>9. Recorded(b.last) /\ Recorded(r.last)'
  BY <1>0, <1>6, <1>7, <1>8, RecordedSame DEF JobInv
<1>10. \A k \in Idx :
          /\ r.pods[k] <= inst'[k].uuid /\ r.now.uuids[k] <= inst'[k].uuid
          /\ r.now.uuids[k] # Absent => r.pods[k] # Absent /\ r.pods[k] <= r.now.uuids[k]
  BY <1>0, <1>5, <1>6, <1>8 DEF JobInv
<1>11. clock \in Time /\ clock \in Nat /\ dumps[clock] = Absent
  BY <1>0, ConstantFacts DEF Choose, ShapeInv, TypeOK
<1>12. b.last.time < clock
  <2>1. b.last.time \in Nat /\ b.last.time <= clock
    BY <1>0, <1>1, <1>9, RecordFacts, StatusFields
  <2>2. b.last.time # 0 => dumps[b.last.time] # Absent
    BY <1>0, <1>1, <1>9, RecordFacts
  <2>3. b.last.time # clock
    BY <1>11, <2>2, ConstantFacts
  <2> QED BY <1>11, <2>1, <2>3
<1>13. b.now.uuids[i] \in {Absent, b.pods[i]}
  <2>1. b.now.uuids[i] # Absent => b.pods[i] <= b.now.uuids[i]
    BY <1>0, <1>3 DEF JobInv
  <2>2. b.now.uuids[i] <= inst[i].uuid /\ inst[i].uuid = b.pods[i]
    BY <1>0, <1>2, <1>3 DEF JobInv, Answers
  <2>3. b.now.uuids[i] \in Int /\ b.pods[i] \in Int
    BY <1>1, <1>3, StatusFields
  <2> QED BY <2>1, <2>2, <2>3
<1>14. FileBefore(i, CurrentBinlog(i), inst[i].exec)
  <2>1. /\ inst[i].first \in Nat /\ Len(inst[i].starts) \in Nat /\ Len(inst[i].starts) > 0
        /\ DOMAIN inst[i].starts = 1 .. Len(inst[i].starts)
    BY <1>0, <1>3, StateFacts
  <2>2. CurrentBinlog(i) - inst[i].first + 1 = Len(inst[i].starts) /\ CurrentBinlog(i) \in Nat
    BY <2>1 DEF CurrentBinlog
  <2>3. Len(inst[i].starts) \in DOMAIN inst[i].starts
    BY <2>1
  <2>4. inst[i].starts[Len(inst[i].starts)] <= inst[i].exec
    BY <1>3, <2>3 DEF Inv, InstInv
  <2> QED BY <2>2, <2>4 DEF FileBefore
<1>15. FileBefore(r.now.src, r.now.file, inst[r.now.src].exec)'
  BY <1>5, <1>6, <1>8, <1>14 DEF FileBefore, CurrentBinlog
<1>16. ~budget'.overlap => r.last = backup'
  BY <1>0, <1>6, <1>8 DEF JobInv
<1>17. /\ r.now.time \in Time /\ r.now.time <= clock' /\ r.last.time < r.now.time
       /\ r.now.uuid = r.pods[r.now.src]
       /\ r.now.uuids[r.now.src] \in {Absent, r.pods[r.now.src]}
       /\ r.chain => /\ r.last.time # 0
                     /\ r.now.uuids[r.now.src] # Absent
                     /\ r.now.uuids[r.now.src] = LastUUIDs(r.last)[r.now.src]
       /\ dumps'[r.now.time] = Absent
  <2>1. inst[i].uuid = b.pods[i]
    BY <1>2 DEF Answers
  <2> QED BY <1>3, <1>5, <1>6, <1>8, <1>11, <1>12, <1>13, <2>1
<1> QED BY <1>5, <1>6, <1>9, <1>10, <1>15, <1>16, <1>17 DEF JobInv

(* A Job that has its dump: every instance it knows has the binary logs    *)
(* from there on.                                                          *)
LEMMA JobDumps ==
    ASSUME Inv, ShapeInv', NEW j \in Slots, backupFull(j), NEW r \in Job, r = job'[j]
    PROVE  JobInv(r)' /\ r.now.time = job[j].now.time
<1> DEFINE b == job[j]
           i == b.now.src
           n == [b.now EXCEPT !.gtid = inst[i].exec]
<1>0. ShapeInv /\ job \in [Slots -> Job] /\ b \in Job /\ JobInv(b) /\ b.pc = "full"
  BY DEF Inv, ShapeInv, TypeOK, JobsInv, backupFull
<1>1. /\ b.last \in BackupStatus /\ b.now \in BackupStatus
      /\ \A k \in Idx : b.pods[k] \in Int
  BY <1>0, JobFields
<1>2. i \in Idx /\ inst[i].exec \in Nat /\ inst[i].exec <= Len(log) /\ Len(log) \in Nat
  BY <1>0, <1>1, StatusFields, StateFacts
<1>3. r = [b EXCEPT !.pc = IF b.chain THEN "binlog" ELSE "status", !.now = n]
  BY <1>0 DEF backupFull, Job, BackupStatus
<1>4. /\ n.src = i /\ n.time = b.now.time /\ n.file = b.now.file /\ n.uuids = b.now.uuids
      /\ n.uuid = b.now.uuid /\ n.gtid = inst[i].exec
  BY <1>1 DEF BackupStatus
<1> HIDE DEF n
<1>5. /\ r.pc = IF b.chain THEN "binlog" ELSE "status"
      /\ r.chain = b.chain /\ r.now = n /\ r.last = b.last /\ r.pods = b.pods
  BY <1>0, <1>3 DEF Job
<1>6. /\ UNCHANGED <<clusterVars, backup, budget>>
      /\ dumps' = [dumps EXCEPT ![b.now.time] = inst[i].exec]
      /\ Answers(b, i)
  BY DEF backupFull
<1>7. inst' = inst /\ backup' = backup /\ budget' = budget /\ clock' = clock /\ log' = log
  BY <1>6 DEF clusterVars
<1>8. /\ b.now.time \in Time /\ b.now.time <= clock /\ b.last.time < b.now.time
      /\ b.now.uuid = b.pods[i] /\ b.now.uuids[i] \in {Absent, b.pods[i]}
      /\ b.chain => /\ b.last.time # 0
                    /\ b.now.uuids[i] # Absent
                    /\ b.now.uuids[i] = LastUUIDs(b.last)[i]
      /\ Recorded(b.last)
  BY <1>0 DEF JobInv
<1>9. Recorded(r.last)'
  <2>1. b.last # NoBackup => dumps'[b.last.time] = dumps[b.last.time]
    <3>1. b.last # NoBackup => b.last.time \in Time
      BY <1>8 DEF Recorded, Taken
    <3>2. b.last.time # b.now.time
      BY <1>1, <1>8, StatusFields
    <3> QED BY <1>0, <1>6, <3>1, <3>2 DEF ShapeInv, TypeOK
  <2> QED BY <1>5, <1>6, <1>8, <2>1, RecordedSame
<1>10. \A k \in Idx :
          /\ r.pods[k] <= inst'[k].uuid /\ r.now.uuids[k] <= inst'[k].uuid
          /\ r.now.uuids[k] # Absent => r.pods[k] # Absent /\ r.pods[k] <= r.now.uuids[k]
  BY <1>0, <1>4, <1>5, <1>7 DEF JobInv
<1>11. FileBefore(i, b.now.file, inst[i].exec)
  BY <1>0, <1>6 DEF JobInv, Answers
<1>12. ~budget.lag => inst[i].exec = Len(log)
  BY <1>2, <1>6 DEF Inv, LogInv, Answers
<1>13. ASSUME NEW k \in Idx PROVE inst[k].starts[1] <= inst[i].exec
  <2>1. /\ inst[k].exec \in Nat /\ inst[k].exec <= Len(log) /\ inst[k].starts[1] \in Nat
        /\ 1 \in DOMAIN inst[k].starts
    <3>1. /\ inst[k].exec \in Nat /\ inst[k].exec <= Len(log)
          /\ Len(inst[k].starts) \in Nat /\ Len(inst[k].starts) > 0
          /\ DOMAIN inst[k].starts = 1 .. Len(inst[k].starts)
          /\ \A m \in 1 .. Len(inst[k].starts) : inst[k].starts[m] \in Nat
      BY <1>0, StateFacts
    <3>2. 1 \in 1 .. Len(inst[k].starts)
      BY <3>1
    <3> QED BY <3>1, <3>2
  <2>2. inst[k].starts[1] <= inst[k].exec /\ (budget.lag => inst[k].starts[1] = 0)
    BY <2>1 DEF Inv, InstInv
  <2> QED BY <1>2, <1>12, <2>1, <2>2
<1>14. Taken(r.now)'
  <2>0. /\ r.now.src = i /\ r.now.time = b.now.time /\ r.now.file = b.now.file
        /\ r.now.gtid = inst[i].exec
    BY <1>4, <1>5
  <2>1. dumps'[r.now.time] = r.now.gtid
    BY <1>0, <1>6, <1>8, <2>0 DEF ShapeInv, TypeOK
  <2>2. r.now.gtid <= Len(log) /\ \A k \in Idx : inst[k].starts[1] <= r.now.gtid
    BY <1>2, <1>13, <2>0
  <2>3. \A k \in Idx : LastUUIDs(r.now)[k] <= inst[k].uuid
    <3>1. \A k \in Idx : r.now.uuids[k] <= inst[k].uuid
      BY <1>7, <1>10
    <3>2. r.now.uuid <= inst[r.now.src].uuid
      BY <1>2, <1>4, <1>5, <1>7, <1>8, <1>10
    <3>3. \A k \in Idx : Absent <= inst[k].uuid
      BY <1>0, StateFacts DEF Absent
    <3> QED BY <3>1, <3>2, <3>3 DEF LastUUIDs
  <2>4. r.now.gtid <= inst[r.now.src].exec
    BY <1>2, <2>0
  <2>5. FileBefore(r.now.src, r.now.file, r.now.gtid)'
    BY <1>7, <1>11, <2>0 DEF FileBefore, CurrentBinlog
  <2>6. r.now.time \in Time /\ r.now.time <= clock
    BY <1>8, <2>0
  <2> QED BY <1>7, <2>1, <2>2, <2>3, <2>4, <2>5, <2>6 DEF Taken
<1>15. ~budget'.lag => r.last.gtid <= r.now.gtid
  <2>1. b.last.gtid <= Len(log)
    BY <1>0, <1>1, <1>8, RecordFacts
  <2> QED BY <1>4, <1>5, <1>7, <1>12, <2>1
<1>16. ~budget'.overlap => r.last = backup'
  BY <1>0, <1>5, <1>7 DEF JobInv
<1>17. r.pc # "idle" /\ r.pc # "full" /\ r.pc \in {"full", "binlog", "status"}
       /\ (r.pc = "binlog" => r.chain) /\ (r.pc = "status" => ~r.chain)
  BY <1>5
<1>18. /\ r.now.time \in Time /\ r.now.time <= clock' /\ r.last.time < r.now.time
       /\ r.now.uuid = r.pods[r.now.src]
       /\ r.now.uuids[r.now.src] \in {Absent, r.pods[r.now.src]}
       /\ r.chain => /\ r.last.time # 0
                     /\ r.now.uuids[r.now.src] # Absent
                     /\ r.now.uuids[r.now.src] = LastUUIDs(r.last)[r.now.src]
  BY <1>4, <1>5, <1>7, <1>8
<1> QED BY <1>4, <1>5, <1>9, <1>10, <1>14, <1>15, <1>16, <1>17, <1>18 DEF JobInv

(* A Job that is done with the binary logs, with those or with a warning.  *)
LEMMA JobWrites ==
    ASSUME Inv, ShapeInv', NEW j \in Slots, backupBinlog(j) \/ backupNoBinlog(j),
           NEW r \in Job, r = job'[j]
    PROVE  JobInv(r)' /\ r.now.time = job[j].now.time
<1> DEFINE b == job[j]
           i == b.now.src
<1>0. ShapeInv /\ job \in [Slots -> Job] /\ b \in Job /\ JobInv(b) /\ b.pc = "binlog"
  BY DEF Inv, ShapeInv, TypeOK, JobsInv, backupBinlog, backupNoBinlog
<1>1. /\ b.last \in BackupStatus /\ b.now \in BackupStatus /\ i \in Idx
      /\ b.last.gtid \in Nat /\ b.now.gtid \in Nat /\ budget \in Scenario
  BY <1>0, JobFields, StatusFields, StateFacts
<1>2. /\ r.pc = "status" /\ r.chain = b.chain /\ r.last = b.last /\ r.pods = b.pods
      /\ r.now.src = i /\ r.now.time = b.now.time /\ r.now.file = b.now.file
      /\ r.now.uuid = b.now.uuid /\ r.now.uuids = b.now.uuids /\ r.now.gtid = b.now.gtid
      /\ backupNoBinlog(j) => r.now.warned
  <2>1. CASE backupBinlog(j) /\ ~backupNoBinlog(j)
    <3>1. r = [b EXCEPT !.pc = "status"]
      BY <1>0, <2>1 DEF backupBinlog, Job
    <3> QED BY <1>0, <2>1, <3>1 DEF Job
  <2>2. CASE backupNoBinlog(j)
    <3> DEFINE n == [b.now EXCEPT !.warned = TRUE]
    <3>1. r = [b EXCEPT !.pc = "status", !.now = n]
      BY <1>0, <2>2 DEF backupNoBinlog, Job, BackupStatus
    <3>2. /\ n.src = i /\ n.time = b.now.time /\ n.file = b.now.file
          /\ n.uuid = b.now.uuid /\ n.uuids = b.now.uuids /\ n.gtid = b.now.gtid /\ n.warned
      BY <1>1 DEF BackupStatus
    <3> HIDE DEF n
    <3>3. /\ r.pc = "status" /\ r.chain = b.chain /\ r.last = b.last /\ r.pods = b.pods /\ r.now = n
      BY <1>0, <3>1 DEF Job
    <3> QED BY <3>2, <3>3
  <2> QED BY <2>1, <2>2
<1>3. /\ UNCHANGED <<clusterVars, backup, dumps>>
      /\ budget'.lag = budget.lag /\ budget'.overlap = budget.overlap
  BY <1>1, HappensFacts DEF backupBinlog, backupNoBinlog, bucketVars
<1>4. inst' = inst /\ dumps' = dumps /\ backup' = backup /\ clock' = clock /\ log' = log
  BY <1>3 DEF clusterVars
<1>5. /\ b.now.time \in Time /\ b.now.time <= clock /\ b.last.time < b.now.time
      /\ b.now.uuid = b.pods[i] /\ b.now.uuids[i] \in {Absent, b.pods[i]}
      /\ b.chain /\ b.last.time # 0
      /\ b.now.uuids[i] # Absent /\ b.now.uuids[i] = LastUUIDs(b.last)[i]
      /\ Recorded(b.last) /\ Taken(b.now) /\ (~budget.lag => b.last.gtid <= b.now.gtid)
  BY <1>0 DEF JobInv
<1>6. Recorded(r.last)'
  BY <1>2, <1>3, <1>4, <1>5, RecordedSame
<1>7. \A k \in Idx :
          /\ r.pods[k] <= inst'[k].uuid /\ r.now.uuids[k] <= inst'[k].uuid
          /\ r.now.uuids[k] # Absent => r.pods[k] # Absent /\ r.pods[k] <= r.now.uuids[k]
  BY <1>0, <1>2, <1>4 DEF JobInv
<1>8. Taken(r.now)'
  <2>1. LastUUIDs(r.now) = LastUUIDs(b.now)
    BY <1>2 DEF LastUUIDs
  <2> QED BY <1>2, <1>4, <1>5, <2>1 DEF Taken, FileBefore, CurrentBinlog
<1>9. ~budget'.overlap => r.last = backup'
  BY <1>0, <1>2, <1>3, <1>4 DEF JobInv
<1>10. ASSUME ~r.now.warned PROVE Covers(r.last.time, r.now.gtid)'
  <2>1. backupBinlog(j)
    BY <1>2, <1>10
  <2>2. /\ b.last.time \in Time /\ dumps[b.last.time] = b.last.gtid
        /\ binlogs' = [binlogs EXCEPT ![b.last.time] = b.last.gtid + 1 .. inst[i].exec]
    BY <2>1, BinlogWritten
  <2>3. binlogs'[b.last.time] = b.last.gtid + 1 .. inst[i].exec
    BY <1>0, <2>2 DEF ShapeInv, TypeOK
  <2>4. b.now.gtid <= inst[i].exec
    <3>1. inst[i].uuid = LastUUIDs(b.now)[i]
      BY <1>1, <1>5, <2>1 DEF backupBinlog, Answers, LastUUIDs
    <3> QED BY <1>1, <1>5, <3>1 DEF Taken
  <2>5. inst[i].exec \in Nat
    BY <1>0, <1>1, StateFacts
  <2>6. \A k \in 1 .. b.now.gtid : b.last.gtid < k => k \in b.last.gtid + 1 .. inst[i].exec
    BY <1>1, <2>4, <2>5
  <2> QED BY <1>2, <1>4, <2>2, <2>3, <2>6 DEF Covers
<1>11. /\ r.now.time \in Time /\ r.now.time <= clock' /\ r.last.time < r.now.time
       /\ r.now.uuid = r.pods[r.now.src]
       /\ r.now.uuids[r.now.src] \in {Absent, r.pods[r.now.src]}
       /\ r.chain => /\ r.last.time # 0
                     /\ r.now.uuids[r.now.src] # Absent
                     /\ r.now.uuids[r.now.src] = LastUUIDs(r.last)[r.now.src]
       /\ ~budget'.lag => r.last.gtid <= r.now.gtid
  BY <1>2, <1>3, <1>4, <1>5
<1> QED BY <1>2, <1>6, <1>7, <1>8, <1>9, <1>10, <1>11 DEF JobInv

(* No Job acts. *)
LEMMA JobsQuiet ==
    ASSUME Inv, ShapeInv', Later, UNCHANGED <<backup, bucketVars, job>> PROVE JobsInv'
<1>0. job \in [Slots -> Job] /\ job' = job /\ dumps' = dumps /\ binlogs' = binlogs
      /\ backup' = backup /\ budget'.overlap = budget.overlap /\ JobsInv
  BY DEF Inv, ShapeInv, TypeOK, bucketVars, Later
<1>1. ASSUME NEW k \in Slots PROVE JobInv(job[k])'
  <2>1. PICK r \in Job : r = job[k]
    BY <1>0
  <2>2. JobInv(r)
    BY <1>0, <2>1 DEF JobsInv
  <2>3. r.pc = "full" => dumps'[r.now.time] = Absent
    BY <1>0, <2>2 DEF JobInv
  <2>4. JobInv(r)'
    BY <1>0, <2>2, <2>3, JobKept
  <2>5. job'[k] = r
    BY <1>0, <2>1
  <2> QED BY <2>4, <2>5
<1> QED BY <1>0, <1>1 DEF JobsInv

(* A Job acts, and the others are as they were. *)
LEMMA JobsAct ==
    ASSUME Inv, ShapeInv', NEW j \in Slots, BackupJob(j) PROVE JobsInv'
<1>0. /\ ShapeInv /\ job \in [Slots -> Job] /\ job' \in [Slots -> Job] /\ JobsInv
      /\ Later /\ budget'.overlap = budget.overlap
  BY LaterJob DEF Inv, ShapeInv, TypeOK, Later
<1>1. \A k \in Slots : k # j => job'[k] = job[k]
  BY <1>0 DEF BackupJob, NewBackupManager, GetUUIDSet, Choose, backupFull, backupBinlog,
              backupNoBinlog, updateStatus, JobFails
<1>2. \/ job[j].pc # "idle"
      \/ /\ UNCHANGED <<backup, binlogs>> /\ job[j].pc = "idle"
         /\ ~budget.overlap => \A k \in Slots : job[k].pc = "idle"
  BY DEF BackupJob, NewBackupManager, GetUUIDSet, Choose, backupFull, backupBinlog,
         backupNoBinlog, updateStatus, JobFails, bucketVars
<1>3. PICK r \in Job : r = job'[j]
  BY <1>0
<1>4. /\ JobInv(r)'
      /\ \/ r.now.time = job[j].now.time \/ r.now.time = 0
         \/ \A k \in Slots : job[k].now.time # r.now.time
      /\ dumps' = dumps \/ (job[j].pc = "full"
                            /\ dumps' = [dumps EXCEPT ![job[j].now.time] = inst[job[j].now.src].exec])
  <2>1. CASE NewBackupManager(j)
    <3>1. r.now.time = 0
      BY <1>0, <1>3, <2>1 DEF NewBackupManager, NoJob, NoBackup
    <3> QED BY <1>3, <2>1, <3>1, JobBegins DEF NewBackupManager, bucketVars
  <2>2. CASE GetUUIDSet(j)
    <3>1. r.now.time = job[j].now.time
      BY <1>0, <1>3, <2>2 DEF GetUUIDSet, Job, BackupStatus
    <3> QED BY <1>3, <2>2, <3>1, JobIdentifies DEF GetUUIDSet, bucketVars
  <2>3. CASE Choose(j)
    BY <1>3, <2>3, JobChooses DEF Choose, bucketVars
  <2>4. CASE backupFull(j)
    BY <1>3, <2>4, JobDumps DEF backupFull
  <2>5. CASE backupBinlog(j) \/ backupNoBinlog(j)
    BY <1>3, <2>5, JobWrites DEF backupBinlog, backupNoBinlog, bucketVars
  <2>6. CASE updateStatus(j) \/ JobFails(j)
    <3>1. r = NoJob /\ dumps' = dumps
      BY <1>0, <1>3, <2>6 DEF updateStatus, JobFails, bucketVars
    <3>2. r.now.time = 0
      BY <3>1 DEF NoJob, NoBackup
    <3>3. JobInv(NoJob)'
      BY NoJobInv
    <3>4. JobInv(r)'
      BY <3>1, <3>3
    <3> QED BY <3>1, <3>2, <3>4
  <2> QED BY <2>1, <2>2, <2>3, <2>4, <2>5, <2>6 DEF BackupJob
<1>5. ASSUME NEW k \in Slots PROVE JobInv(job[k])'
  <2>1. CASE k = j
    BY <1>3, <1>4, <2>1
  <2>2. CASE k # j
    <3>1. PICK b \in Job : b = job[k]
      BY <1>0
    <3>2. JobInv(b)
      BY <1>0, <3>1 DEF JobsInv
    <3>3. b.pc = "full" => dumps'[b.now.time] = Absent
      <4>1. ASSUME b.pc = "full" PROVE dumps'[b.now.time] = Absent
        <5>1. dumps[b.now.time] = Absent /\ b.now.time \in Time
          BY <3>2, <4>1 DEF JobInv
        <5>2. b.now.time # 0
          BY <5>1, ConstantFacts
        <5>3. b.now.time # job[j].now.time
          BY <1>0, <2>2, <3>1, <5>2 DEF JobsInv
        <5> QED BY <1>0, <1>4, <5>1, <5>3 DEF ShapeInv, TypeOK
      <4> QED BY <4>1
    <3>4. ~budget.overlap /\ b.pc # "idle" => UNCHANGED <<backup, binlogs>>
      BY <1>0, <1>2, <2>2, <3>1 DEF JobsInv
    <3>5. JobInv(b)'
      BY <1>0, <3>2, <3>3, <3>4, JobKept
    <3> QED BY <1>1, <2>2, <3>1, <3>5
  <2> QED BY <2>1, <2>2
<1>6. ASSUME NEW k \in Slots, k # j
      PROVE  /\ r.now.time = job[k].now.time => r.now.time = 0
             /\ ~budget.overlap => job[k].pc = "idle"
  BY <1>0, <1>2, <1>4, <1>6 DEF JobsInv
<1>7. ASSUME NEW m \in Slots, NEW k \in Slots, m # k
      PROVE  /\ job'[m].now.time = job'[k].now.time => job'[m].now.time = 0
             /\ ~budget'.overlap => job'[m].pc = "idle" \/ job'[k].pc = "idle"
  <2>1. CASE m = j
    BY <1>0, <1>1, <1>3, <1>6, <1>7, <2>1
  <2>2. CASE k = j
    BY <1>0, <1>1, <1>3, <1>6, <1>7, <2>2
  <2>3. CASE m # j /\ k # j
    BY <1>0, <1>1, <1>7, <2>3 DEF JobsInv
  <2> QED BY <2>1, <2>2, <2>3
<1> QED BY <1>5, <1>7 DEF JobsInv

(* status.backup stays the record of a backup that was taken. *)
LEMMA BackupKept ==
    ASSUME Inv, ShapeInv', Later,
           UNCHANGED backup \/ \E j \in Slots : updateStatus(j)
    PROVE  Recorded(backup)'
<1>0. ShapeInv /\ backup \in BackupStatus /\ Recorded(backup) /\ job \in [Slots -> Job]
  BY DEF Inv, ShapeInv, TypeOK
<1>1. CASE UNCHANGED backup
  <2>1. PICK s \in BackupStatus : s = backup
    BY <1>0
  <2>2. \A i \in Idx : Expired(i) => backup.gtid <= s.gtid
    BY <2>1, StatusFields
  <2>3. Recorded(s)'
    BY <1>0, <2>1, <2>2, RecordedKept
  <2> QED BY <1>1, <2>1, <2>3
<1>2. ASSUME NEW j \in Slots, updateStatus(j) PROVE Recorded(backup)'
  <2>1. PICK s \in BackupStatus : s = job[j].now
    BY <1>0, JobFields
  <2>2. Taken(s)
    BY <1>2, <2>1 DEF Inv, JobsInv, JobInv, updateStatus
  <2>3. UNCHANGED <<clusterVars, dumps>> /\ backup' = s
    BY <1>2, <2>1 DEF updateStatus, bucketVars
  <2>4. Recorded(s)'
    BY <2>2, <2>3, RecordedSame DEF Recorded
  <2> QED BY <2>3, <2>4
<1> QED BY <1>1, <1>2

(* Archives stay as they are while there is more history. *)
LEMMA BucketSame ==
    ASSUME Inv, ShapeInv', Later, UNCHANGED bucketVars PROVE BucketInv'
<1>1. /\ clock \in Nat /\ clock' \in Nat /\ clock <= clock'
      /\ Len(log) \in Nat /\ Len(log') \in Nat /\ Len(log) <= Len(log')
      /\ dumps' = dumps /\ binlogs' = binlogs
      /\ \A t \in Time : dumps[t] \in Int /\ t \in Nat
  BY StateFacts, NextTyped, ConstantFacts DEF Inv, Typed, Later, bucketVars
<1>2. ASSUME NEW t \in Time, dumps[t] # Absent PROVE t <= clock' /\ dumps[t] <= Len(log')
  BY <1>1, <1>2 DEF Inv, BucketInv
<1>3. ASSUME NEW t \in Time, binlogs[t] # {Absent}
      PROVE  dumps[t] # Absent /\ \E n \in 0 .. Len(log') : binlogs[t] = dumps[t] + 1 .. n
  <2>1. PICK n \in 0 .. Len(log) : binlogs[t] = dumps[t] + 1 .. n
    BY <1>3 DEF Inv, BucketInv
  <2>2. n \in 0 .. Len(log')
    BY <1>1
  <2> QED BY <1>3, <2>1, <2>2 DEF Inv, BucketInv
<1> QED BY <1>1, <1>2, <1>3 DEF BucketInv

(* A backup Job writes what its cluster has executed. *)
LEMMA BucketJob ==
    ASSUME Inv, ShapeInv', NEW j \in Slots, BackupJob(j) PROVE BucketInv'
<1> DEFINE b == job[j]
<1>0. /\ ShapeInv /\ Later /\ UNCHANGED clusterVars /\ b \in Job /\ JobInv(b) /\ BucketInv
  BY LaterJob DEF Inv, ShapeInv, TypeOK, JobsInv
<1>1. clock' = clock /\ log' = log /\ inst' = inst
  BY <1>0 DEF clusterVars
<1>2. b.now.src \in Idx
  BY <1>0, JobFields, StatusFields
<1>3. inst[b.now.src].exec \in Nat /\ inst[b.now.src].exec <= Len(log) /\ Len(log) \in Nat
  BY <1>0, <1>2, StateFacts
<1>4. CASE backupFull(j)
  <2>1. /\ dumps' = [dumps EXCEPT ![b.now.time] = inst[b.now.src].exec] /\ binlogs' = binlogs
        /\ b.now.time \in Time /\ b.now.time <= clock /\ dumps[b.now.time] = Absent
    BY <1>0, <1>4 DEF backupFull, JobInv
  <2>2. dumps \in [Time -> Count \cup {Absent}]
    BY <1>0 DEF ShapeInv, TypeOK
  <2>3. ASSUME NEW t \in Time, t = b.now.time
        PROVE  /\ dumps'[t] = inst[b.now.src].exec /\ t <= clock
               /\ binlogs[t] = {Absent}
    BY <1>0, <2>1, <2>2, <2>3 DEF BucketInv
  <2>4. ASSUME NEW t \in Time, t # b.now.time PROVE dumps'[t] = dumps[t]
    BY <2>1, <2>2, <2>4
  <2> QED BY <1>0, <1>1, <1>3, <2>1, <2>3, <2>4 DEF BucketInv
<1>5. CASE backupBinlog(j)
  <2>1. /\ dumps' = dumps /\ b.last.time \in Time
        /\ dumps[b.last.time] = b.last.gtid /\ b.last.gtid \in Nat
        /\ binlogs' = [binlogs EXCEPT ![b.last.time] = b.last.gtid + 1 .. inst[b.now.src].exec]
    BY <1>5, BinlogWritten DEF backupBinlog
  <2>2. binlogs \in [Time -> (SUBSET Txn) \cup {{Absent}}]
    BY <1>0 DEF ShapeInv, TypeOK
  <2>3. /\ binlogs'[b.last.time] = dumps[b.last.time] + 1 .. inst[b.now.src].exec
        /\ inst[b.now.src].exec \in 0 .. Len(log)
        /\ dumps[b.last.time] # Absent
    BY <1>3, <2>1, <2>2 DEF Absent
  <2>4. ASSUME NEW t \in Time, t # b.last.time PROVE binlogs'[t] = binlogs[t]
    BY <2>1, <2>2, <2>4
  <2> QED BY <1>0, <1>1, <2>1, <2>3, <2>4 DEF BucketInv
<1>6. CASE UNCHANGED bucketVars
  BY <1>0, <1>6, BucketSame
<1> QED BY <1>4, <1>5, <1>6 DEF BackupJob, NewBackupManager, GetUUIDSet, Choose, backupNoBinlog,
                               updateStatus, JobFails

(* The elements of a sequence are in its set. *)
LEMMA SeqElement ==
    ASSUME NEW S, NEW s \in Seq(S), NEW n \in DOMAIN s PROVE s[n] \in S
OBVIOUS

(* A chain stays complete while no Job writes to it. *)
LEMMA ChainSame ==
    ASSUME Inv, Later, UNCHANGED <<backup, recorded>>,
           ~budget.overlap => \A t \in Time : t < backup.time => binlogs'[t] = binlogs[t]
    PROVE  ChainInv'
<1> SUFFICES ASSUME ~budget.overlap, NEW n \in DOMAIN recorded
             PROVE  LET b == recorded[n] IN
                    /\ dumps'[b.prev] # Absent /\ dumps'[b.time] = b.gtid
                    /\ b.prev < backup.time
                    /\ Covers(b.prev, b.gtid)'
  BY DEF ChainInv, Later
<1>1. PICK b \in [prev: Time, time: Time, gtid: Count] : b = recorded[n]
  <2>1. recorded \in Seq([prev: Time, time: Time, gtid: Count])
    BY DEF Inv, ShapeInv, TypeOK
  <2>2. recorded[n] \in [prev: Time, time: Time, gtid: Count]
    BY <2>1, SeqElement
  <2> QED BY <2>2
<1>2. b.prev \in Time /\ b.time \in Time /\ b.gtid \in Nat
  BY ConstantFacts
<1>3. /\ dumps[b.prev] # Absent /\ dumps[b.time] = b.gtid
      /\ b.prev < backup.time /\ Covers(b.prev, b.gtid)
  BY <1>1 DEF Inv, ChainInv
<1>4. dumps[b.time] # Absent
  BY <1>2, <1>3 DEF Absent
<1>5. dumps'[b.prev] = dumps[b.prev] /\ dumps'[b.time] = dumps[b.time]
  BY <1>2, <1>3, <1>4 DEF Later
<1>6. binlogs'[b.prev] = binlogs[b.prev]
  BY <1>2, <1>3
<1>7. Covers(b.prev, b.gtid)'
  BY <1>3, <1>5, <1>6 DEF Covers
<1>8. recorded'[n] = b
  BY <1>1
<1> QED BY <1>1, <1>3, <1>5, <1>7, <1>8 DEF Covers

(* A backup Job keeps the chain of binary logs complete. *)
LEMMA ChainJob ==
    ASSUME Inv, ShapeInv', NEW j \in Slots, BackupJob(j) PROVE ChainInv'
<1> DEFINE b == job[j]
<1>0. /\ ShapeInv /\ Later /\ b \in Job /\ JobInv(b) /\ ChainInv /\ backup \in BackupStatus
      /\ binlogs \in [Time -> (SUBSET Txn) \cup {{Absent}}]
  BY LaterJob DEF Inv, ShapeInv, TypeOK, JobsInv
<1>1. CASE backupBinlog(j)
  <2>1. binlogs' = [binlogs EXCEPT ![b.last.time] = b.last.gtid + 1 .. inst[b.now.src].exec]
    BY <1>1, BinlogWritten
  <2>2. ~budget.overlap => b.last = backup
    BY <1>0, <1>1 DEF backupBinlog, JobInv
  <2>3. backup.time \in Nat /\ \A t \in Time : t \in Nat
    BY <1>0, StatusFields, ConstantFacts
  <2>4. ~budget.overlap => \A t \in Time : t < backup.time => binlogs'[t] = binlogs[t]
    BY <1>0, <2>1, <2>2, <2>3
  <2> QED BY <1>0, <1>1, <2>4, ChainSame DEF backupBinlog
<1>2. CASE updateStatus(j)
  <2> SUFFICES ASSUME ~budget.overlap PROVE ChainInv'
    BY <1>2 DEF ChainInv, updateStatus
  <2>1. /\ backup' = b.now /\ dumps' = dumps /\ binlogs' = binlogs /\ b.pc = "status"
        /\ b.last = backup
    BY <1>0, <1>2 DEF updateStatus, bucketVars, JobInv
  <2>2. b.last.time < b.now.time /\ Recorded(b.last) /\ Taken(b.now)
    BY <1>0, <2>1 DEF JobInv
  <2>3. b.last.time \in Nat /\ b.now.time \in Nat /\ b.last \in BackupStatus
    BY <1>0, JobFields, StatusFields
  <2>4. recorded \in Seq([prev: Time, time: Time, gtid: Count])
    BY <1>0 DEF ShapeInv, TypeOK
  <2> DEFINE Good(c) == /\ dumps[c.prev] # Absent /\ dumps[c.time] = c.gtid
                        /\ c.prev < b.now.time
                        /\ \A k \in 1 .. c.gtid : dumps[c.prev] < k => k \in binlogs[c.prev]
  <2>5. ASSUME NEW n \in DOMAIN recorded PROVE Good(recorded[n])
    <3>0. recorded[n] \in [prev: Time, time: Time, gtid: Count]
      BY <2>4, SeqElement
    <3>1. recorded[n].prev \in Nat
      BY <3>0, ConstantFacts
    <3>2. /\ dumps[recorded[n].prev] # Absent /\ dumps[recorded[n].time] = recorded[n].gtid
          /\ recorded[n].prev < backup.time
          /\ Covers(recorded[n].prev, recorded[n].gtid)
      BY <1>0 DEF ChainInv
    <3>3. recorded[n].prev < b.now.time
      BY <2>1, <2>2, <2>3, <3>1, <3>2
    <3> QED BY <3>2, <3>3 DEF Covers
  <2>6. CASE b.chain /\ ~b.now.warned
    <3> DEFINE e == [prev |-> b.last.time, time |-> b.now.time, gtid |-> b.now.gtid]
    <3>1. recorded' = Append(recorded, e)
      BY <1>2, <2>6 DEF updateStatus
    <3>2. Good(e)
      <4>1. b.last.time # 0 /\ Covers(b.last.time, b.now.gtid)
        BY <1>0, <2>1, <2>6 DEF JobInv
      <4>2. dumps[b.last.time] # Absent
        BY <1>0, <2>2, <2>3, <4>1, RecordFacts
      <4>3. dumps[b.now.time] = b.now.gtid
        BY <2>2 DEF Taken
      <4> QED BY <2>2, <4>1, <4>2, <4>3 DEF Covers
    <3> HIDE DEF e, Good
    <3>3. \A n \in DOMAIN recorded' : Good(recorded'[n])
      BY <2>4, <2>5, <3>1, <3>2
    <3> QED BY <2>1, <3>3 DEF ChainInv, Covers, Good
  <2>7. CASE ~(b.chain /\ ~b.now.warned)
    <3>1. recorded' = recorded
      BY <1>2, <2>7 DEF updateStatus
    <3> QED BY <2>1, <2>5, <3>1 DEF ChainInv, Covers
  <2> QED BY <2>6, <2>7
<1>3. CASE UNCHANGED <<backup, recorded, binlogs>>
  BY <1>0, <1>3, ChainSame
<1> QED BY <1>1, <1>2, <1>3 DEF BackupJob, NewBackupManager, GetUUIDSet, Choose, backupFull,
                               backupNoBinlog, JobFails, bucketVars

-----------------------------------------------------------------------------
(* The restoration *)

(* A dump and the binary logs stored with it, up to a time, are a prefix   *)
(* of the history, because commit times are in order.                      *)
LEMMA PrefixLoaded ==
    ASSUME ShapeInv, LogInv, BucketInv, NEW t \in Time, dumps[t] # Absent, NEW p \in Time
    PROVE  \E n \in Count : LoadDump(t) \cup LoadBinlog(t, p) = 1 .. n
<1> DEFINE d == dumps[t]
           L == LoadBinlog(t, p)
<1>1. /\ d \in Count /\ d \in Nat /\ d <= Len(log) /\ p \in Nat
      /\ Len(log) \in Nat /\ Len(log) <= MaxTxn /\ MaxTxn \in Nat
      /\ DOMAIN log = 1 .. Len(log) /\ \A k \in DOMAIN log : log[k] \in Nat
  BY StateFacts, ConstantFacts DEF BucketInv
<1>2. \A k \in DOMAIN log : \A l \in k .. Len(log) : log[k] <= log[l]
  BY DEF LogInv
<1>3. LoadDump(t) = 1 .. d
  BY DEF LoadDump
<1>4. L = {k \in binlogs[t] : k \in DOMAIN log /\ log[k] < p}
  BY DEF LoadBinlog
<1>5. L \in SUBSET (0 .. Len(log))
  BY <1>1, <1>4
<1> HIDE DEF d, L
<1>6. CASE L = {}
  <2>1. LoadDump(t) \cup L = 1 .. d
    BY <1>3, <1>6
  <2> QED BY <1>1, <2>1 DEF L
<1>7. CASE L # {}
  <2>1. PICK n \in L : \A k \in L : k <= n
    BY <1>1, <1>5, <1>7, GreatestExists
  <2>2. binlogs[t] # {Absent}
    <3>1. n \in binlogs[t] /\ n \in Nat
      BY <1>1, <1>4, <1>5
    <3> QED BY <3>1 DEF Absent
  <2>3. PICK m \in 0 .. Len(log) : binlogs[t] = d + 1 .. m
    BY <2>2 DEF BucketInv, d
  <2>4. n \in d + 1 .. m /\ n \in 1 .. Len(log) /\ log[n] < p
    BY <1>1, <1>4, <2>1, <2>3
  <2>5. ASSUME NEW k \in d + 1 .. n PROVE k \in L
    <3>1. k \in d + 1 .. m /\ k \in DOMAIN log /\ n \in k .. Len(log)
      BY <1>1, <2>3, <2>4
    <3>2. log[k] <= log[n]
      BY <1>2, <3>1
    <3>3. log[k] < p
      BY <1>1, <2>4, <3>1, <3>2
    <3> QED BY <1>4, <2>3, <3>1, <3>3
  <2>6. \A k \in L : k \in d + 1 .. n
    BY <1>1, <1>4, <2>1, <2>3
  <2>7. L = d + 1 .. n
    BY <2>5, <2>6
  <2>8. 1 .. d \cup (d + 1 .. n) = 1 .. n
    BY <1>1, <2>4
  <2>9. n \in Count
    BY <1>1, <2>4 DEF Count
  <2> QED BY <1>3, <2>7, <2>8, <2>9 DEF L
<1> QED BY <1>6, <1>7

(* The fields of the restoration. *)
LEMMA RestoreFields ==
    ASSUME ShapeInv
    PROVE  /\ rst \in Restoration /\ rst.point \in Time \cup {0} /\ rst.dump \in Time \cup {0}
           /\ rst.binlog \in BOOLEAN /\ rst.data \in SUBSET Txn /\ rst.want \in SUBSET Txn
BY DEF ShapeInv, TypeOK, Restoration

(* While the restoration does not act, the objects it has chosen only get  *)
(* more.                                                                   *)
LEMMA RestKept ==
    ASSUME Inv, Later, UNCHANGED rst PROVE RestInv'
<1>0. ShapeInv /\ RestInv /\ rst' = rst /\ budget'.lag = budget.lag
  BY DEF Inv, Later
<1>1. ASSUME rst.pc \in {"prepare", "load", "apply", "finish", "status"} \/ rst.restored
      PROVE  /\ rst.dump \in Time /\ dumps'[rst.dump] # Absent /\ dumps'[rst.dump] = dumps[rst.dump]
             /\ rst.binlog => binlogs'[rst.dump] # {Absent}
             /\ rst.binlog /\ ~budget.lag => binlogs[rst.dump] \subseteq binlogs'[rst.dump]
  <2>1. /\ rst.dump \in Time /\ dumps[rst.dump] # Absent
        /\ rst.binlog => binlogs[rst.dump] # {Absent}
    BY <1>0, <1>1 DEF RestInv
  <2> QED BY <2>1 DEF Later
<1>2. \A k \in DOMAIN log : k \in DOMAIN log' /\ log'[k] = log[k]
  BY DEF Later
<1>3. ASSUME rst.pc \in {"prepare", "load", "apply"}, ~budget.lag PROVE rst.want \subseteq Chosen'
  <2>1. LoadDump(rst.dump)' = LoadDump(rst.dump)
    BY <1>0, <1>1, <1>3 DEF LoadDump
  <2>2. rst.binlog => LoadBinlog(rst.dump, rst.point) \subseteq LoadBinlog(rst.dump, rst.point)'
    BY <1>0, <1>1, <1>2, <1>3 DEF LoadBinlog
  <2>3. Chosen \subseteq Chosen'
    BY <1>0, <2>1, <2>2 DEF Chosen
  <2> QED BY <1>0, <1>3, <2>3 DEF RestInv
<1>4. ASSUME rst.pc = "apply"
      PROVE  rst.data = LoadDump(rst.dump)' /\ rst.dump # rst.point /\ rst.binlog
  BY <1>0, <1>1, <1>4 DEF RestInv, LoadDump
<1>5. ASSUME rst.pc \in {"finish", "status"} \/ rst.restored PROVE Complete'
  <2>1. Complete
    BY <1>0, <1>5 DEF RestInv
  <2>2. dumps'[rst.dump] = dumps[rst.dump]
    BY <1>1, <1>5
  <2>3. ~budget'.lag => rst.want \subseteq rst.data
    BY <1>0, <2>1 DEF Complete
  <2>4. \E n \in Count : rst.data = 1 .. n
    BY <2>1 DEF Complete
  <2>5. ASSUME NEW k \in rst.data
        PROVE  k <= dumps'[rst.dump] \/ (k \in DOMAIN log' /\ log'[k] < rst.point)
    <3>1. k <= dumps[rst.dump] \/ (k \in DOMAIN log /\ log[k] < rst.point)
      BY <2>1, Zenon DEF Complete
    <3>2. CASE k <= dumps[rst.dump]
      BY <2>2, <3>2
    <3>3. CASE k \in DOMAIN log /\ log[k] < rst.point
      BY <1>2, <3>3
    <3> QED BY <3>1, <3>2, <3>3
  <2> QED BY <1>0, <2>3, <2>4, <2>5 DEF Complete
<1>6. /\ rst.pc = "status" \/ rst.restored => rst.locked
      /\ rst.restored => rst.pc = "ended"
  BY <1>0 DEF RestInv
<1> QED BY <1>0, <1>1, <1>3, <1>4, <1>5, <1>6 DEF RestInv

(* A restore Job applies what belongs to the time it is given. *)
LEMMA RestStep ==
    ASSUME Inv, ShapeInv', Restore PROVE RestInv'
<1>0. /\ ShapeInv /\ RestInv /\ rst \in Restoration /\ UNCHANGED <<clusterVars, bucketVars>>
      /\ budget'.lag = budget.lag /\ LogInv /\ BucketInv
  BY RestoreFields, LaterRestore DEF Inv, Later
<1>1. log' = log /\ dumps' = dumps /\ binlogs' = binlogs
  BY <1>0 DEF clusterVars, bucketVars
(* Steps after which nothing is claimed. *)
<1>2. ASSUME rst'.pc \in {"none", "wait", "failed", "ended"}, ~rst'.restored PROVE RestInv'
  BY <1>2 DEF RestInv
<1>3. rst.pc # "ended" => ~rst.restored
  BY <1>0 DEF RestInv
<1>4. CASE RestoreJob
  <2>1. rst'.pc = "wait" /\ ~rst'.restored
    BY <1>0, <1>4 DEF RestoreJob, Restoration
  <2> QED BY <1>2, <2>1
<1>5. CASE FindNearestDump
  <2> DEFINE ts == DumpsUpTo(rst.point)
             t == Latest(ts)
  <2>0. rst.pc = "wait" /\ rst.point \in Time /\ ~rst.restored
    BY <1>0, <1>3, <1>5, RestoreFields DEF FindNearestDump, ShapeInv
  <2>1. CASE ts = {}
    <3>1. rst'.pc = "failed" /\ ~rst'.restored
      BY <1>0, <1>5, <2>0, <2>1 DEF FindNearestDump, Restoration
    <3> QED BY <1>2, <3>1
  <2>2. CASE ts # {}
    <3>1. t \in Time /\ dumps[t] # Absent
      BY <1>0, <2>0, <2>2, NearestDump
    <3>2. rst' = [rst EXCEPT !.pc = "prepare", !.dump = t, !.binlog = binlogs[t] # {Absent},
                             !.want = Restored(rst.point)]
      BY <1>5, <2>2 DEF FindNearestDump
    <3>3. /\ rst'.pc = "prepare" /\ rst'.dump = t /\ rst'.point = rst.point
          /\ rst'.want = Restored(rst.point) /\ ~rst'.restored
      BY <1>0, <2>0, <3>2 DEF Restoration
    <3>4. rst'.binlog = (binlogs[t] # {Absent})
      BY <1>0, <3>2 DEF Restoration
    <3>5. Restored(rst.point) = LoadDump(t) \cup (IF t = rst.point THEN {} ELSE LoadBinlog(t, rst.point))
      BY <2>2 DEF Restored
    <3>6. binlogs[t] = {Absent} => LoadBinlog(t, rst.point) = {}
      <4>1. Absent \notin DOMAIN log
        BY <1>0, StateFacts DEF Absent
      <4> QED BY <4>1 DEF LoadBinlog
    <3>7. Chosen' = LoadDump(t) \cup
                       (IF t # rst.point /\ binlogs[t] # {Absent} THEN LoadBinlog(t, rst.point) ELSE {})
      BY <1>1, <3>3, <3>4 DEF Chosen, LoadDump, LoadBinlog
    <3>8. rst'.want \subseteq Chosen'
      BY <3>3, <3>5, <3>6, <3>7
    <3> HIDE DEF t
    <3> QED BY <1>1, <3>1, <3>3, <3>4, <3>8 DEF RestInv
  <2> QED BY <2>1, <2>2
<1>6. CASE PrepareRestore
  <2>1. rst' = [rst EXCEPT !.pc = "load", !.locked = FALSE] /\ rst.pc = "prepare"
    BY <1>6 DEF PrepareRestore
  <2>2. /\ rst'.pc = "load" /\ rst'.dump = rst.dump /\ rst'.binlog = rst.binlog
        /\ rst'.point = rst.point /\ rst'.want = rst.want /\ ~rst'.restored
    BY <1>0, <1>3, <2>1 DEF Restoration
  <2>3. Chosen' = Chosen
    BY <1>1, <2>2 DEF Chosen, LoadDump, LoadBinlog
  <2> QED BY <1>0, <1>1, <2>1, <2>2, <2>3 DEF RestInv
<1>7. CASE loadDump
  <2>0. rst.pc = "load" /\ ~rst.restored
    BY <1>3, <1>7 DEF loadDump
  <2>1. CASE rst.data # {}
    <3>1. rst'.pc = "failed" /\ ~rst'.restored
      BY <1>0, <1>7, <2>0, <2>1 DEF loadDump, Restoration
    <3> QED BY <1>2, <3>1
  <2>2. CASE rst.data = {}
    <3>1. rst' = [rst EXCEPT !.data = LoadDump(rst.dump),
                             !.pc = IF rst.dump # rst.point /\ rst.binlog THEN "apply" ELSE "finish"]
      BY <1>7, <2>2 DEF loadDump
    <3>2. /\ rst'.dump = rst.dump /\ rst'.binlog = rst.binlog /\ rst'.data = LoadDump(rst.dump)
          /\ rst'.point = rst.point /\ rst'.want = rst.want /\ ~rst'.restored
          /\ rst'.pc = IF rst.dump # rst.point /\ rst.binlog THEN "apply" ELSE "finish"
      BY <1>0, <2>0, <3>1 DEF Restoration
    <3>3. /\ rst.dump \in Time /\ dumps[rst.dump] # Absent
          /\ rst.binlog => binlogs[rst.dump] # {Absent}
          /\ ~budget.lag => rst.want \subseteq Chosen
      BY <1>0, <2>0 DEF RestInv
    <3>4. Chosen' = Chosen /\ LoadDump(rst.dump)' = LoadDump(rst.dump)
      BY <1>1, <3>2 DEF Chosen, LoadDump, LoadBinlog
    <3>5. CASE rst.dump # rst.point /\ rst.binlog
      BY <1>0, <1>1, <3>2, <3>3, <3>4, <3>5 DEF RestInv
    <3>6. CASE ~(rst.dump # rst.point /\ rst.binlog)
      <4>1. Chosen = LoadDump(rst.dump)
        BY <3>6 DEF Chosen
      <4>2. LoadDump(rst.dump) = 1 .. dumps[rst.dump] /\ dumps[rst.dump] \in Count
        BY <1>0, <3>3, StateFacts DEF LoadDump
      <4>3. \A k \in 1 .. dumps[rst.dump] : k <= dumps[rst.dump]
        BY <1>0, <3>3, StateFacts
      <4>4. Complete'
        BY <1>0, <1>1, <3>2, <3>3, <4>1, <4>2, <4>3 DEF Complete
      <4>5. rst'.pc = "finish"
        BY <3>2, <3>6
      <4> QED BY <1>1, <3>2, <3>3, <4>4, <4>5 DEF RestInv
    <3> QED BY <3>5, <3>6
  <2> QED BY <2>1, <2>2
<1>8. CASE applyBinlog
  <2> DEFINE t == rst.dump
             L == LoadBinlog(rst.dump, rst.point)
  <2>0. rst.pc = "apply" /\ ~rst.restored /\ rst.point \in Time
    BY <1>0, <1>3, <1>8, RestoreFields DEF applyBinlog, ShapeInv
  <2>1. rst' = [rst EXCEPT !.pc = "finish", !.data = @ \cup L]
    BY <1>8 DEF applyBinlog
  <2>2. /\ rst'.pc = "finish" /\ rst'.dump = t /\ rst'.binlog = rst.binlog
        /\ rst'.data = rst.data \cup L
        /\ rst'.point = rst.point /\ rst'.want = rst.want /\ ~rst'.restored
    BY <1>0, <2>0, <2>1 DEF Restoration
  <2>3. /\ t \in Time /\ dumps[t] # Absent /\ binlogs[t] # {Absent}
        /\ ~budget.lag => rst.want \subseteq Chosen
        /\ rst.data = LoadDump(t) /\ t # rst.point /\ rst.binlog
    BY <1>0, <2>0 DEF RestInv
  <2>4. rst'.data = LoadDump(t) \cup L /\ Chosen = LoadDump(t) \cup L
    BY <2>2, <2>3 DEF Chosen
  <2>5. \E n \in Count : LoadDump(t) \cup L = 1 .. n
    BY <1>0, <2>0, <2>3, PrefixLoaded
  <2>6. \A k \in LoadDump(t) : k <= dumps[t]
    BY <1>0, <2>3, StateFacts DEF LoadDump
  <2>7. \A k \in L : k \in DOMAIN log /\ log[k] < rst.point
    BY DEF LoadBinlog
  <2> HIDE DEF L
  <2>8. Complete'
    BY <1>0, <1>1, <2>2, <2>3, <2>4, <2>5, <2>6, <2>7 DEF Complete
  <2> QED BY <1>1, <2>2, <2>3, <2>8 DEF RestInv
<1>9. CASE FinishRestore \/ RecordRestored
  <2>1. /\ rst.pc \in {"finish", "status"} /\ ~rst.restored
        /\ rst.pc = "status" => rst.locked
    BY <1>0, <1>3, <1>9 DEF FinishRestore, RecordRestored, RestInv
  <2>2. /\ rst'.dump = rst.dump /\ rst'.binlog = rst.binlog /\ rst'.data = rst.data
        /\ rst'.point = rst.point /\ rst'.want = rst.want /\ rst'.locked
        /\ \/ rst'.pc = "status" /\ ~rst'.restored
           \/ rst'.pc = "ended" /\ rst'.restored
    <3>1. CASE FinishRestore
      BY <1>0, <2>1, <3>1 DEF FinishRestore, Restoration
    <3>2. CASE RecordRestored
      <4>1. rst' = [rst EXCEPT !.pc = "ended", !.restored = TRUE] /\ rst.locked
        BY <2>1, <3>2 DEF RecordRestored
      <4> QED BY <1>0, <4>1 DEF Restoration
    <3> QED BY <1>9, <3>1, <3>2
  <2>3. /\ rst.dump \in Time /\ dumps[rst.dump] # Absent
        /\ rst.binlog => binlogs[rst.dump] # {Absent}
        /\ Complete
    BY <1>0, <2>1 DEF RestInv
  <2>4. Complete'
    BY <1>0, <1>1, <2>2, <2>3 DEF Complete
  <2> QED BY <1>1, <2>2, <2>3, <2>4 DEF RestInv
<1>10. CASE RestoreFails
  <2>1. rst'.pc \in {"failed", "ended"} /\ rst'.restored = rst.restored /\ rst.pc # "ended"
    BY <1>0, <1>10 DEF RestoreFails, Restoration
  <2> QED BY <1>2, <1>3, <2>1
<1>11. CASE DeleteRestoreJob
  <2>1. rst'.pc = "none" /\ ~rst'.restored
    BY <1>0, <1>11 DEF DeleteRestoreJob, Restoration
  <2> QED BY <1>2, <2>1
<1> QED BY <1>4, <1>5, <1>6, <1>7, <1>8, <1>9, <1>10, <1>11 DEF Restore

-----------------------------------------------------------------------------
(* The theorems *)

(* The invariant holds at first. *)
LEMMA InvInit ==
    ASSUME \A s \in Scenarios : KeepsBinlogs(s), Init PROVE Inv
<1>1. ShapeInv
  BY ShapeInit
<1>2. KeepsBinlogs(budget)
  BY DEF Init
<1>3. \A i \in Idx : inst[i].exec = 0 /\ inst[i].starts = <<0>> /\ inst[i].uuid = 0
  BY DEF Init
<1>4. log = <<>> /\ Len(log) = 0 /\ DOMAIN log = {} /\ primary \in Idx
  BY ConstantFacts DEF Init
<1>5. LogInv
  BY <1>3, <1>4 DEF LogInv
<1>6. InstInv
  BY <1>3 DEF InstInv
<1>7. Recorded(backup)
  BY DEF Init, Recorded
<1>8. JobsInv
  <2>1. \A j \in Slots : job[j] = NoJob
    BY DEF Init
  <2>2. NoJob.pc = "idle" /\ NoJob.last = NoBackup /\ NoJob.now.time = 0
        /\ \A i \in Idx : NoJob.pods[i] = Absent /\ NoJob.now.uuids[i] = Absent
    BY DEF NoJob, NoBackup
  <2>3. \A i \in Idx : Absent <= inst[i].uuid
    BY <1>3 DEF Absent
  <2>4. JobInv(NoJob)
    BY <2>2, <2>3 DEF JobInv, Recorded
  <2> QED BY <2>1, <2>2, <2>4 DEF JobsInv
<1>9. BucketInv
  BY DEF Init, BucketInv
<1>10. ChainInv
  BY DEF Init, ChainInv
<1>11. RestInv
  <2>1. rst.pc = "none" /\ ~rst.restored
    BY DEF Init, NoRestoration
  <2> QED BY <2>1 DEF RestInv
<1> QED BY <1>1, <1>2, <1>5, <1>6, <1>7, <1>8, <1>9, <1>10, <1>11 DEF Inv

(* Every step keeps the invariant. *)
LEMMA InvStep == Inv /\ [Next]_vars => Inv'
<1> SUFFICES ASSUME Inv, [Next]_vars PROVE Inv'
  OBVIOUS
<1>0. ShapeInv'
  BY ShapeStep DEF Inv
<1>1. CASE Environment
  <2>1. Later /\ UNCHANGED <<backup, bucketVars, job, rst, recorded>>
    BY <1>1, LaterEnvironment
  <2>2. KeepsBinlogs(budget)'
    BY <2>1 DEF Later, KeepsBinlogs
  <2>3. ChainInv'
    BY <2>1, ChainSame DEF bucketVars
  <2> QED BY <1>0, <1>1, <2>1, <2>2, <2>3, LogEnvironment, BackupKept, JobsQuiet, BucketSame, RestKept
          DEF Inv
<1>2. UNCHANGED clusterVars /\ Later => LogInv' /\ InstInv'
  BY DEF Inv, LogInv, InstInv, clusterVars, Later
<1>3. ASSUME NEW j \in Slots, BackupJob(j) PROVE Inv'
  <2>1. Later /\ UNCHANGED <<clusterVars, rst>>
    BY <1>3, LaterJob
  <2>2. KeepsBinlogs(budget)'
    BY <2>1 DEF Later, KeepsBinlogs
  <2>3. UNCHANGED backup \/ updateStatus(j)
    BY <1>3 DEF BackupJob, NewBackupManager, GetUUIDSet, Choose, backupFull, backupBinlog,
                backupNoBinlog, JobFails
  <2>4. Recorded(backup)'
    BY <1>0, <2>1, <2>3, BackupKept
  <2> QED BY <1>0, <1>2, <1>3, <2>1, <2>2, <2>4, JobsAct, BucketJob, ChainJob, RestKept DEF Inv
<1>4. CASE Restore
  <2>1. Later /\ UNCHANGED <<clusterVars, backup, bucketVars, job, recorded>>
    BY <1>4, LaterRestore
  <2>2. KeepsBinlogs(budget)'
    BY <2>1 DEF Later, KeepsBinlogs
  <2>3. ChainInv'
    BY <2>1, ChainSame DEF bucketVars
  <2> QED BY <1>0, <1>2, <1>4, <2>1, <2>2, <2>3, BackupKept, JobsQuiet, BucketSame, RestStep DEF Inv
<1>5. CASE UNCHANGED vars
  <2>1. UNCHANGED <<clusterVars, backup, bucketVars, job, rst, recorded, budget>>
    BY <1>5 DEF vars
  <2>2. Later
    BY <2>1, LaterSame
  <2>3. KeepsBinlogs(budget)'
    BY <2>2 DEF Later, KeepsBinlogs
  <2>4. ChainInv'
    BY <2>1, <2>2, ChainSame DEF bucketVars
  <2> QED BY <1>0, <1>2, <2>1, <2>2, <2>3, <2>4, BackupKept, JobsQuiet, BucketSame, RestKept DEF Inv
<1> QED BY <1>1, <1>3, <1>4, <1>5 DEF Next

(* The invariant on which the theorems rest. *)
LEMMA InvAlways ==
    ASSUME \A s \in Scenarios : KeepsBinlogs(s) PROVE Spec => []Inv
<1>1. Init => Inv
  BY InvInit
<1> QED BY <1>1, InvStep, PTL DEF Spec

(* Whatever time is restored, the data is that of some moment              *)
(* (FindNearestDump, LoadDump, LoadBinlog), for any sequence of backups,   *)
(* failovers, clones and failing Jobs that keeps the binary logs as long   *)
(* as they are needed.                                                     *)
THEOREM RestoresPrefixAlways ==
    ASSUME \A s \in Scenarios : KeepsBinlogs(s) PROVE Spec => []RestoresPrefix
<1>1. ASSUME Inv PROVE RestoresPrefix
  <2> SUFFICES ASSUME NEW p \in Time PROVE \E n \in Count : Restored(p) = 1 .. n
    BY DEF RestoresPrefix
  <2>0. ShapeInv /\ LogInv /\ BucketInv
    BY <1>1 DEF Inv
  <2>1. CASE DumpsUpTo(p) = {}
    <3>1. Restored(p) = {} /\ 1 .. 0 = {}
      BY <2>1 DEF Restored
    <3> QED BY <3>1, ConstantFacts
  <2>2. CASE DumpsUpTo(p) # {}
    <3> DEFINE t == Latest(DumpsUpTo(p))
    <3>1. t \in Time /\ dumps[t] # Absent /\ dumps[t] \in Count
      BY <2>0, <2>2, NearestDump
    <3>2. Restored(p) = LoadDump(t) \cup (IF t = p THEN {} ELSE LoadBinlog(t, p))
      BY <2>2 DEF Restored
    <3>3. LoadDump(t) = 1 .. dumps[t]
      BY DEF LoadDump
    <3> HIDE DEF t
    <3>4. CASE t = p
      BY <3>1, <3>2, <3>3, <3>4
    <3>5. CASE t # p
      BY <2>0, <3>1, <3>2, <3>5, PrefixLoaded
    <3> QED BY <3>4, <3>5
  <2> QED BY <2>1, <2>2
<1> QED BY <1>1, InvAlways, PTL

(* Between two backups of which the second continued the first, every time *)
(* can be restored with all that is older (ChoosePod, backupBinlog,        *)
(* updateStatus).                                                          *)
THEOREM ChainCompleteAlways ==
    ASSUME \A s \in Scenarios : KeepsBinlogs(s) PROVE Spec => []ChainComplete
<1>1. ASSUME Inv PROVE ChainComplete
  <2> SUFFICES ASSUME ~budget.overlap, NEW n \in DOMAIN recorded,
                      \A t \in Time : recorded[n].prev < t /\ t < recorded[n].time => dumps[t] = Absent,
                      NEW p \in recorded[n].prev + 1 .. recorded[n].time
               PROVE  {k \in 1 .. recorded[n].gtid : log[k] < p} \subseteq Restored(p)
    BY DEF ChainComplete
  <2> DEFINE c == recorded[n]
             t == Latest(DumpsUpTo(p))
  <2>0. ShapeInv /\ LogInv /\ BucketInv /\ ChainInv
    BY <1>1 DEF Inv
  <2>1. c \in [prev: Time, time: Time, gtid: Count]
    BY <2>0, SeqElement DEF ShapeInv, TypeOK
  <2>2. c.prev \in Time /\ c.time \in Time /\ c.gtid \in Nat /\ c.prev \in Nat /\ c.time \in Nat
    BY <2>1, ConstantFacts
  <2>3. dumps[c.prev] # Absent /\ dumps[c.time] = c.gtid /\ Covers(c.prev, c.gtid)
    BY <2>0 DEF ChainInv
  <2>4. p \in Time /\ c.prev < p /\ p <= c.time
    <3>1. c.prev >= 1 /\ c.time <= MaxTime /\ MaxTime \in Nat
      BY <2>2, ConstantFacts DEF Time
    <3>2. p \in c.prev + 1 .. c.time
      OBVIOUS
    <3> HIDE DEF c
    <3> QED BY <2>2, <3>1, <3>2 DEF Time
  <2>5. c.prev \in DumpsUpTo(p)
    BY <2>2, <2>3, <2>4 DEF DumpsUpTo
  <2>6. t \in Time /\ t <= p /\ dumps[t] # Absent /\ c.prev <= t
    BY <2>0, <2>4, <2>5, NearestDump
  <2>7. t = c.prev \/ (t = c.time /\ p = c.time)
    <3>1. t \in Nat /\ p \in Nat
      BY <2>4, <2>6, ConstantFacts
    <3>2. ~(c.prev < t /\ t < c.time)
      BY <2>6
    <3> HIDE DEF c, t
    <3> QED BY <2>2, <2>4, <2>6, <3>1, <3>2
  <2>8. Restored(p) = LoadDump(t) \cup (IF t = p THEN {} ELSE LoadBinlog(t, p))
    BY <2>5 DEF Restored
  <2> HIDE DEF t
  <2>9. CASE t = c.time /\ p = c.time
    BY <2>3, <2>8, <2>9 DEF LoadDump
  <2>10. CASE t = c.prev
    <3>1. t # p
      BY <2>2, <2>4, <2>10
    <3>2. c.gtid <= Len(log) /\ Len(log) \in Nat /\ DOMAIN log = 1 .. Len(log)
      <4>1. dumps[c.time] # Absent
        BY <2>2, <2>3 DEF Absent
      <4> QED BY <2>0, <2>2, <2>3, <4>1, StateFacts DEF BucketInv
    <3>3. ASSUME NEW k \in 1 .. c.gtid, log[k] < p PROVE k \in LoadDump(t) \cup LoadBinlog(t, p)
      <4>1. dumps[t] \in Int
        BY <2>0, <2>6, StateFacts
      <4>2. CASE dumps[t] < k
        <5>1. k \in binlogs[t]
          BY <2>3, <2>10, <4>2 DEF Covers
        <5>2. k \in DOMAIN log
          BY <2>2, <3>2
        <5> QED BY <3>3, <5>1, <5>2 DEF LoadBinlog
      <4>3. CASE ~(dumps[t] < k)
        BY <2>2, <4>1, <4>3 DEF LoadDump
      <4> QED BY <4>2, <4>3
    <3> QED BY <2>8, <3>1, <3>3
  <2> QED BY <2>7, <2>9, <2>10
<1> QED BY <1>1, InvAlways, PTL

(* status.restoredTime says the truth, whatever failed before and however  *)
(* often the restore Job was repeated (reconcileV1RestoreJob, Restore).    *)
THEOREM RestoredTruthfullyAlways ==
    ASSUME \A s \in Scenarios : KeepsBinlogs(s) PROVE Spec => []RestoredTruthfully
<1>1. ASSUME Inv PROVE RestoredTruthfully
  <2> SUFFICES ASSUME rst.restored
               PROVE  /\ rst.locked
                      /\ budget.lag \/ rst.want \subseteq rst.data
                      /\ \E n \in Count : rst.data = 1 .. n
                      /\ \A k \in rst.data : k <= dumps[rst.dump] \/ log[k] < rst.point
    BY DEF RestoredTruthfully
  <2>1. rst.locked /\ Complete
    BY <1>1 DEF Inv, RestInv
  <2> QED BY <2>1, Zenon DEF Complete
<1> QED BY <1>1, InvAlways, PTL

=============================================================================
