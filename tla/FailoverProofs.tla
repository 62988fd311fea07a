---------------------------- MODULE FailoverProofs ----------------------------
(***************************************************************************)
(* The comparison of a failover does not get stale: from the moment the    *)
(* replicas are re-checked until the new primary is recorded, none of them *)
(* gets anything but transactions of its own, however writes, crashes,     *)
(* restarts, lost volumes and deleted Pods interleave with the failover.   *)
(***************************************************************************)
EXTENDS ClusteringProofs

FoSteps == {"foStop", "foRecheck", "foCompare", "foTop", "foWait", "foIndex"}

(* The steps of an operation other than the clone. *)
OpSteps == PassSteps \ {"idle", "panic", "gather", "recheck", "update",
                        "annotate", "clone", "cloneWait"}

-----------------------------------------------------------------------------
(* What the statements of the controller and mysqld itself do to the       *)
(* instances.                                                              *)

(* No clone from outside begins. *)
NoNewClone ==
    \A i \in Index : db'[i].clone = "in progress" => db[i].clone = "in progress"

(* No session begins to wait for acks. *)
NoNewWait == uuid' = uuid /\ \A i \in Index : db'[i].wait \subseteq db[i].wait

(* Releasing and stopping an instance begins no clone and no wait. *)
LEMMA ReleasedFacts ==
    ASSUME NEW inst \in Instance
    PROVE  /\ Released(inst).wait = {} /\ Released(inst).clone = inst.clone
           /\ Released(inst).io = inst.io /\ Released(inst).relay = inst.relay
           /\ Released(inst).exec = inst.exec \cup inst.wait
           /\ Stopped(inst).wait = {} /\ Stopped(inst).clone # "in progress"
           /\ ~Stopped(inst).io /\ Stopped(inst).relay = inst.relay
           /\ Stopped(inst).exec = inst.exec \cup inst.wait
<1>1. /\ Released(inst) \in Instance
      /\ Released(inst).wait = {} /\ Released(inst).clone = inst.clone
      /\ Released(inst).io = inst.io /\ Released(inst).relay = inst.relay
      /\ Released(inst).exec = inst.exec \cup inst.wait
  BY DEF Released, Instance
<1> DEFINE rel == Released(inst)
           clone == IF rel.clone = "in progress" THEN "failed" ELSE rel.clone
<1>2. Stopped(inst) = [rel EXCEPT !.up = FALSE, !.ro = TRUE, !.io = FALSE,
        !.sql = FALSE, !.ssM = FALSE, !.ssS = FALSE, !.clone = clone]
  <2>1. rel \in Instance
    BY <1>1
  <2>2. Stopped(inst) = [rel EXCEPT !.up = FALSE, !.ro = TRUE, !.io = FALSE,
          !.sql = FALSE, !.ssM = FALSE, !.ssS = FALSE,
          !.clone = IF @ = "in progress" THEN "failed" ELSE @]
    BY DEF Stopped
  <2> HIDE DEF rel
  <2> QED BY <2>1, <2>2 DEF Instance
<1>3. clone # "in progress"
  OBVIOUS
<1>4. rel \in Instance /\ rel.wait = {} /\ rel.relay = inst.relay
      /\ rel.exec = inst.exec \cup inst.wait
  BY <1>1
<1> HIDE DEF rel, clone
<1>5. /\ Stopped(inst).wait = {} /\ Stopped(inst).clone # "in progress"
      /\ ~Stopped(inst).io /\ Stopped(inst).relay = inst.relay
      /\ Stopped(inst).exec = inst.exec \cup inst.wait
  BY <1>2, <1>3, <1>4 DEF Instance
<1> QED BY <1>1, <1>5

(* A statement that the controller sends, the start of the clone from      *)
(* outside excepted.                                                       *)
Statement ==
    \/ UNCHANGED mysqlVars
    \/ \E i \in Index :
          \/ KillConnections(i) \/ StopReplicaIOThread(i) \/ SetReadOnly(i)
          \/ SetWritable(i) \/ ConfigurePrimary(i) \/ StartReplica(i)
          \/ \E s \in Source, semisync \in BOOLEAN : ChangeSource(i, s, semisync)
          \/ \E donor \in Index : CloneFrom(i, donor)

(* Statements begin no clone from outside and no wait. *)
LEMMA StatementFacts ==
    ASSUME MySQLTypeOK, Statement PROVE NoNewClone /\ NoNewWait
<1> USE DEF NoNewClone, NoNewWait
<1>0. db \in [Index -> Instance]
  BY DEF MySQLTypeOK
<1>1. CASE UNCHANGED mysqlVars
  BY <1>1 DEF mysqlVars
<1>2. ASSUME NEW k \in Index, KillConnections(k) PROVE NoNewClone /\ NoNewWait
  <2>1. db' = [db EXCEPT ![k] = Released(db[k])] /\ uuid' = uuid
    BY <1>2 DEF KillConnections
  <2>2. Released(db[k]).wait = {} /\ Released(db[k]).clone = db[k].clone
    BY <1>0, ReleasedFacts
  <2> QED BY <1>0, <2>1, <2>2
<1>3. ASSUME NEW k \in Index,
             \/ StopReplicaIOThread(k) \/ SetReadOnly(k)
             \/ SetWritable(k) \/ ConfigurePrimary(k) \/ StartReplica(k)
      PROVE  NoNewClone /\ NoNewWait
  <2>0. db[k] \in Instance
    BY <1>0
  <2>1. CASE StopReplicaIOThread(k)
    BY <1>0, <2>0, <2>1 DEF StopReplicaIOThread, Instance
  <2>2. CASE SetReadOnly(k)
    BY <1>0, <2>0, <2>2 DEF SetReadOnly, Instance
  <2>3. CASE SetWritable(k)
    BY <1>0, <2>0, <2>3 DEF SetWritable, Instance
  <2>4. CASE ConfigurePrimary(k)
    BY <1>0, <2>0, <2>4 DEF ConfigurePrimary, Instance
  <2>5. CASE StartReplica(k)
    BY <1>0, <2>0, <2>5 DEF StartReplica, Instance
  <2> QED BY <1>3, <2>1, <2>2, <2>3, <2>4, <2>5
<1>4. ASSUME NEW k \in Index, NEW s \in Source, NEW semisync \in BOOLEAN,
             ChangeSource(k, s, semisync)
      PROVE  NoNewClone /\ NoNewWait
  <2> DEFINE rel == Released(db[k])
  <2>1. /\ db' = [db EXCEPT ![k] =
                    [rel EXCEPT !.io = FALSE, !.sql = FALSE, !.relay = {},
                        !.src = s, !.ssS = semisync, !.ssM = FALSE]]
        /\ uuid' = uuid
    BY <1>4 DEF ChangeSource
  <2>2. rel \in Instance /\ rel.wait = {} /\ rel.clone = db[k].clone
    BY <1>0, ReleasedFacts, ReleasedType
  <2> HIDE DEF rel
  <2> QED BY <1>0, <2>1, <2>2 DEF Instance
<1>5. ASSUME NEW k \in Index, NEW donor \in Index, CloneFrom(k, donor)
      PROVE  NoNewClone /\ NoNewWait
  <2>1. /\ db' = [db EXCEPT ![k] = Cloned(db[donor].exec)] /\ uuid' = uuid
    BY <1>5 DEF CloneFrom
  <2>2. /\ Cloned(db[donor].exec).wait = {}
        /\ Cloned(db[donor].exec).clone = "completed"
    BY DEF Cloned, FreshInstance
  <2> QED BY <1>0, <2>1, <2>2
<1> QED BY <1>1, <1>2, <1>3, <1>4, <1>5 DEF Statement

(* An instance with a stopped IO thread gets nothing but transactions of   *)
(* its own.                                                                *)
Quiet(i) ==
    /\ ~db'[i].io
    /\ \A t \in db'[i].exec \cup db'[i].relay :
          uuid'[t] # i => t \in Has(i) /\ uuid[t] # i

QuietUnlessCloned ==
    \A i \in Index : ~db[i].io /\ db[i].clone # "in progress" => Quiet(i)

(* The effect of a change of one instance, from what it does to that one.  *)
LEMMA OneInstance ==
    ASSUME MySQLTypeOK, WaitInv, NEW k \in Index, NEW X,
           db' = [db EXCEPT ![k] = X],
           \A t \in Txn, j \in Index : j # k /\ uuid[t] = j => uuid'[t] = j,
           \A t \in X.wait : uuid'[t] = k,
           X.clone = "in progress" => db[k].clone = "in progress",
           ~db[k].io /\ db[k].clone # "in progress" =>
               /\ ~X.io
               /\ \A t \in X.exec \cup X.relay :
                     uuid'[t] # k => t \in Has(k) /\ uuid[t] # k
    PROVE  WaitInv' /\ NoNewClone /\ QuietUnlessCloned
<1>0. db \in [Index -> Instance]
  BY DEF MySQLTypeOK
<1>1. db'[k] = X /\ \A i \in Index : i # k => db'[i] = db[i]
  BY <1>0
<1>a. \A i \in Index : /\ db[i].wait \subseteq Txn /\ db[i].exec \subseteq Txn
                       /\ db[i].relay \subseteq Txn
  BY <1>0 DEF Instance
<1>2. WaitInv'
  <2> SUFFICES ASSUME NEW i \in Index, NEW t \in db'[i].wait PROVE uuid'[t] = i
    BY DEF WaitInv
  <2>1. CASE i = k
    BY <1>1, <2>1
  <2>2. CASE i # k
    <3>1. t \in db[i].wait /\ t \in Txn
      BY <1>1, <1>a, <2>2
    <3>2. uuid[t] = i
      BY <3>1 DEF WaitInv
    <3> QED BY <2>2, <3>1, <3>2
  <2> QED BY <2>1, <2>2
<1>3. NoNewClone
  BY <1>1 DEF NoNewClone
<1>4. QuietUnlessCloned
  <2> SUFFICES ASSUME NEW i \in Index, ~db[i].io, db[i].clone # "in progress"
               PROVE  Quiet(i)
    BY DEF QuietUnlessCloned
  <2>1. CASE i = k
    BY <1>1, <2>1 DEF Quiet
  <2>2. CASE i # k
    <3>1. db'[i] = db[i]
      BY <1>1, <2>2
    <3>2. ASSUME NEW t \in db[i].exec \cup db[i].relay, uuid'[t] # i
          PROVE  t \in Has(i) /\ uuid[t] # i
      <4>1. t \in Has(i) /\ t \in Txn
        BY <1>a DEF Has
      <4> QED BY <2>2, <3>2, <4>1
    <3> QED BY <3>1, <3>2 DEF Quiet
  <2> QED BY <2>1, <2>2
<1> QED BY <1>2, <1>3, <1>4

(* The next transaction has no origin yet. *)
LEMMA NextTxnUnborn ==
    ASSUME Unwritten # {} PROVE NextTxn \in Txn /\ uuid[NextTxn] = Unborn
<1>1. NextTxn = LowestOrdinal(Unwritten)
  BY DEF NextTxn, LowestOrdinal
<1>2. Unwritten \subseteq Txn
  BY DEF Unwritten
<1>3. NextTxn \in Unwritten
  BY <1>1, <1>2, LowestOrdinalExists, TxnAssumption
<1> QED BY <1>3 DEF Unwritten

(* A transaction that is written gets an origin and takes none away. *)
LEMMA Written ==
    ASSUME MySQLTypeOK, Unwritten # {}, NEW o, uuid' = [uuid EXCEPT ![NextTxn] = o]
    PROVE  /\ NextTxn \in Txn /\ uuid'[NextTxn] = o
           /\ \A t \in Txn, j \in Index : uuid[t] = j => uuid'[t] = j
<1>1. NextTxn \in Txn /\ uuid[NextTxn] = Unborn
  BY NextTxnUnborn
<1>2. uuid \in [Txn -> Origins] /\ Unborn \notin Index
  BY IndexFacts DEF MySQLTypeOK, Unborn
<1> HIDE DEF NextTxn
<1> QED BY <1>1, <1>2

(* What mysqld does, or what is done to it. *)
MysqldStep(k) ==
    \/ ClientWrite(k) \/ Commit(k) \/ Receive(k) \/ Apply(k)
    \/ Crash(k) \/ Start(k) \/ Wipe(k) \/ Unlock(k) \/ StrayWrite(k)
    \/ CloneEnd(k) \/ CloneFail(k)

(* Without a running IO thread and a clone, an instance gets nothing but   *)
(* transactions of its own.                                                *)
LEMMA MysqldFacts ==
    ASSUME MySQLTypeOK, WaitInv, NEW k \in Index, MysqldStep(k)
    PROVE  WaitInv' /\ NoNewClone /\ QuietUnlessCloned
<1>0. /\ db \in [Index -> Instance] /\ db[k] \in Instance
      /\ \A t \in db[k].wait : uuid[t] = k
  BY DEF MySQLTypeOK, WaitInv
<1>1. CASE ClientWrite(k)
  <2>1. /\ NextTxn \in Txn /\ uuid'[NextTxn] = k
        /\ \A t \in Txn, j \in Index : uuid[t] = j => uuid'[t] = j
    BY <1>1, Written DEF ClientWrite
  <2>2. db[k].wait \subseteq Txn /\ db[k].exec \subseteq Txn /\ db[k].relay \subseteq Txn
    BY <1>0 DEF Instance
  <2>3. CASE db[k].ssM
    <3> DEFINE X == [db[k] EXCEPT !.wait = @ \cup {NextTxn}]
    <3>1. db' = [db EXCEPT ![k] = X]
      BY <1>0, <1>1, <2>3 DEF ClientWrite
    <3>2. /\ X.wait = db[k].wait \cup {NextTxn} /\ X.clone = db[k].clone
          /\ X.io = db[k].io /\ X.exec = db[k].exec /\ X.relay = db[k].relay
      BY <1>0 DEF Instance
    <3> HIDE DEF X, NextTxn
    <3>3. \A t \in X.wait : uuid'[t] = k
      BY <1>0, <2>1, <2>2, <3>2
    <3>4. \A t \in X.exec \cup X.relay :
             uuid'[t] # k => t \in Has(k) /\ uuid[t] # k
      BY <2>1, <2>2, <3>2 DEF Has
    <3>5. \A u \in Txn, j \in Index : j # k /\ uuid[u] = j => uuid'[u] = j
      BY <2>1
    <3>6. ~db[k].io /\ db[k].clone # "in progress" =>
             /\ ~X.io
             /\ \A u \in X.exec \cup X.relay :
                   uuid'[u] # k => u \in Has(k) /\ uuid[u] # k
      BY <3>2, <3>4
    <3> QED BY <3>1, <3>2, <3>3, <3>5, <3>6, OneInstance
  <2>4. CASE ~db[k].ssM
    <3> DEFINE X == [db[k] EXCEPT !.exec = @ \cup {NextTxn}]
    <3>1. db' = [db EXCEPT ![k] = X]
      BY <1>0, <1>1, <2>4 DEF ClientWrite
    <3>2. /\ X.exec = db[k].exec \cup {NextTxn} /\ X.clone = db[k].clone
          /\ X.io = db[k].io /\ X.wait = db[k].wait /\ X.relay = db[k].relay
      BY <1>0 DEF Instance
    <3> HIDE DEF X, NextTxn
    <3>3. \A t \in X.wait : uuid'[t] = k
      BY <1>0, <2>1, <2>2, <3>2
    <3>4. \A t \in X.exec \cup X.relay :
             uuid'[t] # k => t \in Has(k) /\ uuid[t] # k
      BY <2>1, <2>2, <3>2 DEF Has
    <3>5. \A u \in Txn, j \in Index : j # k /\ uuid[u] = j => uuid'[u] = j
      BY <2>1
    <3>6. ~db[k].io /\ db[k].clone # "in progress" =>
             /\ ~X.io
             /\ \A u \in X.exec \cup X.relay :
                   uuid'[u] # k => u \in Has(k) /\ uuid[u] # k
      BY <3>2, <3>4
    <3> QED BY <3>1, <3>2, <3>3, <3>5, <3>6, OneInstance
  <2> QED BY <2>3, <2>4
<1>2. CASE StrayWrite(k)
  <2>1. /\ NextTxn \in Txn /\ uuid'[NextTxn] = k
        /\ \A t \in Txn, j \in Index : uuid[t] = j => uuid'[t] = j
    BY <1>2, Written DEF StrayWrite
  <2>2. db[k].wait \subseteq Txn /\ db[k].exec \subseteq Txn /\ db[k].relay \subseteq Txn
    BY <1>0 DEF Instance
  <2> DEFINE X == [db[k] EXCEPT !.exec = @ \cup {NextTxn}]
  <2>3. db' = [db EXCEPT ![k] = X]
    BY <1>0, <1>2 DEF StrayWrite
  <2>4. /\ X.exec = db[k].exec \cup {NextTxn} /\ X.clone = db[k].clone
        /\ X.io = db[k].io /\ X.wait = db[k].wait /\ X.relay = db[k].relay
    BY <1>0 DEF Instance
  <2> HIDE DEF X, NextTxn
  <2>5. \A t \in X.wait : uuid'[t] = k
    BY <1>0, <2>1, <2>2, <2>4
  <2>6. \A t \in X.exec \cup X.relay :
           uuid'[t] # k => t \in Has(k) /\ uuid[t] # k
    BY <2>1, <2>2, <2>4 DEF Has
  <2>7. \A u \in Txn, j \in Index : j # k /\ uuid[u] = j => uuid'[u] = j
    BY <2>1
  <2>8. ~db[k].io /\ db[k].clone # "in progress" =>
           /\ ~X.io
           /\ \A u \in X.exec \cup X.relay :
                 uuid'[u] # k => u \in Has(k) /\ uuid[u] # k
    BY <2>4, <2>6
  <2> QED BY <2>3, <2>4, <2>5, <2>7, <2>8, OneInstance
<1>3. CASE Commit(k)
  <2>1. PICK t \in db[k].wait :
           db' = [db EXCEPT ![k] = [db[k] EXCEPT !.wait = @ \ {t},
                                                 !.exec = @ \cup {t}]]
    BY <1>3 DEF Commit
  <2> DEFINE X == [db[k] EXCEPT !.wait = @ \ {t}, !.exec = @ \cup {t}]
  <2>2. /\ X.exec = db[k].exec \cup {t} /\ X.clone = db[k].clone
        /\ X.io = db[k].io /\ X.wait = db[k].wait \ {t} /\ X.relay = db[k].relay
    BY <1>0 DEF Instance
  <2>3. db' = [db EXCEPT ![k] = X] /\ uuid' = uuid
    BY <1>3, <2>1 DEF Commit
  <2> HIDE DEF X
  <2>4. \A u \in Txn, j \in Index : j # k /\ uuid[u] = j => uuid'[u] = j
    BY <2>3
  <2>5. ~db[k].io /\ db[k].clone # "in progress" =>
           /\ ~X.io
           /\ \A u \in X.exec \cup X.relay :
                 uuid'[u] # k => u \in Has(k) /\ uuid[u] # k
    BY <1>0, <2>2, <2>3 DEF Has
  <2>6. \A u \in X.wait : uuid'[u] = k
    BY <1>0, <2>2, <2>3
  <2> QED BY <2>2, <2>3, <2>4, <2>5, <2>6, OneInstance
<1>4. CASE Receive(k)
  <2>1. PICK t : /\ db' = [db EXCEPT ![k].relay = @ \cup {t}] /\ uuid' = uuid
                 /\ db[k].io
    BY <1>4 DEF Receive, Connected
  <2> DEFINE X == [db[k] EXCEPT !.relay = @ \cup {t}]
  <2>2. X.clone = db[k].clone /\ X.wait = db[k].wait
    BY <1>0 DEF Instance
  <2>3. db' = [db EXCEPT ![k] = X]
    BY <1>0, <2>1
  <2> HIDE DEF X
  <2>4. \A u \in Txn, j \in Index : j # k /\ uuid[u] = j => uuid'[u] = j
    BY <2>1
  <2>5. \A u \in X.wait : uuid'[u] = k
    BY <1>0, <2>1, <2>2
  <2> QED BY <2>1, <2>2, <2>3, <2>4, <2>5, OneInstance
<1>5. CASE Apply(k)
  <2> DEFINE t == Oldest(db[k].relay)
             X == [db[k] EXCEPT !.relay = @ \ {t}, !.exec = @ \cup {t}]
  <2>1. db' = [db EXCEPT ![k] = X] /\ uuid' = uuid /\ db[k].relay # {}
    BY <1>5 DEF Apply
  <2>2. t \in db[k].relay
    BY <1>0, <2>1, OldestInSet DEF Instance
  <2> HIDE DEF t
  <2>3. /\ X.exec = db[k].exec \cup {t} /\ X.clone = db[k].clone
        /\ X.io = db[k].io /\ X.wait = db[k].wait /\ X.relay = db[k].relay \ {t}
    BY <1>0 DEF Instance
  <2> HIDE DEF X
  <2>4. \A u \in Txn, j \in Index : j # k /\ uuid[u] = j => uuid'[u] = j
    BY <2>1
  <2>5. ~db[k].io /\ db[k].clone # "in progress" =>
           /\ ~X.io
           /\ \A u \in X.exec \cup X.relay :
                 uuid'[u] # k => u \in Has(k) /\ uuid[u] # k
    BY <1>0, <2>1, <2>2, <2>3 DEF Has
  <2>6. \A u \in X.wait : uuid'[u] = k
    BY <1>0, <2>1, <2>3
  <2> QED BY <2>1, <2>3, <2>4, <2>5, <2>6, OneInstance
<1>6. CASE Crash(k)
  <2>1. db' = [db EXCEPT ![k] = Stopped(db[k])] /\ uuid' = uuid
    BY <1>6 DEF Crash
  <2>2. /\ Stopped(db[k]).wait = {} /\ Stopped(db[k]).clone # "in progress"
        /\ ~Stopped(db[k]).io /\ Stopped(db[k]).relay = db[k].relay
        /\ Stopped(db[k]).exec = db[k].exec \cup db[k].wait
    BY <1>0, ReleasedFacts
  <2> QED BY <1>0, <2>1, <2>2, OneInstance DEF Has
<1>7. CASE Start(k) \/ Unlock(k) \/ CloneFail(k)
  <2>1. ASSUME NEW X, db' = [db EXCEPT ![k] = X], uuid' = uuid,
               X.wait = db[k].wait, X.io = db[k].io,
               X.exec = db[k].exec, X.relay = db[k].relay,
               X.clone = db[k].clone \/ X.clone = "failed"
        PROVE  WaitInv' /\ NoNewClone /\ QuietUnlessCloned
    BY <1>0, <2>1, OneInstance DEF Has
  <2>2. CASE Start(k)
    <3> DEFINE X == [db[k] EXCEPT !.up = TRUE]
    <3>1. db' = [db EXCEPT ![k] = X] /\ uuid' = uuid
      BY <1>0, <2>2 DEF Start
    <3>2. /\ X.wait = db[k].wait /\ X.io = db[k].io
          /\ X.exec = db[k].exec /\ X.relay = db[k].relay
          /\ X.clone = db[k].clone
      BY <1>0 DEF Instance
    <3> HIDE DEF X
    <3> QED BY <2>1, <3>1, <3>2
  <2>3. CASE Unlock(k)
    <3> DEFINE X == [db[k] EXCEPT !.ro = FALSE]
    <3>1. db' = [db EXCEPT ![k] = X] /\ uuid' = uuid
      BY <1>0, <2>3 DEF Unlock
    <3>2. /\ X.wait = db[k].wait /\ X.io = db[k].io
          /\ X.exec = db[k].exec /\ X.relay = db[k].relay
          /\ X.clone = db[k].clone
      BY <1>0 DEF Instance
    <3> HIDE DEF X
    <3> QED BY <2>1, <3>1, <3>2
  <2>4. CASE CloneFail(k)
    <3> DEFINE X == [db[k] EXCEPT !.clone = "failed"]
    <3>1. db' = [db EXCEPT ![k] = X] /\ uuid' = uuid
      BY <1>0, <2>4 DEF CloneFail
    <3>2. /\ X.wait = db[k].wait /\ X.io = db[k].io
          /\ X.exec = db[k].exec /\ X.relay = db[k].relay
          /\ X.clone = "failed"
      BY <1>0 DEF Instance
    <3> HIDE DEF X
    <3> QED BY <2>1, <3>1, <3>2
  <2> QED BY <1>7, <2>2, <2>3, <2>4
<1>8. CASE Wipe(k)
  <2> DEFINE X == [FreshInstance EXCEPT !.up = FALSE]
  <2>1. db' = [db EXCEPT ![k] = X]
    BY <1>8 DEF Wipe
  <2>2. /\ X.wait = {} /\ ~X.io /\ X.exec = {} /\ X.relay = {} /\ X.clone = "none"
    BY DEF FreshInstance
  <2>3. \A t \in Txn, j \in Index : j # k /\ uuid[t] = j => uuid'[t] = j
    BY <1>8 DEF Wipe
  <2> HIDE DEF X
  <2> QED BY <2>1, <2>2, <2>3, OneInstance
<1>9. CASE CloneEnd(k)
  <2>1. db' = [db EXCEPT ![k] = Cloned(ext)] /\ uuid' = uuid /\ db[k].clone = "in progress"
    BY <1>9 DEF CloneEnd
  <2>2. Cloned(ext).wait = {} /\ Cloned(ext).clone = "completed"
    BY DEF Cloned, FreshInstance
  <2> QED BY <2>1, <2>2, OneInstance
<1> QED BY <1>1, <1>2, <1>3, <1>4, <1>5, <1>6, <1>7, <1>8, <1>9 DEF MysqldStep

(* A write to the external mysqld touches no instance. *)
LEMMA ExternalFacts ==
    ASSUME MySQLTypeOK, WaitInv, ExternalWrite
    PROVE  WaitInv' /\ NoNewClone /\ QuietUnlessCloned
<1>1. /\ \A t \in Txn, j \in Index : uuid[t] = j => uuid'[t] = j
      /\ db' = db
  BY Written DEF ExternalWrite
<1>2. db \in [Index -> Instance]
  BY DEF MySQLTypeOK
<1>3. \A i \in Index : /\ db[i].wait \subseteq Txn /\ db[i].exec \subseteq Txn
                       /\ db[i].relay \subseteq Txn
  BY <1>2 DEF Instance
<1>4. WaitInv'
  BY <1>1, <1>3 DEF WaitInv
<1>5. NoNewClone
  BY <1>1 DEF NoNewClone
<1>6. QuietUnlessCloned
  BY <1>1, <1>3 DEF QuietUnlessCloned, Quiet, Has
<1> QED BY <1>4, <1>5, <1>6

(* The restore Job begins no clone and no wait. *)
LEMMA LoadDumpFacts ==
    ASSUME MySQLTypeOK, WaitInv, NEW k \in Index, LoadDump(k)
    PROVE  WaitInv' /\ NoNewClone
<1>0. /\ db \in [Index -> Instance] /\ db[k] \in Instance
      /\ \A i \in Index : db[i].wait \subseteq Txn
  BY DEF MySQLTypeOK, Instance
<1>1. /\ \A t \in Txn, j \in Index : uuid[t] = j => uuid'[t] = j
  BY Written DEF LoadDump
<1> DEFINE X == [db[k] EXCEPT !.exec = {NextTxn}, !.purged = {NextTxn}]
<1>2. db' = [db EXCEPT ![k] = X]
  BY DEF LoadDump
<1>3. X.wait = db[k].wait /\ X.clone = db[k].clone
  BY <1>0 DEF Instance
<1> HIDE DEF X
<1>4. \A i \in Index : db'[i].wait = db[i].wait /\ db'[i].clone = db[i].clone
  BY <1>0, <1>2, <1>3
<1> QED BY <1>0, <1>1, <1>4 DEF WaitInv, NoNewClone

-----------------------------------------------------------------------------
(* What a step does to the pass and to what it depends on *)

(* What the snapshot keeps of the MySQLCluster. *)
SameSpec ==
    /\ ss'.source = ss.source /\ ss'.cloned = ss.cloned
    /\ ss'.offline = ss.offline /\ ss'.restoring = ss.restoring

(* Taking a destination keeps it, unless the pass ends. *)
LEMMA TakeSpec ==
    ASSUME PassTypeOK, NEW dest, Take(dest), pc' # "idle" PROVE SameSpec
<1>1. ss' = [ss EXCEPT !.ready = {}, !.switchPod = FALSE, !.annotated = {}]
  BY DEF Take
<1>2. ss \in StatusSetType
  BY DEF PassTypeOK
<1> QED BY <1>1, <1>2 DEF SameSpec, StatusSetType

(* A step that leaves the MySQLCluster alone, begins no clone from outside *)
(* and goes from operation to operation, stays, or ends the pass.          *)
Move ==
    \/ pc' \in {"idle", "panic"}
    \/ pc' = pc /\ SameSpec /\ ss'.state = ss.state
    \/ /\ pc \in OpSteps /\ pc' \in OpSteps /\ SameSpec
       /\ pc' \in FoSteps => pc \in FoSteps

SpentStays ==
    \A e \in {"promote", "offline"} : events[e] = 0 => events'[e] = 0

Calm ==
    /\ NoNewClone /\ SpentStays /\ Move
    /\ UNCHANGED <<primaryIdx, source, cloned, offline>>
    /\ restoring' => restoring

(* Such a step cannot begin a failover while a clone or a restore runs.    *)
LEMMA CalmKeeps ==
    ASSUME KubeTypeOK, CloneInv, NotRestoring, Calm
    PROVE  CloneInv' /\ NotRestoring'
<1>1. (\A i \in Index : db[i].clone = "in progress" => i = primaryIdx /\ source /\ ~cloned)'
  BY DEF CloneInv, Calm, NoNewClone
<1>2. (source => events["promote"] = 0 /\ events["offline"] = 0 /\ ~offline)'
  BY DEF CloneInv, Calm, SpentStays
<1>3. pc = "update" /\ ss.state # "Cloning" /\ source /\ ~cloned =>
        db'[primaryIdx].clone # "in progress"
  BY DEF CloneInv, Calm, NoNewClone, KubeTypeOK
<1>4. CASE pc' \in {"idle", "panic"}
  BY <1>1, <1>2, <1>4 DEF CloneInv, NotRestoring
<1>5. CASE pc' = pc /\ SameSpec /\ ss'.state = ss.state
  <2>1. UNCHANGED <<primaryIdx, source, cloned, offline>> /\ (restoring' => restoring)
    BY DEF Calm
  <2>2. /\ pc' = pc /\ ss'.state = ss.state
        /\ ss'.source = ss.source /\ ss'.cloned = ss.cloned
        /\ ss'.offline = ss.offline /\ ss'.restoring = ss.restoring
    BY <1>5 DEF SameSpec
  <2>3. NotRestoring'
    BY <2>1, <2>2 DEF NotRestoring
  <2>4. (pc = "update" /\ ss.state # "Cloning" /\ source /\ ~cloned =>
           db[primaryIdx].clone # "in progress")'
    BY <1>3, <2>1, <2>2
  <2>5. CloneInv'
    BY <1>1, <1>2, <2>1, <2>2, <2>4 DEF CloneInv
  <2> QED BY <2>3, <2>5
<1>6. CASE /\ pc \in OpSteps /\ pc' \in OpSteps /\ SameSpec
           /\ pc' \in FoSteps => pc \in FoSteps
  BY <1>1, <1>2, <1>6 DEF CloneInv, NotRestoring, Calm, SameSpec, OpSteps, FoSteps
<1> QED BY <1>4, <1>5, <1>6 DEF Calm, Move

-----------------------------------------------------------------------------
(* configure *)

ConfAll == ConfSteps \cup {"unlabel"}

(* The end of a turn within configure. *)
LEMMA TurnMoves ==
    ASSUME PassTypeOK, pc \in ConfAll, NEW dest \in ConfDest,
           Take(dest) \/ NextTurn(dest)
    PROVE  pc' \in ConfAll \cup {"idle"} /\ (pc' # "idle" => SameSpec)
<1>1. CASE Take(dest)
  <2>1. pc' = dest[1]
    BY <1>1, ConfDestType, TakeType
  <2> QED BY <1>1, <2>1, TakeSpec DEF ConfDest, ConfAll
<1>2. CASE UNCHANGED <<pc, ss>>
  BY <1>2 DEF SameSpec
<1> QED BY <1>1, <1>2 DEF NextTurn

(* Every step of configure stays in configure or ends the pass. *)
LEMMA ConfigureMoves ==
    ASSUME Inv, Configure
    PROVE  /\ pc \in ConfAll
           /\ pc' \in ConfAll \cup {"idle"} /\ (pc' # "idle" => SameSpec)
<1>0. PassTypeOK
  BY DEF Inv, TypeOK
<1>1. /\ ContinueReplica("done") \in ConfDest
      /\ ContinueReplica("repReadOnly") \in ConfDest
      /\ ContinueReplica("repStart") \in ConfDest
      /\ ContinueReplica(CloneEntry(Callee)) \in ConfDest
      /\ ContinueReplica(SourceEntry(Callee)) \in ConfDest
      /\ <<"midStart", todo>> \in ConfDest
  BY <1>0, ContinueDestination, ReplicaEntryType
     DEF RepSteps, ConfDest, ConfSteps, PassTypeOK
<1>2. /\ ToWritable \in ConfDest /\ ToReplicas \in ConfDest
      /\ ToSemiSync \in ConfDest /\ ToPrimWait \in ConfDest
      /\ ToMidSource \in ConfDest /\ ToPrimary \in ConfDest /\ ToKill \in ConfDest
  BY <1>0, ConfigureDestinations
<1>3. /\ pc \in ConfAll
      /\ Idle \/ \E dest \in ConfDest : Take(dest) \/ NextTurn(dest)
  <2>1. CASE removeRoleLabel \/ killAlive \/ addRoleLabel
    BY <1>2, <2>1 DEF removeRoleLabel, killAlive, addRoleLabel, Calling, ConfAll, ConfSteps
  <2>2. CASE midReadOnly \/ midSource \/ midStart \/ primStop
    BY <1>1, <1>2, <2>2 DEF midReadOnly, midSource, midStart, primStop, Calling,
       ConfAll, ConfSteps
  <2>3. CASE primWait \/ primSemiSync \/ makeWritable \/ repPurged
    BY <1>2, <2>3 DEF primWait, primSemiSync, makeWritable, repPurged, Calling,
       ConfAll, ConfSteps
  <2>4. CASE repStop \/ repKill \/ repReadOnly
    BY <1>1, <2>4 DEF repStop, repKill, repReadOnly, Calling, ConfAll, ConfSteps
  <2>5. CASE repClone \/ repChange \/ repStart
    BY <1>1, <2>5 DEF repClone, repChange, repStart, Calling, ConfAll, ConfSteps
  <2> QED BY <2>1, <2>2, <2>3, <2>4, <2>5 DEF Configure
<1>4. CASE Idle
  BY <1>3, <1>4 DEF Idle
<1> QED BY <1>0, <1>3, <1>4, TurnMoves

(* The calls of configure are statements to instances of the cluster, and  *)
(* change nothing of the MySQLCluster.                                     *)
LEMMA ConfigureFrame ==
    ASSUME Inv, Configure
    PROVE  /\ Statement
           /\ UNCHANGED <<primaryIdx, source, cloned, offline, restoring, events>>
<1>0. /\ pods \subseteq Index /\ ss.primary \in Index /\ ss.source \in BOOLEAN
  BY DEF Inv, TypeOK, KubeTypeOK, PassTypeOK, StatusSetType
<1>1. ASSUME NEW s, Calling(s) PROVE Callee \in Index
  BY <1>0, <1>1 DEF Calling, Answers, Reachable
<1>2. ss.primary \in Source /\ External \in Source /\ (~ss.source) \in BOOLEAN
  BY <1>0 DEF Source
<1> USE DEF Statement
<1>3. CASE removeRoleLabel \/ addRoleLabel
  BY <1>3 DEF removeRoleLabel, addRoleLabel, SetRole
<1>4. UNCHANGED Outside =>
        UNCHANGED <<primaryIdx, source, cloned, offline, restoring, events>>
  BY DEF Outside, kubeVars
<1>5. CASE primWait \/ repPurged
  BY <1>4, <1>5 DEF primWait, repPurged
<1>6. CASE killAlive \/ repKill
  BY <1>1, <1>4, <1>6 DEF killAlive, repKill
<1>7. CASE midReadOnly \/ repReadOnly
  BY <1>0, <1>1, <1>4, <1>7 DEF midReadOnly, repReadOnly
<1>8. CASE midSource
  BY <1>0, <1>2, <1>4, <1>8 DEF midSource
<1>9. CASE repChange
  BY <1>1, <1>2, <1>4, <1>9 DEF repChange
<1>10. CASE midStart \/ repStart
  BY <1>0, <1>1, <1>4, <1>10 DEF midStart, repStart
<1>11. CASE primStop \/ repStop
  BY <1>0, <1>1, <1>4, <1>11 DEF primStop, repStop
<1>12. CASE primSemiSync \/ makeWritable
  BY <1>0, <1>4, <1>12 DEF primSemiSync, makeWritable
<1>13. CASE repClone
  BY <1>0, <1>1, <1>4, <1>13 DEF repClone
<1> QED BY <1>3, <1>5, <1>6, <1>7, <1>8, <1>9, <1>10, <1>11, <1>12, <1>13
       DEF Configure

(* Outside of a failover nothing is claimed of the replicas. *)
LEMMA NoFailover == ASSUME pc' \notin FoSteps PROVE StoppedInv'
BY DEF StoppedInv, FoSteps

(* No session waits for acks of another instance's transaction. *)
LEMMA NoNewWaitKeeps == ASSUME WaitInv, NoNewWait PROVE WaitInv'
BY DEF WaitInv, NoNewWait

(* configure keeps the invariant. *)
LEMMA ConfigureCompare == ASSUME Inv, CompareInv, Configure PROVE CompareInv'
<1>1. KubeTypeOK /\ MySQLTypeOK /\ WaitInv /\ CloneInv /\ NotRestoring
  BY DEF Inv, TypeOK, CompareInv
<1>2. NoNewClone /\ NoNewWait
  BY <1>1, ConfigureFrame, StatementFacts
<1>3. SpentStays
  BY ConfigureFrame DEF SpentStays
<1>4. pc' \notin FoSteps
  BY ConfigureMoves DEF ConfAll, ConfSteps, FoSteps
<1>5. Move
  <2>1. ConfAll \subseteq OpSteps
    BY DEF ConfAll, ConfSteps, OpSteps, PassSteps
  <2> QED BY <1>4, <2>1, ConfigureMoves DEF Move
<1>6. Calm
  BY <1>2, <1>3, <1>5, ConfigureFrame DEF Calm
<1> QED BY <1>1, <1>2, <1>4, <1>6, CalmKeeps, NoFailover, NoNewWaitKeeps
       DEF CompareInv

-----------------------------------------------------------------------------
(* The end of a pass, switchover, and the steps of failover *)

(* A pass that ends keeps the invariant. *)
LEMMA EndCompare ==
    ASSUME Inv, CompareInv, pc' \in {"idle", "panic"}, UNCHANGED mysqlVars,
           SpentStays, UNCHANGED <<primaryIdx, source, cloned, offline, restoring>>
    PROVE  CompareInv'
<1>1. KubeTypeOK /\ MySQLTypeOK /\ WaitInv /\ CloneInv /\ NotRestoring
  BY DEF Inv, TypeOK, CompareInv
<1>2. NoNewClone /\ NoNewWait
  BY <1>1, StatementFacts DEF Statement
<1>3. Calm
  BY <1>2 DEF Calm, Move
<1>4. pc' \notin FoSteps
  BY DEF FoSteps
<1> QED BY <1>1, <1>2, <1>3, <1>4, CalmKeeps, NoFailover, NoNewWaitKeeps
       DEF CompareInv

(* Events that are spent stay spent. *)
LEMMA SpentFrame == ASSUME UNCHANGED events PROVE SpentStays
BY DEF SpentStays

(* No event gives another one back. *)
LEMMA SpentHappens ==
    ASSUME events \in [Events -> Nat], NEW e \in Events, Happens(e) PROVE SpentStays
BY DEF SpentStays, Happens, Events

(* A call that fails or times out, an interrupted pass and the restart of  *)
(* the controller keep the invariant.                                      *)
LEMMA FailureCompare ==
    ASSUME Inv, CompareInv,
           CallFails \/ CallTimesOut \/ Abort \/ ControllerRestart \/ annotateStops
    PROVE  CompareInv'
<1>1. /\ pc' \in {"idle", "panic"} /\ UNCHANGED mysqlVars
      /\ UNCHANGED <<primaryIdx, source, cloned, offline, restoring>>
  BY DEF CallFails, CallTimesOut, Abort, ControllerRestart, annotateStops, Idle,
     Outside, kubeVars
<1>2. SpentStays
  <2>1. UNCHANGED events \/ Happens("abort")
    BY DEF CallFails, CallTimesOut, Abort, ControllerRestart, annotateStops, Outside
  <2>2. events \in [Events -> Nat] /\ "abort" \in Events
    BY DEF Inv, TypeOK, Events
  <2> QED BY <2>1, <2>2, SpentFrame, SpentHappens
<1> QED BY <1>1, <1>2, EndCompare

(* While an operation runs, no clone from outside does. *)
LEMMA NoCloneInOperation ==
    ASSUME CloneInv, pc \in OpSteps
    PROVE  (cloned \/ ~source) /\ \A i \in Index : db[i].clone # "in progress"
BY DEF CloneInv, OpSteps

(* The recorded primary may change only when no clone runs. *)
LEMMA IndexCompare ==
    ASSUME Inv, CompareInv, swIndex \/ foIndex PROVE CompareInv'
<1>1. KubeTypeOK /\ MySQLTypeOK /\ PassTypeOK /\ WaitInv /\ CloneInv /\ NotRestoring
  BY DEF Inv, TypeOK, CompareInv
<1>2. /\ pc \in OpSteps /\ pc' \in {"idle", "swDemote"}
      /\ pc' # "idle" => SameSpec
      /\ UNCHANGED <<mysqlVars, cloned, source, restoring, offline, events>>
  <2>1. CASE foIndex
    BY <2>1 DEF foIndex, Idle, OpSteps, PassSteps
  <2>2. CASE swIndex
    <3> DEFINE d == IF ss.demoted THEN <<"swDemote", {}>> ELSE ToIdle
    <3>1. pc = "swIndex" /\ Take(d) /\ d \in PassSteps \X SUBSET Index
          /\ d[1] \in {"idle", "swDemote"}
          /\ UNCHANGED <<mysqlVars, cloned, source, restoring, offline, events>>
      BY <2>2 DEF swIndex, ToIdle, PassSteps
    <3> HIDE DEF d
    <3>2. pc' = d[1]
      BY <1>1, <3>1, TakeType
    <3> QED BY <1>1, <3>1, <3>2, TakeSpec DEF OpSteps, PassSteps
  <2> QED BY <2>1, <2>2
<1>3. (cloned \/ ~source) /\ \A i \in Index : db[i].clone # "in progress"
  BY <1>1, <1>2, NoCloneInOperation
<1>4. db' = db /\ uuid' = uuid
  BY <1>2 DEF mysqlVars
<1>5. CloneInv'
  BY <1>1, <1>2, <1>3, <1>4 DEF CloneInv, SameSpec, OpSteps
<1>6. NotRestoring'
  BY <1>1, <1>2 DEF NotRestoring, SameSpec, OpSteps
<1>7. WaitInv'
  BY <1>1, <1>4 DEF WaitInv
<1>8. StoppedInv'
  BY <1>2, NoFailover DEF FoSteps
<1> QED BY <1>5, <1>6, <1>7, <1>8 DEF CompareInv

SwAll == {"swReadOnly", "swKill", "swStatus", "swWait"}

(* Every other step of switchover keeps the invariant. *)
LEMMA SwitchoverCompare == ASSUME Inv, CompareInv, Switchover PROVE CompareInv'
<1>1. KubeTypeOK /\ MySQLTypeOK /\ PassTypeOK /\ WaitInv /\ CloneInv /\ NotRestoring
  BY DEF Inv, TypeOK, CompareInv
<1>2. CASE swIndex
  BY <1>2, IndexCompare
<1>3. CASE swDemote
  <2>1. /\ pc' = "idle" /\ UNCHANGED mysqlVars /\ UNCHANGED events
        /\ UNCHANGED <<primaryIdx, source, cloned, offline, restoring>>
    BY <1>3 DEF swDemote, Idle
  <2> QED BY <2>1, EndCompare, SpentFrame
<1>4. CASE swReadOnly \/ swReadOnlySlow \/ swKill \/ swStatus \/ swWait
  <2>0. ss.primary \in Index /\ ss \in StatusSetType
    BY <1>1 DEF PassTypeOK, StatusSetType
  <2>1. Statement /\ UNCHANGED Outside
    BY <1>4, <2>0 DEF swReadOnly, swReadOnlySlow, swKill, swStatus, swWait, Statement
  <2>2. pc \in SwAll /\ pc' \in SwAll \cup {"swIndex"} /\ SameSpec
    <3>1. CASE swReadOnly \/ swKill \/ swWait
      <4>1. PICK d \in {<<"swKill", todo>>, <<"swStatus", todo>>, <<"swIndex", {}>>} :
               Take(d)
        BY <3>1 DEF swReadOnly, swKill, swWait
      <4>2. d \in PassSteps \X SUBSET Index
        BY <1>1 DEF PassTypeOK, PassSteps
      <4>3. pc' = d[1] /\ d[1] \in {"swKill", "swStatus", "swIndex"}
        BY <1>1, <4>1, <4>2, TakeType
      <4>4. SameSpec
        BY <1>1, <4>1, <4>3, TakeSpec
      <4>5. pc \in SwAll
        BY <3>1 DEF swReadOnly, swKill, swWait, Calling, SwAll
      <4> QED BY <4>3, <4>4, <4>5 DEF SwAll
    <3>2. CASE swReadOnlySlow
      BY <3>2 DEF swReadOnlySlow, Calling, SwAll, passVars, SameSpec
    <3>3. CASE swStatus
      <4>1. /\ pc = "swStatus" /\ pc' = "swWait"
            /\ ss' = [ss EXCEPT !.goal = db[ss.primary].exec]
        BY <3>3 DEF swStatus, Calling
      <4>2. SameSpec
        BY <2>0, <4>1 DEF StatusSetType, SameSpec
      <4> QED BY <4>1, <4>2 DEF SwAll
    <3> QED BY <1>4, <3>1, <3>2, <3>3
  <2>3. NoNewClone /\ NoNewWait
    BY <1>1, <2>1, StatementFacts
  <2>4. SpentStays /\ UNCHANGED <<primaryIdx, source, cloned, offline, restoring>>
    BY <2>1, SpentFrame DEF Outside, kubeVars
  <2>5. Move /\ pc' \notin FoSteps
    BY <2>2 DEF Move, SwAll, OpSteps, PassSteps, FoSteps
  <2> QED BY <1>1, <2>3, <2>4, <2>5, CalmKeeps, NoFailover, NoNewWaitKeeps
         DEF CompareInv, Calm
<1> QED BY <1>2, <1>3, <1>4 DEF Switchover


(* The comparison depends on the re-checked statuses and on the instances. *)
LEMMA FixedFrame ==
    ASSUME db' = db, uuid' = uuid, ss'.st = ss.st, NEW i, Fixed(i)
    PROVE  Fixed(i)'
BY DEF Fixed, Has, Gtids

(* One IO thread after the other is stopped. *)
LEMMA StopStopped == ASSUME Inv, StoppedInv, foStop PROVE StoppedInv'
<1>0. PassTypeOK /\ MySQLTypeOK /\ db \in [Index -> Instance]
  BY DEF Inv, TypeOK, MySQLTypeOK
<1>1. /\ pc = "foStop" /\ db' = [db EXCEPT ![Callee].io = FALSE]
      /\ NextTurn(<<"foRecheck", Runners>>)
  BY DEF foStop, Calling, StopReplicaIOThread
<1>2. Callee \in Index
  BY DEF foStop, Calling, Answers, Reachable, Inv, TypeOK, KubeTypeOK
<1>3. \A i \in Index : (~db[i].io \/ i = Callee) => ~db'[i].io
  BY <1>0, <1>1, <1>2 DEF Instance
<1>4. Runners \subseteq Index
  BY <1>0, RunnersType
<1>5. CASE todo # {Callee}
  <2>1. todo' = todo \ {Callee} /\ pc' = pc /\ Runners' = Runners
    BY <1>1, <1>5 DEF NextTurn, Runners
  <2>2. \A i \in Runners \ todo : ~db[i].io
    BY <1>1 DEF StoppedInv
  <2>3. \A i \in Runners \ (todo \ {Callee}) : ~db'[i].io
    BY <1>3, <1>4, <2>2
  <2> QED BY <1>1, <2>1, <2>3 DEF StoppedInv
<1>6. CASE todo = {Callee}
  <2>1. Take(<<"foRecheck", Runners>>)
    BY <1>1, <1>6 DEF NextTurn
  <2>2. <<"foRecheck", Runners>> \in PassSteps \X SUBSET Index
    BY <1>4 DEF PassSteps
  <2>3. pc' = "foRecheck" /\ todo' = Runners /\ SameView
    BY <1>0, <2>1, <2>2, TakeType
  <2>4. Runners' = Runners
    BY <2>3 DEF Runners, SameView
  <2>5. \A i \in Runners \ {Callee} : ~db[i].io
    BY <1>1, <1>6 DEF StoppedInv
  <2>6. \A i \in Runners : ~db'[i].io
    BY <1>3, <1>4, <2>5
  <2> QED BY <2>3, <2>4, <2>6 DEF StoppedInv
<1> QED BY <1>5, <1>6

(* The status of a re-checked instance contains all it has. *)
LEMMA RecheckStopped == ASSUME Inv, StoppedInv, foRecheck PROVE StoppedInv'
<1>0. PassTypeOK /\ MySQLTypeOK /\ KubeTypeOK /\ ss \in StatusSetType
  BY DEF Inv, TypeOK, PassTypeOK
<1>1. /\ pc = "foRecheck" /\ Callee \in Index
      /\ ss' = [ss EXCEPT !.st[Callee] = GetStatus(Callee), !.cand = NoTopRunner]
      /\ \/ todo = {Callee} /\ pc' = "foCompare"
         \/ todo # {Callee} /\ todo' = todo \ {Callee} /\ pc' = pc
      /\ db' = db /\ uuid' = uuid
  BY <1>0 DEF foRecheck, Calling, Answers, Reachable, KubeTypeOK, mysqlVars
<1>2. /\ ss'.st[Callee] = GetStatus(Callee)
      /\ \A i \in Index : i # Callee => ss'.st[i] = ss.st[i]
      /\ ss'.known = ss.known /\ ss'.errants = ss.errants /\ ss'.primary = ss.primary
  BY <1>0, <1>1 DEF StatusSetType
<1>3. Runners' = Runners /\ Runners \subseteq Index
  BY <1>0, <1>2, RunnersType DEF Runners
<1>4. \A i \in Runners : ~db[i].io /\ (i \notin todo => Fixed(i))
  BY <1>1 DEF StoppedInv
<1>5. ASSUME NEW i \in Runners, i \notin todo \ {Callee} PROVE Fixed(i)'
  <2>1. CASE i = Callee
    <3>1. Gtids(GetStatus(i)) = Has(i)
      BY DEF Gtids, GetStatus, Has
    <3>2. Gtids(ss'.st[i]) = Has(i)
      BY <1>2, <2>1, <3>1
    <3> QED BY <1>1, <1>4, <3>2 DEF Fixed, Has
  <2>2. CASE i # Callee
    <3>1. Fixed(i) /\ ss'.st[i] = ss.st[i]
      BY <1>2, <1>3, <1>4, <1>5, <2>2
    <3> QED BY <1>1, <3>1 DEF Fixed, Has
  <2> QED BY <2>1, <2>2
<1>6. CASE todo = {Callee} /\ pc' = "foCompare"
  BY <1>3, <1>5, <1>6 DEF StoppedInv
<1>7. CASE todo # {Callee} /\ todo' = todo \ {Callee} /\ pc' = pc
  <2>1. \A i \in Runners : ~db'[i].io /\ (i \notin todo' => Fixed(i)')
    BY <1>1, <1>4, <1>5, <1>7
  <2> QED BY <1>1, <1>3, <1>7, <2>1 DEF StoppedInv
<1> QED BY <1>1, <1>6, <1>7

(* Every step of failover keeps the invariant. *)
LEMMA FailoverCompare == ASSUME Inv, CompareInv, Failover PROVE CompareInv'
<1>1. /\ KubeTypeOK /\ MySQLTypeOK /\ PassTypeOK /\ WaitInv /\ CloneInv
      /\ NotRestoring /\ StoppedInv /\ ss \in StatusSetType
  BY DEF Inv, TypeOK, CompareInv, PassTypeOK
<1>2. CASE foIndex
  BY <1>2, IndexCompare
<1>3. CASE foGiveUp
  <2>1. /\ pc' = "idle" /\ UNCHANGED mysqlVars /\ UNCHANGED events
        /\ UNCHANGED <<primaryIdx, source, cloned, offline, restoring>>
    BY <1>3 DEF foGiveUp, Idle, Outside, kubeVars
  <2> QED BY <2>1, EndCompare, SpentFrame
<1>4. ASSUME Statement, UNCHANGED Outside, StoppedInv',
             pc \in FoSteps, pc' \in FoSteps, SameSpec
      PROVE  CompareInv'
  <2>1. NoNewClone /\ NoNewWait
    BY <1>1, <1>4, StatementFacts
  <2>2. SpentStays /\ UNCHANGED <<primaryIdx, source, cloned, offline, restoring>>
    BY <1>4, SpentFrame DEF Outside, kubeVars
  <2>3. Move
    BY <1>4 DEF Move, OpSteps, PassSteps, FoSteps
  <2> QED BY <1>1, <1>4, <2>1, <2>2, <2>3, CalmKeeps, NoNewWaitKeeps
         DEF CompareInv, Calm
<1>5. CASE foStop
  <2>1. Statement /\ UNCHANGED Outside
    <3>1. Callee \in Index
      BY <1>1, <1>5 DEF foStop, Calling, Answers, Reachable, KubeTypeOK
    <3> QED BY <1>5, <3>1 DEF foStop, Statement
  <2>2. pc = "foStop" /\ NextTurn(<<"foRecheck", Runners>>)
    BY <1>5 DEF foStop, Calling
  <2>3. <<"foRecheck", Runners>> \in PassSteps \X SUBSET Index
    BY <1>1, RunnersType DEF PassSteps
  <2>4. pc' \in {"foStop", "foRecheck"} /\ SameSpec
    <3>1. CASE Take(<<"foRecheck", Runners>>)
      <4>1. pc' = "foRecheck"
        BY <1>1, <2>3, <3>1, TakeType
      <4> QED BY <1>1, <3>1, <4>1, TakeSpec
    <3>2. CASE UNCHANGED <<pc, ss>>
      BY <2>2, <3>2 DEF SameSpec
    <3> QED BY <2>2, <3>1, <3>2 DEF NextTurn
  <2> QED BY <1>1, <1>4, <1>5, <2>1, <2>2, <2>4, StopStopped DEF FoSteps
<1>6. CASE foRecheck
  <2>1. /\ pc = "foRecheck" /\ pc' \in {"foRecheck", "foCompare"}
        /\ ss' = [ss EXCEPT !.st[Callee] = GetStatus(Callee), !.cand = NoTopRunner]
        /\ UNCHANGED <<mysqlVars, Outside>>
    BY <1>6 DEF foRecheck, Calling
  <2>2. SameSpec
    BY <1>1, <2>1 DEF SameSpec, StatusSetType
  <2> QED BY <1>1, <1>4, <1>6, <2>1, <2>2, RecheckStopped DEF FoSteps, Statement
<1>7. CASE foCompare \/ foTop \/ foWait
  <2>1. /\ pc \in {"foCompare", "foTop", "foWait"}
        /\ pc' \in {"foCompare", "foTop", "foWait", "foIndex"}
        /\ UNCHANGED <<mysqlVars, Outside>>
        /\ SameSpec /\ ss'.st = ss.st /\ ss'.known = ss.known
        /\ ss'.errants = ss.errants /\ ss'.primary = ss.primary
    <3>1. CASE foCompare
      <4>1. /\ pc = "foCompare" /\ pc' \in {"foCompare", "foTop"}
            /\ \E c : ss' = [ss EXCEPT !.cand = c]
            /\ UNCHANGED <<mysqlVars, Outside>>
        BY <3>1 DEF foCompare
      <4> QED BY <1>1, <4>1 DEF SameSpec, StatusSetType
    <3>2. CASE foTop
      <4>1. /\ pc = "foTop" /\ pc' = "foWait"
            /\ \E g : ss' = [ss EXCEPT !.goal = g]
            /\ UNCHANGED <<mysqlVars, Outside>>
        BY <3>2 DEF foTop
      <4> QED BY <1>1, <4>1 DEF SameSpec, StatusSetType
    <3>3. CASE foWait
      <4>1. /\ pc = "foWait" /\ Take(<<"foIndex", {}>>)
            /\ UNCHANGED <<mysqlVars, Outside>>
        BY <3>3 DEF foWait, Calling
      <4>2. pc' = "foIndex" /\ SameView
        BY <1>1, <4>1, TakeType DEF PassSteps
      <4>3. SameSpec
        BY <1>1, <4>1, <4>2, TakeSpec
      <4> QED BY <4>1, <4>2, <4>3 DEF SameView
    <3> QED BY <1>7, <3>1, <3>2, <3>3
  <2>2. \A i \in Runners : Fixed(i)
    BY <1>1, <2>1 DEF StoppedInv
  <2>3. Runners' = Runners
    BY <2>1 DEF Runners
  <2>4. \A i \in Runners : Fixed(i)'
    BY <2>1, <2>2, FixedFrame DEF mysqlVars
  <2>5. StoppedInv'
    BY <2>1, <2>3, <2>4 DEF StoppedInv
  <2> QED BY <1>4, <2>1, <2>5 DEF FoSteps, Statement
<1> QED BY <1>2, <1>3, <1>5, <1>6, <1>7 DEF Failover

-----------------------------------------------------------------------------
(* GatherStatus and the choice of the operation *)

(* What a conclusion says of a clone from outside and of a restore. *)
LEMMA ConclusionFacts ==
    ASSUME NEW s
    PROVE  /\ DecideState(s) = "Cloning" => s.source /\ ~s.cloned
           /\ DecideState(s) # "Cloning" /\ s.source /\ ~s.cloned /\ ~s.offline =>
                 PstKnown(s) /\ Pst(s).clone # "in progress"
           /\ s.restoring => DecideState(s) # "Failed"
BY DEF DecideState, isOffline, isCloning, isRestoring

(* The snapshot that the conclusion is drawn from shows the clone state    *)
(* that the primary has now.                                               *)
LEMMA SeenFacts ==
    ASSUME Inv, FinishGather
    PROVE  /\ SameSpec
           /\ ss'.state = "Cloning" => ss.source /\ ~ss.cloned
           /\ ss'.state # "Cloning" /\ ss.source /\ ~ss.cloned /\ ~ss.offline =>
                 db[primaryIdx].clone # "in progress"
           /\ ss.restoring => ss'.state # "Failed"
           /\ pc = "recheck" /\ pc' = "update"
           /\ UNCHANGED <<mysqlVars, kubeVars>>
           /\ events' = events \/ \E e \in {"delay", "flaky"} : Happens(e)
<1>0. /\ PassTypeOK /\ MySQLTypeOK /\ PassInv /\ pc = "recheck"
      /\ ss \in StatusSetType /\ ss.primary \in Index /\ ss.primary = primaryIdx
  BY DEF Inv, TypeOK, FinishGather, PassTypeOK, StatusSetType, PassInv, SnapshotInv
<1>1. PICK ready \in SUBSET pods, delay \in BOOLEAN :
         /\ Seen(WithErrants(Rechecked), ready, delay)
         /\ ss' = Decided([WithoutHangups(WithErrants(Rechecked)) EXCEPT
                              !.ready = ready, !.prevent = delay])
  BY DEF FinishGather
<1>2. events' = events \/ \E e \in {"delay", "flaky"} : Happens(e)
  BY <1>1 DEF Seen
<1> DEFINE a == Rechecked
           b == WithErrants(a)
           c == WithoutHangups(b)
           d == [c EXCEPT !.ready = ready, !.prevent = delay]
<1>3. /\ a \in StatusSetType
      /\ a.source = ss.source /\ a.cloned = ss.cloned /\ a.offline = ss.offline
      /\ a.restoring = ss.restoring /\ a.primary = ss.primary /\ a.known = ss.known
      /\ a.recorded = ss.recorded
      /\ a.primary \in a.known => a.st[a.primary] = GetStatus(ss.primary)
  <2>1. GetStatus(ss.primary) \in InstanceStatus
    BY <1>0, GetStatusType
  <2> QED BY <1>0, <2>1 DEF Rechecked, StatusSetType, PstKnown
<1> HIDE DEF a
<1>4. /\ b \in StatusSetType
      /\ b.source = ss.source /\ b.cloned = ss.cloned /\ b.offline = ss.offline
      /\ b.restoring = ss.restoring /\ b.primary = ss.primary
      /\ b.primary \in b.known => b.st[b.primary] = GetStatus(ss.primary)
  <2>1. a.primary \notin a.recorded
    BY <1>0, <1>3 DEF PassInv, SnapshotInv
  <2>2. b \in StatusSetType
    BY <1>3, <2>1, WithErrantsType
  <2>3. b = [a EXCEPT !.errants = detectErrants(a, uuid)]
    BY DEF WithErrants
  <2> QED BY <1>3, <2>2, <2>3 DEF StatusSetType
<1> HIDE DEF b
<1>5. /\ c \in StatusSetType
      /\ c.source = ss.source /\ c.cloned = ss.cloned /\ c.offline = ss.offline
      /\ c.restoring = ss.restoring /\ c.primary = ss.primary
      /\ c.primary \in c.known => c.st[c.primary] = GetStatus(ss.primary)
  <2> DEFINE st == [i \in Index |-> IF i \in hangupReplicas(b) THEN NilStatus
                                    ELSE b.st[i]]
  <2>1. c \in StatusSetType
    BY <1>4, WithoutHangupsType
  <2>2. c = [b EXCEPT !.known = b.known \ hangupReplicas(b), !.st = st]
    BY <1>4 DEF WithoutHangups, StatusSetType
  <2>3. ss.primary \notin hangupReplicas(b) /\ st[ss.primary] = b.st[ss.primary]
    BY <1>0, <1>4 DEF hangupReplicas
  <2> HIDE DEF st
  <2> QED BY <1>4, <2>1, <2>2, <2>3 DEF StatusSetType
<1> HIDE DEF c
<1>6. /\ d.source = ss.source /\ d.cloned = ss.cloned /\ d.offline = ss.offline
      /\ d.restoring = ss.restoring /\ d.primary = ss.primary
      /\ d.primary \in d.known => d.st[d.primary] = GetStatus(ss.primary)
      /\ d \in StatusSetType
  <2>1. ready \subseteq Index /\ delay \in BOOLEAN
    BY <1>1 DEF Inv, TypeOK, KubeTypeOK
  <2> QED BY <1>5, <2>1 DEF StatusSetType
<1>7. ss' = Decided(d)
  BY <1>1 DEF c, b, a
<1> HIDE DEF d
<1>8. SameSpec /\ ss'.state = DecideState(d)
  BY <1>6, <1>7 DEF Decided, SameSpec, StatusSetType
<1>9. PstKnown(d) => Pst(d).clone = db[primaryIdx].clone
  BY <1>0, <1>6 DEF PstKnown, Pst, GetStatus
<1>10. pc' = "update" /\ UNCHANGED <<mysqlVars, kubeVars>>
  BY DEF FinishGather
<1> QED BY <1>0, <1>2, <1>6, <1>8, <1>9, <1>10, ConclusionFacts

(* GatherStatus keeps the invariant. *)
LEMMA GatherCompare == ASSUME Inv, CompareInv, Gather PROVE CompareInv'
<1>1. /\ KubeTypeOK /\ MySQLTypeOK /\ PassTypeOK /\ WaitInv /\ CloneInv
      /\ NotRestoring /\ ss \in StatusSetType /\ events \in [Events -> Nat]
  BY DEF Inv, TypeOK, CompareInv, PassTypeOK
<1>2. ASSUME db' = db, uuid' = uuid, pc' \in {"gather", "recheck", "update"},
             SpentStays, CloneInv', NotRestoring'
      PROVE  CompareInv'
  BY <1>1, <1>2, NoFailover DEF CompareInv, WaitInv, FoSteps
<1>3. CASE GatherBegin
  <2>1. /\ pc' = "gather" /\ db' = db /\ uuid' = uuid
        /\ ss'.source = source /\ ss'.cloned = cloned
        /\ ss'.restoring = restoring /\ ss'.offline = offline
        /\ UNCHANGED <<primaryIdx, source, cloned, offline, restoring, events>>
    BY <1>3 DEF GatherBegin, NoStatusSet, Outside, kubeVars, mysqlVars
  <2>2. CloneInv' /\ NotRestoring'
    BY <1>1, <2>1 DEF CloneInv, NotRestoring
  <2> QED BY <1>2, <2>1, <2>2, SpentFrame
<1>4. ASSUME NEW i \in Index, ReadStatus(i) PROVE CompareInv'
  <2>1. /\ pc = "gather" /\ pc' \in {"gather", "recheck"}
        /\ ss' = ss \/ ss' = [ss EXCEPT !.known = @ \cup {i}, !.st[i] = GetStatus(i)]
        /\ UNCHANGED <<mysqlVars, Outside>>
    BY <1>4 DEF ReadStatus
  <2>2. SameSpec
    BY <1>1, <2>1 DEF SameSpec, StatusSetType
  <2>3. /\ db' = db /\ uuid' = uuid
        /\ UNCHANGED <<primaryIdx, source, cloned, offline, restoring, events>>
    BY <2>1 DEF Outside, kubeVars, mysqlVars
  <2>4. CloneInv' /\ NotRestoring'
    BY <1>1, <2>1, <2>2, <2>3 DEF CloneInv, NotRestoring, SameSpec
  <2> QED BY <1>2, <2>1, <2>3, <2>4, SpentFrame
<1>5. CASE FinishGather
  <2>1. /\ SameSpec
        /\ ss'.state = "Cloning" => ss.source /\ ~ss.cloned
        /\ ss'.state # "Cloning" /\ ss.source /\ ~ss.cloned /\ ~ss.offline =>
              db[primaryIdx].clone # "in progress"
        /\ ss.restoring => ss'.state # "Failed"
        /\ pc = "recheck" /\ pc' = "update"
        /\ UNCHANGED <<mysqlVars, kubeVars>>
        /\ events' = events \/ \E e \in {"delay", "flaky"} : Happens(e)
    BY <1>5, SeenFacts
  <2>2. SpentStays
    BY <1>1, <2>1, SpentFrame, SpentHappens DEF Events
  <2>3. /\ db' = db /\ uuid' = uuid
        /\ UNCHANGED <<primaryIdx, source, cloned, offline, restoring>>
    BY <2>1 DEF kubeVars, mysqlVars
  <2>4. /\ ss.source = source /\ ss.cloned = cloned /\ (source => ~ss.offline)
        /\ source => events["promote"] = 0 /\ events["offline"] = 0 /\ ~offline
    BY <1>1, <2>1 DEF CloneInv
  <2>5. source => events'["promote"] = 0 /\ events'["offline"] = 0
    BY <2>2, <2>4 DEF SpentStays
  <2>6. NotRestoring'
    BY <1>1, <2>1, <2>3 DEF NotRestoring, SameSpec
  <2>7. CloneInv'
    BY <1>1, <2>1, <2>3, <2>4, <2>5 DEF CloneInv, SameSpec
  <2> QED BY <1>2, <2>1, <2>2, <2>3, <2>6, <2>7
<1> QED BY <1>3, <1>4, <1>5 DEF Gather

(* The state decides whether a clone, a failover or another operation      *)
(* begins.                                                                 *)
LEMMA OperationStates ==
    ASSUME PassTypeOK
    PROVE  /\ ToOperation[1] = "clone" => ss.state = "Cloning"
           /\ ToOperation[1] = "foStop" => ss.state = "Failed"
           /\ ss.state = "Cloning" => ToOperation[1] \in {"clone", "idle"}
           /\ ToOperation[1] \in OpSteps \cup {"clone", "idle"}
           /\ ToOperation[1] \in FoSteps =>
                 ToOperation = <<"foStop", ss.known \ {ss.primary}>>
<1>1. \/ ToConfigure = <<"unlabel", StaleLabels>>
      \/ ToConfigure \in ConfDest /\ StaleLabels = {}
  BY ConfigureDestinations DEF ToConfigure
<1>2. ToConfigure[1] \in ConfAll \cup {"idle"}
  BY <1>1 DEF ConfDest, ConfAll
<1>3. ToConfigure[1] \notin {"clone"} \cup FoSteps
  BY <1>2 DEF ConfAll, ConfSteps, FoSteps
<1>4. ToConfigure[1] \in OpSteps \cup {"idle"}
  BY <1>2 DEF ConfAll, ConfSteps, OpSteps, PassSteps
<1>5. "swReadOnly" \in OpSteps /\ "foStop" \in OpSteps
      /\ "swReadOnly" \notin FoSteps /\ "clone" \notin FoSteps /\ "idle" \notin FoSteps
  BY DEF OpSteps, PassSteps, FoSteps
<1>6. CASE Cloneable
  BY <1>5, <1>6 DEF ToOperation, Cloneable
<1>7. CASE ~Cloneable /\ Switching
  BY <1>5, <1>7 DEF ToOperation, Switching
<1>8. CASE ~Cloneable /\ ~Switching
  <2>1. CASE ss.state = "Failed"
    <3>1. ToOperation = <<"foStop", ss.known \ {ss.primary}>>
      BY <1>8, <2>1 DEF ToOperation
    <3> QED BY <1>5, <2>1, <3>1
  <2>2. CASE ss.state \in {"Degraded", "Incomplete"}
    <3>1. ToOperation = ToConfigure
      BY <1>8, <2>2 DEF ToOperation
    <3>2. ToConfigure[1] # "clone" /\ ToConfigure[1] # "foStop"
      BY <1>3 DEF FoSteps
    <3> HIDE DEF ToOperation, ToConfigure
    <3> QED BY <1>3, <1>4, <2>2, <3>1, <3>2
  <2>3. CASE ss.state \notin {"Failed", "Degraded", "Incomplete"}
    <3>1. ToOperation = <<"idle", {}>>
      BY <1>8, <2>3 DEF ToOperation, ToIdle
    <3> QED BY <1>5, <3>1
  <2> QED BY <2>1, <2>2, <2>3
<1> QED BY <1>6, <1>7, <1>8


(* updateStatus records the end of the first clone. *)
LEMMA UpdateCompare == ASSUME Inv, CompareInv, updateStatus PROVE CompareInv'
<1>1. /\ WaitInv /\ CloneInv /\ NotRestoring /\ KubeTypeOK
  BY DEF Inv, TypeOK, CompareInv
<1>2. /\ pc = "update" /\ pc' = "annotate" /\ ss' = ss
      /\ db' = db /\ uuid' = uuid /\ events' = events
      /\ cloned' = (cloned \/ (source /\ ss.state # "Cloning"))
      /\ UNCHANGED <<primaryIdx, source, offline, restoring>>
  BY DEF updateStatus, mysqlVars
<1>3. \A i \in Index : db[i].clone = "in progress" =>
         i = primaryIdx /\ source /\ ~cloned /\ ss.state = "Cloning"
  BY <1>1, <1>2 DEF CloneInv
<1>4. CloneInv'
  BY <1>1, <1>2, <1>3 DEF CloneInv
<1>5. NotRestoring'
  BY <1>1, <1>2 DEF NotRestoring
<1>6. WaitInv' /\ StoppedInv'
  BY <1>1, <1>2, NoFailover DEF WaitInv, FoSteps
<1> QED BY <1>4, <1>5, <1>6 DEF CompareInv

(* A failover begins with the IO threads of all runners still to be        *)
(* stopped.                                                                *)
LEMMA AnnotateCompare == ASSUME Inv, CompareInv, annotate PROVE CompareInv'
<1>1. /\ WaitInv /\ CloneInv /\ NotRestoring /\ KubeTypeOK /\ PassTypeOK
      /\ ss.state \in States /\ ss.primary \in Index /\ ss.known \subseteq Index
  BY DEF Inv, TypeOK, CompareInv, PassTypeOK, StatusSetType
<1>2. /\ pc = "annotate" /\ Take(ToOperation)
      /\ db' = db /\ uuid' = uuid /\ events' = events
      /\ UNCHANGED <<primaryIdx, source, cloned, offline, restoring>>
  BY DEF annotate, mysqlVars
<1>3. ToOperation \in PassSteps \X SUBSET Index
  <2>1. StaleLabels \subseteq Index
    BY DEF StaleLabels
  <2> QED BY <1>1, <2>1, OperationDestination, ConfDestType DEF PassSteps, ToIdle
<1>4. /\ pc' = ToOperation[1] /\ todo' = ToOperation[2]
      /\ pc' # "idle" => SameView
  BY <1>1, <1>2, <1>3, TakeType
<1>5. pc' # "idle" => SameSpec
  BY <1>1, <1>2, TakeSpec
<1>6. /\ pc' = "clone" => ss.state = "Cloning"
      /\ pc' = "foStop" => ss.state = "Failed"
      /\ ss.state = "Cloning" => pc' \in {"clone", "idle"}
      /\ pc' \in OpSteps \cup {"clone", "idle"}
      /\ pc' \in FoSteps => pc' = "foStop" /\ todo' = ss.known \ {ss.primary}
  BY <1>1, <1>4, OperationStates
<1> HIDE DEF ToOperation
<1>7. CloneInv'
  <2>1. ss.source = source /\ (source => ~ss.offline)
    BY <1>1, <1>2 DEF CloneInv
  <2>2. ss.state = "Cloning" => source /\ ~cloned
    BY <1>1, <1>2 DEF CloneInv
  <2>3. ss.state # "Cloning" => cloned \/ ~source
    BY <1>1, <1>2 DEF CloneInv
  <2>4. pc' \notin {"gather", "recheck", "update", "annotate", "panic"}
    BY <1>6 DEF OpSteps
  <2>5. pc' \in {"clone", "idle"} \/ cloned \/ ~source
    BY <1>6, <2>3
  <2> QED BY <1>1, <1>2, <1>5, <1>6, <2>1, <2>2, <2>4, <2>5 DEF CloneInv, SameSpec
<1>8. NotRestoring'
  <2>1. restoring => ss.restoring /\ ss.state # "Failed"
    BY <1>1, <1>2 DEF NotRestoring
  <2>2. pc' \in FoSteps => ~restoring
    BY <1>6, <2>1
  <2>3. pc' \notin {"update", "annotate"}
    BY <1>6 DEF OpSteps
  <2> QED BY <1>2, <1>5, <2>1, <2>2, <2>3 DEF NotRestoring, SameSpec, FoSteps
<1>9. WaitInv'
  BY <1>1, <1>2 DEF WaitInv
<1>10. StoppedInv'
  <2>1. CASE pc' \notin FoSteps
    BY <2>1, NoFailover
  <2>2. CASE pc' \in FoSteps
    <3>1. pc' = "foStop" /\ todo' = ss.known \ {ss.primary} /\ SameView
      BY <1>4, <1>6, <2>2
    <3>2. Runners' \subseteq todo'
      BY <3>1 DEF Runners, SameView
    <3> QED BY <3>1, <3>2 DEF StoppedInv
  <2> QED BY <2>1, <2>2
<1> QED BY <1>7, <1>8, <1>9, <1>10 DEF CompareInv

(* clone keeps the invariant. *)
LEMMA CloneCompare == ASSUME Inv, CompareInv, Clone PROVE CompareInv'
<1>1. /\ WaitInv /\ CloneInv /\ NotRestoring /\ MySQLTypeOK /\ KubeTypeOK
      /\ db \in [Index -> Instance] /\ primaryIdx \in Index
  BY DEF Inv, TypeOK, CompareInv, MySQLTypeOK, KubeTypeOK
<1>2. CASE cloneBegin
  <2>1. /\ pc = "clone" /\ pc' = "cloneWait" /\ ss' = ss
        /\ db' = [db EXCEPT ![ss.primary].clone = "in progress"] /\ uuid' = uuid
        /\ UNCHANGED <<primaryIdx, source, cloned, offline, restoring, events>>
    BY <1>2 DEF cloneBegin, Calling, CloneStart, Outside, kubeVars
  <2>2. ss.primary = primaryIdx
    BY <2>1 DEF Inv, PassInv, SnapshotInv
  <2>3. \A i \in Index : /\ db'[i].wait = db[i].wait
                         /\ i # primaryIdx => db'[i] = db[i]
    BY <1>1, <2>1, <2>2 DEF Instance
  <2>4. source /\ ~cloned
    BY <1>1, <2>1 DEF CloneInv
  <2>5. CloneInv'
    BY <1>1, <2>1, <2>3, <2>4 DEF CloneInv
  <2>6. NotRestoring'
    BY <1>1, <2>1 DEF NotRestoring
  <2>7. WaitInv' /\ StoppedInv'
    BY <1>1, <2>1, <2>3, NoFailover DEF WaitInv, FoSteps
  <2> QED BY <2>5, <2>6, <2>7 DEF CompareInv
<1>3. CASE cloneEnd
  <2>1. /\ pc' = "idle" /\ UNCHANGED mysqlVars /\ UNCHANGED events
        /\ UNCHANGED <<primaryIdx, source, cloned, offline, restoring>>
    BY <1>3 DEF cloneEnd, Idle, Outside, kubeVars
  <2> QED BY <2>1, EndCompare, SpentFrame
<1> QED BY <1>2, <1>3 DEF Clone

-----------------------------------------------------------------------------
(* The environment *)

(* Quiet instances stay as they were compared. *)
LEMMA QuietFixed ==
    ASSUME NEW i, Quiet(i), Fixed(i), ss'.st = ss.st PROVE Fixed(i)'
<1>1. {t \in Has(i) : uuid[t] # i} \subseteq Gtids(ss.st[i])
  BY DEF Fixed
<1>2. ~db'[i].io /\ Gtids(ss'.st[i]) = Gtids(ss.st[i])
  BY DEF Quiet
<1>3. ASSUME NEW t \in db'[i].exec \cup db'[i].relay, uuid'[t] # i
      PROVE  t \in Gtids(ss.st[i])
  BY <1>1, <1>3 DEF Quiet
<1> QED BY <1>2, <1>3 DEF Fixed, Has

(* What happens outside of the pass, when it leaves the MySQLCluster alone *)
(* and every runner quiet.                                                 *)
LEMMA OutsideCompare ==
    ASSUME Inv, CompareInv, WaitInv', NoNewClone, QuietUnlessCloned, SpentStays,
           UNCHANGED <<primaryIdx, source, cloned, offline, restoring, pc, todo>>,
           SameView, SameSpec
    PROVE  CompareInv'
<1>1. /\ KubeTypeOK /\ PassTypeOK /\ CloneInv /\ NotRestoring /\ StoppedInv
  BY DEF Inv, TypeOK, CompareInv
<1>2. Calm
  BY DEF Calm, Move, SameView
<1>3. CloneInv' /\ NotRestoring'
  BY <1>1, <1>2, CalmKeeps
<1>4. StoppedInv'
  <2>1. CASE pc' \notin FoSteps
    BY <2>1, NoFailover
  <2>2. CASE pc' \in FoSteps
    <3>1. pc \in OpSteps
      BY <2>2 DEF FoSteps, OpSteps, PassSteps
    <3>2. \A i \in Index : ~db[i].io => Quiet(i)
      BY <1>1, <3>1, NoCloneInOperation DEF QuietUnlessCloned
    <3>3. Runners \subseteq Index /\ Runners' = Runners
      BY <1>1, RunnersType DEF Runners, SameView
    <3>4. \A i \in Runners : ~db[i].io => ~db'[i].io
      BY <3>2, <3>3 DEF Quiet
    <3>5. \A i \in Runners : Fixed(i) => Fixed(i)'
      <4> SUFFICES ASSUME NEW i \in Runners, Fixed(i) PROVE Fixed(i)'
        OBVIOUS
      <4>1. Quiet(i)
        BY <3>2, <3>3 DEF Fixed
      <4> QED BY <4>1, QuietFixed DEF SameView
    <3> HIDE DEF Fixed
    <3> QED BY <1>1, <2>2, <3>3, <3>4, <3>5 DEF StoppedInv, FoSteps
  <2> QED BY <2>1, <2>2
<1> QED BY <1>3, <1>4 DEF CompareInv


(* When nothing happens to the instances. *)
LEMMA FrameFacts ==
    ASSUME WaitInv, UNCHANGED mysqlVars
    PROVE  WaitInv' /\ NoNewClone /\ QuietUnlessCloned
<1>1. db' = db /\ uuid' = uuid
  BY DEF mysqlVars
<1> QED BY <1>1 DEF WaitInv, NoNewClone, QuietUnlessCloned, Quiet, Has

(* What mysqld does by itself, and what happens to it, keeps the           *)
(* invariant.                                                              *)
LEMMA MysqldCompare ==
    ASSUME Inv, CompareInv, NEW i \in Index,
           SourceWrites \/ Mysqld(i) \/ InstanceCrash(i) \/ InstanceStart(i)
             \/ InstanceUnlocked(i) \/ InstanceDiverges(i) \/ VolumeLost(i)
    PROVE  CompareInv'
<1>0. MySQLTypeOK /\ WaitInv /\ events \in [Events -> Nat]
  BY DEF Inv, TypeOK, CompareInv
<1>1. ExternalWrite \/ MysqldStep(i)
  BY DEF SourceWrites, Mysqld, Writes, Commits, Receives, Applies, EndsClone,
     FailsClone, InstanceCrash, InstanceStart, InstanceUnlocked,
     InstanceDiverges, VolumeLost, MysqldStep
<1>2. WaitInv' /\ NoNewClone /\ QuietUnlessCloned
  BY <1>0, <1>1, MysqldFacts, ExternalFacts
<1>3. UNCHANGED <<passVars, kubeVars, cut>>
  BY DEF SourceWrites, Mysqld, Writes, Commits, Receives, Applies, EndsClone,
     FailsClone, InstanceCrash, InstanceStart, InstanceUnlocked,
     InstanceDiverges, VolumeLost, Outside
<1>4. SpentStays
  <2>1. \/ events' = events
        \/ \E e \in {"write", "external", "crash", "midcrash", "clonefail",
                   "wipe", "unlock", "stray"} : Happens(e)
    BY DEF SourceWrites, Mysqld, Writes, Commits, Receives, Applies, EndsClone,
       FailsClone, InstanceCrash, InstanceStart, InstanceUnlocked,
       InstanceDiverges, VolumeLost, Outside
  <2> QED BY <1>0, <2>1, SpentFrame, SpentHappens DEF Events
<1>5. SameView /\ SameSpec
      /\ UNCHANGED <<primaryIdx, source, cloned, offline, restoring, pc, todo>>
  BY <1>3 DEF passVars, kubeVars, SameView, SameSpec
<1> QED BY <1>2, <1>4, <1>5, OutsideCompare

(* A Pod that goes stops its instance, which adds only what its own        *)
(* sessions were waiting with.                                             *)
LEMMA PodGoneCompare ==
    ASSUME Inv, CompareInv, NEW i \in Index, PodGone(i) PROVE CompareInv'
<1>0. /\ MySQLTypeOK /\ WaitInv /\ ss \in StatusSetType
      /\ db[i] \in Instance /\ \A t \in db[i].wait : uuid[t] = i
  BY DEF Inv, TypeOK, CompareInv, PassTypeOK, MySQLTypeOK, WaitInv
<1>1. PICK X \in {Stopped(db[i]), db[i]} : db' = [db EXCEPT ![i] = X]
  BY DEF PodGone
<1>2. /\ ss' = ss \/ ss' = [ss EXCEPT !.gone = @ \cup {i}]
      /\ UNCHANGED <<uuid, primaryIdx, source, cloned, offline, restoring,
                     pc, todo, events>>
  BY DEF PodGone
<1>3. /\ Stopped(db[i]).wait = {} /\ Stopped(db[i]).clone # "in progress"
      /\ ~Stopped(db[i]).io /\ Stopped(db[i]).relay = db[i].relay
      /\ Stopped(db[i]).exec = db[i].exec \cup db[i].wait
  BY <1>0, ReleasedFacts
<1>4. /\ X.wait \subseteq db[i].wait
      /\ X.clone = "in progress" => db[i].clone = "in progress"
      /\ ~db[i].io => ~X.io
      /\ X.exec \cup X.relay \subseteq Has(i) \cup db[i].wait
  BY <1>3 DEF Has
<1>5. WaitInv' /\ NoNewClone /\ QuietUnlessCloned
  <2>1. \A u \in Txn, j \in Index : j # i /\ uuid[u] = j => uuid'[u] = j
    BY <1>2
  <2>2. \A u \in X.wait : uuid'[u] = i
    BY <1>0, <1>2, <1>4
  <2>3. ~db[i].io /\ db[i].clone # "in progress" =>
           /\ ~X.io
           /\ \A u \in X.exec \cup X.relay :
                 uuid'[u] # i => u \in Has(i) /\ uuid[u] # i
    BY <1>0, <1>2, <1>4
  <2> QED BY <1>0, <1>1, <1>4, <2>1, <2>2, <2>3, OneInstance
<1>6. SameView /\ SameSpec
  <2>1. CASE ss' = ss
    BY <2>1 DEF SameView, SameSpec
  <2>2. CASE ss' = [ss EXCEPT !.gone = @ \cup {i}]
    BY <1>0, <2>2 DEF SameView, SameSpec, StatusSetType
  <2> QED BY <1>2, <2>1, <2>2
<1> QED BY <1>2, <1>5, <1>6, SpentFrame, OutsideCompare

(* Requests of the user, lost connections and Pods that come keep the      *)
(* invariant: a replication source is neither removed nor is its cluster   *)
(* taken offline.                                                          *)
LEMMA ClusterCompare ==
    ASSUME Inv, CompareInv,
           \/ RequestDemote \/ RemoveSource \/ SetOffline
           \/ \E i \in Index : \/ ConnectionLost(i) \/ ConnectionBack(i)
                               \/ PodTerminate(i) \/ PodCreate(i)
    PROVE  CompareInv'
<1>0. MySQLTypeOK /\ WaitInv /\ CloneInv /\ NotRestoring /\ StoppedInv
      /\ events \in [Events -> Nat]
  BY DEF Inv, TypeOK, CompareInv
<1>1. UNCHANGED <<mysqlVars, passVars, primaryIdx, cloned, restoring>>
  BY DEF RequestDemote, RemoveSource, SetOffline, ConnectionLost,
         ConnectionBack, PodTerminate, PodCreate, kubeVars
<1>2. WaitInv' /\ NoNewClone /\ QuietUnlessCloned
  BY <1>0, <1>1, FrameFacts
<1>3. SpentStays
  <2>1. \/ events' = events
        \/ \E e \in {"demote", "late", "promote", "offline", "cut", "delete"} : Happens(e)
    BY DEF RequestDemote, RemoveSource, SetOffline, ConnectionLost,
         ConnectionBack, PodTerminate, PodCreate
  <2> QED BY <1>0, <2>1, SpentFrame, SpentHappens DEF Events
<1>4. SameView /\ SameSpec /\ UNCHANGED <<pc, todo>>
  BY <1>1 DEF passVars, SameView, SameSpec
<1>5. CASE UNCHANGED <<source, offline>>
  BY <1>1, <1>2, <1>3, <1>4, <1>5, OutsideCompare
<1>6. CASE RemoveSource
  <2>1. source /\ events["promote"] > 0
    BY <1>6 DEF RemoveSource, Happens
  <2>2. events["promote"] = 0
    BY <1>0, <2>1 DEF CloneInv
  <2> QED BY <2>1, <2>2
<1>7. CASE SetOffline
  <2>1. events["offline"] > 0 /\ source' = source
    BY <1>7 DEF SetOffline, Happens
  <2>2. ~source
    <3> SUFFICES ASSUME source PROVE FALSE
      OBVIOUS
    <3>1. events["offline"] = 0
      BY <1>0 DEF CloneInv
    <3> QED BY <2>1, <3>1
  <2>3. /\ pc' = pc /\ ss' = ss /\ todo' = todo /\ db' = db /\ uuid' = uuid
        /\ UNCHANGED <<primaryIdx, cloned, restoring>>
    BY <1>1 DEF mysqlVars, passVars
  <2>4. CloneInv'
    BY <1>0, <2>1, <2>2, <2>3 DEF CloneInv
  <2>5. NotRestoring'
    BY <1>0, <2>3 DEF NotRestoring
  <2>6. StoppedInv'
    BY <1>0, <2>3 DEF StoppedInv, Runners, Fixed, Has
  <2> QED BY <1>2, <2>4, <2>5, <2>6 DEF CompareInv
<1>8. UNCHANGED <<source, offline>> \/ RemoveSource \/ SetOffline
  BY DEF RequestDemote, ConnectionLost, ConnectionBack, PodTerminate, PodCreate, kubeVars
<1> QED BY <1>5, <1>6, <1>7, <1>8

(* No restore Job runs during a failover. *)
LEMMA RestoreCompare == ASSUME Inv, CompareInv, Restore PROVE CompareInv'
<1>0. /\ MySQLTypeOK /\ KubeTypeOK /\ WaitInv /\ CloneInv /\ NotRestoring /\ 0 \in Index
  BY NAssumption DEF Inv, TypeOK, CompareInv, Index
<1>1. /\ restoring /\ LoadDump(0) /\ ~restoring'
      /\ UNCHANGED <<primaryIdx, source, cloned, offline, passVars, events>>
  BY DEF Restore
<1>2. WaitInv' /\ NoNewClone
  BY <1>0, <1>1, LoadDumpFacts
<1>3. Calm /\ pc' = pc
  BY <1>1, <1>2, SpentFrame DEF Calm, Move, SameSpec, passVars
<1>4. pc \notin FoSteps
  BY <1>0, <1>1 DEF NotRestoring, FoSteps
<1> QED BY <1>0, <1>2, <1>3, <1>4, CalmKeeps, NoFailover DEF CompareInv

-----------------------------------------------------------------------------
(* The theorem *)

(* The invariant holds at first. *)
LEMMA InitCompare ==
    ASSUME \A s \in Scenarios : ClonesFirst(s), Init PROVE CompareInv
<1>1. PICK s \in Scenarios :
         /\ IF s.start = "replicating" THEN StartReplicating ELSE StartFresh
         /\ source = (s.start = "source")
         /\ events = s.events
  BY DEF Init
<1>2. pc = "idle" /\ ~offline
  BY DEF Init
<1>3. \A i \in Index : db[i].wait = {} /\ db[i].clone = "none"
  <2>1. CASE StartReplicating
    <3>1. \A i \in Index : db[i] = ReplicatingInstance(i)
      BY <2>1 DEF StartReplicating
    <3>2. \A i \in Index : /\ ReplicatingInstance(i).wait = {}
                           /\ ReplicatingInstance(i).clone = "none"
      BY DEF ReplicatingInstance, FreshInstance
    <3> QED BY <3>1, <3>2
  <2>2. CASE StartFresh
    BY <2>2 DEF StartFresh, FreshInstance
  <2> QED BY <1>1, <2>1, <2>2
<1>4. source => events["promote"] = 0 /\ events["offline"] = 0
  BY <1>1 DEF ClonesFirst
<1> QED BY <1>2, <1>3, <1>4 DEF CompareInv, WaitInv, CloneInv, NotRestoring, StoppedInv

(* The invariant is inductive, together with that of the pass. *)
LEMMA NextCompare == Inv /\ CompareInv /\ [Next]_vars => CompareInv'
<1> SUFFICES ASSUME Inv, CompareInv, [Next]_vars PROVE CompareInv'
  OBVIOUS
<1>1. CASE Pass
  <2>1. CASE Report
    BY <2>1, UpdateCompare, AnnotateCompare, FailureCompare DEF Report
  <2> QED BY <1>1, <2>1, GatherCompare, CloneCompare, SwitchoverCompare,
             FailoverCompare, ConfigureCompare, FailureCompare DEF Pass
<1>2. CASE CallTimesOut \/ Abort
  BY <1>2, FailureCompare
<1>3. CASE Environment
  <2>1. 0 \in Index
    BY NAssumption DEF Index
  <2> QED BY <1>3, <2>1, MysqldCompare, ClusterCompare, RestoreCompare,
             PodGoneCompare DEF Environment
<1>4. CASE UNCHANGED vars
  <2>1. UNCHANGED <<mysqlVars, kubeVars, cut, passVars, events>>
    BY <1>4 DEF vars
  <2>2. WaitInv' /\ NoNewClone /\ QuietUnlessCloned
    BY <2>1, FrameFacts DEF CompareInv
  <2>3. SameView /\ SameSpec
        /\ UNCHANGED <<primaryIdx, source, cloned, offline, restoring, pc, todo>>
    BY <2>1 DEF passVars, kubeVars, SameView, SameSpec
  <2> QED BY <2>1, <2>2, <2>3, SpentFrame, OutsideCompare
<1> QED BY <1>1, <1>2, <1>3, <1>4 DEF Next

(* However writes, crashes, restarts and lost volumes interleave with a    *)
(* failover, and whatever the old primary does when it comes back, nothing *)
(* from the cluster reaches a compared instance after it was re-checked:   *)
(* the comparison that failover records its choice by is not stale.  The   *)
(* hypothesis keeps the clone from an external source out of the way.      *)
THEOREM ComparisonStaysFresh ==
    ASSUME \A s \in Scenarios : ClonesFirst(s)
    PROVE  Spec => []ComparisonNotStale
<1>1. Init => Inv /\ CompareInv
  BY InitInv, InitCompare
<1>2. Inv /\ CompareInv /\ [Next]_vars => (Inv /\ CompareInv)'
  BY NextInv, NextCompare
<1>3. Inv /\ CompareInv => ComparisonNotStale
  BY DEF CompareInv, StoppedInv, Fixed, ComparisonNotStale
<1> QED BY <1>1, <1>2, <1>3, PTL DEF Spec

=============================================================================
