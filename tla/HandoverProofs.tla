---------------------------- MODULE HandoverProofs ----------------------------
(***************************************************************************)
(* What the controller concludes from statuses that it reads one after the *)
(* other is true: a replica that is called errant is, and a switchover     *)
(* leaves nothing behind, as long as no binary log loses anything.         *)
(***************************************************************************)
EXTENDS DurabilityProofs

-----------------------------------------------------------------------------
(* What a step may do to an instance without misleading the controller     *)

(* The record of instance i goes from a to b: a replica does not become    *)
(* writable, the primary does not begin to replicate, a new source is the  *)
(* primary, and transactions come from the instance itself, from its relay *)
(* log, from its source, or with a clone of the primary.                   *)
Gentle(i, a, b) ==
    /\ i # primaryIdx /\ a.ro => b.ro
    /\ b.ro => b.wait = {}
    /\ ~b.ro => b.relay = {} /\ ~b.io
    /\ b.src \in (Index \ {i}) \cup {NoSource}
    /\ b.io => a.io \/ (i # primaryIdx /\ b.src \in {primaryIdx, NoSource})
    /\ \/ b.src = a.src
       \/ /\ b.relay = {} /\ ~b.io
          /\ b.src = NoSource \/ (b.src = primaryIdx /\ i # primaryIdx)
    /\ \A t \in b.relay :
          t \in a.relay \/ (a.io /\ a.src # NoSource /\ t \in Stream(a.src))
    /\ \A t \in b.exec \cup b.wait :
          \/ t \in a.exec \cup a.wait \cup a.relay
          \/ uuid[t] = Unborn /\ (~a.ro \/ events["stray"] > 0)
          \/ i # primaryIdx /\ t \in db[primaryIdx].exec
    /\ b.relay \cap b.exec = {}
    /\ \A t \in b.exec \cup b.wait \cup b.relay : uuid'[t] # Unborn

(* A transaction that exists goes on existing. *)
BornStays == \A t \in Txn : uuid[t] # Unborn => uuid'[t] # Unborn

(* Every instance takes a gentle step. *)
GentleStep == BornStays /\ \A i \in Index : Gentle(i, db[i], db'[i])

(* Nothing is unlocked, and a replica gets no new source. *)
RoKept == \A i \in Index : db[i].ro => db'[i].ro
SrcOnly == \A i \in Index : db'[i].src \in {db[i].src, NoSource}

(* A gentle step that leaves the channels as they are. *)
Mild == GentleStep /\ RoKept /\ SrcOnly

(* An instance that is left alone. *)
LEMMA SameGentle ==
    ASSUME MySQLTypeOK, LockInv, LogInv, BornStays, NEW i \in Index
    PROVE  Gentle(i, db[i], db[i])
<1>1. db[i].exec \subseteq Txn /\ db[i].wait \subseteq Txn /\ db[i].relay \subseteq Txn
  BY DEF MySQLTypeOK, Instance
<1>2. \A t \in db[i].exec \cup db[i].wait \cup db[i].relay : uuid'[t] # Unborn
  BY <1>1 DEF LogInv, BornStays
<1>3. db[i].relay \cap db[i].exec = {}
  BY DEF LogInv
<1>4. /\ db[i].ro => db[i].wait = {}
      /\ ~db[i].ro => db[i].relay = {} /\ ~db[i].io
      /\ db[i].src \in (Index \ {i}) \cup {NoSource}
  BY DEF LockInv
<1> QED BY <1>2, <1>3, <1>4 DEF Gentle

(* When one instance changes. *)
LEMMA OneGentle ==
    ASSUME MySQLTypeOK, LockInv, LogInv, BornStays, NEW k \in Index, NEW X,
           db' = [db EXCEPT ![k] = X], Gentle(k, db[k], X)
    PROVE  /\ GentleStep
           /\ (db[k].ro => X.ro) => RoKept
           /\ X.src \in {db[k].src, NoSource} => SrcOnly
<1>1. db'[k] = X /\ \A i \in Index : i # k => db'[i] = db[i]
  BY DEF MySQLTypeOK
<1>2. \A i \in Index : i # k => Gentle(i, db[i], db'[i])
  BY <1>1, SameGentle
<1>3. GentleStep
  <2> HIDE DEF Gentle
  <2> QED BY <1>1, <1>2 DEF GentleStep
<1>4. (db[k].ro => X.ro) => RoKept
  BY <1>1 DEF RoKept
<1>5. X.src \in {db[k].src, NoSource} => SrcOnly
  BY <1>1 DEF SrcOnly
<1> QED BY <1>3, <1>4, <1>5

(* Nothing changes. *)
LEMMA FrameGentle ==
    ASSUME MySQLTypeOK, LockInv, LogInv, BornStays, db' = db
    PROVE  Mild
<1>1. GentleStep
  BY SameGentle DEF GentleStep
<1> QED BY <1>1 DEF Mild, RoKept, SrcOnly

(* Nothing is written. *)
LEMMA SameBorn == ASSUME uuid' = uuid PROVE BornStays
BY DEF BornStays

(* One transaction is written. *)
LEMMA WrittenBorn ==
    ASSUME MySQLTypeOK, Unwritten # {}, NEW o \in Origins \ {Unborn},
           uuid' = [uuid EXCEPT ![NextTxn] = o]
    PROVE  BornStays /\ uuid'[NextTxn] # Unborn
<1>1. NextTxn \in Txn /\ uuid \in [Txn -> Origins]
  BY NextTxnUnborn DEF MySQLTypeOK
<1> HIDE DEF NextTxn
<1> QED BY <1>1 DEF BornStays

(* Neither the external mysqld nor the lack of a source is an index. *)
LEMMA NotIndex == External \notin Index /\ NoSource \notin Index
BY NAssumption DEF External, NoSource, Index

(* What is in the logs of an instance, and the modes that go with it. *)
LEMMA LogFacts ==
    ASSUME MySQLTypeOK, LockInv, LogInv, NEW k \in Index
    PROVE  /\ db[k].ro => db[k].wait = {}
           /\ ~db[k].ro => db[k].relay = {} /\ ~db[k].io
           /\ db[k].src \in (Index \ {k}) \cup {NoSource}
           /\ \A t \in db[k].exec \cup db[k].wait \cup db[k].relay :
                 t \in Txn /\ uuid[t] # Unborn
           /\ db[k].relay \cap db[k].exec = {}
           /\ db[k].relay \cap db[k].wait = {}
           /\ db[k].src # NoSource => db[k].src \in Index
<1>1. db[k].exec \subseteq Txn /\ db[k].wait \subseteq Txn /\ db[k].relay \subseteq Txn
  BY DEF MySQLTypeOK, Instance
<1>2. /\ db[k].ro => db[k].wait = {}
      /\ ~db[k].ro => db[k].relay = {} /\ ~db[k].io
      /\ db[k].src \in (Index \ {k}) \cup {NoSource}
  BY DEF LockInv
<1>3. \A t \in db[k].exec \cup db[k].wait \cup db[k].relay : t \in Txn /\ uuid[t] # Unborn
  BY <1>1 DEF LogInv
<1>4. db[k].relay \cap db[k].exec = {}
  BY DEF LogInv
<1>5. db[k].relay \cap db[k].wait = {}
  BY <1>2
<1> QED BY <1>2, <1>3, <1>4, <1>5

(* The statements that stop or lock something. *)
LEMMA StatementMild ==
    ASSUME MySQLTypeOK, LockInv, LogInv, NEW k \in Index,
           \/ KillConnections(k) \/ StopReplicaIOThread(k) \/ SetReadOnly(k)
           \/ ConfigurePrimary(k)
    PROVE  Mild
<1>0. db \in [Index -> Instance] /\ db[k] \in Instance
  BY DEF MySQLTypeOK
<1>a. BornStays
  BY SameBorn DEF KillConnections, StopReplicaIOThread, SetReadOnly, ConfigurePrimary
<1>b. Gentle(k, db[k], db[k])
  BY <1>a, SameGentle
<1>1. CASE KillConnections(k)
  <2> DEFINE X == Released(db[k])
  <2>1. db' = [db EXCEPT ![k] = X]
    BY <1>1 DEF KillConnections
  <2>2. /\ X.ro = db[k].ro /\ X.io = db[k].io /\ X.src = db[k].src /\ X.wait = {}
        /\ X.relay = db[k].relay /\ X.exec = db[k].exec \cup db[k].wait
    BY <1>0 DEF Released, Instance
  <2> HIDE DEF X
  <2>3. Gentle(k, db[k], X)
    BY <1>b, <2>2, LogFacts DEF Gentle
  <2> QED BY <1>a, <2>1, <2>2, <2>3, OneGentle DEF Mild
<1>2. CASE StopReplicaIOThread(k)
  <2> DEFINE X == [db[k] EXCEPT !.io = FALSE]
  <2>1. db' = [db EXCEPT ![k] = X]
    BY <1>0, <1>2 DEF StopReplicaIOThread
  <2>2. /\ X.ro = db[k].ro /\ X.io = FALSE /\ X.src = db[k].src /\ X.wait = db[k].wait
        /\ X.relay = db[k].relay /\ X.exec = db[k].exec
    BY <1>0 DEF Instance
  <2> HIDE DEF X
  <2>3. Gentle(k, db[k], X)
    BY <1>b, <2>2 DEF Gentle
  <2> QED BY <1>a, <2>1, <2>2, <2>3, OneGentle DEF Mild
<1>3. CASE SetReadOnly(k)
  <2> DEFINE X == [db[k] EXCEPT !.ro = TRUE]
  <2>1. db' = [db EXCEPT ![k] = X] /\ db[k].wait = {}
    BY <1>0, <1>3 DEF SetReadOnly
  <2>2. /\ X.ro = TRUE /\ X.io = db[k].io /\ X.src = db[k].src /\ X.wait = db[k].wait
        /\ X.relay = db[k].relay /\ X.exec = db[k].exec
    BY <1>0 DEF Instance
  <2> HIDE DEF X
  <2>3. Gentle(k, db[k], X)
    BY <1>b, <2>1, <2>2 DEF Gentle
  <2> QED BY <1>a, <2>1, <2>2, <2>3, OneGentle DEF Mild
<1>4. CASE ConfigurePrimary(k)
  <2> DEFINE X == [db[k] EXCEPT !.ssM = TRUE]
  <2>1. db' = [db EXCEPT ![k] = X]
    BY <1>0, <1>4 DEF ConfigurePrimary
  <2>2. /\ X.ro = db[k].ro /\ X.io = db[k].io /\ X.src = db[k].src /\ X.wait = db[k].wait
        /\ X.relay = db[k].relay /\ X.exec = db[k].exec
    BY <1>0 DEF Instance
  <2> HIDE DEF X
  <2>3. Gentle(k, db[k], X)
    BY <1>b, <2>2 DEF Gentle
  <2> QED BY <1>a, <2>1, <2>2, <2>3, OneGentle DEF Mild
<1> QED BY <1>1, <1>2, <1>3, <1>4

(* The primary is made writable. *)
LEMMA WritableGentle ==
    ASSUME MySQLTypeOK, LockInv, LogInv, primaryIdx \in Index, SetWritable(primaryIdx)
    PROVE  GentleStep
<1> DEFINE k == primaryIdx
           X == [db[k] EXCEPT !.io = FALSE, !.sql = FALSE, !.relay = {}, !.ro = FALSE]
<1>0. db \in [Index -> Instance] /\ db[k] \in Instance
  BY DEF MySQLTypeOK
<1>a. BornStays
  BY SameBorn DEF SetWritable
<1>b. Gentle(k, db[k], db[k])
  BY <1>a, SameGentle
<1>1. db' = [db EXCEPT ![k] = X]
  BY DEF SetWritable
<1>2. /\ ~X.ro /\ ~X.io /\ X.src = db[k].src /\ X.wait = db[k].wait
      /\ X.relay = {} /\ X.exec = db[k].exec
  BY <1>0 DEF Instance
<1> HIDE DEF X
<1>3. Gentle(k, db[k], X)
  BY <1>b, <1>2 DEF Gentle
<1> QED BY <1>a, <1>1, <1>3, OneGentle

(* A replica is connected to the primary. *)
LEMMA ChangeGentle ==
    ASSUME MySQLTypeOK, LockInv, LogInv, primaryIdx \in Index, NEW k \in Index,
           k # primaryIdx, NEW semisync \in BOOLEAN, ChangeSource(k, primaryIdx, semisync)
    PROVE  GentleStep /\ RoKept /\ db'[k].src = primaryIdx
<1>0. db \in [Index -> Instance] /\ db[k] \in Instance
  BY DEF MySQLTypeOK
<1> DEFINE rel == Released(db[k])
           X == [rel EXCEPT !.io = FALSE, !.sql = FALSE, !.relay = {},
                    !.src = primaryIdx, !.ssS = semisync, !.ssM = FALSE]
<1>1. db' = [db EXCEPT ![k] = X] /\ uuid' = uuid
  BY DEF ChangeSource
<1>2. /\ rel \in Instance /\ rel.wait = {} /\ rel.ro = db[k].ro
      /\ rel.exec = db[k].exec \cup db[k].wait
  BY <1>0, ReleasedFacts, ReleasedType DEF Released, Instance
<1>3. /\ X.ro = rel.ro /\ ~X.io /\ X.wait = rel.wait /\ X.src = primaryIdx
      /\ X.relay = {} /\ X.exec = rel.exec
  <2> HIDE DEF rel
  <2> QED BY <1>2 DEF Instance
<1>a. BornStays
  BY <1>1, SameBorn
<1>b. Gentle(k, db[k], db[k])
  BY <1>a, SameGentle
<1> HIDE DEF X, rel
<1>4. Gentle(k, db[k], X)
  BY <1>b, <1>2, <1>3 DEF Gentle
<1>5. db'[k].src = primaryIdx
  BY <1>0, <1>1, <1>3
<1> QED BY <1>a, <1>1, <1>2, <1>3, <1>4, <1>5, OneGentle

(* Its threads are started. *)
LEMMA StartGentle ==
    ASSUME MySQLTypeOK, LockInv, LogInv, primaryIdx \in Index, NEW k \in Index,
           k # primaryIdx, db[k].ro, db[k].src \in {primaryIdx, NoSource}, StartReplica(k)
    PROVE  GentleStep /\ RoKept
<1>0. db \in [Index -> Instance] /\ db[k] \in Instance
  BY DEF MySQLTypeOK
<1> DEFINE X == [db[k] EXCEPT !.io = TRUE, !.sql = TRUE]
<1>1. db' = [db EXCEPT ![k] = X] /\ uuid' = uuid
  BY DEF StartReplica
<1>2. /\ X.ro = db[k].ro /\ X.io /\ X.src = db[k].src /\ X.wait = db[k].wait
      /\ X.relay = db[k].relay /\ X.exec = db[k].exec
  BY <1>0 DEF Instance
<1> HIDE DEF X
<1>a. BornStays
  BY <1>1, SameBorn
<1>b. Gentle(k, db[k], db[k])
  BY <1>a, SameGentle
<1>3. Gentle(k, db[k], X)
  BY <1>b, <1>2 DEF Gentle
<1> QED BY <1>a, <1>1, <1>2, <1>3, OneGentle

(* A replica becomes a copy of the primary. *)
LEMMA CloneGentle ==
    ASSUME MySQLTypeOK, LockInv, LogInv, primaryIdx \in Index, NEW k \in Index,
           k # primaryIdx, CloneFrom(k, primaryIdx)
    PROVE  GentleStep /\ RoKept /\ db'[k].ro
<1>0. db \in [Index -> Instance] /\ db[k] \in Instance
  BY DEF MySQLTypeOK
<1> DEFINE gtids == db[primaryIdx].exec
           X == Cloned(gtids)
<1>1. db' = [db EXCEPT ![k] = X] /\ uuid' = uuid
  BY DEF CloneFrom
<1>2. /\ X.ro /\ ~X.io /\ X.src = NoSource /\ X.wait = {} /\ X.relay = {}
      /\ X.exec = gtids
  BY DEF Cloned, FreshInstance
<1>a. BornStays
  BY <1>1, SameBorn
<1>3. \A t \in gtids : uuid'[t] # Unborn
  BY <1>1, LogFacts
<1> HIDE DEF X
<1>4. Gentle(k, db[k], X)
  BY <1>2, <1>3 DEF Gentle
<1>5. db'[k].ro
  BY <1>0, <1>1, <1>2
<1> QED BY <1>a, <1>1, <1>2, <1>4, <1>5, OneGentle

(* A stopped instance keeps its logs, and is locked. *)
LEMMA StoppedGentle ==
    ASSUME MySQLTypeOK, LockInv, LogInv, BornStays, NEW k \in Index
    PROVE  /\ Gentle(k, db[k], Stopped(db[k])) /\ Stopped(db[k]).ro
           /\ Stopped(db[k]).src = db[k].src
<1>0. db[k] \in Instance
  BY DEF MySQLTypeOK
<1>1. /\ Stopped(db[k]).wait = {} /\ ~Stopped(db[k]).io
      /\ Stopped(db[k]).relay = db[k].relay
      /\ Stopped(db[k]).exec = db[k].exec \cup db[k].wait
  BY <1>0, ReleasedFacts
<1>2. Stopped(db[k]).src = db[k].src /\ Stopped(db[k]).ro
  <2> DEFINE rel == Released(db[k])
  <2>2. rel \in Instance /\ rel.src = db[k].src
    BY <1>0, ReleasedType DEF Released, Instance
  <2>3. Stopped(db[k]) = [rel EXCEPT !.up = FALSE, !.ro = TRUE, !.io = FALSE,
          !.sql = FALSE, !.ssM = FALSE, !.ssS = FALSE,
          !.clone = IF @ = "in progress" THEN "failed" ELSE @]
    BY DEF Stopped
  <2> HIDE DEF rel
  <2> QED BY <2>2, <2>3 DEF Instance
<1>3. Gentle(k, db[k], db[k])
  BY SameGentle
<1>4. Gentle(k, db[k], Stopped(db[k]))
  BY <1>1, <1>2, <1>3, LogFacts DEF Gentle
<1> QED BY <1>2, <1>4

(* What happens to mysqld and takes nothing from another instance. *)
LEMMA LifeMild ==
    ASSUME MySQLTypeOK, LockInv, LogInv, NEW k \in Index,
           \/ Apply(k) \/ Crash(k) \/ Start(k) \/ Wipe(k) \/ CloneFail(k) \/ Commit(k)
           \/ StrayWrite(k) /\ events["stray"] > 0
    PROVE  Mild
<1>0. db \in [Index -> Instance] /\ db[k] \in Instance
  BY DEF MySQLTypeOK
<1>a. /\ db[k].ro => db[k].wait = {}
      /\ ~db[k].ro => db[k].relay = {} /\ ~db[k].io
      /\ \A t \in db[k].exec \cup db[k].wait \cup db[k].relay :
            t \in Txn /\ uuid[t] # Unborn
      /\ db[k].relay \cap db[k].exec = {}
      /\ db[k].relay \cap db[k].wait = {}
  BY LogFacts
<1>b. BornStays => Gentle(k, db[k], db[k])
  BY SameGentle
<1>1. CASE Apply(k)
  <2>1. PICK t \in db[k].relay :
                 /\ db' = [db EXCEPT ![k] = [db[k] EXCEPT !.relay = @ \ {t},
                                                          !.exec = @ \cup {t}]]
                 /\ uuid' = uuid
    <3>1. Oldest(db[k].relay) \in db[k].relay
      BY <1>0, <1>1, OldestInSet DEF Apply, Instance
    <3> QED BY <1>1, <3>1 DEF Apply
  <2> DEFINE X == [db[k] EXCEPT !.relay = @ \ {t}, !.exec = @ \cup {t}]
  <2>2. db' = [db EXCEPT ![k] = X] /\ BornStays
    BY <2>1, SameBorn
  <2>3. /\ X.ro = db[k].ro /\ X.io = db[k].io /\ X.src = db[k].src
        /\ X.wait = db[k].wait /\ X.relay = db[k].relay \ {t}
        /\ X.exec = db[k].exec \cup {t}
    BY <1>0 DEF Instance
  <2> HIDE DEF X
  <2>4. Gentle(k, db[k], X)
    BY <1>a, <1>b, <2>1, <2>2, <2>3 DEF Gentle
  <2> QED BY <2>2, <2>3, <2>4, OneGentle DEF Mild
<1>2. CASE Crash(k)
  <2>1. db' = [db EXCEPT ![k] = Stopped(db[k])] /\ BornStays
    BY <1>2, SameBorn DEF Crash
  <2> QED BY <2>1, StoppedGentle, OneGentle DEF Mild
<1>3. CASE Start(k)
  <2> DEFINE X == [db[k] EXCEPT !.up = TRUE]
  <2>1. db' = [db EXCEPT ![k] = X] /\ BornStays
    BY <1>0, <1>3, SameBorn DEF Start
  <2>2. /\ X.ro = db[k].ro /\ X.io = db[k].io /\ X.src = db[k].src
        /\ X.wait = db[k].wait /\ X.relay = db[k].relay /\ X.exec = db[k].exec
    BY <1>0 DEF Instance
  <2> HIDE DEF X
  <2>3. Gentle(k, db[k], X)
    BY <1>b, <2>1, <2>2 DEF Gentle
  <2> QED BY <2>1, <2>2, <2>3, OneGentle DEF Mild
<1>4. CASE Wipe(k)
  <2> DEFINE X == [FreshInstance EXCEPT !.up = FALSE]
  <2>1. /\ db' = [db EXCEPT ![k] = X]
        /\ uuid' = [t \in Txn |-> IF uuid[t] = k THEN Retired ELSE uuid[t]]
    BY <1>4 DEF Wipe
  <2>2. X.ro /\ ~X.io /\ X.src = NoSource /\ X.wait = {} /\ X.exec = {} /\ X.relay = {}
    BY DEF FreshInstance
  <2>3. BornStays
    BY <2>1, NAssumption DEF BornStays, Retired, Unborn
  <2> HIDE DEF X
  <2>4. Gentle(k, db[k], X)
    BY <2>2 DEF Gentle
  <2> QED BY <2>1, <2>2, <2>3, <2>4, OneGentle DEF Mild
<1>5. CASE StrayWrite(k) /\ events["stray"] > 0
  <2> DEFINE X == [db[k] EXCEPT !.exec = @ \cup {NextTxn}]
  <2>1. /\ db' = [db EXCEPT ![k] = X] /\ Unwritten # {}
        /\ uuid' = [uuid EXCEPT ![NextTxn] = k]
    BY <1>0, <1>5 DEF StrayWrite
  <2>2. /\ X.ro = db[k].ro /\ X.io = db[k].io /\ X.src = db[k].src
        /\ X.wait = db[k].wait /\ X.relay = db[k].relay
        /\ X.exec = db[k].exec \cup {NextTxn}
    BY <1>0 DEF Instance
  <2>3. k \in Origins \ {Unborn}
    BY IndexFacts DEF Origins, Unborn
  <2>4. BornStays /\ uuid'[NextTxn] # Unborn
    BY <2>1, <2>3, WrittenBorn
  <2>5. NextTxn \notin db[k].relay /\ uuid[NextTxn] = Unborn
    BY <1>a, <2>1, NextTxnUnborn
  <2> HIDE DEF X, NextTxn
  <2>6. Gentle(k, db[k], X)
    BY <1>b, <1>5, <2>2, <2>4, <2>5 DEF Gentle
  <2> QED BY <2>1, <2>2, <2>4, <2>6, OneGentle DEF Mild
<1>6. CASE CloneFail(k)
  <2> DEFINE X == [db[k] EXCEPT !.clone = "failed"]
  <2>1. db' = [db EXCEPT ![k] = X] /\ BornStays
    BY <1>0, <1>6, SameBorn DEF CloneFail
  <2>2. /\ X.ro = db[k].ro /\ X.io = db[k].io /\ X.src = db[k].src
        /\ X.wait = db[k].wait /\ X.relay = db[k].relay /\ X.exec = db[k].exec
    BY <1>0 DEF Instance
  <2> HIDE DEF X
  <2>3. Gentle(k, db[k], X)
    BY <1>b, <2>1, <2>2 DEF Gentle
  <2> QED BY <2>1, <2>2, <2>3, OneGentle DEF Mild
<1>7. CASE Commit(k)
  <2>1. PICK t \in db[k].wait :
            db' = [db EXCEPT ![k] = [db[k] EXCEPT !.wait = @ \ {t}, !.exec = @ \cup {t}]]
    BY <1>7 DEF Commit
  <2> DEFINE X == [db[k] EXCEPT !.wait = @ \ {t}, !.exec = @ \cup {t}]
  <2>2. db' = [db EXCEPT ![k] = X] /\ BornStays
    BY <1>7, <2>1, SameBorn DEF Commit
  <2>3. /\ X.ro = db[k].ro /\ X.io = db[k].io /\ X.src = db[k].src
        /\ X.wait = db[k].wait \ {t} /\ X.relay = db[k].relay
        /\ X.exec = db[k].exec \cup {t}
    BY <1>0 DEF Instance
  <2> HIDE DEF X
  <2>4. Gentle(k, db[k], X)
    BY <1>a, <1>b, <2>1, <2>2, <2>3 DEF Gentle
  <2> QED BY <2>2, <2>3, <2>4, OneGentle DEF Mild
<1> QED BY <1>1, <1>2, <1>3, <1>4, <1>5, <1>6, <1>7

(* A client writes to an instance that is writable. *)
LEMMA WriteMild ==
    ASSUME MySQLTypeOK, LockInv, LogInv, NEW k \in Index, ClientWrite(k)
    PROVE  Mild
<1>0. db \in [Index -> Instance] /\ db[k] \in Instance
  BY DEF MySQLTypeOK
<1>1. /\ ~db[k].ro /\ Unwritten # {} /\ uuid' = [uuid EXCEPT ![NextTxn] = k]
      /\ db' = [db EXCEPT ![k] = IF db[k].ssM
                                 THEN [db[k] EXCEPT !.wait = @ \cup {NextTxn}]
                                 ELSE [db[k] EXCEPT !.exec = @ \cup {NextTxn}]]
  BY <1>0 DEF ClientWrite
<1> DEFINE W == [db[k] EXCEPT !.wait = @ \cup {NextTxn}]
           E == [db[k] EXCEPT !.exec = @ \cup {NextTxn}]
           X == IF db[k].ssM THEN W ELSE E
<1>2. k \in Origins \ {Unborn}
  BY IndexFacts DEF Origins, Unborn
<1>3. BornStays /\ uuid'[NextTxn] # Unborn /\ uuid[NextTxn] = Unborn
  BY <1>1, <1>2, WrittenBorn, NextTxnUnborn
<1>a. Gentle(k, db[k], db[k]) /\ db[k].relay = {} /\ ~db[k].io
  BY <1>1, <1>3, SameGentle, LogFacts
<1>4. /\ W.ro = db[k].ro /\ W.io = db[k].io /\ W.src = db[k].src
      /\ W.wait = db[k].wait \cup {NextTxn} /\ W.relay = db[k].relay
      /\ W.exec = db[k].exec
  BY <1>0 DEF Instance
<1>5. /\ E.ro = db[k].ro /\ E.io = db[k].io /\ E.src = db[k].src
      /\ E.wait = db[k].wait /\ E.relay = db[k].relay
      /\ E.exec = db[k].exec \cup {NextTxn}
  BY <1>0 DEF Instance
<1>6. db' = [db EXCEPT ![k] = X]
  BY <1>1
<1> HIDE DEF W, E, NextTxn
<1>7. Gentle(k, db[k], W)
  BY <1>1, <1>3, <1>4, <1>a DEF Gentle
<1>8. Gentle(k, db[k], E)
  BY <1>1, <1>3, <1>5, <1>a DEF Gentle
<1>9. X.ro = db[k].ro /\ X.src = db[k].src /\ Gentle(k, db[k], X)
  <2> HIDE DEF Gentle
  <2> QED BY <1>4, <1>5, <1>7, <1>8
<1> HIDE DEF X
<1> QED BY <1>3, <1>6, <1>9, OneGentle DEF Mild

(* A replica receives a transaction of its source. *)
LEMMA ReceiveMild ==
    ASSUME MySQLTypeOK, LockInv, LogInv, NEW k \in Index, Receive(k)
    PROVE  Mild
<1>0. db \in [Index -> Instance] /\ db[k] \in Instance
  BY DEF MySQLTypeOK
<1> DEFINE s == db[k].src
           t == Oldest(Stream(s) \ Has(k))
           X == [db[k] EXCEPT !.relay = @ \cup {t}]
<1>1. /\ db' = [db EXCEPT ![k] = X] /\ uuid' = uuid /\ db[k].io /\ s # NoSource
      /\ Stream(s) \ Has(k) # {}
  BY <1>0 DEF Receive, Connected
<1>2. /\ X.ro = db[k].ro /\ X.io = db[k].io /\ X.src = db[k].src
      /\ X.wait = db[k].wait /\ X.relay = db[k].relay \cup {t} /\ X.exec = db[k].exec
  BY <1>0 DEF Instance
<1>3. s \in Index /\ s # External
  BY <1>1, LogFacts, NotIndex
<1>4. Stream(s) = db[s].exec \cup db[s].wait
  BY <1>3 DEF Stream
<1>5. Stream(s) \subseteq Txn /\ \A u \in Stream(s) : uuid[u] # Unborn
  BY <1>3, <1>4, LogFacts
<1>6. t \in Stream(s) \ Has(k)
  BY <1>1, <1>5, OldestInSet
<1>7. BornStays
  BY <1>1, SameBorn
<1>8. Gentle(k, db[k], db[k]) /\ db[k].ro
  BY <1>1, <1>7, SameGentle, LogFacts
<1>9. t \notin db[k].exec /\ uuid'[t] # Unborn
  BY <1>1, <1>5, <1>6 DEF Has
<1> HIDE DEF t, X
<1>10. Gentle(k, db[k], X)
  BY <1>1, <1>2, <1>6, <1>8, <1>9 DEF Gentle
<1> QED BY <1>1, <1>2, <1>7, <1>10, OneGentle DEF Mild

(* A Pod that goes stops its instance. *)
LEMMA GoneMild ==
    ASSUME MySQLTypeOK, LockInv, LogInv, NEW k \in Index, PodGone(k)
    PROVE  Mild
<1>1. PICK X \in {Stopped(db[k]), db[k]} : db' = [db EXCEPT ![k] = X]
  BY DEF PodGone
<1>2. BornStays
  BY SameBorn DEF PodGone
<1>3. /\ Gentle(k, db[k], Stopped(db[k])) /\ Stopped(db[k]).ro
      /\ Stopped(db[k]).src = db[k].src
  BY <1>2, StoppedGentle
<1>4. Gentle(k, db[k], db[k])
  BY <1>2, SameGentle
<1>5. Gentle(k, db[k], X) /\ (db[k].ro => X.ro) /\ X.src = db[k].src
  <2> HIDE DEF Gentle
  <2> QED BY <1>1, <1>3, <1>4
<1> QED BY <1>1, <1>2, <1>5, OneGentle DEF Mild

(* A write to the external mysqld. *)
LEMMA ExternalMild ==
    ASSUME MySQLTypeOK, LockInv, LogInv, ExternalWrite
    PROVE  Mild
<1>1. db' = db /\ Unwritten # {} /\ uuid' = [uuid EXCEPT ![NextTxn] = External]
  BY DEF ExternalWrite
<1>2. External \in Origins \ {Unborn}
  BY NAssumption DEF Origins, Unborn, External
<1>3. BornStays
  BY <1>1, <1>2, WrittenBorn
<1> QED BY <1>1, <1>3, FrameGentle

-----------------------------------------------------------------------------
(* What a gentle step keeps *)

(* The binary log that a replica reads. *)
LEMMA StreamOf ==
    ASSUME NEW i \in Index PROVE Stream(i) = db[i].exec \cup db[i].wait
BY NotIndex DEF Stream

(* The channels: a relay log holds what its source has, and the primary    *)
(* gets nothing from another instance.                                     *)
LEMMA ChannelKept ==
    ASSUME MySQLTypeOK, MySQLTypeOK', ChannelInv, StrayInv, GentleStep, LogKept,
           primaryIdx \in Index, primaryIdx' = primaryIdx
    PROVE  ChannelInv'
<1>0. LockInv /\ LogInv /\ QuietInv
  BY DEF ChannelInv
<1>1. LockInv'
  BY DEF GentleStep, Gentle, LockInv
<1>2. ASSUME NEW i \in Index, db'[i].relay # {}
      PROVE  /\ db'[i].src \in Index
             /\ db'[i].relay \subseteq db'[db'[i].src].exec \cup db'[db'[i].src].wait
  <2> DEFINE s == db[i].src
  <2>1. Gentle(i, db[i], db'[i])
    BY DEF GentleStep
  <2>2. db'[i].src = s
    BY <1>2, <2>1 DEF Gentle
  <2>3. \A t \in db'[i].relay : t \in db[i].relay \/ (s # NoSource /\ t \in Stream(s))
    BY <2>1 DEF Gentle
  <2>4. db[i].relay \subseteq IF s = NoSource THEN {} ELSE Stream(s)
    BY <1>0 DEF LogInv
  <2> HIDE DEF s
  <2>5. s # NoSource /\ db'[i].relay \subseteq Stream(s)
    BY <1>2, <2>3, <2>4
  <2>6. s \in Index
    BY <1>0, <2>5 DEF LockInv, s
  <2>7. Stream(s) \subseteq db'[s].exec \cup db'[s].wait
    BY <2>6, StreamOf DEF LogKept
  <2> QED BY <2>2, <2>5, <2>6, <2>7
<1>3. \A i \in Index : /\ \A t \in db'[i].exec \cup db'[i].wait \cup db'[i].relay :
                              uuid'[t] # Unborn
                       /\ db'[i].relay \cap db'[i].exec = {}
  BY DEF GentleStep, Gentle
<1>4. LogInv'
  <2>1. ASSUME NEW i \in Index
        PROVE  db'[i].relay \subseteq IF db'[i].src = NoSource THEN {}
                                      ELSE IF db'[i].src = External THEN ext'
                                      ELSE db'[db'[i].src].exec \cup db'[db'[i].src].wait
    BY <1>2, NotIndex
  <2> QED BY <1>3, <2>1 DEF LogInv, Stream
<1> DEFINE p == primaryIdx
           q == db[p].src
<1>5. /\ db[p].relay = {} /\ Gentle(p, db[p], db'[p])
      /\ db[p].exec \subseteq db'[p].exec /\ db'[p].relay \cap db'[p].exec = {}
  BY <1>0, <1>3 DEF QuietInv, GentleStep, LogKept
<1>6. ASSUME db[p].io, q # NoSource
      PROVE  /\ q \in Index /\ q # p /\ db[q].ro /\ db[q].wait = {}
             /\ db[q].exec \cup db[q].relay \subseteq db[p].exec
             /\ db[q].io => db[q].src \in {p, NoSource}
             /\ db[p].wait = {} /\ events["stray"] = 0
  BY <1>0, <1>6 DEF QuietInv, LockInv, StrayInv
<1>7. db'[p].relay = {}
  <2>1. ASSUME NEW t \in db'[p].relay PROVE FALSE
    <3>1. db[p].io /\ q # NoSource /\ t \in Stream(q)
      BY <1>5, <2>1 DEF Gentle
    <3>2. t \in db[q].exec
      BY <1>6, <3>1, StreamOf
    <3> QED BY <1>5, <1>6, <2>1, <3>1, <3>2
  <2> QED BY <2>1
<1>8. ASSUME db'[p].io, db'[p].src # NoSource
      PROVE  /\ db'[p].src = q /\ db'[q].ro
             /\ db'[q].exec \cup db'[q].relay \subseteq db'[p].exec
             /\ db'[q].io => db'[q].src \in {p, NoSource}
  <2>1. db[p].io /\ db'[p].src = q /\ q # NoSource
    BY <1>5, <1>8 DEF Gentle
  <2>2. /\ q \in Index /\ q # p /\ db[q].ro /\ db[q].wait = {}
        /\ db[q].exec \cup db[q].relay \subseteq db[p].exec
        /\ db[q].io => db[q].src \in {p, NoSource}
        /\ db[p].wait = {} /\ events["stray"] = 0
    BY <1>6, <2>1
  <2>3. Gentle(q, db[q], db'[q])
    BY <2>2 DEF GentleStep
  <2> HIDE DEF q
  <2>4. db'[q].ro
    BY <2>2, <2>3 DEF Gentle
  <2>5. db'[q].exec \subseteq db[p].exec
    <3>1. ~(events["stray"] > 0)
      BY <2>2
    <3> QED BY <2>2, <2>3, <3>1 DEF Gentle
  <2>6. db'[q].relay \subseteq db[p].exec
    <3>1. ASSUME NEW t \in db'[q].relay, t \notin db[q].relay PROVE t \in db[p].exec
      <4>1. db[q].io /\ db[q].src # NoSource /\ t \in Stream(db[q].src)
        BY <2>3, <3>1 DEF Gentle
      <4>2. db[q].src = p /\ Stream(p) = db[p].exec \cup db[p].wait
        BY <2>2, <4>1, StreamOf
      <4> QED BY <2>2, <4>1, <4>2
    <3> QED BY <2>2, <3>1
  <2>7. db'[q].io => db'[q].src \in {p, NoSource}
    BY <2>2, <2>3 DEF Gentle
  <2> QED BY <1>5, <2>1, <2>4, <2>5, <2>6, <2>7
<1>9. QuietInv'
  <2> HIDE DEF q
  <2>1. LET P == db'[primaryIdx] IN
          /\ P.relay = {}
          /\ P.io /\ P.src # NoSource =>
                LET Q == db'[P.src] IN
                /\ Q.ro
                /\ Q.exec \cup Q.relay \subseteq P.exec
                /\ Q.io => Q.src \in {primaryIdx, NoSource}
    BY <1>7, <1>8
  <2> QED BY <2>1 DEF QuietInv
<1> QED BY <1>1, <1>4, <1>9 DEF ChannelInv

(* As long as an administrator may write, no switchover is requested. *)
LEMMA StrayKept ==
    ASSUME StrayInv, events \in [Events -> Nat],
           events' = events \/ \E e \in Events : Happens(e),
           demote' \subseteq demote \/ events["demote"] > 0 \/ events["late"] > 0,
           terminating' \subseteq terminating \/ events["delete"] > 0,
           ss'.switchPod => ss.switchPod \/ primaryIdx \in terminating \cup demote,
           pc' \in SwAll \cup {"swIndex", "swDemote"} =>
               pc \in SwAll \cup {"swIndex", "swDemote"} \/ ss.switchPod,
           events["stray"] > 0 => ~db'[primaryIdx'].io
    PROVE  StrayInv'
<1>1. CASE events["stray"] = 0
  BY <1>1, SpentKept DEF StrayInv, Events
<1>2. CASE events["stray"] # 0
  <2>1. /\ events["demote"] = 0 /\ events["late"] = 0 /\ events["delete"] = 0
        /\ demote = {} /\ terminating = {} /\ ~ss.switchPod
        /\ pc \notin SwAll \cup {"swIndex", "swDemote"}
    BY <1>2 DEF StrayInv, SwAll
  <2>2. events'["demote"] = 0 /\ events'["late"] = 0 /\ events'["delete"] = 0
    BY <2>1, SpentKept DEF Events
  <2>3. demote' = {} /\ terminating' = {}
    BY <2>1
  <2>4. ~ss'.switchPod /\ pc' \notin SwAll \cup {"swIndex", "swDemote"}
    BY <2>1
  <2>5. events["stray"] > 0
    BY <1>2 DEF Events
  <2> QED BY <2>2, <2>3, <2>4, <2>5 DEF StrayInv, SwAll
<1> QED BY <1>1, <1>2

(* What is said of the pass survives a mild step outside of it. *)
LEMMA CourseKept ==
    ASSUME Inv, CompareInv, ChannelInv, CourseInv, PassKept, Mild, LogKept, StrayInv'
    PROVE  CourseInv'
<1>0. /\ PassTypeOK /\ MySQLTypeOK /\ StoppedInv /\ LockInv /\ LogInv /\ QuietInv
      /\ StrayInv /\ ViewInv /\ LoopInv /\ RelayInv /\ HandInv /\ NoFalseErrant
      /\ primaryIdx \in Index /\ ss.known \subseteq Index /\ todo \subseteq Index
      /\ ss.primary \in Index /\ ss.errants \subseteq Index /\ Runners \subseteq Index
  BY RunnersType DEF Inv, TypeOK, CompareInv, ChannelInv, CourseInv, PassTypeOK,
         StatusSetType, KubeTypeOK
<1>1. /\ pc' = pc /\ todo' = todo /\ primaryIdx' = primaryIdx
      /\ ss'.known = ss.known /\ ss'.st = ss.st /\ ss'.primary = ss.primary
      /\ ss'.cand = ss.cand /\ ss'.goal = ss.goal /\ ss'.state = ss.state
      /\ ss'.errants = ss.errants /\ Runners' = Runners
  BY SameFailedOk DEF PassKept, SameView
<1>2. \A i \in Index : /\ db[i].ro => db'[i].ro
                       /\ db[i].exec \subseteq db'[i].exec
                       /\ db'[i].src \in {db[i].src, NoSource}
                       /\ Gentle(i, db[i], db'[i])
  BY DEF Mild, GentleStep, RoKept, SrcOnly, LogKept
<1>3. ViewInv'
  <2>1. pc \notin {"idle", "panic"} => \A i \in ss.known : ss.st[i].ro => db'[i].ro
    BY <1>0, <1>2 DEF ViewInv
  <2>2. pc \in {"gather", "recheck"} =>
           \A i \in ss.known : /\ ss.st[i].exec \subseteq db'[i].exec
                               /\ db'[i].src \in {ss.st[i].src, NoSource}
    <3> HIDE DEF Gentle
    <3> QED BY <1>0, <1>2 DEF ViewInv
  <2> QED BY <1>1, <2>1, <2>2 DEF ViewInv
<1>4. LoopInv'
  <2>1. CASE pc \notin RepSteps
    BY <1>1, <2>1 DEF LoopInv, RepSteps
  <2>2. CASE pc \in RepSteps
    <3>1. todo # {}
      BY <1>0, <2>2 DEF LoopInv, RepSteps
    <3>2. Callee \in Index /\ Callee' = Callee
      BY <1>0, <1>1, <3>1, CalleeType DEF Callee
    <3> HIDE DEF Gentle
    <3>3. /\ todo # {} /\ todo \subseteq ss.known \ {ss.primary}
          /\ pc \in {"repClone", "repPurged", "repChange", "repStart"} => db'[Callee].ro
          /\ pc = "repStart" => db'[Callee].src \in {ss.primary, NoSource}
      BY <1>0, <1>2, <2>2, <3>2 DEF LoopInv, RepSteps
    <3> QED BY <1>1, <3>2, <3>3 DEF LoopInv
  <2> QED BY <2>1, <2>2
<1>5. RelayInv'
  <2>1. ASSUME NEW i \in Index, ~db[i].io PROVE db'[i].relay \subseteq db[i].relay
    BY <1>2, <2>1 DEF Gentle
  <2>2. pc = "foRecheck" =>
           \A i \in Runners \ todo : db'[i].relay \subseteq ss.st[i].retrieved
    BY <1>0, <2>1 DEF StoppedInv, Fixed, RelayInv
  <2>3. pc \in {"foCompare", "foTop", "foWait", "foIndex"} =>
           \A i \in Runners : db'[i].relay \subseteq ss.st[i].retrieved
    BY <1>0, <2>1 DEF StoppedInv, Fixed, RelayInv
  <2>4. pc = "foIndex" => ss.goal \subseteq db'[ss.cand].exec
    <3>1. pc = "foIndex" => ss.cand \in Index
      BY <1>0 DEF Inv, PassInv, RaceInv
    <3> HIDE DEF Gentle
    <3> QED BY <1>0, <1>2, <3>1 DEF RelayInv
  <2>5. pc \in {"foWait", "foIndex"} => ss.goal = ss.st[ss.cand].retrieved
    BY <1>0 DEF RelayInv
  <2> QED BY <1>1, <2>2, <2>3, <2>4, <2>5 DEF RelayInv
<1>6. HandInv'
  <2> DEFINE p == primaryIdx
  <2>0. Gentle(p, db[p], db'[p])
    BY <1>0, <1>2
  <2>1. ASSUME SwitchPlanned
        PROVE  /\ db'[p].relay = {} /\ ~db'[p].io
               /\ ss.cand # p /\ db'[ss.cand].src \in {p, NoSource}
    <3>1. /\ db[p].relay = {} /\ ~db[p].io
          /\ ss.cand # p /\ db[ss.cand].src \in {p, NoSource}
      BY <1>0, <2>1 DEF HandInv
    <3>2. ss.cand \in Index
      BY <2>1 DEF Inv, PassInv, SwitchInv
    <3>3. db'[p].relay = {} /\ ~db'[p].io
      BY <2>0, <3>1 DEF Gentle
    <3> HIDE DEF Gentle
    <3> QED BY <1>2, <3>1, <3>2, <3>3
  <2>2. pc \in {"swKill", "swStatus", "swWait", "swIndex"} => db'[p].ro
    <3> HIDE DEF Gentle
    <3> QED BY <1>0, <1>2 DEF HandInv
  <2>3. ASSUME pc \in {"swWait", "swIndex"} PROVE db'[p].exec \subseteq ss.goal
    <3>1. db[p].exec \subseteq ss.goal /\ db[p].relay = {} /\ db[p].ro
      BY <1>0, <2>3 DEF HandInv, SwitchPlanned
    <3>2. db[p].wait = {}
      BY <1>0, <3>1 DEF LockInv
    <3>3. ~(events["stray"] > 0)
      BY <1>0, <2>3 DEF StrayInv
    <3> QED BY <2>0, <3>1, <3>2, <3>3 DEF Gentle
  <2>4. pc = "swIndex" => ss.goal \subseteq db'[ss.cand].exec
    <3>1. pc = "swIndex" => ss.cand \in Index
      BY DEF Inv, PassInv, SwitchInv, SwitchPlanned
    <3> HIDE DEF Gentle
    <3> QED BY <1>0, <1>2, <3>1 DEF HandInv
  <2>5. SwitchPlanned' <=> SwitchPlanned
    BY <1>1 DEF SwitchPlanned
  <2> HIDE DEF SwitchPlanned
  <2> QED BY <1>1, <2>1, <2>2, <2>3, <2>4, <2>5 DEF HandInv
<1>7. NoFalseErrant'
  <2>0. ExecutedGTID(ss') = ExecutedGTID(ss)
    BY <1>1 DEF ExecutedGTID, PstKnown, Pst
  <2> SUFFICES ASSUME pc = "update", ExecutedGTID(ss) # {}, NEW i \in ss.errants
               PROVE  ~(db'[i].exec \subseteq db'[ss.primary].exec \cup db'[ss.primary].wait)
    BY <1>1, <2>0 DEF NoFalseErrant
  <2>1. ss.primary = primaryIdx
    BY DEF Inv, PassInv, SnapshotInv
  <2> DEFINE p == primaryIdx
  <2>2. PICK t \in db[i].exec : t \notin db[p].exec \cup db[p].wait
    BY <1>0, <2>1 DEF NoFalseErrant
  <2>3. t \in db'[i].exec /\ uuid[t] # Unborn
    <3> HIDE DEF Gentle
    <3> QED BY <1>0, <1>2, LogFacts
  <2>4. t \notin db'[p].exec \cup db'[p].wait
    <3>1. Gentle(p, db[p], db'[p]) /\ db[p].relay = {}
      BY <1>0, <1>2 DEF QuietInv
    <3> QED BY <2>2, <2>3, <3>1 DEF Gentle
  <2> QED BY <2>1, <2>3, <2>4
<1> QED BY <1>3, <1>4, <1>5, <1>6, <1>7 DEF CourseInv

(* The inductive invariant: the channels between the instances, and the    *)
(* course of the pass.                                                     *)
HandOverInv == PlainInv /\ ChannelInv /\ CourseInv

(* What happens outside of the pass. *)
LEMMA EnvironmentMild ==
    ASSUME Inv, Inv', CompareInv, HandOverInv, LogKept, PassKept, Mild,
           UNCHANGED <<source, restoring>>, ss'.switchPod = ss.switchPod,
           events' = events \/ \E e \in Events : Happens(e),
           demote' \subseteq demote \/ events["demote"] > 0 \/ events["late"] > 0,
           terminating' \subseteq terminating \/ events["delete"] > 0
    PROVE  HandOverInv'
<1>0. /\ MySQLTypeOK /\ MySQLTypeOK' /\ PlainInv /\ ChannelInv /\ CourseInv /\ StrayInv
      /\ primaryIdx \in Index /\ events \in [Events -> Nat] /\ primaryIdx' = primaryIdx
      /\ pc' = pc /\ GentleStep
  BY DEF Inv, TypeOK, HandOverInv, KubeTypeOK, PassKept, CourseInv, Mild
<1>1. ChannelInv'
  BY <1>0, ChannelKept
<1>2. events["stray"] > 0 => ~db'[primaryIdx'].io
  <2>1. events["stray"] > 0 => ~db[primaryIdx].io
    BY <1>0 DEF StrayInv
  <2>2. Gentle(primaryIdx, db[primaryIdx], db'[primaryIdx])
    BY <1>0 DEF GentleStep
  <2> QED BY <1>0, <2>1, <2>2 DEF Gentle
<1>3. StrayInv'
  BY <1>0, <1>2, StrayKept
<1>4. CourseInv'
  BY <1>0, <1>3, CourseKept
<1>5. PlainInv'
  <2>1. events'["unlock"] = 0
    BY <1>0, SpentKept DEF PlainInv, Events
  <2> QED BY <1>0, <2>1 DEF PlainInv, PassKept
<1> QED BY <1>1, <1>4, <1>5 DEF HandOverInv

(* Nothing that the environment does misleads the controller, as long as   *)
(* no binary log is lost.                                                  *)
LEMMA EnvironmentHand ==
    ASSUME Inv, Inv', CompareInv, HandOverInv, LogKept, Environment PROVE HandOverInv'
<1>0. /\ MySQLTypeOK /\ LockInv /\ LogInv /\ PlainInv /\ CloneInv /\ ss \in StatusSetType
      /\ primaryIdx \in Index
  BY DEF Inv, TypeOK, CompareInv, HandOverInv, ChannelInv, PassTypeOK, KubeTypeOK
<1>a. UNCHANGED <<passVars, kubeVars>> =>
        /\ PassKept /\ UNCHANGED <<source, restoring, demote, terminating>>
        /\ ss'.switchPod = ss.switchPod
  BY DEF passVars, kubeVars, PassKept, SameView
<1>b. ASSUME Mild, UNCHANGED <<passVars, kubeVars>>,
             events' = events \/ \E e \in Events : Happens(e)
      PROVE  HandOverInv'
  BY <1>a, <1>b, EnvironmentMild
<1>1. CASE SourceWrites
  <2>1. ExternalWrite /\ UNCHANGED <<passVars, kubeVars>> /\ Happens("external")
    BY <1>1 DEF SourceWrites
  <2>2. Mild
    BY <1>0, <2>1, ExternalMild
  <2> QED BY <1>b, <2>1, <2>2 DEF Events
<1>2. CASE RemoveSource \/ Restore
  BY <1>0, <1>2 DEF RemoveSource, Restore, PlainInv
<1>3. ASSUME NEW i \in Index,
             \/ RequestDemote \/ SetOffline \/ ConnectionLost(i)
             \/ ConnectionBack(i) \/ PodTerminate(i) \/ PodCreate(i)
      PROVE  HandOverInv'
  <2>1. UNCHANGED <<mysqlVars, passVars, primaryIdx, source, restoring>>
    BY <1>3 DEF RequestDemote, SetOffline, ConnectionLost,
           ConnectionBack, PodTerminate, PodCreate, kubeVars
  <2>2. PassKept /\ ss'.switchPod = ss.switchPod
    BY <2>1 DEF PassKept, SameView, passVars
  <2>3. events' = events \/ \E e \in Events : Happens(e)
    BY <1>3 DEF RequestDemote, SetOffline, ConnectionLost,
           ConnectionBack, PodTerminate, PodCreate, Events
  <2>4. /\ demote' \subseteq demote \/ events["demote"] > 0 \/ events["late"] > 0
        /\ terminating' \subseteq terminating \/ events["delete"] > 0
    BY <1>3 DEF RequestDemote, SetOffline, ConnectionLost,
           ConnectionBack, PodTerminate, PodCreate, kubeVars, Happens
  <2>5. Mild
    BY <1>0, <2>1, FrameGentle, SameBorn DEF mysqlVars
  <2> QED BY <2>1, <2>2, <2>3, <2>4, <2>5, EnvironmentMild
<1>4. ASSUME NEW i \in Index, Writes(i) PROVE HandOverInv'
  <2>1. ClientWrite(i) /\ UNCHANGED <<passVars, kubeVars>> /\ Happens("write")
    BY <1>4 DEF Writes
  <2>2. Mild
    BY <1>0, <2>1, WriteMild
  <2> QED BY <1>b, <2>1, <2>2 DEF Events
<1>5. ASSUME NEW i \in Index, Receives(i) PROVE HandOverInv'
  <2>1. Receive(i) /\ UNCHANGED <<passVars, kubeVars>> /\ events' = events
    BY <1>5 DEF Receives, Outside
  <2>2. Mild
    BY <1>0, <2>1, ReceiveMild
  <2> QED BY <1>b, <2>1, <2>2
<1>6. ASSUME NEW i \in Index, EndsClone(i) PROVE FALSE
  BY <1>0, <1>6 DEF EndsClone, CloneEnd, CloneInv, PlainInv
<1>7. ASSUME NEW i \in Index, InstanceUnlocked(i) PROVE FALSE
  BY <1>0, <1>7 DEF InstanceUnlocked, Happens, PlainInv
<1>8. ASSUME NEW i \in Index,
             \/ Commits(i) \/ Applies(i) \/ FailsClone(i) \/ InstanceCrash(i)
             \/ InstanceStart(i) \/ InstanceDiverges(i) \/ VolumeLost(i)
      PROVE  HandOverInv'
  <2>1. /\ UNCHANGED <<passVars, kubeVars>>
        /\ \/ Apply(i) \/ Crash(i) \/ Start(i) \/ Wipe(i) \/ CloneFail(i) \/ Commit(i)
           \/ StrayWrite(i) /\ events["stray"] > 0
    BY <1>8 DEF Commits, Applies, FailsClone, InstanceCrash, InstanceStart,
       InstanceDiverges, VolumeLost, Outside, Happens
  <2>2. events' = events \/ \E e \in Events : Happens(e)
    BY <1>8 DEF Commits, Applies, FailsClone, InstanceCrash, InstanceStart,
       InstanceDiverges, VolumeLost, Outside, Events
  <2>3. Mild
    BY <1>0, <2>1, LifeMild
  <2> QED BY <1>b, <2>1, <2>2, <2>3
<1>9. ASSUME NEW i \in Index, PodGone(i) PROVE HandOverInv'
  <2>1. /\ ss' = ss \/ ss' = [ss EXCEPT !.gone = @ \cup {i}]
        /\ UNCHANGED <<primaryIdx, source, restoring, pc, todo, events>>
        /\ demote' \subseteq demote /\ terminating' \subseteq terminating
    BY <1>9 DEF PodGone
  <2>2. PassKept /\ ss'.switchPod = ss.switchPod
    <3>1. CASE ss' = ss
      BY <2>1, <3>1 DEF PassKept, SameView
    <3>2. CASE ss' = [ss EXCEPT !.gone = @ \cup {i}]
      BY <1>0, <2>1, <3>2 DEF PassKept, SameView, StatusSetType
    <3> QED BY <2>1, <3>1, <3>2
  <2>3. Mild
    BY <1>0, <1>9, GoneMild
  <2> QED BY <2>1, <2>2, <2>3, EnvironmentMild
<1>10. 0 \in Index
  BY NAssumption DEF Index
<1> QED BY <1>1, <1>2, <1>3, <1>4, <1>5, <1>6, <1>7, <1>8, <1>9, <1>10
       DEF Environment, Mysqld

-----------------------------------------------------------------------------
(* configure does not mislead a later pass *)

(* A replica that the snapshot shows read-only still is. *)
LEMMA PlainLocked ==
    ASSUME PassTypeOK, ViewInv, pc \notin {"idle", "panic"}, NEW d, PlainDest(d), RoKept
    PROVE  GoodDest(d)
<1>0. ss.known \subseteq Index /\ Index \subseteq Nat
  BY IndexFacts DEF PassTypeOK, StatusSetType
<1>1. ASSUME d[1] \in ConnectSteps PROVE db'[LowestOrdinal(d[2])].ro
  <2>1. d[1] \in RepSteps
    BY <1>1 DEF ConnectSteps, RepSteps
  <2>2. d[2] # {} /\ d[2] \subseteq ss.known
    BY <2>1 DEF PlainDest
  <2>3. LowestOrdinal(d[2]) \in d[2]
    BY <1>0, <2>2, LowestOrdinalExists
  <2>4. ss.st[LowestOrdinal(d[2])].ro
    BY <1>1 DEF PlainDest
  <2> QED BY <1>0, <2>2, <2>3, <2>4 DEF ViewInv, RoKept
<1> QED BY <1>1 DEF PlainDest, GoodDest

(* The rest of configureReplica, or the next replica. *)
LEMMA ContinueLocked ==
    ASSUME PassTypeOK, ViewInv, LoopInv, PlainInv, pc \in RepSteps, RoKept,
           NEW step \in RepSteps \cup {"done"},
           step \in ConnectSteps => db'[Callee].ro,
           step = "repStart" => db'[Callee].src \in {ss.primary, NoSource}
    PROVE  GoodDest(ContinueReplica(step))
<1>0. /\ todo # {} /\ todo \subseteq ss.known \ {ss.primary}
      /\ ~ss.source /\ pc \notin {"idle", "panic"}
  BY DEF LoopInv, RepSteps, PlainInv
<1>1. CASE step = "done"
  <2>1. PlainDest(ToReplica(todo \ {Callee}))
    BY <1>0, PlainDestinations
  <2>2. GoodDest(ToReplica(todo \ {Callee}))
    BY <1>0, <2>1, PlainLocked
  <2> QED BY <1>1, <2>2 DEF ContinueReplica
<1>2. CASE step \in RepSteps
  <2>1. ContinueReplica(step) = <<step, todo>>
    BY <1>2 DEF ContinueReplica, RepSteps
  <2>2. LowestOrdinal(todo) = Callee
    BY DEF Callee
  <2>3. step \in ConfSteps /\ step \notin MidSteps /\ todo \subseteq Index
    BY <1>0, <1>2 DEF RepSteps, ConfSteps, MidSteps, PassTypeOK
  <2>4. GoodDest(<<step, todo>>)
    BY <1>0, <2>2, <2>3 DEF GoodDest, ConfDest
  <2> QED BY <2>1, <2>4
<1> QED BY <1>1, <1>2

(* As long as an administrator may write, the primary does not begin to    *)
(* replicate and the pass does not begin a switchover.                     *)
LEMMA CalmStray ==
    ASSUME Inv, StrayInv, GentleStep, primaryIdx' = primaryIdx,
           events' = events \/ \E e \in Events : Happens(e),
           demote' \subseteq demote, terminating' = terminating,
           ss'.switchPod => ss.switchPod \/ primaryIdx \in terminating \cup demote,
           pc' \in SwAll \cup {"swIndex", "swDemote"} =>
               pc \in SwAll \cup {"swIndex", "swDemote"} \/ ss.switchPod
    PROVE  StrayInv'
<1>1. primaryIdx \in Index /\ events \in [Events -> Nat]
  BY DEF Inv, TypeOK, KubeTypeOK
<1>2. events["stray"] > 0 => ~db'[primaryIdx'].io
  <2>1. events["stray"] > 0 => ~db[primaryIdx].io
    BY <1>1 DEF StrayInv
  <2>2. Gentle(primaryIdx, db[primaryIdx], db'[primaryIdx])
    BY <1>1 DEF GentleStep
  <2> QED BY <1>1, <2>1, <2>2 DEF Gentle
<1> QED BY <1>1, <1>2, StrayKept

(* The end of a pass. *)
LEMMA EndHand ==
    ASSUME Inv, Inv', HandOverInv, LogKept, GentleStep, pc' \in {"idle", "panic"},
           UNCHANGED <<primaryIdx, source, restoring>>,
           events' = events \/ \E e \in Events : Happens(e),
           demote' \subseteq demote, terminating' = terminating,
           ss'.switchPod => ss.switchPod
    PROVE  HandOverInv'
<1>0. /\ MySQLTypeOK /\ MySQLTypeOK' /\ ChannelInv /\ StrayInv /\ PlainInv
      /\ primaryIdx \in Index /\ events \in [Events -> Nat]
  BY DEF Inv, TypeOK, HandOverInv, CourseInv, KubeTypeOK
<1>1. ChannelInv'
  BY <1>0, ChannelKept
<1>2. StrayInv'
  BY <1>0, CalmStray DEF SwAll
<1>3. CourseInv'
  BY <1>2 DEF CourseInv, ViewInv, LoopInv, RelayInv, HandInv, NoFalseErrant, SwitchPlanned
<1>4. PlainInv'
  <2>1. events'["unlock"] = 0
    BY <1>0, SpentKept DEF PlainInv, Events
  <2> QED BY <1>0, <2>1 DEF PlainInv
<1> QED BY <1>1, <1>3, <1>4 DEF HandOverInv

(* The wish to switch is forgotten once an operation begins. *)
LEMMA TakeForgets ==
    ASSUME PassTypeOK, NEW dest, Take(dest) PROVE ~ss'.switchPod
<1>1. CASE ss' = NoStatusSet
  BY <1>1 DEF NoStatusSet
<1>2. CASE ss' = [ss EXCEPT !.ready = {}, !.switchPod = FALSE, !.annotated = {}]
  <2>1. ss \in StatusSetType
    BY DEF PassTypeOK
  <2> QED BY <1>2, <2>1 DEF StatusSetType
<1> QED BY <1>1, <1>2 DEF Take

(* A call of configure that succeeds, and a good destination. *)
LEMMA CallHand ==
    ASSUME Inv, Inv', HandOverInv, LogKept, pc \notin {"idle", "panic"}, GentleStep, RoKept,
           NEW d, GoodDest(d), Take(d),
           UNCHANGED <<primaryIdx, source, restoring, events, demote, terminating>>
    PROVE  HandOverInv'
<1>0. /\ MySQLTypeOK /\ MySQLTypeOK' /\ PassTypeOK /\ ChannelInv /\ StrayInv /\ ViewInv
      /\ PlainInv /\ primaryIdx \in Index /\ ss.known \subseteq Index
  BY DEF Inv, TypeOK, HandOverInv, CourseInv, KubeTypeOK, PassTypeOK, StatusSetType
<1>1. d \in ConfDest /\ pc' = d[1] /\ todo' = d[2] /\ (pc' # "idle" => SameView)
  BY <1>0, ConfDestType, TakeType DEF GoodDest
<1>2. pc' # "idle" => ss'.source = ss.source
  BY <1>0, TakeSpec DEF SameSpec
<1>3. pc' \in ConfSteps \cup {"idle"} /\ pc' \notin MidSteps
  BY <1>1 DEF GoodDest, ConfDest
<1>4. PlainInv'
  BY <1>0, <1>2, <1>3 DEF PlainInv, ConfSteps, MidSteps
<1>5. ChannelInv'
  BY <1>0, ChannelKept
<1>6. StrayInv'
  <2>1. ~ss'.switchPod /\ pc' \notin SwAll \cup {"swIndex", "swDemote"}
    BY <1>0, <1>3, TakeForgets DEF ConfSteps, SwAll
  <2> QED BY <1>0, <2>1, CalmStray
<1>7. ViewInv'
  <2>1. pc' # "idle" => ss'.known = ss.known /\ ss'.st = ss.st
    BY <1>1 DEF SameView
  <2>2. \A i \in ss.known : ss.st[i].ro => db'[i].ro
    BY <1>0 DEF ViewInv, RoKept
  <2> QED BY <1>3, <2>1, <2>2 DEF ViewInv, ConfSteps
<1>8. LoopInv'
  <2>1. pc' # "idle" => ss'.known = ss.known /\ ss'.primary = ss.primary
    BY <1>1 DEF SameView
  <2>2. Callee' = LowestOrdinal(d[2])
    BY <1>1 DEF Callee
  <2> QED BY <1>1, <2>1, <2>2 DEF LoopInv, GoodDest, RepSteps, ConnectSteps
<1>9. RelayInv' /\ HandInv' /\ NoFalseErrant'
  BY <1>3 DEF RelayInv, HandInv, NoFalseErrant, SwitchPlanned, ConfSteps
<1> QED BY <1>4, <1>5, <1>6, <1>7, <1>8, <1>9 DEF HandOverInv, CourseInv

(* A turn of a loop of configure over Pods or connections. *)
LEMMA TurnHand ==
    ASSUME Inv, Inv', CompareInv, HandOverInv, LogKept, pc \in {"unlabel", "kill", "label"},
           Mild, NEW d, PlainDest(d), NextTurn(d),
           UNCHANGED <<primaryIdx, source, restoring, events, demote, terminating>>
    PROVE  HandOverInv'
<1>0. /\ PassTypeOK /\ MySQLTypeOK /\ MySQLTypeOK' /\ ViewInv /\ StrayInv /\ PlainInv
      /\ ChannelInv /\ primaryIdx \in Index /\ ss.known \subseteq Index /\ GentleStep /\ RoKept
      /\ pc \notin {"idle", "panic"}
  BY DEF Inv, TypeOK, HandOverInv, CourseInv, KubeTypeOK, Mild, PassTypeOK, StatusSetType
<1>1. CASE Take(d)
  <2>1. GoodDest(d)
    BY <1>0, PlainLocked
  <2> QED BY <1>0, <1>1, <2>1, CallHand
<1>2. CASE UNCHANGED <<pc, ss>>
  <2>1. ChannelInv'
    BY <1>0, ChannelKept
  <2>2. StrayInv'
    BY <1>0, <1>2, CalmStray
  <2>3. PlainInv'
    BY <1>0, <1>2 DEF PlainInv
  <2>4. ViewInv'
    <3>1. \A i \in ss.known : ss.st[i].ro => db'[i].ro
      BY <1>0 DEF ViewInv, RoKept
    <3> QED BY <1>2, <3>1 DEF ViewInv
  <2>5. LoopInv' /\ RelayInv' /\ HandInv' /\ NoFalseErrant'
    BY <1>2 DEF LoopInv, RelayInv, HandInv, NoFalseErrant, SwitchPlanned
  <2> QED BY <2>1, <2>2, <2>3, <2>4, <2>5 DEF HandOverInv, CourseInv
<1> QED BY <1>1, <1>2 DEF NextTurn

(* configure keeps the invariant. *)
LEMMA ConfigureHand ==
    ASSUME Inv, Inv', CompareInv, HandOverInv, LogKept, Configure PROVE HandOverInv'
<1>0. /\ MySQLTypeOK /\ PassTypeOK /\ LockInv /\ LogInv /\ PlainInv /\ ViewInv
      /\ LoopInv /\ primaryIdx \in Index /\ ss.primary \in Index /\ pods \subseteq Index
  BY DEF Inv, TypeOK, HandOverInv, ChannelInv, CourseInv, PassTypeOK, StatusSetType, KubeTypeOK
<1>1. /\ UNCHANGED <<primaryIdx, source, restoring, events>> /\ pc \in ConfAll
      /\ pc \notin {"idle", "panic"}
  BY ConfigureFrame, ConfigureMoves DEF ConfAll, ConfSteps
<1>2. ~ss.source /\ pc \notin MidSteps
  BY <1>0, <1>1 DEF PlainInv, MidSteps
<1>3. ss.primary = primaryIdx
  BY <1>1 DEF Inv, PassInv, SnapshotInv, ConfAll, ConfSteps
<1>4. /\ PlainDest(ToIdle) /\ PlainDest(ToWritable)
      /\ PlainDest(ToReplicas) /\ PlainDest(ToSemiSync) /\ PlainDest(ToPrimWait)
      /\ PlainDest(ToPrimary) /\ PlainDest(ToKill)
  BY <1>0, <1>2, PlainDestinations
<1>5. UNCHANGED <<demote, terminating>>
  BY DEF Configure, removeRoleLabel, killAlive, midReadOnly, midSource, midStart, primStop,
     primWait, primSemiSync, repStop, repKill, repReadOnly, repClone, repPurged, repChange,
     repStart, addRoleLabel, makeWritable, SetRole, Outside, kubeVars
<1>a. ASSUME GentleStep, RoKept, NEW d, Take(d), GoodDest(d) PROVE HandOverInv'
  BY <1>1, <1>5, <1>a, CallHand
<1>b. ASSUME NEW s, Calling(s) PROVE Callee \in Index
  BY <1>0, <1>b DEF Calling, Answers, Reachable
<1>c. ASSUME Mild, NEW d, Take(d), PlainDest(d) PROVE HandOverInv'
  <2>1. GentleStep /\ RoKept
    BY <1>c DEF Mild
  <2>2. GoodDest(d)
    BY <1>0, <1>1, <1>c, <2>1, PlainLocked
  <2> QED BY <1>a, <1>c, <2>1, <2>2
<1>d. ASSUME Mild, NEW d, NextTurn(d), PlainDest(d), pc \in {"unlabel", "kill", "label"}
      PROVE  HandOverInv'
  BY <1>1, <1>5, <1>d, TurnHand
<1>e. UNCHANGED mysqlVars => Mild
  BY <1>0, FrameGentle, SameBorn DEF mysqlVars
<1>f. pc \in RepSteps => Callee # primaryIdx
  <2>1. pc \in RepSteps => todo # {} /\ ss.primary \notin todo
    BY <1>0 DEF LoopInv, RepSteps
  <2> QED BY <1>0, <1>3, <2>1, CalleeType
<1> HIDE DEF PlainDest, GoodDest
<1>6. CASE removeRoleLabel \/ addRoleLabel
  <2>1. UNCHANGED mysqlVars /\ pc \in {"unlabel", "label"}
        /\ (NextTurn(ToKill) \/ NextTurn(ToWritable))
    BY <1>6 DEF removeRoleLabel, addRoleLabel, SetRole
  <2> QED BY <1>4, <1>d, <1>e, <2>1
<1>7. CASE killAlive
  <2>1. KillConnections(Callee) /\ pc = "kill" /\ NextTurn(ToPrimary) /\ Callee \in Index
    BY <1>7, <1>b DEF killAlive, Calling
  <2>2. Mild
    BY <1>0, <2>1, StatementMild
  <2> QED BY <1>4, <1>d, <2>1, <2>2
<1>8. CASE midReadOnly \/ midSource \/ midStart
  BY <1>2, <1>8 DEF midReadOnly, midSource, midStart, Calling, MidSteps
<1>9. CASE primStop
  <2>1. StopReplicaIOThread(ss.primary) /\ Take(ToPrimWait)
    BY <1>9 DEF primStop
  <2>2. Mild
    BY <1>0, <2>1, StatementMild
  <2> QED BY <1>4, <1>c, <2>1, <2>2
<1>10. CASE primWait
  <2>1. UNCHANGED mysqlVars /\ Take(ToSemiSync)
    BY <1>10 DEF primWait
  <2> QED BY <1>4, <1>c, <1>e, <2>1
<1>11. CASE primSemiSync
  <2>1. ConfigurePrimary(ss.primary) /\ Take(ToReplicas)
    BY <1>11 DEF primSemiSync
  <2>2. Mild
    BY <1>0, <2>1, StatementMild
  <2> QED BY <1>4, <1>c, <2>1, <2>2
<1>12. CASE repStop
  <2>1. StopReplicaIOThread(Callee) /\ Take(ContinueReplica("done")) /\ pc = "repStop"
        /\ Callee \in Index
    BY <1>12, <1>b DEF repStop, Calling
  <2>2. GentleStep /\ RoKept
    BY <1>0, <2>1, StatementMild DEF Mild
  <2>3. GoodDest(ContinueReplica("done"))
    BY <1>0, <2>1, <2>2, ContinueLocked DEF RepSteps, ConnectSteps
  <2> QED BY <1>a, <2>1, <2>2, <2>3
<1>13. CASE repKill
  <2>1. KillConnections(Callee) /\ Take(ContinueReplica("repReadOnly")) /\ pc = "repKill"
        /\ Callee \in Index
    BY <1>13, <1>b DEF repKill, Calling
  <2>2. GentleStep /\ RoKept
    BY <1>0, <2>1, StatementMild DEF Mild
  <2>3. GoodDest(ContinueReplica("repReadOnly"))
    BY <1>0, <2>1, <2>2, ContinueLocked DEF RepSteps, ConnectSteps
  <2> QED BY <1>a, <2>1, <2>2, <2>3
<1>14. CASE repReadOnly
  <2>1. SetReadOnly(Callee) /\ Take(ContinueReplica(CloneEntry(Callee))) /\ pc = "repReadOnly"
        /\ Callee \in Index
    BY <1>14, <1>b DEF repReadOnly, Calling
  <2>2. GentleStep /\ RoKept
    BY <1>0, <2>1, StatementMild DEF Mild
  <2>3. db'[Callee].ro
    <3>1. db[Callee] \in Instance /\ db' = [db EXCEPT ![Callee].ro = TRUE]
      BY <1>0, <2>1 DEF MySQLTypeOK, SetReadOnly
    <3> QED BY <1>0, <2>1, <3>1 DEF MySQLTypeOK, Instance
  <2>4. CloneEntry(Callee) \in RepSteps \cup {"done"} /\ CloneEntry(Callee) # "repStart"
    BY EntryFacts DEF RepSteps
  <2>5. GoodDest(ContinueReplica(CloneEntry(Callee)))
    BY <1>0, <2>1, <2>2, <2>3, <2>4, ContinueLocked DEF RepSteps
  <2> QED BY <1>a, <2>1, <2>2, <2>5
<1>15. CASE repClone
  <2>1. CloneFrom(Callee, primaryIdx) /\ Take(ContinueReplica(SourceEntry(Callee)))
        /\ pc = "repClone" /\ Callee \in Index
    BY <1>3, <1>15, <1>b DEF repClone, Calling
  <2>2. GentleStep /\ RoKept /\ db'[Callee].ro
    BY <1>0, <1>f, <2>1, CloneGentle DEF RepSteps
  <2>3. SourceEntry(Callee) \in RepSteps \cup {"done"} /\ SourceEntry(Callee) # "repStart"
    BY EntryFacts DEF RepSteps
  <2>4. GoodDest(ContinueReplica(SourceEntry(Callee)))
    BY <1>0, <2>1, <2>2, <2>3, ContinueLocked DEF RepSteps
  <2> QED BY <1>a, <2>1, <2>2, <2>4
<1>16. CASE repPurged
  <2>1. UNCHANGED mysqlVars /\ pc' = "idle" /\ ~ss'.switchPod
    BY <1>16 DEF repPurged, Idle, NoStatusSet
  <2>2. GentleStep
    BY <1>e, <2>1 DEF Mild
  <2> QED BY <1>1, <1>5, <2>1, <2>2, EndHand
<1>17. CASE repChange
  <2>1. /\ ChangeSource(Callee, primaryIdx, ~ss.source)
        /\ Take(ContinueReplica("repStart")) /\ pc = "repChange" /\ Callee \in Index
    BY <1>3, <1>17, <1>b DEF repChange, Calling
  <2>2. db[Callee].ro /\ Callee # primaryIdx /\ (~ss.source) \in BOOLEAN
    BY <1>0, <1>f, <2>1 DEF LoopInv, RepSteps
  <2>3. GentleStep /\ RoKept /\ db'[Callee].src = primaryIdx
    BY <1>0, <2>1, <2>2, ChangeGentle
  <2>4. GoodDest(ContinueReplica("repStart"))
    <3>1. db'[Callee].ro
      BY <2>1, <2>2, <2>3 DEF RoKept
    <3> QED BY <1>0, <1>3, <2>1, <2>3, <3>1, ContinueLocked DEF RepSteps
  <2> QED BY <1>a, <2>1, <2>3, <2>4
<1>18. CASE repStart
  <2>1. StartReplica(Callee) /\ Take(ContinueReplica("done")) /\ pc = "repStart"
        /\ Callee \in Index
    BY <1>18, <1>b DEF repStart, Calling
  <2>2. db[Callee].ro /\ db[Callee].src \in {primaryIdx, NoSource} /\ Callee # primaryIdx
    BY <1>0, <1>3, <1>f, <2>1 DEF LoopInv, RepSteps
  <2>3. GentleStep /\ RoKept
    BY <1>0, <2>1, <2>2, StartGentle
  <2>4. GoodDest(ContinueReplica("done"))
    BY <1>0, <2>1, <2>3, ContinueLocked DEF RepSteps, ConnectSteps
  <2> QED BY <1>a, <2>1, <2>3, <2>4
<1>19. CASE makeWritable
  <2>1. SetWritable(primaryIdx) /\ pc' = "idle" /\ ~ss'.switchPod
    BY <1>3, <1>19 DEF makeWritable, Idle, NoStatusSet
  <2>2. GentleStep
    BY <1>0, <2>1, WritableGentle
  <2> QED BY <1>1, <1>5, <2>1, <2>2, EndHand
<1> QED BY <1>6, <1>7, <1>8, <1>9, <1>10, <1>11, <1>12, <1>13, <1>14, <1>15, <1>16,
       <1>17, <1>18, <1>19 DEF Configure

-----------------------------------------------------------------------------
(* The observations, and what is concluded from them *)

(* A step that touches no instance. *)
LEMMA FrameHand ==
    ASSUME Inv, Inv', HandOverInv, UNCHANGED <<mysqlVars, primaryIdx>>
    PROVE  ChannelInv' /\ Mild /\ LogKept /\ db' = db
<1>0. /\ MySQLTypeOK /\ MySQLTypeOK' /\ ChannelInv /\ LockInv /\ LogInv /\ StrayInv
      /\ primaryIdx \in Index
  BY DEF Inv, TypeOK, HandOverInv, ChannelInv, CourseInv, KubeTypeOK
<1>1. db' = db /\ uuid' = uuid
  BY DEF mysqlVars
<1>2. Mild /\ LogKept
  BY <1>0, <1>1, FrameGentle, SameBorn DEF LogKept
<1> QED BY <1>0, <1>1, <1>2, ChannelKept DEF Mild

(* A call that fails or times out, an interrupted pass, the restart of the *)
(* controller, a failover that is given up and the end of a switchover.    *)
LEMMA FailureHand ==
    ASSUME Inv, Inv', HandOverInv,
           \/ CallFails \/ CallTimesOut \/ Abort \/ ControllerRestart
           \/ annotateStops \/ foGiveUp \/ swDemote
    PROVE  HandOverInv'
<1>1. /\ pc' \in {"idle", "panic"} /\ UNCHANGED mysqlVars
      /\ UNCHANGED <<primaryIdx, source, restoring, terminating>>
      /\ demote' \subseteq demote
  BY DEF CallFails, CallTimesOut, Abort, ControllerRestart, annotateStops, Idle,
     foGiveUp, swDemote, Outside, kubeVars
<1>2. UNCHANGED events \/ Happens("abort")
  BY DEF CallFails, CallTimesOut, Abort, ControllerRestart, annotateStops, foGiveUp,
     swDemote, Outside
<1>3. "abort" \in Events
  BY DEF Events
<1>4. ss' = NoStatusSet \/ ss' = ss
  BY DEF CallFails, CallTimesOut, Abort, ControllerRestart, annotateStops, Idle,
     foGiveUp, swDemote
<1>5. ss'.switchPod => ss.switchPod
  <2>1. ~NoStatusSet.switchPod
    BY DEF NoStatusSet
  <2> QED BY <1>4, <2>1
<1>6. GentleStep /\ LogKept
  BY <1>1, FrameHand DEF Mild
<1> QED BY <1>1, <1>2, <1>3, <1>5, <1>6, EndHand

(* A step of the pass that touches no instance. *)
LEMMA LookHand ==
    ASSUME Inv, Inv', HandOverInv, pc \notin {"idle", "panic"},
           UNCHANGED <<mysqlVars, primaryIdx, source, restoring, demote, terminating>>,
           events' = events \/ \E e \in Events : Happens(e),
           ss'.switchPod => ss.switchPod, ss'.source = ss.source,
           pc' \notin {"clone", "cloneWait"} \cup MidSteps,
           pc' \in SwAll \cup {"swIndex", "swDemote"} =>
               pc \in SwAll \cup {"swIndex", "swDemote"} \/ ss.switchPod,
           ViewInv', LoopInv', RelayInv', HandInv', NoFalseErrant'
    PROVE  HandOverInv'
<1>0. PlainInv /\ StrayInv /\ events \in [Events -> Nat]
  BY DEF HandOverInv, CourseInv, Inv, TypeOK
<1>1. ChannelInv' /\ GentleStep
  BY FrameHand DEF Mild
<1>2. StrayInv'
  BY <1>0, <1>1, CalmStray
<1>3. PlainInv'
  <2>1. events'["unlock"] = 0
    BY <1>0, SpentKept DEF PlainInv, Events
  <2> QED BY <1>0, <2>1 DEF PlainInv, MidSteps
<1> QED BY <1>1, <1>2, <1>3 DEF HandOverInv, CourseInv

(* GatherStatus: a replica is called errant for a transaction that the     *)
(* primary does not have, not even in a session that waits; and a cluster  *)
(* whose primary may be switched has a writable one and a replica of it.   *)
LEMMA GatherHand ==
    ASSUME Inv, Inv', CompareInv, HandOverInv, Gather PROVE HandOverInv'
<1>0. /\ PlainInv /\ ViewInv /\ StrayInv /\ LockInv /\ WaitInv /\ ss \in StatusSetType
      /\ ss.known \subseteq Index /\ ss.primary \in Index /\ events \in [Events -> Nat]
      /\ primaryIdx \in Index
  BY DEF HandOverInv, ChannelInv, CourseInv, CompareInv, Inv, TypeOK, PassTypeOK,
     StatusSetType, KubeTypeOK
<1>1. CASE GatherBegin
  <2>1. /\ UNCHANGED <<mysqlVars, primaryIdx, source, restoring, events, demote, terminating>>
        /\ pc' = "gather" /\ ss'.known = {} /\ ss'.source = source
        /\ ss'.switchPod => primaryIdx \in terminating \cup demote
    BY <1>1 DEF GatherBegin, Outside, kubeVars, NoStatusSet
  <2>2. ChannelInv' /\ GentleStep
    BY <2>1, FrameHand DEF Mild
  <2>3. PlainInv'
    BY <1>0, <2>1 DEF PlainInv
  <2>4. StrayInv'
    BY <1>0, <2>1, <2>2, CalmStray DEF SwAll
  <2>5. ViewInv' /\ LoopInv' /\ RelayInv' /\ HandInv' /\ NoFalseErrant'
    BY <2>1 DEF ViewInv, LoopInv, RelayInv, HandInv, NoFalseErrant, SwitchPlanned
  <2> QED BY <2>2, <2>3, <2>4, <2>5 DEF HandOverInv, CourseInv
<1>2. ASSUME NEW k \in Index, ReadStatus(k) PROVE HandOverInv'
  <2>1. /\ UNCHANGED <<mysqlVars, primaryIdx, source, restoring, events, demote, terminating>>
        /\ pc = "gather" /\ pc' \in {"gather", "recheck"}
        /\ ss' = ss \/ ss' = [ss EXCEPT !.known = @ \cup {k}, !.st[k] = GetStatus(k)]
    BY <1>2 DEF ReadStatus, Outside, kubeVars
  <2>2. UNCHANGED db
    BY <2>1 DEF mysqlVars
  <2>3. ss'.source = ss.source /\ ss'.switchPod = ss.switchPod
        /\ \A i \in ss'.known : \/ i = k /\ ss'.st[i] = GetStatus(k)
                                \/ i \in ss.known /\ ss'.st[i] = ss.st[i]
    <3>1. CASE ss' = ss
      BY <3>1
    <3>2. CASE ss' = [ss EXCEPT !.known = @ \cup {k}, !.st[k] = GetStatus(k)]
      BY <1>0, <1>2, <3>2 DEF StatusSetType
    <3> QED BY <2>1, <3>1, <3>2
  <2>4. ViewInv'
    BY <1>0, <2>1, <2>2, <2>3, StatusFacts DEF ViewInv
  <2>5. LoopInv' /\ RelayInv' /\ HandInv' /\ NoFalseErrant'
    BY <2>1 DEF LoopInv, RelayInv, HandInv, NoFalseErrant, SwitchPlanned
  <2> QED BY <2>1, <2>3, <2>4, <2>5, LookHand DEF MidSteps, SwAll
<1>3. CASE FinishGather
  <2>1. /\ UNCHANGED <<mysqlVars, primaryIdx, source, restoring, demote, terminating>>
        /\ pc = "recheck" /\ pc' = "update"
        /\ events' = events \/ \E e \in {"delay", "flaky"} : Happens(e)
    BY <1>3, SeenFacts DEF kubeVars
  <2>2. UNCHANGED db /\ uuid' = uuid
    BY <2>1 DEF mysqlVars
  <2> DEFINE p == ss.primary
  <2>3. p = primaryIdx
    BY <2>1 DEF Inv, PassInv, SnapshotInv
  <2>4. /\ ss'.primary = p /\ ss'.source = ss.source /\ ss'.switchPod = ss.switchPod
        /\ ss'.known \subseteq ss.known
        /\ \A i \in ss'.known : i # p => ss'.st[i] = ss.st[i]
        /\ p \in ss'.known => ss'.st[p] = GetStatus(p)
    BY <1>3, ConclusionSeen
  <2>5. ExecutedGTID(ss') # {} => \A i \in ss'.errants :
           /\ i \in ss.known
           /\ \E t \in ss.st[i].exec : t \notin db[p].exec /\ uuid[t] # p
    BY <1>3, ConclusionSeen
  <2>6. ss'.state \in {"Healthy", "Degraded"} /\ N > 1 =>
           /\ p \in ss'.known /\ ss'.st[p].ro = ss.source
           /\ ss'.cand \in ss'.known \ {p}
           /\ ss'.st[ss'.cand].src = p
    BY <1>3, ConclusionSeen
  <2>7. ViewInv'
    BY <1>0, <2>1, <2>2, <2>4, StatusFacts DEF ViewInv
  <2>8. HandInv'
    <3> SUFFICES ASSUME ss'.state \in {"Healthy", "Degraded"}, N > 1
                 PROVE  /\ db[p].relay = {} /\ ~db[p].io
                        /\ ss'.cand # p /\ db[ss'.cand].src \in {p, NoSource}
      BY <2>1, <2>2, <2>3 DEF HandInv, SwitchPlanned
    <3>1. ~db[p].ro
      BY <1>0, <2>1, <2>4, <2>6, StatusFacts DEF PlainInv
    <3>2. ss'.cand \in ss.known /\ ss'.cand # p /\ ss.st[ss'.cand].src = p
      BY <2>4, <2>6
    <3> QED BY <1>0, <2>1, <3>1, <3>2 DEF LockInv, ViewInv
  <2>9. NoFalseErrant'
    <3> SUFFICES ASSUME ExecutedGTID(ss') # {}, NEW i \in ss'.errants
                 PROVE  ~(db[i].exec \subseteq db[p].exec \cup db[p].wait)
      BY <2>2, <2>4 DEF NoFalseErrant
    <3>1. PICK t \in ss.st[i].exec : t \notin db[p].exec /\ uuid[t] # p
      BY <2>5
    <3>2. t \in db[i].exec
      BY <1>0, <2>1, <2>5, <3>1 DEF ViewInv
    <3>3. t \notin db[p].wait
      BY <1>0, <3>1 DEF WaitInv
    <3> QED BY <3>1, <3>2, <3>3
  <2>10. LoopInv' /\ RelayInv'
    BY <2>1 DEF LoopInv, RelayInv
  <2>11. events' = events \/ \E e \in Events : Happens(e)
    BY <2>1 DEF Events
  <2> QED BY <2>1, <2>4, <2>7, <2>8, <2>9, <2>10, <2>11, LookHand DEF MidSteps, SwAll
<1> QED BY <1>1, <1>2, <1>3 DEF Gather

(* updateStatus keeps the invariant. *)
LEMMA UpdateHand ==
    ASSUME Inv, Inv', CompareInv, HandOverInv, updateStatus PROVE HandOverInv'
<1>0. ViewInv /\ HandInv
  BY DEF HandOverInv, CourseInv
<1>1. /\ UNCHANGED <<mysqlVars, primaryIdx, source, restoring, events, demote, terminating, ss>>
      /\ pc = "update" /\ pc' = "annotate"
  BY DEF updateStatus
<1>2. UNCHANGED db
  BY <1>1 DEF mysqlVars
<1>3. ViewInv' /\ LoopInv' /\ RelayInv' /\ NoFalseErrant'
  BY <1>0, <1>1, <1>2 DEF ViewInv, LoopInv, RelayInv, NoFalseErrant
<1>4. HandInv'
  BY <1>0, <1>1, <1>2 DEF HandInv, SwitchPlanned
<1> QED BY <1>1, <1>3, <1>4, LookHand DEF MidSteps, SwAll

(* A switchover is begun only by a pass that has decided on it. *)
LEMMA SwitchOperation ==
    ASSUME PassTypeOK, ~ss.source, ss.state # "Cloning", NEW w, ToOperation = <<"swReadOnly", w>>
    PROVE  Switching
<1>1. \A d : PlainDest(d) => d[1] # "swReadOnly"
  BY DEF PlainDest, ConfDest, ConfSteps
<1>2. ToIdle[1] # "swReadOnly" /\ ToConfigure[1] # "swReadOnly"
  <2>1. PlainDest(ToIdle) /\ PlainDest(ToKill)
    BY PlainDestinations
  <2> HIDE DEF PlainDest
  <2> QED BY <1>1, <2>1 DEF ToConfigure
<1> QED BY <1>2 DEF ToOperation, Cloneable

(* The operation that a pass chooses begins with what it needs. *)
LEMMA AnnotateHand ==
    ASSUME Inv, Inv', CompareInv, HandOverInv, annotate PROVE HandOverInv'
<1>0. /\ PassTypeOK /\ PlainInv /\ ViewInv /\ HandInv /\ CloneInv /\ ss.known \subseteq Index
      /\ ss.primary \in Index
  BY DEF HandOverInv, CourseInv, Inv, TypeOK, PassTypeOK, StatusSetType, CompareInv
<1>1. /\ UNCHANGED <<mysqlVars, primaryIdx, source, restoring, events, demote, terminating>>
      /\ pc = "annotate" /\ Take(ToOperation)
  BY DEF annotate
<1>2. UNCHANGED db /\ GentleStep /\ RoKept /\ LogKept
  BY <1>1, FrameHand DEF Mild
<1>3. ~ss.source /\ ss.state # "Cloning" /\ ~ss'.switchPod
  BY <1>0, <1>1, TakeForgets DEF PlainInv, CloneInv
<1>4. ASSUME NEW d \in PassSteps \X SUBSET Index, ToOperation = d,
             d[1] \in {"foStop", "swReadOnly", "unlabel"}
      PROVE  HandOverInv'
  <2>1. pc' = d[1] /\ SameView
    BY <1>0, <1>1, <1>4, TakeType
  <2>2. ss'.source = ss.source
    BY <1>0, <1>1, <1>4, <2>1, TakeSpec DEF SameSpec
  <2>3. d[1] = "swReadOnly" => Switching
    <3>1. d = <<d[1], d[2]>>
      BY <1>4
    <3> QED BY <1>0, <1>3, <1>4, <3>1, SwitchOperation
  <2>4. ViewInv'
    BY <1>0, <1>1, <1>2, <1>4, <2>1 DEF ViewInv, SameView
  <2>5. LoopInv' /\ RelayInv' /\ NoFalseErrant'
    BY <1>4, <2>1 DEF LoopInv, RelayInv, NoFalseErrant
  <2>6. HandInv'
    <3>1. ASSUME d[1] = "swReadOnly"
          PROVE  /\ db[primaryIdx].relay = {} /\ ~db[primaryIdx].io
                 /\ ss.cand # primaryIdx /\ db[ss.cand].src \in {primaryIdx, NoSource}
      BY <1>0, <1>1, <2>3, <3>1 DEF HandInv, SwitchPlanned, Switching
    <3> QED BY <1>1, <1>2, <1>4, <2>1, <3>1 DEF HandInv, SwitchPlanned, SameView
  <2>7. pc' \in SwAll \cup {"swIndex", "swDemote"} => ss.switchPod
    BY <1>4, <2>1, <2>3 DEF SwAll, Switching
  <2>8. pc' \notin {"clone", "cloneWait"} \cup MidSteps
    BY <1>4, <2>1 DEF MidSteps
  <2> QED BY <1>1, <1>3, <2>2, <2>4, <2>5, <2>6, <2>7, <2>8, LookHand
<1>5. CASE \/ ToOperation = <<"foStop", ss.known \ {ss.primary}>>
           \/ ToOperation = <<"swReadOnly", {ss.primary}>>
           \/ ToOperation = <<"unlabel", StaleLabels>>
  <2>1. /\ <<"foStop", ss.known \ {ss.primary}>> \in PassSteps \X SUBSET Index
        /\ <<"swReadOnly", {ss.primary}>> \in PassSteps \X SUBSET Index
        /\ <<"unlabel", StaleLabels>> \in PassSteps \X SUBSET Index
    BY <1>0 DEF PassSteps, StaleLabels
  <2> HIDE DEF ToOperation
  <2> QED BY <1>4, <1>5, <2>1
<1>6. CASE PlainDest(ToOperation)
  <2>1. GoodDest(ToOperation)
    BY <1>0, <1>1, <1>2, <1>6, PlainLocked
  <2> QED BY <1>1, <1>2, <2>1, CallHand
<1> QED BY <1>0, <1>3, <1>5, <1>6, PlainOperation

-----------------------------------------------------------------------------
(* A new primary *)

(* An instance that has executed its relay log, and at most reads the      *)
(* binary log of a locked instance that has nothing more, is recorded.     *)
LEMMA IndexChannel ==
    ASSUME ChannelInv, UNCHANGED mysqlVars, NEW c \in Index, primaryIdx' = c,
           db[c].relay = {},
           db[c].io /\ db[c].src # NoSource =>
               /\ db[db[c].src].ro /\ ~db[db[c].src].io
               /\ db[db[c].src].exec \cup db[db[c].src].relay \subseteq db[c].exec
    PROVE  ChannelInv'
<1>1. LockInv /\ LogInv /\ db' = db /\ uuid' = uuid /\ ext' = ext
  BY DEF ChannelInv, mysqlVars
<1>2. LockInv' /\ LogInv'
  BY <1>1 DEF LockInv, LogInv, Stream
<1>3. QuietInv'
  BY <1>1 DEF QuietInv
<1> QED BY <1>2, <1>3 DEF ChannelInv

(* The old primary is locked before its transactions are counted. *)
LEMMA LockHand ==
    ASSUME Inv, Inv', CompareInv, HandOverInv, LogKept, Mild, db'[primaryIdx].ro,
           pc \in {"swReadOnly", "swKill"}, pc' \in {"swKill", "swStatus"},
           SameView, ss'.source = ss.source, ~ss'.switchPod,
           UNCHANGED <<primaryIdx, source, restoring, events, demote, terminating>>
    PROVE  HandOverInv'
<1>0. /\ MySQLTypeOK /\ MySQLTypeOK' /\ ChannelInv /\ StrayInv /\ PlainInv /\ ViewInv /\ HandInv
      /\ primaryIdx \in Index /\ ss.known \subseteq Index /\ GentleStep /\ RoKept /\ SrcOnly
  BY DEF Inv, TypeOK, HandOverInv, CourseInv, KubeTypeOK, Mild, PassTypeOK, StatusSetType
<1>1. ChannelInv'
  BY <1>0, ChannelKept
<1>2. StrayInv'
  BY <1>0, CalmStray DEF SwAll
<1>3. PlainInv'
  BY <1>0 DEF PlainInv
<1>4. ViewInv'
  <2>1. \A i \in ss.known : ss.st[i].ro => db'[i].ro
    BY <1>0 DEF ViewInv, RoKept
  <2> QED BY <2>1 DEF ViewInv, SameView
<1>5. HandInv'
  <2>1. /\ db[primaryIdx].relay = {} /\ ~db[primaryIdx].io
        /\ ss.cand # primaryIdx /\ db[ss.cand].src \in {primaryIdx, NoSource}
        /\ ss.cand \in Index
    BY <1>0 DEF HandInv, SwitchPlanned, Inv, PassInv, SwitchInv
  <2>2. db'[primaryIdx].relay = {} /\ ~db'[primaryIdx].io
    BY <1>0, <2>1 DEF GentleStep, Gentle
  <2>3. db'[ss.cand].src \in {primaryIdx, NoSource}
    BY <1>0, <2>1 DEF SrcOnly
  <2> QED BY <2>1, <2>2, <2>3 DEF HandInv, SameView
<1>6. LoopInv' /\ RelayInv' /\ NoFalseErrant'
  BY DEF LoopInv, RelayInv, NoFalseErrant
<1> QED BY <1>1, <1>2, <1>3, <1>4, <1>5, <1>6 DEF HandOverInv, CourseInv

(* switchover keeps the invariant. *)
LEMMA SwitchoverHand ==
    ASSUME Inv, Inv', CompareInv, HandOverInv, LogKept, Switchover PROVE HandOverInv'
<1>0. /\ MySQLTypeOK /\ PassTypeOK /\ ChannelInv /\ LockInv /\ LogInv /\ PlainInv /\ StrayInv
      /\ ViewInv /\ HandInv /\ primaryIdx \in Index /\ ss \in StatusSetType
      /\ ss.known \subseteq Index /\ todo \subseteq Index
  BY DEF Inv, TypeOK, HandOverInv, ChannelInv, CourseInv, PassTypeOK, StatusSetType, KubeTypeOK
<1>1. pc \in SwAll \cup {"swIndex"} => ss.primary = primaryIdx
  BY DEF Inv, PassInv, SnapshotInv, SwAll
<1>a. UNCHANGED Outside =>
         UNCHANGED <<source, restoring, events, primaryIdx, demote, terminating>>
  BY DEF Outside, kubeVars
<1>b. ASSUME NEW d \in PassSteps \X SUBSET Index, Take(d), d[1] # "idle"
      PROVE  /\ pc' = d[1] /\ SameView /\ ss'.source = ss.source /\ ss'.goal = ss.goal
             /\ ~ss'.switchPod
  BY <1>0, <1>b, TakeType, TakeSpec, TakeGoal, TakeForgets DEF SameSpec
<1>c. pc \in {"swReadOnly", "swKill", "swStatus", "swWait", "swIndex"} =>
         /\ db[primaryIdx].relay = {} /\ ~db[primaryIdx].io
         /\ ss.cand # primaryIdx /\ db[ss.cand].src \in {primaryIdx, NoSource}
         /\ ss.cand \in Index
  BY <1>0 DEF HandInv, SwitchPlanned, Inv, PassInv, SwitchInv
<1>2. CASE swReadOnly
  <2>1. /\ SetReadOnly(primaryIdx) /\ Take(<<"swKill", todo>>) /\ pc = "swReadOnly"
        /\ UNCHANGED <<source, restoring, events, primaryIdx, demote, terminating>>
    BY <1>1, <1>2, <1>a DEF swReadOnly, Calling, SwAll
  <2>2. pc' = "swKill" /\ SameView /\ ss'.source = ss.source /\ ~ss'.switchPod
    BY <1>0, <1>b, <2>1 DEF PassSteps
  <2>3. Mild
    BY <1>0, <2>1, StatementMild
  <2>4. db'[primaryIdx].ro
    <3>1. db[primaryIdx] \in Instance /\ db' = [db EXCEPT ![primaryIdx].ro = TRUE]
      BY <1>0, <2>1 DEF MySQLTypeOK, SetReadOnly
    <3> QED BY <1>0, <3>1 DEF MySQLTypeOK, Instance
  <2> QED BY <2>1, <2>2, <2>3, <2>4, LockHand
<1>3. CASE swReadOnlySlow
  <2>1. /\ KillConnections(primaryIdx) /\ UNCHANGED passVars
        /\ UNCHANGED <<source, restoring, events, primaryIdx, demote, terminating>>
    BY <1>1, <1>3, <1>a DEF swReadOnlySlow, Calling, SwAll
  <2>2. Mild
    BY <1>0, <2>1, StatementMild
  <2>3. PassKept /\ ss'.switchPod = ss.switchPod
    BY <2>1 DEF PassKept, SameView, passVars
  <2> QED BY <2>1, <2>2, <2>3, EnvironmentMild
<1>4. CASE swKill
  <2>1. /\ KillConnections(primaryIdx) /\ Take(<<"swStatus", todo>>) /\ pc = "swKill"
        /\ UNCHANGED <<source, restoring, events, primaryIdx, demote, terminating>>
    BY <1>1, <1>4, <1>a DEF swKill, Calling, SwAll
  <2>2. pc' = "swStatus" /\ SameView /\ ss'.source = ss.source /\ ~ss'.switchPod
    BY <1>0, <1>b, <2>1 DEF PassSteps
  <2>3. Mild
    BY <1>0, <2>1, StatementMild
  <2>4. db'[primaryIdx].ro
    BY <1>0, <2>1, <2>3 DEF HandInv, Mild, RoKept
  <2> QED BY <2>1, <2>2, <2>3, <2>4, LockHand
<1>5. CASE swStatus
  <2>1. /\ pc = "swStatus" /\ ss' = [ss EXCEPT !.goal = db[primaryIdx].exec] /\ pc' = "swWait"
        /\ UNCHANGED <<mysqlVars, source, restoring, events, primaryIdx, demote, terminating>>
    BY <1>1, <1>5, <1>a DEF swStatus, Calling, SwAll
  <2>2. /\ ss'.known = ss.known /\ ss'.st = ss.st /\ ss'.source = ss.source
        /\ ss'.goal = db[primaryIdx].exec /\ ss'.cand = ss.cand
        /\ ss'.switchPod = ss.switchPod
    BY <1>0, <2>1 DEF StatusSetType
  <2>3. UNCHANGED db
    BY <2>1 DEF mysqlVars
  <2>4. ViewInv' /\ LoopInv' /\ RelayInv' /\ NoFalseErrant'
    BY <1>0, <2>1, <2>2, <2>3 DEF ViewInv, LoopInv, RelayInv, NoFalseErrant
  <2>5. db[primaryIdx].ro
    BY <1>0, <2>1 DEF HandInv
  <2>6. HandInv'
    BY <1>c, <2>1, <2>2, <2>3, <2>5 DEF HandInv
  <2> QED BY <2>1, <2>2, <2>4, <2>6, LookHand DEF MidSteps, SwAll
<1>6. CASE swWait
  <2>1. /\ pc = "swWait" /\ Take(<<"swIndex", {}>>) /\ ss.goal \subseteq db[ss.cand].exec
        /\ UNCHANGED <<mysqlVars, source, restoring, events, primaryIdx, demote, terminating>>
    BY <1>6, <1>a DEF swWait, Calling, WaitForGTID
  <2>2. pc' = "swIndex" /\ SameView /\ ss'.source = ss.source /\ ss'.goal = ss.goal
        /\ ~ss'.switchPod
    BY <1>b, <2>1 DEF PassSteps
  <2>3. UNCHANGED db
    BY <2>1 DEF mysqlVars
  <2>4. ViewInv' /\ LoopInv' /\ RelayInv' /\ NoFalseErrant'
    BY <1>0, <2>1, <2>2, <2>3 DEF ViewInv, LoopInv, RelayInv, NoFalseErrant, SameView
  <2>5. db[primaryIdx].ro /\ db[primaryIdx].exec \subseteq ss.goal
    BY <1>0, <2>1 DEF HandInv
  <2>6. HandInv'
    BY <1>c, <2>1, <2>2, <2>3, <2>5 DEF HandInv, SameView
  <2> QED BY <2>1, <2>2, <2>4, <2>6, LookHand DEF MidSteps, SwAll
<1>7. CASE swIndex
  <2> DEFINE dest == IF ss.demoted THEN <<"swDemote", {}>> ELSE ToIdle
             p == primaryIdx
             c == ss.cand
  <2>1. /\ pc = "swIndex" /\ primaryIdx' = c /\ Take(dest)
        /\ UNCHANGED <<mysqlVars, source, restoring, events, demote, terminating>>
        /\ dest \in PassSteps \X SUBSET Index /\ dest[1] \in {"idle", "swDemote"}
    BY <1>7 DEF swIndex, ToIdle, PassSteps
  <2> HIDE DEF dest
  <2>2. /\ db[p].ro /\ db[p].relay = {} /\ ~db[p].io /\ db[p].exec \subseteq db[c].exec
        /\ c # p /\ c \in Index /\ db[c].src \in {p, NoSource}
    BY <1>0, <1>c, <2>1 DEF HandInv
  <2>3. db[c].relay = {}
    <3>1. Stream(p) = db[p].exec
      BY <1>0, <2>2, StreamOf DEF LockInv
    <3>2. db[c].relay \subseteq IF db[c].src = NoSource THEN {} ELSE Stream(db[c].src)
      BY <1>0, <2>2 DEF LogInv
    <3>3. db[c].relay \cap db[c].exec = {}
      BY <1>0, <2>2 DEF LogInv
    <3> HIDE DEF Stream
    <3> QED BY <2>2, <3>1, <3>2, <3>3
  <2>4. ChannelInv'
    BY <1>0, <2>1, <2>2, <2>3, IndexChannel
  <2>5. pc' \in {"idle", "swDemote"} /\ (pc' # "idle" => SameView /\ ss'.source = ss.source)
    <3>1. CASE dest[1] = "idle"
      BY <1>0, <2>1, <3>1, TakeType
    <3>2. CASE dest[1] # "idle"
      BY <1>b, <2>1, <3>2
    <3> QED BY <3>1, <3>2
  <2>6. StrayInv'
    BY <1>0, <2>1 DEF StrayInv
  <2>7. PlainInv'
    BY <1>0, <2>1, <2>5 DEF PlainInv
  <2>8. ViewInv'
    BY <1>0, <2>1, <2>5 DEF ViewInv, SameView, mysqlVars
  <2>9. LoopInv' /\ RelayInv' /\ HandInv' /\ NoFalseErrant'
    BY <2>5 DEF LoopInv, RelayInv, HandInv, NoFalseErrant, SwitchPlanned
  <2> QED BY <2>4, <2>6, <2>7, <2>8, <2>9 DEF HandOverInv, CourseInv
<1>8. CASE swDemote
  BY <1>8, FailureHand
<1> QED BY <1>2, <1>3, <1>4, <1>5, <1>6, <1>7, <1>8 DEF Switchover

(* foStop keeps the invariant. *)
LEMMA StopHand ==
    ASSUME Inv, Inv', HandOverInv, LogKept, foStop PROVE HandOverInv'
<1>0. /\ MySQLTypeOK /\ MySQLTypeOK' /\ PassTypeOK /\ ChannelInv /\ LockInv /\ LogInv
      /\ PlainInv /\ StrayInv /\ ViewInv /\ ss.known \subseteq Index /\ primaryIdx \in Index
      /\ pods \subseteq Index /\ Runners \subseteq Index
  BY RunnersType DEF Inv, TypeOK, HandOverInv, ChannelInv, CourseInv, PassTypeOK,
     StatusSetType, KubeTypeOK
<1>1. /\ pc = "foStop" /\ StopReplicaIOThread(Callee) /\ Callee \in Index
      /\ NextTurn(<<"foRecheck", Runners>>)
      /\ UNCHANGED <<source, restoring, events, primaryIdx, demote, terminating>>
  BY <1>0 DEF foStop, Calling, Answers, Reachable, Outside, kubeVars
<1>2. Mild /\ GentleStep /\ RoKept
  BY <1>0, <1>1, StatementMild DEF Mild
<1>3. /\ pc' \in {"foStop", "foRecheck"} /\ SameView /\ ss'.source = ss.source
      /\ pc' = "foRecheck" => todo' = Runners
      /\ ss'.switchPod => ss.switchPod
  <2>1. CASE Take(<<"foRecheck", Runners>>)
    <3>1. <<"foRecheck", Runners>> \in PassSteps \X SUBSET Index
      BY <1>0 DEF PassSteps
    <3>2. pc' = "foRecheck" /\ todo' = Runners /\ SameView
      BY <1>0, <2>1, <3>1, TakeType
    <3>3. SameSpec
      BY <1>0, <2>1, <3>2, TakeSpec
    <3>4. ~ss'.switchPod
      BY <1>0, <2>1, TakeForgets
    <3> QED BY <3>2, <3>3, <3>4 DEF SameSpec
  <2>2. CASE UNCHANGED <<pc, ss>>
    BY <1>1, <2>2 DEF SameView
  <2> QED BY <1>1, <2>1, <2>2 DEF NextTurn
<1>4. ChannelInv'
  BY <1>0, <1>1, <1>2, ChannelKept
<1>5. StrayInv'
  BY <1>0, <1>1, <1>2, <1>3, CalmStray DEF SwAll
<1>6. PlainInv'
  BY <1>0, <1>1, <1>3 DEF PlainInv
<1>7. ViewInv'
  <2>1. \A i \in ss.known : ss.st[i].ro => db'[i].ro
    BY <1>0, <1>1, <1>2 DEF ViewInv, RoKept
  <2> QED BY <1>3, <2>1 DEF ViewInv, SameView
<1>8. RelayInv'
  <2>1. Runners' = Runners
    BY <1>3 DEF SameView, Runners
  <2> QED BY <1>3, <2>1 DEF RelayInv
<1>9. LoopInv' /\ HandInv' /\ NoFalseErrant'
  BY <1>3 DEF LoopInv, HandInv, NoFalseErrant, SwitchPlanned
<1> QED BY <1>4, <1>5, <1>6, <1>7, <1>8, <1>9 DEF HandOverInv, CourseInv

(* foRecheck keeps the invariant. *)
LEMMA RecheckHand ==
    ASSUME Inv, Inv', HandOverInv, foRecheck PROVE HandOverInv'
<1>0. /\ ViewInv /\ RelayInv /\ ss \in StatusSetType /\ ss.known \subseteq Index
      /\ pods \subseteq Index /\ Runners \subseteq Index
  BY RunnersType DEF Inv, TypeOK, HandOverInv, CourseInv, PassTypeOK, StatusSetType, KubeTypeOK
<1>1. /\ pc = "foRecheck" /\ pc' \in {"foRecheck", "foCompare"} /\ Callee \in Index
      /\ ss' = [ss EXCEPT !.st[Callee] = GetStatus(Callee), !.cand = NoTopRunner]
      /\ UNCHANGED <<mysqlVars, source, restoring, events, primaryIdx, demote, terminating>>
      /\ \/ todo = {Callee} /\ pc' = "foCompare"
         \/ todo' = todo \ {Callee} /\ pc' = pc
  BY <1>0 DEF foRecheck, Calling, Answers, Reachable, Outside, kubeVars
<1>2. db' = db
  BY <1>1 DEF mysqlVars
<1>3. /\ ss'.st[Callee] = GetStatus(Callee)
      /\ \A i \in Index : i # Callee => ss'.st[i] = ss.st[i]
      /\ ss'.known = ss.known /\ ss'.errants = ss.errants /\ ss'.primary = ss.primary
      /\ ss'.source = ss.source /\ ss'.switchPod = ss.switchPod
  BY <1>0, <1>1 DEF StatusSetType
<1>4. ViewInv'
  <2>1. ASSUME NEW i \in ss.known PROVE ss'.st[i].ro => db[i].ro
    <3>1. CASE i = Callee
      BY <1>3, <3>1, StatusFacts
    <3>2. CASE i # Callee
      BY <1>0, <1>1, <1>3, <3>2 DEF ViewInv
    <3> QED BY <3>1, <3>2
  <2> QED BY <1>1, <1>2, <1>3, <2>1 DEF ViewInv
<1>5. ASSUME NEW i \in Runners, i = Callee \/ i \notin todo
      PROVE  db[i].relay \subseteq ss'.st[i].retrieved
  <2>1. CASE i = Callee
    BY <1>3, <2>1 DEF GetStatus
  <2>2. CASE i # Callee
    BY <1>0, <1>1, <1>3, <1>5, <2>2 DEF RelayInv
  <2> QED BY <2>1, <2>2
<1>6. RelayInv'
  <2>1. Runners' = Runners
    BY <1>3 DEF Runners
  <2>2. pc' = "foRecheck" => \A i \in Runners \ todo' : db[i].relay \subseteq ss'.st[i].retrieved
    BY <1>1, <1>5
  <2>3. pc' = "foCompare" => \A i \in Runners : db[i].relay \subseteq ss'.st[i].retrieved
    BY <1>1, <1>5
  <2> QED BY <1>1, <1>2, <2>1, <2>2, <2>3 DEF RelayInv
<1>7. LoopInv' /\ HandInv' /\ NoFalseErrant'
  BY <1>1 DEF LoopInv, HandInv, NoFalseErrant, SwitchPlanned
<1> QED BY <1>1, <1>3, <1>4, <1>6, <1>7, LookHand DEF MidSteps, SwAll

(* The steps of a failover that only look at the statuses. *)
LEMMA CompareHand ==
    ASSUME Inv, Inv', HandOverInv, pc \in CompareSteps, pc' \in CompareSteps,
           UNCHANGED <<mysqlVars, primaryIdx, source, restoring, events, demote, terminating>>,
           ss'.known = ss.known, ss'.st = ss.st, ss'.errants = ss.errants,
           ss'.primary = ss.primary, ss'.source = ss.source, ss'.switchPod => ss.switchPod,
           pc' \in {"foWait", "foIndex"} => ss'.goal = ss.st[ss'.cand].retrieved,
           pc' = "foIndex" => ss'.goal \subseteq db[ss'.cand].exec
    PROVE  HandOverInv'
<1>0. ViewInv /\ RelayInv
  BY DEF HandOverInv, CourseInv
<1>1. db' = db /\ Runners' = Runners
  BY DEF mysqlVars, Runners
<1>2. ViewInv'
  BY <1>0, <1>1 DEF ViewInv, CompareSteps
<1>3. \A i \in Runners : db[i].relay \subseteq ss.st[i].retrieved
  BY <1>0 DEF RelayInv, CompareSteps
<1>4. RelayInv'
  BY <1>1, <1>3 DEF RelayInv, CompareSteps
<1>5. LoopInv' /\ HandInv' /\ NoFalseErrant'
  BY DEF LoopInv, HandInv, NoFalseErrant, SwitchPlanned, CompareSteps
<1> QED BY <1>2, <1>4, <1>5, LookHand DEF MidSteps, SwAll, CompareSteps

(* failover keeps the invariant: the leader has executed all that its      *)
(* relay log held when its IO thread was stopped.                          *)
LEMMA FailoverHand ==
    ASSUME Inv, Inv', CompareInv, HandOverInv, LogKept, Failover PROVE HandOverInv'
<1>0. /\ PassTypeOK /\ ss \in StatusSetType /\ RelayInv /\ ChannelInv /\ LogInv
      /\ PlainInv /\ StrayInv /\ StoppedInv /\ RaceInv /\ Runners \subseteq Index
      /\ events \in [Events -> Nat]
  BY RunnersType DEF Inv, TypeOK, HandOverInv, ChannelInv, CourseInv, PassTypeOK, CompareInv,
     PassInv
<1>a. UNCHANGED Outside =>
         UNCHANGED <<source, restoring, events, primaryIdx, demote, terminating>>
  BY DEF Outside, kubeVars
<1>1. CASE foStop
  BY <1>1, StopHand
<1>2. CASE foRecheck
  BY <1>2, RecheckHand
<1>3. CASE foCompare
  <2> DEFINE top == topRunner(ss.cand, Callee, ss.st)
  <2>1. /\ pc = "foCompare" /\ pc' \in {"foCompare", "foTop"}
        /\ ss' = [ss EXCEPT !.cand = top]
        /\ UNCHANGED <<mysqlVars, source, restoring, events, primaryIdx, demote, terminating>>
    BY <1>3, <1>a DEF foCompare
  <2> HIDE DEF top
  <2>2. /\ ss'.known = ss.known /\ ss'.st = ss.st /\ ss'.errants = ss.errants
        /\ ss'.primary = ss.primary /\ ss'.source = ss.source /\ ss'.switchPod = ss.switchPod
    BY <1>0, <2>1 DEF StatusSetType
  <2> QED BY <2>1, <2>2, CompareHand DEF CompareSteps
<1>4. CASE foTop
  <2> DEFINE g == ss.st[ss.cand].retrieved
  <2>1. /\ pc = "foTop" /\ pc' = "foWait" /\ ss' = [ss EXCEPT !.goal = g]
        /\ UNCHANGED <<mysqlVars, source, restoring, events, primaryIdx, demote, terminating>>
    BY <1>4, <1>a DEF foTop
  <2> HIDE DEF g
  <2>2. /\ ss'.known = ss.known /\ ss'.st = ss.st /\ ss'.errants = ss.errants
        /\ ss'.primary = ss.primary /\ ss'.source = ss.source /\ ss'.switchPod = ss.switchPod
        /\ ss'.goal = g /\ ss'.cand = ss.cand
    BY <1>0, <2>1 DEF StatusSetType
  <2>3. ss'.goal = ss.st[ss'.cand].retrieved
    BY <2>2 DEF g
  <2> QED BY <2>1, <2>2, <2>3, CompareHand DEF CompareSteps
<1>5. CASE foWait
  <2>1. /\ pc = "foWait" /\ Take(<<"foIndex", {}>>) /\ ss.goal \subseteq db[ss.cand].exec
        /\ UNCHANGED <<mysqlVars, source, restoring, events, primaryIdx, demote, terminating>>
    BY <1>5, <1>a DEF foWait, Calling, WaitForGTID
  <2>2. pc' = "foIndex" /\ SameView
    BY <1>0, <2>1, TakeType DEF PassSteps
  <2>3. SameSpec /\ ss'.goal = ss.goal /\ ~ss'.switchPod
    BY <1>0, <2>1, <2>2, TakeSpec, TakeGoal, TakeForgets
  <2>4. ss.goal = ss.st[ss.cand].retrieved
    BY <1>0, <2>1 DEF RelayInv
  <2>5. /\ ss'.known = ss.known /\ ss'.st = ss.st /\ ss'.errants = ss.errants
        /\ ss'.primary = ss.primary /\ ss'.source = ss.source /\ ss'.cand = ss.cand
    BY <2>2, <2>3 DEF SameView, SameSpec
  <2> QED BY <2>1, <2>2, <2>3, <2>4, <2>5, CompareHand DEF CompareSteps
<1>6. CASE foGiveUp
  BY <1>6, FailureHand
<1>7. CASE foIndex
  <2> DEFINE c == ss.cand
  <2>1. /\ pc = "foIndex" /\ primaryIdx' = c /\ pc' = "idle" /\ ss' = NoStatusSet
        /\ UNCHANGED <<mysqlVars, source, restoring, events, demote, terminating>>
    BY <1>7 DEF foIndex, Idle
  <2>2. c \in Runners /\ c \in Index
    BY <1>0, <2>1 DEF RaceInv
  <2>3. ~db[c].io
    BY <1>0, <2>1, <2>2 DEF StoppedInv, Fixed
  <2>4. db[c].relay = {}
    <3>1. db[c].relay \subseteq db[c].exec
      BY <1>0, <2>1, <2>2 DEF RelayInv
    <3>2. db[c].relay \cap db[c].exec = {}
      BY <1>0, <2>2 DEF LogInv
    <3> QED BY <3>1, <3>2
  <2>5. ChannelInv'
    BY <1>0, <2>1, <2>2, <2>3, <2>4, IndexChannel
  <2>6. StrayInv'
    <3>0. ~NoStatusSet.switchPod
      BY DEF NoStatusSet
    <3>1. ~ss'.switchPod
      BY <2>1, <3>0
    <3>2. ~db'[primaryIdx'].io
      BY <2>1, <2>3 DEF mysqlVars
    <3> QED BY <1>0, <2>1, <3>1, <3>2, StrayKept DEF SwAll
  <2>7. PlainInv'
    BY <1>0, <2>1 DEF PlainInv
  <2>8. ViewInv' /\ LoopInv' /\ RelayInv' /\ HandInv' /\ NoFalseErrant'
    BY <2>1 DEF ViewInv, LoopInv, RelayInv, HandInv, NoFalseErrant, SwitchPlanned
  <2> QED BY <2>5, <2>6, <2>7, <2>8 DEF HandOverInv, CourseInv
<1> QED BY <1>1, <1>2, <1>3, <1>4, <1>5, <1>6, <1>7 DEF Failover

-----------------------------------------------------------------------------
(* The theorems *)

(* Every step keeps the invariant, if no binary log loses anything. *)
LEMMA NextHand ==
    ASSUME Inv, Inv', CompareInv, HandOverInv, [Next]_vars, [LogKept]_vars
    PROVE  HandOverInv'
<1>1. CASE UNCHANGED vars
  <2>1. UNCHANGED <<mysqlVars, kubeVars, passVars, events>>
    BY <1>1 DEF vars
  <2>2. UNCHANGED <<primaryIdx, source, restoring, demote, terminating>> /\ PassKept
        /\ ss'.switchPod = ss.switchPod
    BY <2>1 DEF kubeVars, passVars, PassKept, SameView
  <2>3. Mild /\ LogKept
    BY <2>1, <2>2, FrameHand
  <2> QED BY <2>1, <2>2, <2>3, EnvironmentMild
<1>2. ASSUME Next, LogKept PROVE HandOverInv'
  <2>1. CASE Gather
    BY <2>1, GatherHand
  <2>2. CASE Report
    BY <2>2, UpdateHand, AnnotateHand, FailureHand DEF Report
  <2>3. CASE Clone
    BY <2>3, NoClone DEF HandOverInv
  <2>4. CASE Switchover
    BY <1>2, <2>4, SwitchoverHand
  <2>5. CASE Failover
    BY <1>2, <2>5, FailoverHand
  <2>6. CASE Configure
    BY <1>2, <2>6, ConfigureHand
  <2>7. CASE CallFails \/ CallTimesOut \/ Abort
    BY <2>7, FailureHand
  <2>8. CASE Environment
    BY <1>2, <2>8, EnvironmentHand
  <2> QED BY <1>2, <2>1, <2>2, <2>3, <2>4, <2>5, <2>6, <2>7, <2>8 DEF Next, Pass
<1> QED BY <1>1, <1>2

(* The invariant holds at first. *)
LEMMA InitHand ==
    ASSUME \A s \in Scenarios : Undisturbed(s), Init PROVE HandOverInv
<1>0. 0 \in Index /\ NoSource \notin Index /\ Seeds \subseteq Txn /\ Unborn # 0
  BY NAssumption, IndexFacts, ClusteringAssumption DEF Index, NoSource, Unborn
<1>1. PICK s \in Scenarios :
         /\ IF s.start = "replicating" THEN StartReplicating ELSE StartFresh
         /\ source = (s.start = "source") /\ restoring = (s.start = "restore")
         /\ events = s.events
  BY DEF Init
<1>2. /\ pc = "idle" /\ primaryIdx = 0 /\ terminating = {} /\ demote = {} /\ ~ss.switchPod
  <2>1. ~NoStatusSet.switchPod
    BY DEF NoStatusSet
  <2> QED BY <2>1 DEF Init
<1>3. PlainInv
  BY <1>1, <1>2 DEF Undisturbed, OwnData, PlainInv
<1>4. ViewInv /\ LoopInv /\ RelayInv /\ HandInv /\ NoFalseErrant
  BY <1>2 DEF ViewInv, LoopInv, RelayInv, HandInv, NoFalseErrant, SwitchPlanned
<1>5. /\ \A i \in Index : /\ db[i].wait = {} /\ db[i].relay = {}
                          /\ ~db[i].ro => ~db[i].io
                          /\ db[i].src \in (Index \ {i}) \cup {NoSource}
                          /\ \A t \in db[i].exec : uuid[t] # Unborn
      /\ ~db[0].io
  <2>1. CASE StartReplicating
    <3> DEFINE several == N > 1
               P == [FreshInstance EXCEPT !.exec = Seeds, !.ro = FALSE, !.ssM = several]
               R == [FreshInstance EXCEPT !.exec = Seeds, !.src = 0, !.io = TRUE,
                                          !.sql = TRUE, !.ssS = TRUE]
    <3>1. \A i \in Index : db[i] = IF i = 0 THEN P ELSE R
      BY <2>1 DEF StartReplicating, ReplicatingInstance
    <3>2. \A t \in Seeds : uuid[t] # Unborn
      BY <1>0, <2>1 DEF StartReplicating
    <3> HIDE DEF several
    <3>3. P.wait = {} /\ P.relay = {} /\ P.exec = Seeds /\ ~P.io /\ P.src = NoSource
      BY DEF FreshInstance
    <3>4. R.wait = {} /\ R.relay = {} /\ R.exec = Seeds /\ R.ro /\ R.src = 0
      BY DEF FreshInstance
    <3> HIDE DEF P, R
    <3> QED BY <1>0, <3>1, <3>2, <3>3, <3>4
  <2>2. CASE StartFresh
    <3>0. db = [i \in Index |-> FreshInstance]
      BY <2>2, Zenon DEF StartFresh
    <3>1. \A i \in Index : db[i] = FreshInstance
      BY <3>0, Zenon
    <3>2. /\ FreshInstance.wait = {} /\ FreshInstance.relay = {} /\ FreshInstance.exec = {}
          /\ ~FreshInstance.io /\ FreshInstance.src = NoSource
      BY DEF FreshInstance
    <3> QED BY <1>0, <3>1, <3>2
  <2> QED BY <1>1, <2>1, <2>2
<1>6. ChannelInv
  <2>1. LockInv
    BY <1>5 DEF LockInv
  <2>2. LogInv
    <3> HIDE DEF Stream
    <3> QED BY <1>5 DEF LogInv
  <2>3. QuietInv
    BY <1>0, <1>2, <1>5 DEF QuietInv
  <2> QED BY <2>1, <2>2, <2>3 DEF ChannelInv
<1>7. StrayInv
  BY <1>1, <1>2, <1>5 DEF Undisturbed, StrayInv
<1> QED BY <1>3, <1>4, <1>6, <1>7 DEF HandOverInv, CourseInv

(* Both theorems rest on the invariant. *)
LEMMA HandOver ==
    ASSUME \A s \in Scenarios : Undisturbed(s)
    PROVE  Spec /\ [][LogKept]_vars => [](Inv /\ CompareInv /\ HandOverInv)
<1> DEFINE I == Inv /\ CompareInv /\ HandOverInv
<1>1. Init => I
  <2>1. \A s \in Scenarios : ClonesFirst(s)
    BY OwnFirst DEF Undisturbed
  <2> QED BY <2>1, InitInv, InitCompare, InitHand
<1>2. I /\ [Next]_vars /\ [LogKept]_vars => I'
  BY NextInv, NextCompare, NextHand
<1> HIDE DEF I
<1>3. Spec /\ [][LogKept]_vars => []I
  BY <1>1, <1>2, PTL DEF Spec
<1> QED BY <1>3 DEF I

(* No alarm is false.  The statuses of a pass are read one after the       *)
(* other, from instances that go on working, fail and come back; still, a  *)
(* replica that a pass calls errant has a transaction that the primary     *)
(* neither has executed nor holds in a waiting session -- as long as no    *)
(* binary log loses anything (LogKept), and an administrator who writes to *)
(* single instances does not have the primary switched (Undisturbed).      *)
THEOREM AlarmsAreTrue ==
    ASSUME \A s \in Scenarios : Undisturbed(s)
    PROVE  Spec /\ [][LogKept]_vars => []NoFalseErrant
<1>1. Inv /\ CompareInv /\ HandOverInv => NoFalseErrant
  BY DEF HandOverInv, CourseInv
<1> QED BY <1>1, HandOver, PTL

(* A switchover leaves nothing behind.  Whatever fails or is interrupted   *)
(* while it runs, the instance that it records has executed all that the   *)
(* old primary has, under the same conditions: the old one is locked       *)
(* before its transactions are counted, and gets none from elsewhere.      *)
THEOREM SwitchoverComplete ==
    ASSUME \A s \in Scenarios : Undisturbed(s)
    PROVE  Spec /\ [][LogKept]_vars => SwitchoverLossless
<1> DEFINE Complete == swIndex => db[primaryIdx].exec \subseteq db[primaryIdx'].exec
<1>1. ASSUME HandOverInv PROVE Complete
  <2> SUFFICES ASSUME swIndex PROVE db[primaryIdx].exec \subseteq db[primaryIdx'].exec
    OBVIOUS
  <2>1. pc = "swIndex" /\ primaryIdx' = ss.cand
    BY DEF swIndex
  <2> QED BY <1>1, <2>1 DEF HandOverInv, CourseInv, HandInv
<1>2. Inv /\ CompareInv /\ HandOverInv /\ [Next]_vars => [Complete]_vars
  BY <1>1
<1>3. SwitchoverLossless <=> [][Complete]_vars
  BY DEF SwitchoverLossless
<1> HIDE DEF Complete
<1> QED BY <1>2, <1>3, HandOver, PTL DEF Spec

-----------------------------------------------------------------------------
(* Binary logs are kept as long as volumes are *)

(* An instance that keeps what it has. *)
LEMMA OneLog ==
    ASSUME MySQLTypeOK, NEW k \in Index, NEW X, db' = [db EXCEPT ![k] = X],
           db[k].exec \subseteq X.exec, db[k].wait \subseteq X.exec \cup X.wait
    PROVE  LogKept
<1>1. db'[k] = X /\ \A i \in Index : i # k => db'[i] = db[i]
  BY DEF MySQLTypeOK
<1> QED BY <1>1 DEF LogKept

(* The statements of the pass, apart from the clone. *)
LEMMA StatementLog ==
    ASSUME MySQLTypeOK, NEW k \in Index,
           \/ KillConnections(k) \/ StopReplicaIOThread(k) \/ SetReadOnly(k)
           \/ SetWritable(k) \/ ConfigurePrimary(k) \/ StartReplica(k)
           \/ \E s, b : ChangeSource(k, s, b)
    PROVE  LogKept
<1>0. db[k] \in Instance /\ db \in [Index -> Instance]
  BY DEF MySQLTypeOK
<1>1. CASE KillConnections(k)
  <2> DEFINE X == Released(db[k])
  <2>1. X.exec = db[k].exec \cup db[k].wait
    BY <1>0 DEF Released, Instance
  <2>2. db' = [db EXCEPT ![k] = X]
    BY <1>1 DEF KillConnections
  <2> HIDE DEF X
  <2> QED BY <2>1, <2>2, OneLog
<1>2. CASE StopReplicaIOThread(k)
  <2> DEFINE X == [db[k] EXCEPT !.io = FALSE]
  <2>1. X.exec = db[k].exec /\ X.wait = db[k].wait
    BY <1>0 DEF Instance
  <2>2. db' = [db EXCEPT ![k] = X]
    BY <1>0, <1>2 DEF StopReplicaIOThread
  <2> HIDE DEF X
  <2> QED BY <2>1, <2>2, OneLog
<1>3. CASE SetReadOnly(k)
  <2> DEFINE X == [db[k] EXCEPT !.ro = TRUE]
  <2>1. X.exec = db[k].exec /\ X.wait = db[k].wait
    BY <1>0 DEF Instance
  <2>2. db' = [db EXCEPT ![k] = X]
    BY <1>0, <1>3 DEF SetReadOnly
  <2> HIDE DEF X
  <2> QED BY <2>1, <2>2, OneLog
<1>4. CASE SetWritable(k)
  <2> DEFINE X == [db[k] EXCEPT !.io = FALSE, !.sql = FALSE, !.relay = {}, !.ro = FALSE]
  <2>1. X.exec = db[k].exec /\ X.wait = db[k].wait
    BY <1>0 DEF Instance
  <2>2. db' = [db EXCEPT ![k] = X]
    BY <1>4 DEF SetWritable
  <2> HIDE DEF X
  <2> QED BY <2>1, <2>2, OneLog
<1>5. CASE ConfigurePrimary(k)
  <2> DEFINE X == [db[k] EXCEPT !.ssM = TRUE]
  <2>1. X.exec = db[k].exec /\ X.wait = db[k].wait
    BY <1>0 DEF Instance
  <2>2. db' = [db EXCEPT ![k] = X]
    BY <1>0, <1>5 DEF ConfigurePrimary
  <2> HIDE DEF X
  <2> QED BY <2>1, <2>2, OneLog
<1>6. CASE StartReplica(k)
  <2> DEFINE X == [db[k] EXCEPT !.io = TRUE, !.sql = TRUE]
  <2>1. X.exec = db[k].exec /\ X.wait = db[k].wait
    BY <1>0 DEF Instance
  <2>2. db' = [db EXCEPT ![k] = X]
    BY <1>6 DEF StartReplica
  <2> HIDE DEF X
  <2> QED BY <2>1, <2>2, OneLog
<1>7. ASSUME NEW s, NEW b, ChangeSource(k, s, b) PROVE LogKept
  <2> DEFINE X == [Released(db[k]) EXCEPT !.io = FALSE, !.sql = FALSE, !.relay = {},
                                          !.src = s, !.ssS = b, !.ssM = FALSE]
  <2>1. X.exec = db[k].exec \cup db[k].wait
    BY <1>0 DEF Released, Instance
  <2>2. db' = [db EXCEPT ![k] = X]
    BY <1>7, Zenon DEF ChangeSource
  <2> HIDE DEF X
  <2> QED BY <2>1, <2>2, OneLog
<1> QED BY <1>1, <1>2, <1>3, <1>4, <1>5, <1>6, <1>7

(* What instances and clients do. *)
LEMMA LifeLog ==
    ASSUME MySQLTypeOK, NEW k \in Index,
           \/ ClientWrite(k) \/ Commit(k) \/ Receive(k) \/ Apply(k) \/ Crash(k) \/ Start(k)
           \/ StrayWrite(k) \/ CloneFail(k)
           \/ db' = [db EXCEPT ![k] = IF db[k].up THEN Stopped(db[k]) ELSE db[k]]
    PROVE  LogKept
<1>0. db[k] \in Instance /\ db \in [Index -> Instance]
  BY DEF MySQLTypeOK
<1>1. ASSUME NEW X, db' = [db EXCEPT ![k] = X], X.exec = db[k].exec, X.wait = db[k].wait
      PROVE  LogKept
  BY <1>1, OneLog
<1>2. CASE ClientWrite(k)
  <2> DEFINE n == NextTxn
             X == [db[k] EXCEPT !.wait = @ \cup {n}]
             Y == [db[k] EXCEPT !.exec = @ \cup {n}]
  <2>1. db' = [db EXCEPT ![k] = X] \/ db' = [db EXCEPT ![k] = Y]
    BY <1>0, <1>2 DEF ClientWrite
  <2> HIDE DEF n
  <2>2. /\ X.exec = db[k].exec /\ X.wait = db[k].wait \cup {n}
        /\ Y.exec = db[k].exec \cup {n} /\ Y.wait = db[k].wait
    BY <1>0 DEF Instance
  <2> HIDE DEF X, Y
  <2> QED BY <2>1, <2>2, OneLog
<1>3. CASE Commit(k)
  <2>1. PICK t \in db[k].wait :
           db' = [db EXCEPT ![k] = [db[k] EXCEPT !.wait = @ \ {t}, !.exec = @ \cup {t}]]
    BY <1>3, Zenon DEF Commit
  <2> DEFINE X == [db[k] EXCEPT !.wait = @ \ {t}, !.exec = @ \cup {t}]
  <2>2. X.wait = db[k].wait \ {t} /\ X.exec = db[k].exec \cup {t}
    BY <1>0 DEF Instance
  <2>3. db' = [db EXCEPT ![k] = X]
    BY <2>1
  <2> HIDE DEF X
  <2> QED BY <2>2, <2>3, OneLog
<1>4. CASE Receive(k)
  <2> DEFINE t == Oldest(Stream(db[k].src) \ Has(k))
             X == [db[k] EXCEPT !.relay = @ \cup {t}]
  <2>1. db' = [db EXCEPT ![k] = X]
    BY <1>0, <1>4 DEF Receive
  <2> HIDE DEF t
  <2>2. X.exec = db[k].exec /\ X.wait = db[k].wait
    BY <1>0 DEF Instance
  <2> HIDE DEF X
  <2> QED BY <1>1, <2>1, <2>2
<1>5. CASE Apply(k)
  <2> DEFINE t == Oldest(db[k].relay)
             X == [db[k] EXCEPT !.relay = @ \ {t}, !.exec = @ \cup {t}]
  <2>1. db' = [db EXCEPT ![k] = X]
    BY <1>5 DEF Apply
  <2> HIDE DEF t
  <2>2. X.exec = db[k].exec \cup {t} /\ X.wait = db[k].wait
    BY <1>0 DEF Instance
  <2> HIDE DEF X
  <2> QED BY <2>1, <2>2, OneLog
<1>6. CASE \/ Crash(k) \/ db' = [db EXCEPT ![k] = IF db[k].up THEN Stopped(db[k]) ELSE db[k]]
  <2> DEFINE X == Stopped(db[k])
  <2>1. X.exec = db[k].exec \cup db[k].wait
    <3> DEFINE r == Released(db[k])
    <3>1. r.exec = db[k].exec \cup db[k].wait
      BY <1>0 DEF Released, Instance
    <3>2. r \in Instance
      BY <1>0, ReleasedType
    <3> HIDE DEF r
    <3>3. X = [r EXCEPT !.up = FALSE, !.ro = TRUE, !.io = FALSE,
                 !.sql = FALSE, !.ssM = FALSE, !.ssS = FALSE,
                 !.clone = IF @ = "in progress" THEN "failed" ELSE @]
      BY DEF Stopped, r
    <3> HIDE DEF X
    <3> QED BY <3>1, <3>2, <3>3 DEF Instance
  <2>2. db' = [db EXCEPT ![k] = X] \/ db' = db
    BY <1>0, <1>6 DEF Crash
  <2> HIDE DEF X
  <2>3. CASE db' = [db EXCEPT ![k] = X]
    BY <2>1, <2>3, OneLog
  <2> QED BY <2>2, <2>3 DEF LogKept
<1>7. CASE Start(k)
  <2> DEFINE X == [db[k] EXCEPT !.up = TRUE]
  <2>1. db' = [db EXCEPT ![k] = X] /\ X.exec = db[k].exec /\ X.wait = db[k].wait
    BY <1>0, <1>7 DEF Start, Instance
  <2> HIDE DEF X
  <2> QED BY <1>1, <2>1
<1>8. CASE StrayWrite(k)
  <2> DEFINE n == NextTxn
             X == [db[k] EXCEPT !.exec = @ \cup {n}]
  <2>1. db' = [db EXCEPT ![k] = X]
    BY <1>0, <1>8 DEF StrayWrite
  <2> HIDE DEF n
  <2>2. X.exec = db[k].exec \cup {n} /\ X.wait = db[k].wait
    BY <1>0 DEF Instance
  <2> HIDE DEF X
  <2> QED BY <2>1, <2>2, OneLog
<1>9. CASE CloneFail(k)
  <2> DEFINE X == [db[k] EXCEPT !.clone = "failed"]
  <2>1. X.exec = db[k].exec /\ X.wait = db[k].wait
    BY <1>0 DEF Instance
  <2>2. db' = [db EXCEPT ![k] = X]
    BY <1>9, Zenon DEF CloneFail
  <2> HIDE DEF X
  <2> QED BY <1>1, <2>1, <2>2
<1> QED BY <1>2, <1>3, <1>4, <1>5, <1>6, <1>7, <1>8, <1>9

(* No step loses anything of a binary log, if no volume is lost and no     *)
(* instance is cloned.                                                     *)
LEMMA NextLog ==
    ASSUME Inv, CompareInv, PlainInv, SeedInv, [Next]_vars PROVE LogKept
<1>0. /\ MySQLTypeOK /\ PassTypeOK /\ CloneInv /\ ss.primary \in Index /\ pods \subseteq Index
      /\ pc # "repClone" /\ events["wipe"] = 0
  BY DEF Inv, TypeOK, CompareInv, PassTypeOK, StatusSetType, KubeTypeOK, SeedInv
<1>a. UNCHANGED mysqlVars => LogKept
  BY DEF mysqlVars, LogKept
<1>b. ASSUME NEW s, Calling(s) PROVE Callee \in Index
  BY <1>0, <1>b DEF Calling, Answers, Reachable
<1>1. CASE UNCHANGED vars
  BY <1>1, <1>a DEF vars
<1>2. CASE Gather \/ Report \/ CallFails \/ CallTimesOut \/ Abort
  <2>1. Gather => UNCHANGED mysqlVars
    BY Zenon DEF Gather, GatherBegin, ReadStatus, FinishGather
  <2>2. Report => UNCHANGED mysqlVars
    BY Zenon DEF Report, updateStatus, annotate, annotateStops, ControllerRestart
  <2>3. CallFails \/ CallTimesOut \/ Abort => UNCHANGED mysqlVars
    BY Zenon DEF CallFails, CallTimesOut, Abort
  <2> QED BY <1>2, <1>a, <2>1, <2>2, <2>3
<1>3. CASE Clone
  BY <1>3, NoClone
<1>4. CASE Switchover
  <2>1. \/ SetReadOnly(ss.primary) \/ KillConnections(ss.primary) \/ UNCHANGED mysqlVars
    BY <1>4 DEF Switchover, swReadOnly, swReadOnlySlow, swKill, swStatus, swWait, swIndex,
       swDemote
  <2> QED BY <1>0, <1>a, <2>1, StatementLog
<1>5. CASE Failover
  <2>1. (Callee \in Index /\ StopReplicaIOThread(Callee)) \/ UNCHANGED mysqlVars
    BY <1>5, <1>b DEF Failover, foStop, foRecheck, foCompare, foTop, foGiveUp, foWait, foIndex
  <2> QED BY <1>0, <1>a, <2>1, StatementLog
<1>6. CASE Configure
  <2>1. CASE removeRoleLabel \/ addRoleLabel \/ primWait \/ repPurged
    <3>1. UNCHANGED mysqlVars
      BY <2>1, Zenon DEF removeRoleLabel, addRoleLabel, primWait, repPurged, SetRole
    <3> QED BY <1>a, <3>1
  <2>2. CASE killAlive \/ repStop \/ repKill \/ repReadOnly \/ repChange \/ repStart
    <3>1. Callee \in Index
      BY <1>b, <2>2 DEF killAlive, repStop, repKill, repReadOnly, repChange, repStart
    <3>2. \/ KillConnections(Callee) \/ StopReplicaIOThread(Callee) \/ SetReadOnly(Callee)
          \/ StartReplica(Callee) \/ \E s, b : ChangeSource(Callee, s, b)
      BY <2>2 DEF killAlive, repStop, repKill, repReadOnly, repChange, repStart
    <3> QED BY <1>0, <3>1, <3>2, StatementLog
  <2>3. CASE midReadOnly \/ midSource \/ midStart
    BY <2>3 DEF midReadOnly, midSource, midStart, Calling, PlainInv
  <2>4. CASE primStop \/ primSemiSync \/ makeWritable
    <3>1. \/ StopReplicaIOThread(ss.primary) \/ ConfigurePrimary(ss.primary)
          \/ SetWritable(ss.primary)
      BY <2>4 DEF primStop, primSemiSync, makeWritable
    <3> QED BY <1>0, <3>1, StatementLog
  <2>5. CASE repClone
    BY <1>0, <2>5 DEF repClone, Calling
  <2> QED BY <1>6, <2>1, <2>2, <2>3, <2>4, <2>5 DEF Configure
<1>7. CASE Environment
  <2>1. CASE SourceWrites
    BY <2>1 DEF SourceWrites, ExternalWrite, LogKept
  <2>2. CASE RemoveSource \/ Restore
    BY <2>2 DEF RemoveSource, Restore, PlainInv
  <2>3. ASSUME NEW i \in Index,
               \/ RequestDemote \/ SetOffline \/ ConnectionLost(i)
               \/ ConnectionBack(i) \/ PodTerminate(i) \/ PodCreate(i)
        PROVE  LogKept
    <3>1. UNCHANGED mysqlVars
      BY <2>3 DEF RequestDemote, SetOffline, ConnectionLost, ConnectionBack, PodTerminate,
         PodCreate
    <3> QED BY <1>a, <3>1
  <2>4. ASSUME NEW i \in Index, EndsClone(i) \/ InstanceUnlocked(i) \/ VolumeLost(i)
        PROVE  FALSE
    <3>1. CASE EndsClone(i)
      <4>1. db[i].clone = "in progress"
        BY <3>1, Zenon DEF EndsClone, CloneEnd
      <4>2. source
        BY <1>0, <4>1, Zenon DEF CloneInv
      <4> QED BY <4>2 DEF PlainInv
    <3>2. CASE InstanceUnlocked(i)
      BY <3>2 DEF InstanceUnlocked, Happens, PlainInv
    <3>3. CASE VolumeLost(i)
      <4>1. events["wipe"] > 0
        BY <3>3, Zenon DEF VolumeLost, Happens
      <4> QED BY <1>0, <4>1
    <3> QED BY <2>4, <3>1, <3>2, <3>3
  <2>5. ASSUME NEW i \in Index,
               \/ Writes(i) \/ Commits(i) \/ Receives(i) \/ Applies(i) \/ FailsClone(i)
               \/ InstanceCrash(i) \/ InstanceStart(i) \/ InstanceDiverges(i)
        PROVE  LogKept
    <3>1. \/ ClientWrite(i) \/ Commit(i) \/ Receive(i) \/ Apply(i) \/ Crash(i) \/ Start(i)
          \/ StrayWrite(i) \/ CloneFail(i)
      BY <2>5 DEF Writes, Commits, Receives, Applies, FailsClone, InstanceCrash,
         InstanceStart, InstanceDiverges
    <3> QED BY <1>0, <3>1, LifeLog
  <2>6. ASSUME NEW i \in Index, PodGone(i) PROVE LogKept
    <3>1. db' = [db EXCEPT ![i] = IF db[i].up THEN Stopped(db[i]) ELSE db[i]]
      BY <2>6, Zenon DEF PodGone
    <3> QED BY <1>0, <3>1, LifeLog
  <2>7. 0 \in Index
    BY NAssumption DEF Index
  <2> QED BY <1>7, <2>1, <2>2, <2>3, <2>4, <2>5, <2>6, <2>7 DEF Environment, Mysqld
<1> QED BY <1>1, <1>2, <1>3, <1>4, <1>5, <1>6, <1>7 DEF Next, Pass

(* Every instance that answered has data. *)
Seeded == \A i \in ss.known : Seeds \subseteq ss.st[i].exec

(* A replica that has data is not cloned. *)
LEMMA NoCloneEntry ==
    ASSUME Seeds # {}, NEW i, Seeds \subseteq ss.st[i].exec
    PROVE  CloneEntry(i) # "repClone" /\ ReplicaEntry(i) # "repClone"
<1>1. ~NeedsClone(i)
  BY DEF NeedsClone
<1>2. CloneEntry(i) # "repClone"
  BY <1>1 DEF CloneEntry, SourceEntry
<1> QED BY <1>2 DEF ReplicaEntry

(* The loop over the replicas clones none of them. *)
LEMMA ReplicaSeeded ==
    ASSUME PassTypeOK, Seeds # {}, Seeded, NEW rest \in SUBSET (ss.known \ {ss.primary})
    PROVE  ToReplica(rest)[1] # "repClone"
<1>0. rest \subseteq ss.known /\ rest \subseteq Nat
  BY IndexFacts DEF PassTypeOK, StatusSetType
<1>1. ToIdle[1] # "repClone" /\ ToLabel[1] # "repClone"
  BY DEF ToIdle, ToLabel, ToWritable
<1> DEFINE work == {i \in rest : ReplicaEntry(i) # "done"}
           next == {i \in rest : \E j \in work : i >= j}
           silent == \E i \in rest \ (next \cup ss.errants) : ~Answers(i)
           w == LowestOrdinal(work)
           e == ReplicaEntry(w)
<1>2. ToReplica(rest) = IF silent THEN ToIdle
                        ELSE IF work = {} THEN ToLabel ELSE <<e, next>>
  BY DEF ToReplica
<1>3. ASSUME work # {} PROVE e # "repClone"
  <2>1. work \subseteq Nat /\ work \subseteq rest
    BY <1>0
  <2>2. w \in work
    <3> HIDE DEF work
    <3> QED BY <1>3, <2>1, LowestOrdinalExists
  <2>3. w \in ss.known
    BY <1>0, <2>1, <2>2
  <2> HIDE DEF w
  <2>4. Seeds \subseteq ss.st[w].exec
    BY <2>3 DEF Seeded
  <2> QED BY <2>4, NoCloneEntry
<1> HIDE DEF work, next, silent, w, e
<1> QED BY <1>1, <1>2, <1>3

(* The stages of configure. *)
LEMMA DestinationsSeeded ==
    ASSUME PassTypeOK, Seeds # {}, Seeded
    PROVE  /\ ToWritable[1] # "repClone" /\ ToReplicas[1] # "repClone"
           /\ ToSemiSync[1] # "repClone" /\ ToPrimWait[1] # "repClone"
           /\ ToPrimary[1] # "repClone" /\ ToKill[1] # "repClone"
           /\ ToOperation[1] # "repClone"
<1>1. ToWritable[1] # "repClone" /\ ToIdle[1] # "repClone"
  BY DEF ToWritable, ToIdle
<1>2. ToReplicas[1] # "repClone"
  BY ReplicaSeeded DEF ToReplicas
<1>3. ToSemiSync[1] # "repClone" /\ ToMidSource[1] # "repClone"
  BY <1>2 DEF ToSemiSync, ToMidSource
<1>4. ToPrimWait[1] # "repClone"
  BY <1>3 DEF ToPrimWait
<1>5. ToPrimary[1] # "repClone"
  BY <1>3, <1>4 DEF ToPrimary
<1>6. ToKill[1] # "repClone"
  BY <1>5 DEF ToKill
<1>7. ToConfigure[1] # "repClone"
  BY <1>6 DEF ToConfigure
<1>8. ToOperation[1] # "repClone"
  BY <1>1, <1>7 DEF ToOperation
<1> QED BY <1>1, <1>2, <1>3, <1>4, <1>5, <1>6, <1>8

(* The rest of configureReplica, or the next replica. *)
LEMMA ContinueSeeded ==
    ASSUME PassTypeOK, Seeds # {}, Seeded, LoopInv, pc \in RepSteps,
           NEW step, step # "repClone"
    PROVE  ContinueReplica(step)[1] # "repClone"
<1>1. todo \subseteq ss.known \ {ss.primary}
  BY DEF LoopInv, RepSteps
<1>2. ToReplica(todo \ {Callee})[1] # "repClone"
  BY <1>1, ReplicaSeeded
<1> QED BY <1>2 DEF ContinueReplica

(* Where a step of the pass leads: to no clone, with the data seen. *)
Onward == pc' # "repClone" /\ (pc' \notin {"idle", "panic"} => Seeded')

(* Going to a destination. *)
LEMMA TakeSeeded ==
    ASSUME PassTypeOK, Seeded, NEW d, d[1] # "repClone", Take(d) \/ NextTurn(d),
           pc # "repClone"
    PROVE  Onward
<1>1. CASE Take(d)
  <2>1. pc' = d[1]
    BY <1>1 DEF Take
  <2>2. CASE pc' # "idle"
    <3>1. ss' = [ss EXCEPT !.ready = {}, !.switchPod = FALSE, !.annotated = {}]
      BY <1>1, <2>2 DEF Take
    <3>2. ss \in StatusSetType
      BY DEF PassTypeOK
    <3>3. ss'.known = ss.known /\ ss'.st = ss.st
      BY <3>1, <3>2 DEF StatusSetType
    <3> QED BY <2>1, <3>3 DEF Onward, Seeded
  <2> QED BY <2>1, <2>2 DEF Onward
<1>2. CASE UNCHANGED <<pc, ss>>
  BY <1>2 DEF Onward, Seeded
<1> QED BY <1>1, <1>2 DEF NextTurn

(* A step uses up at most one event. *)
LEMMA NextEvents ==
    ASSUME Inv, Next PROVE events' = events \/ \E e \in Events : Happens(e)
<1> DEFINE Spends == events' = events \/ \E e \in Events : Happens(e)
<1>0. ASSUME NEW e \in {"write", "external", "crash", "midcrash", "cut", "abort", "demote",
                        "delete", "wipe", "promote", "offline", "unlock", "stray",
                        "clonefail", "delay", "flaky", "late"}, Happens(e)
      PROVE  Spends
  <2>1. e \in Events
    BY <1>0 DEF Events
  <2> QED BY <1>0, <2>1
<1>a. (UNCHANGED events \/ UNCHANGED Outside) => Spends
  BY DEF Outside
<1> SUFFICES Spends
  OBVIOUS
<1> HIDE DEF Spends
<1>1. CASE Gather
  <2>1. CASE FinishGather
    <3>1. UNCHANGED events \/ \E e \in {"delay", "flaky"} : Happens(e)
      BY <2>1, SeenFacts, Zenon
    <3>2. ASSUME NEW e \in {"delay", "flaky"}, Happens(e) PROVE Spends
      BY <1>0, <3>2
    <3> QED BY <1>a, <3>1, <3>2
  <2>2. CASE GatherBegin \/ \E i \in Index : ReadStatus(i)
    BY <1>a, <2>2, Zenon DEF GatherBegin, ReadStatus
  <2> QED BY <1>1, <2>1, <2>2 DEF Gather
<1>2. CASE Report
  BY <1>2, <1>a, Zenon DEF Report, updateStatus, annotate, annotateStops, ControllerRestart
<1>3. CASE Clone \/ Switchover
  BY <1>3, <1>a, Zenon DEF Clone, cloneBegin, cloneEnd, Switchover, swReadOnly,
     swReadOnlySlow, swKill, swStatus, swWait, swIndex, swDemote
<1>4. CASE Failover
  BY <1>4, <1>a, Zenon DEF Failover, foStop, foRecheck, foCompare, foTop, foGiveUp, foWait,
     foIndex
<1>5. CASE Configure
  BY <1>5, <1>a, ConfigureFrame
<1>6. CASE CallFails \/ CallTimesOut \/ Abort
  BY <1>6, <1>0, <1>a, Zenon DEF CallFails, CallTimesOut, Abort
<1>7. CASE SourceWrites \/ RequestDemote \/ RemoveSource \/ Restore \/ SetOffline
  BY <1>7, <1>0, <1>a, Zenon DEF SourceWrites, RequestDemote, RemoveSource, Restore, SetOffline
<1>8. ASSUME NEW i \in Index, Mysqld(i) PROVE Spends
  BY <1>8, <1>0, <1>a, Zenon DEF Mysqld, Writes, Commits, Receives, Applies, EndsClone,
     FailsClone
<1>9. ASSUME NEW i \in Index,
             \/ InstanceStart(i) \/ ConnectionBack(i) \/ PodGone(i) \/ PodCreate(i)
      PROVE  Spends
  BY <1>9, <1>a, Zenon DEF InstanceStart, ConnectionBack, PodGone, PodCreate
<1>10. ASSUME NEW i \in Index,
              \/ InstanceCrash(i) \/ InstanceUnlocked(i) \/ InstanceDiverges(i)
              \/ ConnectionLost(i) \/ PodTerminate(i) \/ VolumeLost(i)
       PROVE  Spends
  BY <1>10, <1>0, Zenon DEF InstanceCrash, InstanceUnlocked, InstanceDiverges, ConnectionLost,
     PodTerminate, VolumeLost
<1>11. CASE Environment
  BY <1>11, <1>7, <1>8, <1>9, <1>10, Zenon DEF Environment
<1> QED BY <1>1, <1>2, <1>3, <1>4, <1>5, <1>6, <1>11, Zenon DEF Next, Pass

(* Outside of the pass, nothing of its snapshot changes. *)
LEMMA EnvironmentOnward ==
    ASSUME PassTypeOK, Environment, pc # "repClone", pc \notin {"idle", "panic"} => Seeded
    PROVE  Onward
<1>1. pc' = pc /\ ss'.known = ss.known /\ ss'.st = ss.st
  <2>a. UNCHANGED passVars => pc' = pc /\ ss' = ss
    BY DEF passVars
  <2>1. CASE SourceWrites \/ RequestDemote \/ RemoveSource \/ Restore \/ SetOffline
    BY <2>1, <2>a, Zenon DEF SourceWrites, RequestDemote, RemoveSource, Restore, SetOffline
  <2>2. ASSUME NEW i \in Index, Mysqld(i) PROVE pc' = pc /\ ss' = ss
    BY <2>2, <2>a, Zenon DEF Mysqld, Writes, Commits, Receives, Applies, EndsClone, FailsClone
  <2>3. ASSUME NEW i \in Index,
               \/ InstanceStart(i) \/ ConnectionBack(i) \/ PodCreate(i)
               \/ InstanceCrash(i) \/ InstanceUnlocked(i) \/ InstanceDiverges(i)
               \/ ConnectionLost(i) \/ PodTerminate(i) \/ VolumeLost(i)
        PROVE  pc' = pc /\ ss' = ss
    BY <2>3, <2>a, Zenon DEF InstanceStart, ConnectionBack, PodCreate, InstanceCrash,
       InstanceUnlocked, InstanceDiverges, ConnectionLost, PodTerminate, VolumeLost
  <2>4. ASSUME NEW i \in Index, PodGone(i)
        PROVE  pc' = pc /\ ss'.known = ss.known /\ ss'.st = ss.st
    <3>1. pc' = pc /\ (ss' = ss \/ ss' = [ss EXCEPT !.gone = @ \cup {i}])
      <4>1. /\ pc' = pc
            /\ ss' = IF pc = "idle" THEN ss ELSE [ss EXCEPT !.gone = @ \cup {i}]
        BY <2>4, Zenon DEF PodGone
      <4> QED BY <4>1
    <3>2. ss \in StatusSetType
      BY DEF PassTypeOK
    <3>3. CASE ss' = [ss EXCEPT !.gone = @ \cup {i}]
      BY <3>1, <3>2, <3>3 DEF StatusSetType
    <3> QED BY <3>1, <3>3
  <2> QED BY <2>1, <2>2, <2>3, <2>4 DEF Environment
<1> QED BY <1>1 DEF Onward, Seeded

(* GatherStatus sees the data of every instance that answers. *)
LEMMA GatherOnward ==
    ASSUME Inv, Gather, pc \notin {"idle", "panic"} => Seeded,
           \A i \in Index : Seeds \subseteq db[i].exec
    PROVE  Onward
<1>0. ss \in StatusSetType /\ ss.known \subseteq Index /\ ss.primary \in Index
  BY DEF Inv, TypeOK, PassTypeOK, StatusSetType
<1>1. CASE GatherBegin
  <2>1. pc' = "gather" /\ ss'.known = {}
    BY <1>1 DEF GatherBegin, NoStatusSet
  <2> QED BY <2>1 DEF Onward, Seeded
<1>2. ASSUME NEW k \in Index, ReadStatus(k) PROVE Onward
  <2>1. /\ pc = "gather" /\ pc' \in {"gather", "recheck"}
        /\ ss' = ss \/ ss' = [ss EXCEPT !.known = @ \cup {k}, !.st[k] = GetStatus(k)]
    BY <1>2 DEF ReadStatus
  <2>2. \A i \in ss'.known : \/ i = k /\ ss'.st[i] = GetStatus(k)
                             \/ i \in ss.known /\ ss'.st[i] = ss.st[i]
    <3>1. CASE ss' = ss
      BY <3>1
    <3>2. CASE ss' = [ss EXCEPT !.known = @ \cup {k}, !.st[k] = GetStatus(k)]
      BY <1>0, <1>2, <3>2 DEF StatusSetType
    <3> QED BY <2>1, <3>1, <3>2
  <2> QED BY <2>1, <2>2, StatusFacts DEF Onward, Seeded
<1>3. CASE FinishGather
  <2>1. pc = "recheck" /\ pc' = "update"
    BY <1>3, Zenon DEF FinishGather
  <2>2. /\ ss'.known \subseteq ss.known
        /\ \A i \in ss'.known : i # ss.primary => ss'.st[i] = ss.st[i]
        /\ ss.primary \in ss'.known => ss'.st[ss.primary] = GetStatus(ss.primary)
    BY <1>3, ConclusionSeen
  <2> QED BY <1>0, <2>1, <2>2, StatusFacts DEF Onward, Seeded
<1> QED BY <1>1, <1>2, <1>3 DEF Gather

(* The steps of configure clone no replica. *)
LEMMA ConfigureOnward ==
    ASSUME Inv, LoopInv, PlainInv, Seeds # {}, Seeded, pc # "repClone", Configure
    PROVE  Onward
<1>0. PassTypeOK
  BY DEF Inv, TypeOK
<1>a. ASSUME NEW d, d[1] # "repClone", Take(d) \/ NextTurn(d) PROVE Onward
  BY <1>0, <1>a, TakeSeeded
<1>b. Idle => Onward
  BY DEF Idle, Onward
<1>1. /\ ToWritable[1] # "repClone" /\ ToReplicas[1] # "repClone"
      /\ ToSemiSync[1] # "repClone" /\ ToPrimWait[1] # "repClone"
      /\ ToPrimary[1] # "repClone" /\ ToKill[1] # "repClone"
  BY <1>0, DestinationsSeeded
<1>2. CASE removeRoleLabel \/ killAlive \/ addRoleLabel
  <2>1. NextTurn(ToKill) \/ NextTurn(ToPrimary) \/ NextTurn(ToWritable)
    BY <1>2, Zenon DEF removeRoleLabel, killAlive, addRoleLabel
  <2> QED BY <1>1, <1>a, <2>1, Zenon
<1>3. CASE midReadOnly \/ midSource \/ midStart
  BY <1>3, Zenon DEF midReadOnly, midSource, midStart, Calling, PlainInv
<1>4. CASE primStop \/ primWait \/ primSemiSync
  <2>1. Take(ToPrimWait) \/ Take(ToSemiSync) \/ Take(ToReplicas)
    BY <1>4, Zenon DEF primStop, primWait, primSemiSync
  <2> QED BY <1>1, <1>a, <2>1, Zenon
<1>5. CASE repPurged \/ makeWritable
  BY <1>5, <1>b, Zenon DEF repPurged, makeWritable
<1>6. CASE repClone
  BY <1>6, Zenon DEF repClone, Calling
<1>7. CASE repStop \/ repKill \/ repReadOnly \/ repChange \/ repStart
  <2>1. pc \in RepSteps
    BY <1>7 DEF repStop, repKill, repReadOnly, repChange, repStart, Calling, RepSteps
  <2>2. Callee \in ss.known
    <3>1. todo # {} /\ todo \subseteq ss.known
      BY <2>1 DEF LoopInv, RepSteps
    <3>2. todo \subseteq Nat
      BY <1>0, IndexFacts DEF PassTypeOK
    <3> QED BY <3>1, <3>2, LowestOrdinalExists DEF Callee
  <2>3. CloneEntry(Callee) # "repClone"
    BY <2>2, NoCloneEntry DEF Seeded
  <2>4. ASSUME NEW step, step # "repClone", Take(ContinueReplica(step)) PROVE Onward
    <3>1. ContinueReplica(step)[1] # "repClone"
      BY <1>0, <2>1, <2>4, ContinueSeeded
    <3> QED BY <1>a, <2>4, <3>1
  <2>5. \/ Take(ContinueReplica("done")) \/ Take(ContinueReplica("repReadOnly"))
        \/ Take(ContinueReplica("repStart")) \/ Take(ContinueReplica(CloneEntry(Callee)))
    BY <1>7, Zenon DEF repStop, repKill, repReadOnly, repChange, repStart
  <2>6. "done" # "repClone" /\ "repReadOnly" # "repClone" /\ "repStart" # "repClone"
    OBVIOUS
  <2> QED BY <2>3, <2>4, <2>5, <2>6, Zenon
<1> QED BY <1>2, <1>3, <1>4, <1>5, <1>6, <1>7 DEF Configure

(* The other steps of the pass. *)
LEMMA PassOnward ==
    ASSUME Inv, Seeds # {}, pc # "repClone", pc \notin {"idle", "panic"} => Seeded,
           \A i \in Index : Seeds \subseteq db[i].exec,
           \/ Report \/ Switchover \/ Failover \/ CallFails \/ CallTimesOut \/ Abort
    PROVE  Onward
<1>0. PassTypeOK /\ ss \in StatusSetType /\ ss.known \subseteq Index /\ pods \subseteq Index
  BY DEF Inv, TypeOK, PassTypeOK, StatusSetType, KubeTypeOK
<1>a. ASSUME NEW d, d[1] # "repClone", Take(d) \/ NextTurn(d), pc \notin {"idle", "panic"}
      PROVE  Onward
  BY <1>0, <1>a, TakeSeeded
<1>b. Idle => Onward
  BY DEF Idle, Onward
<1>c. ASSUME ss'.known = ss.known, \A i \in ss.known : ss'.st[i] = ss.st[i],
             pc \notin {"idle", "panic"}, pc' # "repClone"
      PROVE  Onward
  BY <1>c DEF Onward, Seeded
<1>1. CASE CallFails \/ CallTimesOut \/ Abort \/ ControllerRestart \/ foGiveUp \/ swDemote
           \/ foIndex
  BY <1>1, <1>b, Zenon DEF CallFails, CallTimesOut, Abort, ControllerRestart, foGiveUp,
     swDemote, foIndex
<1>2. CASE updateStatus
  <2>1. pc = "update" /\ pc' = "annotate" /\ ss' = ss
    BY <1>2, Zenon DEF updateStatus
  <2> QED BY <1>c, <2>1
<1>3. CASE annotate
  <2>1. pc = "annotate" /\ Take(ToOperation)
    BY <1>3, Zenon DEF annotate
  <2>2. ToOperation[1] # "repClone"
    BY <1>0, <2>1, DestinationsSeeded
  <2> QED BY <1>a, <2>1, <2>2
<1>4. CASE annotateStops
  <2>1. pc' = "panic" \/ Idle
    BY <1>4, Zenon DEF annotateStops
  <2> QED BY <1>b, <2>1 DEF Onward
<1>5. CASE swReadOnly \/ swKill \/ swWait \/ foWait
  <2>1. /\ pc \in {"swReadOnly", "swKill", "swWait", "foWait"}
        /\ \E d \in {<<"swKill", todo>>, <<"swStatus", todo>>, <<"swIndex", {}>>,
                     <<"foIndex", {}>>} : Take(d)
    BY <1>5 DEF swReadOnly, swKill, swWait, foWait, Calling
  <2>2. PICK d \in {<<"swKill", todo>>, <<"swStatus", todo>>, <<"swIndex", {}>>,
                    <<"foIndex", {}>>} : Take(d)
    BY <2>1
  <2>3. d[1] # "repClone"
    BY <2>2
  <2> QED BY <1>a, <2>1, <2>2, <2>3
<1>6. CASE swReadOnlySlow
  <2>1. pc = "swReadOnly" /\ pc' = pc /\ ss' = ss
    BY <1>6, Zenon DEF swReadOnlySlow, Calling, passVars
  <2> QED BY <1>c, <2>1
<1>7. CASE swStatus
  <2> DEFINE g == db[ss.primary].exec
  <2>1. pc = "swStatus" /\ pc' = "swWait" /\ ss' = [ss EXCEPT !.goal = g]
    BY <1>7 DEF swStatus, Calling
  <2> HIDE DEF g
  <2>2. ss'.known = ss.known /\ ss'.st = ss.st
    BY <1>0, <2>1 DEF StatusSetType
  <2> QED BY <1>c, <2>1, <2>2
<1>8. CASE swIndex
  <2> DEFINE d == IF ss.demoted THEN <<"swDemote", {}>> ELSE ToIdle
  <2>1. pc = "swIndex" /\ Take(d)
    BY <1>8, Zenon DEF swIndex
  <2>2. d[1] # "repClone"
    BY DEF ToIdle
  <2> HIDE DEF d
  <2> QED BY <1>a, <2>1, <2>2
<1>9. CASE foStop
  <2> DEFINE d == <<"foRecheck", Runners>>
  <2>1. pc = "foStop" /\ NextTurn(d) /\ d[1] # "repClone"
    BY <1>9 DEF foStop, Calling
  <2> HIDE DEF d
  <2> QED BY <1>a, <2>1
<1>10. CASE foRecheck
  <2> DEFINE k == Callee
  <2>1. /\ pc = "foRecheck" /\ pc' \in {"foRecheck", "foCompare"} /\ k \in Index
        /\ ss' = [ss EXCEPT !.st[k] = GetStatus(k), !.cand = NoTopRunner]
    BY <1>0, <1>10 DEF foRecheck, Calling, Answers, Reachable
  <2> HIDE DEF k
  <2>2. ss'.known = ss.known /\ \A i \in ss.known : ss'.st[i] = ss.st[i] \/
                                                  (i = k /\ ss'.st[i] = GetStatus(k))
    BY <1>0, <2>1 DEF StatusSetType
  <2>3. GetStatus(k).exec = db[k].exec
    BY StatusFacts
  <2> QED BY <2>1, <2>2, <2>3 DEF Onward, Seeded
<1>11. CASE foCompare
  <2> DEFINE top == topRunner(ss.cand, Callee, ss.st)
  <2>1. pc = "foCompare" /\ pc' \in {"foCompare", "foTop"} /\ ss' = [ss EXCEPT !.cand = top]
    BY <1>11 DEF foCompare
  <2> HIDE DEF top
  <2>2. ss'.known = ss.known /\ ss'.st = ss.st
    BY <1>0, <2>1 DEF StatusSetType
  <2> QED BY <1>c, <2>1, <2>2
<1>12. CASE foTop
  <2> DEFINE g == ss.st[ss.cand].retrieved
  <2>1. pc = "foTop" /\ pc' = "foWait" /\ ss' = [ss EXCEPT !.goal = g]
    BY <1>12 DEF foTop
  <2> HIDE DEF g
  <2>2. ss'.known = ss.known /\ ss'.st = ss.st
    BY <1>0, <2>1 DEF StatusSetType
  <2> QED BY <1>c, <2>1, <2>2
<1> QED BY <1>1, <1>2, <1>3, <1>4, <1>5, <1>6, <1>7, <1>8, <1>9, <1>10, <1>11, <1>12, Zenon
       DEF Report, Switchover, Failover

(* Every step keeps the data of every instance, and plans no clone. *)
LEMMA NextSeed ==
    ASSUME Inv, HandOverInv, SeedInv, Seeds # {}, LogKept, [Next]_vars PROVE SeedInv'
<1>0. /\ PassTypeOK /\ PlainInv /\ LoopInv /\ pc # "repClone" /\ events["wipe"] = 0
      /\ events \in [Events -> Nat] /\ "wipe" \in Events
      /\ \A i \in Index : Seeds \subseteq db[i].exec
      /\ pc \notin {"idle", "panic"} => Seeded
  BY DEF Inv, TypeOK, HandOverInv, CourseInv, SeedInv, Seeded, Events
<1>1. CASE UNCHANGED vars
  <2>1. UNCHANGED <<db, pc, ss, events>>
    BY <1>1 DEF vars, mysqlVars, passVars
  <2> QED BY <2>1 DEF SeedInv
<1>2. CASE Next
  <2>1. events'["wipe"] = 0
    BY <1>0, <1>2, NextEvents, SpentKept
  <2>2. \A i \in Index : Seeds \subseteq db'[i].exec
    BY <1>0 DEF LogKept
  <2>3. Onward
    <3>1. CASE Gather
      BY <1>0, <3>1, GatherOnward
    <3>2. CASE Clone
      BY <1>0, <3>2, NoClone
    <3>3. CASE Configure
      <4>1. pc \notin {"idle", "panic"}
        BY <3>3, ConfigureMoves DEF ConfAll, ConfSteps
      <4> QED BY <1>0, <3>3, <4>1, ConfigureOnward
    <3>4. CASE Environment
      BY <1>0, <3>4, EnvironmentOnward
    <3>5. CASE Report \/ Switchover \/ Failover \/ CallFails \/ CallTimesOut \/ Abort
      BY <1>0, <3>5, PassOnward
    <3> QED BY <1>2, <3>1, <3>2, <3>3, <3>4, <3>5, Zenon DEF Next, Pass
  <2> QED BY <2>1, <2>2, <2>3 DEF SeedInv, Onward, Seeded
<1> QED BY <1>1, <1>2

(* A cluster that MOCO has configured has its data everywhere. *)
LEMMA InitSeed ==
    ASSUME \A s \in Scenarios : KeepsVolumes(s), Init PROVE SeedInv
<1>1. StartReplicating /\ events["wipe"] = 0 /\ pc = "idle"
  BY DEF Init, KeepsVolumes
<1>2. \A i \in Index : db[i].exec = Seeds
  <2> DEFINE several == N > 1
             P == [FreshInstance EXCEPT !.exec = Seeds, !.ro = FALSE, !.ssM = several]
             R == [FreshInstance EXCEPT !.exec = Seeds, !.src = 0, !.io = TRUE,
                                        !.sql = TRUE, !.ssS = TRUE]
  <2>1. \A i \in Index : db[i] = IF i = 0 THEN P ELSE R
    BY <1>1 DEF StartReplicating, ReplicatingInstance
  <2> HIDE DEF several
  <2>2. P.exec = Seeds /\ R.exec = Seeds
    BY DEF FreshInstance
  <2> HIDE DEF P, R
  <2> QED BY <2>1, <2>2
<1> QED BY <1>1, <1>2 DEF SeedInv

(* The invariant of a cluster that keeps its volumes. *)
LEMMA KeptVolumes ==
    ASSUME \A s \in Scenarios : Undisturbed(s) /\ KeepsVolumes(s), Seeds # {}
    PROVE  Spec => [](Inv /\ CompareInv /\ HandOverInv /\ SeedInv)
<1> DEFINE I == Inv /\ CompareInv /\ HandOverInv /\ SeedInv
<1>1. Init => I
  <2>1. \A s \in Scenarios : ClonesFirst(s)
    BY OwnFirst DEF Undisturbed
  <2> QED BY <2>1, InitInv, InitCompare, InitHand, InitSeed
<1>2. ASSUME I, [Next]_vars PROVE I'
  <2>1. LogKept
    BY <1>2, NextLog DEF HandOverInv
  <2>2. Inv' /\ CompareInv'
    BY <1>2, NextInv, NextCompare
  <2>3. HandOverInv'
    BY <1>2, <2>1, <2>2, NextHand
  <2>4. SeedInv'
    BY <1>2, <2>1, NextSeed
  <2> QED BY <2>2, <2>3, <2>4
<1> HIDE DEF I
<1>3. Spec => []I
  BY <1>1, <1>2, PTL DEF Spec
<1> QED BY <1>3 DEF I

(* A cluster that MOCO has configured and whose volumes are kept loses     *)
(* nothing of a binary log, whatever else fails: no replica is cloned      *)
(* again, since its status shows the data it has in every pass.            *)
THEOREM LogsAreKept ==
    ASSUME \A s \in Scenarios : Undisturbed(s) /\ KeepsVolumes(s), Seeds # {}
    PROVE  Spec => [][LogKept]_vars
<1>1. Inv /\ CompareInv /\ HandOverInv /\ SeedInv /\ [Next]_vars => [LogKept]_vars
  BY NextLog DEF HandOverInv
<1> QED BY <1>1, KeptVolumes, PTL DEF Spec

(* In such a cluster no alarm is false, without a condition on the steps:  *)
(* crashes, lost connections, interrupted passes, deleted Pods, late and   *)
(* wrong observations included, an instance that a pass calls errant has a *)
(* transaction that the primary does not have.                             *)
THEOREM NoFalseAlarm ==
    ASSUME \A s \in Scenarios : Undisturbed(s) /\ KeepsVolumes(s), Seeds # {}
    PROVE  Spec => []NoFalseErrant
<1>1. Spec /\ [][LogKept]_vars => []NoFalseErrant
  BY AlarmsAreTrue
<1>2. Spec => [][LogKept]_vars
  BY LogsAreKept
<1> QED BY <1>1, <1>2, PTL

(* In such a cluster every switchover is complete, without a condition on  *)
(* the steps: the instance it records has executed all that the old        *)
(* primary has.                                                            *)
THEOREM NothingLeftBehind ==
    ASSUME \A s \in Scenarios : Undisturbed(s) /\ KeepsVolumes(s), Seeds # {}
    PROVE  Spec => SwitchoverLossless
<1>1. Spec /\ [][LogKept]_vars => SwitchoverLossless
  BY SwitchoverComplete
<1>2. Spec => [][LogKept]_vars
  BY LogsAreKept
<1> QED BY <1>1, <1>2, PTL

=============================================================================
