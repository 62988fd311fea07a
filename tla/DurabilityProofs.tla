--------------------------- MODULE DurabilityProofs ---------------------------
(***************************************************************************)
(* No acknowledged transaction is lost: as long as logs are not deleted    *)
(* before they are executed and writes wait for acks, the recorded primary *)
(* has executed every transaction that a client was told had committed,    *)
(* through any sequence of failovers and switchovers, of crashes, lost     *)
(* connections and interrupted passes.                                     *)
(***************************************************************************)
EXTENDS FailoverProofs

-----------------------------------------------------------------------------
(* What a step may do to an instance without endangering a transaction     *)

(* The record of instance i goes from a to b: nothing becomes writable or  *)
(* begins to replicate, and only a new transaction begins to wait.         *)
Tame(i, a, b) ==
    /\ a.ro => b.ro
    /\ b.io => a.io /\ b.src = a.src
    /\ \A t \in b.wait : t \in a.wait \/ (uuid[t] = Unborn /\ ~b.ro)
    /\ b.ro => b.wait = {}
    /\ ~b.ro => (a.ssM => b.ssM) /\ b.relay \subseteq a.relay
    /\ b.src # i

TameDb == \A i \in Index : Tame(i, db[i], db'[i])

(* An instance that is left alone is tame. *)
LEMMA SameTame == ASSUME ModeInv, NEW i \in Index PROVE Tame(i, db[i], db[i])
BY DEF ModeInv, Tame

(* When one instance changes. *)
LEMMA OneTame ==
    ASSUME MySQLTypeOK, ModeInv, NEW k \in Index, NEW X,
           db' = [db EXCEPT ![k] = X], Tame(k, db[k], X)
    PROVE  TameDb
<1>1. db'[k] = X /\ \A i \in Index : i # k => db'[i] = db[i]
  BY DEF MySQLTypeOK
<1>2. \A i \in Index : i # k => Tame(i, db[i], db'[i])
  BY <1>1, SameTame
<1> HIDE DEF Tame
<1> QED BY <1>1, <1>2 DEF TameDb

(* The statements that stop or lock something. *)
LEMMA StatementTame ==
    ASSUME MySQLTypeOK, ModeInv, NEW k \in Index,
           \/ KillConnections(k) \/ StopReplicaIOThread(k) \/ SetReadOnly(k)
           \/ ConfigurePrimary(k)
    PROVE  TameDb
<1>0. db \in [Index -> Instance] /\ db[k] \in Instance
  BY DEF MySQLTypeOK
<1>a. Tame(k, db[k], db[k])
  BY SameTame
<1>1. CASE KillConnections(k)
  <2> DEFINE X == Released(db[k])
  <2>1. db' = [db EXCEPT ![k] = X]
    BY <1>1 DEF KillConnections
  <2>2. /\ X.ro = db[k].ro /\ X.io = db[k].io /\ X.src = db[k].src /\ X.wait = {}
        /\ X.ssM = db[k].ssM /\ X.relay = db[k].relay
    BY <1>0 DEF Released, Instance
  <2>3. Tame(k, db[k], X)
    BY <1>a, <2>2 DEF Tame
  <2> QED BY <2>1, <2>3, OneTame
<1>2. CASE StopReplicaIOThread(k)
  <2> DEFINE X == [db[k] EXCEPT !.io = FALSE]
  <2>1. db' = [db EXCEPT ![k] = X]
    BY <1>0, <1>2 DEF StopReplicaIOThread
  <2>2. /\ X.ro = db[k].ro /\ X.io = FALSE /\ X.src = db[k].src
        /\ X.wait = db[k].wait /\ X.ssM = db[k].ssM /\ X.relay = db[k].relay
    BY <1>0 DEF Instance
  <2>3. Tame(k, db[k], X)
    BY <1>a, <2>2 DEF Tame
  <2> QED BY <2>1, <2>3, OneTame
<1>3. CASE SetReadOnly(k)
  <2> DEFINE X == [db[k] EXCEPT !.ro = TRUE]
  <2>1. db' = [db EXCEPT ![k] = X] /\ db[k].wait = {}
    BY <1>0, <1>3 DEF SetReadOnly
  <2>2. /\ X.ro = TRUE /\ X.io = db[k].io /\ X.src = db[k].src
        /\ X.wait = db[k].wait /\ X.ssM = db[k].ssM /\ X.relay = db[k].relay
    BY <1>0 DEF Instance
  <2>3. Tame(k, db[k], X)
    BY <1>a, <2>1, <2>2 DEF Tame
  <2> QED BY <2>1, <2>3, OneTame
<1>4. CASE ConfigurePrimary(k)
  <2> DEFINE X == [db[k] EXCEPT !.ssM = TRUE]
  <2>1. db' = [db EXCEPT ![k] = X]
    BY <1>0, <1>4 DEF ConfigurePrimary
  <2>2. /\ X.ro = db[k].ro /\ X.io = db[k].io /\ X.src = db[k].src
        /\ X.wait = db[k].wait /\ X.ssM = TRUE /\ X.relay = db[k].relay
    BY <1>0 DEF Instance
  <2>3. Tame(k, db[k], X)
    BY <1>a, <2>2 DEF Tame
  <2> QED BY <2>1, <2>3, OneTame
<1> QED BY <1>1, <1>2, <1>3, <1>4

(* A read-only replica is given another source than itself. *)
LEMMA ChangeTame ==
    ASSUME MySQLTypeOK, ModeInv, NEW k \in Index, NEW s \in Source,
           NEW semisync \in BOOLEAN, ChangeSource(k, s, semisync),
           db[k].ro, s # k
    PROVE  /\ TameDb /\ db'[k].src = s
           /\ UNCHANGED <<uuid, acks, ext, acked>>
<1>0. db \in [Index -> Instance] /\ db[k] \in Instance
  BY DEF MySQLTypeOK
<1> DEFINE rel == Released(db[k])
           X == [rel EXCEPT !.io = FALSE, !.sql = FALSE, !.relay = {},
                    !.src = s, !.ssS = semisync, !.ssM = FALSE]
<1>1. db' = [db EXCEPT ![k] = X] /\ UNCHANGED <<uuid, acks, ext, acked>>
  BY DEF ChangeSource
<1>2. rel \in Instance /\ rel.wait = {} /\ rel.ro = db[k].ro
  BY <1>0, ReleasedFacts, ReleasedType DEF Released, Instance
<1>3. X.ro = rel.ro /\ X.io = FALSE /\ X.wait = rel.wait /\ X.src = s
  <2> HIDE DEF rel
  <2> QED BY <1>2 DEF Instance
<1>4. Tame(k, db[k], X)
  BY <1>2, <1>3 DEF Tame
<1>5. db'[k].src = s
  BY <1>0, <1>1, <1>3
<1> HIDE DEF X
<1> QED BY <1>1, <1>4, <1>5, OneTame

(* A clone replaces the instance by a read-only one without a source. *)
LEMMA ClonedTame ==
    ASSUME MySQLTypeOK, ModeInv, NEW k \in Index, NEW gtids,
           db' = [db EXCEPT ![k] = Cloned(gtids)]
    PROVE  TameDb /\ db'[k].ro
<1>0. db \in [Index -> Instance] /\ db[k] \in Instance
  BY DEF MySQLTypeOK
<1>1. /\ Cloned(gtids).ro /\ ~Cloned(gtids).io /\ Cloned(gtids).wait = {}
      /\ Cloned(gtids).src = NoSource
  BY DEF Cloned, FreshInstance
<1>2. NoSource # k
  BY IndexFacts DEF NoSource
<1>3. Tame(k, db[k], Cloned(gtids))
  BY <1>1, <1>2 DEF Tame
<1>4. db'[k].ro
  BY <1>0, <1>1
<1> QED BY <1>3, <1>4, OneTame

(* Origins are given to new transactions, or taken away for good. *)
UuidStep ==
    \A t \in Txn : uuid'[t] = uuid[t] \/ uuid[t] = Unborn \/ uuid'[t] = Retired

(* An ack is given by an instance that reads the binary log of the origin, *)
(* and has the transaction in its relay log.                               *)
AcksStep ==
    \A t \in Txn : \A r \in acks'[t] :
        \/ r \in acks[t]
        \/ /\ r \in Index /\ t \in db'[r].exec \cup db'[r].relay
           /\ uuid[t] \in Index \ {r} /\ r \in Feeding(uuid[t])

TameStep == TameDb /\ AcksStep /\ UuidStep

(* An instance keeps its source, unless its volume is lost. *)
SrcKept ==
    \A i \in Index : db'[i].src = db[i].src
                      \/ (db'[i].src = NoSource /\ db'[i].exec = {})

(* An instance that does not replicate gets nothing but what its sessions  *)
(* were waiting with, or new transactions.                                 *)
Grown ==
    \A i \in Index : ~db[i].io =>
        db'[i].exec \cup db'[i].relay \subseteq Has(i) \cup db[i].wait \cup Unwritten

(* Unchanged histories. *)
LEMMA SameHistory ==
    ASSUME UNCHANGED <<uuid, acks>> PROVE AcksStep /\ UuidStep
BY DEF AcksStep, UuidStep

(* A new transaction. *)
LEMMA WrittenHistory ==
    ASSUME MySQLTypeOK, Unwritten # {}, NEW o, uuid' = [uuid EXCEPT ![NextTxn] = o],
           acks' = acks
    PROVE  AcksStep /\ UuidStep
<1>1. NextTxn \in Txn /\ uuid[NextTxn] = Unborn /\ uuid \in [Txn -> Origins]
  BY NextTxnUnborn DEF MySQLTypeOK
<1> HIDE DEF NextTxn
<1> QED BY <1>1 DEF AcksStep, UuidStep

(* When one instance changes, and keeps its source or its data are gone. *)
LEMMA OneSrc ==
    ASSUME MySQLTypeOK, NEW k \in Index, NEW X, db' = [db EXCEPT ![k] = X],
           X.src = db[k].src \/ (X.src = NoSource /\ X.exec = {}),
           db[k].io \/ X.exec \cup X.relay \subseteq Has(k) \cup db[k].wait \cup Unwritten
    PROVE  SrcKept /\ Grown
<1>1. db'[k] = X /\ \A i \in Index : i # k => db'[i] = db[i]
  BY DEF MySQLTypeOK
<1>2. SrcKept
  BY <1>1 DEF SrcKept
<1>3. Grown
  BY <1>1 DEF Grown, Has
<1> QED BY <1>2, <1>3

(* A stopped instance is read-only, and keeps what it has. *)
LEMMA StoppedTame ==
    ASSUME MySQLTypeOK, NEW k \in Index
    PROVE  /\ Tame(k, db[k], Stopped(db[k])) \/ db[k].src = k
           /\ Stopped(db[k]).src = db[k].src
           /\ Stopped(db[k]).exec \cup Stopped(db[k]).relay \subseteq Has(k) \cup db[k].wait
<1>0. db[k] \in Instance /\ Released(db[k]) \in Instance
  BY ReleasedType DEF MySQLTypeOK
<1> DEFINE rel == Released(db[k])
           clone == IF rel.clone = "in progress" THEN "failed" ELSE rel.clone
<1>1. Stopped(db[k]) = [rel EXCEPT !.up = FALSE, !.ro = TRUE, !.io = FALSE,
        !.sql = FALSE, !.ssM = FALSE, !.ssS = FALSE, !.clone = clone]
  <2>1. Stopped(db[k]) = [rel EXCEPT !.up = FALSE, !.ro = TRUE, !.io = FALSE,
          !.sql = FALSE, !.ssM = FALSE, !.ssS = FALSE,
          !.clone = IF @ = "in progress" THEN "failed" ELSE @]
    BY DEF Stopped
  <2> HIDE DEF rel
  <2> QED BY <1>0, <2>1 DEF Instance
<1>2. rel \in Instance /\ rel.src = db[k].src
  BY <1>0 DEF Released, Instance
<1> HIDE DEF rel, clone
<1>3. Stopped(db[k]).ro /\ Stopped(db[k]).src = db[k].src
  BY <1>1, <1>2 DEF Instance
<1>4. /\ Stopped(db[k]).wait = {} /\ ~Stopped(db[k]).io
      /\ Stopped(db[k]).exec \cup Stopped(db[k]).relay \subseteq Has(k) \cup db[k].wait
  <2>1. /\ Stopped(db[k]).wait = {} /\ ~Stopped(db[k]).io
        /\ Stopped(db[k]).relay = db[k].relay
        /\ Stopped(db[k]).exec = db[k].exec \cup db[k].wait
    BY <1>0, ReleasedFacts
  <2> QED BY <2>1 DEF Has
<1> QED BY <1>3, <1>4 DEF Tame

(* What happens to mysqld between writes and acks. *)
LifeStep(k) ==
    \/ Apply(k) \/ Crash(k) \/ Start(k) \/ Wipe(k) \/ StrayWrite(k)
    \/ CloneFail(k)

(* None of it endangers a transaction. *)
LEMMA LifeTame ==
    ASSUME MySQLTypeOK, ModeInv, NEW k \in Index, LifeStep(k)
    PROVE  TameStep /\ acked' = acked /\ SrcKept /\ Grown
<1>0. db \in [Index -> Instance] /\ db[k] \in Instance
  BY DEF MySQLTypeOK
<1>a. Tame(k, db[k], db[k])
  BY SameTame
<1>1. CASE Apply(k)
  <2>1. PICK t \in db[k].relay :
                 /\ db' = [db EXCEPT ![k] = [db[k] EXCEPT !.relay = @ \ {t},
                                                          !.exec = @ \cup {t}]]
                 /\ UNCHANGED <<uuid, acks, acked>>
    <3>1. Oldest(db[k].relay) \in db[k].relay
      BY <1>0, <1>1, OldestInSet DEF Apply, Instance
    <3> QED BY <1>1, <3>1 DEF Apply
  <2> DEFINE X == [db[k] EXCEPT !.relay = @ \ {t}, !.exec = @ \cup {t}]
  <2>2. db' = [db EXCEPT ![k] = X]
    BY <2>1
  <2>3. /\ X.ro = db[k].ro /\ X.io = db[k].io /\ X.src = db[k].src
        /\ X.wait = db[k].wait /\ X.ssM = db[k].ssM /\ X.relay = db[k].relay \ {t}
        /\ X.exec = db[k].exec \cup {t}
    BY <1>0 DEF Instance
  <2>4. Tame(k, db[k], X)
    BY <1>a, <2>3 DEF Tame
  <2>5. X.exec \cup X.relay \subseteq Has(k) \cup db[k].wait \cup Unwritten
    BY <2>1, <2>3 DEF Has
  <2> HIDE DEF X
  <2> QED BY <2>1, <2>2, <2>3, <2>4, <2>5, OneTame, OneSrc, SameHistory DEF TameStep
<1>2. CASE Crash(k)
  <2>1. /\ db' = [db EXCEPT ![k] = Stopped(db[k])] /\ UNCHANGED <<uuid, acks, acked>>
    BY <1>2 DEF Crash
  <2>2. /\ Tame(k, db[k], Stopped(db[k])) /\ Stopped(db[k]).src = db[k].src
        /\ Stopped(db[k]).exec \cup Stopped(db[k]).relay
              \subseteq Has(k) \cup db[k].wait \cup Unwritten
    BY StoppedTame DEF ModeInv
  <2> QED BY <2>1, <2>2, OneTame, OneSrc, SameHistory DEF TameStep
<1>3. CASE Start(k)
  <2> DEFINE X == [db[k] EXCEPT !.up = TRUE]
  <2>1. db' = [db EXCEPT ![k] = X] /\ UNCHANGED <<uuid, acks, acked>>
    BY <1>0, <1>3 DEF Start
  <2>2. /\ X.ro = db[k].ro /\ X.io = db[k].io /\ X.src = db[k].src
        /\ X.wait = db[k].wait /\ X.ssM = db[k].ssM /\ X.relay = db[k].relay
        /\ X.exec = db[k].exec
    BY <1>0 DEF Instance
  <2>3. Tame(k, db[k], X)
    BY <1>a, <2>2 DEF Tame
  <2>4. X.exec \cup X.relay \subseteq Has(k) \cup db[k].wait \cup Unwritten
    BY <2>2 DEF Has
  <2> HIDE DEF X
  <2> QED BY <2>1, <2>2, <2>3, <2>4, OneTame, OneSrc, SameHistory DEF TameStep
<1>4. CASE Wipe(k)
  <2> DEFINE X == [FreshInstance EXCEPT !.up = FALSE]
  <2>1. /\ db' = [db EXCEPT ![k] = X] /\ UNCHANGED <<acks, acked>>
        /\ uuid' = [t \in Txn |-> IF uuid[t] = k THEN Retired ELSE uuid[t]]
    BY <1>4 DEF Wipe
  <2>2. X.ro /\ ~X.io /\ X.src = NoSource /\ X.wait = {} /\ X.exec = {} /\ X.relay = {}
    BY DEF FreshInstance
  <2>3. Tame(k, db[k], X)
    BY <2>2, IndexFacts DEF Tame, NoSource
  <2>4. AcksStep /\ UuidStep
    BY <2>1 DEF AcksStep, UuidStep
  <2> HIDE DEF X
  <2> QED BY <2>1, <2>2, <2>3, <2>4, OneTame, OneSrc DEF TameStep
<1>5. CASE StrayWrite(k)
  <2> DEFINE X == [db[k] EXCEPT !.exec = @ \cup {NextTxn}]
  <2>1. /\ db' = [db EXCEPT ![k] = X] /\ UNCHANGED <<acks, acked>>
        /\ Unwritten # {} /\ uuid' = [uuid EXCEPT ![NextTxn] = k]
    BY <1>0, <1>5 DEF StrayWrite
  <2>2. /\ X.ro = db[k].ro /\ X.io = db[k].io /\ X.src = db[k].src
        /\ X.wait = db[k].wait /\ X.ssM = db[k].ssM /\ X.relay = db[k].relay
        /\ X.exec = db[k].exec \cup {NextTxn}
    BY <1>0 DEF Instance
  <2>3. Tame(k, db[k], X)
    BY <1>a, <2>2 DEF Tame
  <2>4. AcksStep /\ UuidStep
    BY <2>1, WrittenHistory
  <2>5. X.exec \cup X.relay \subseteq Has(k) \cup db[k].wait \cup Unwritten
    <3>1. NextTxn \in Unwritten
      BY <2>1, NextTxnUnborn DEF Unwritten
    <3> QED BY <2>2, <3>1 DEF Has
  <2> HIDE DEF X
  <2> QED BY <2>1, <2>2, <2>3, <2>4, <2>5, OneTame, OneSrc DEF TameStep
<1>6. CASE CloneFail(k)
  <2> DEFINE X == [db[k] EXCEPT !.clone = "failed"]
  <2>1. db' = [db EXCEPT ![k] = X] /\ UNCHANGED <<uuid, acks, acked>>
    BY <1>0, <1>6 DEF CloneFail
  <2>2. /\ X.ro = db[k].ro /\ X.io = db[k].io /\ X.src = db[k].src
        /\ X.wait = db[k].wait /\ X.ssM = db[k].ssM /\ X.relay = db[k].relay
        /\ X.exec = db[k].exec
    BY <1>0 DEF Instance
  <2>3. Tame(k, db[k], X)
    BY <1>a, <2>2 DEF Tame
  <2>4. X.exec \cup X.relay \subseteq Has(k) \cup db[k].wait \cup Unwritten
    BY <2>2 DEF Has
  <2> HIDE DEF X
  <2> QED BY <2>1, <2>2, <2>3, <2>4, OneTame, OneSrc, SameHistory DEF TameStep
<1> QED BY <1>1, <1>2, <1>3, <1>4, <1>5, <1>6 DEF LifeStep

(* A replica receives, and acknowledges, a transaction of its source. *)
LEMMA ReceiveTame ==
    ASSUME MySQLTypeOK, ModeInv, WaitInv, NEW k \in Index, Receive(k)
    PROVE  TameStep /\ acked' = acked /\ SrcKept /\ Grown
<1>0. db \in [Index -> Instance] /\ db[k] \in Instance /\ acks \in [Txn -> SUBSET Index]
  BY DEF MySQLTypeOK
<1> DEFINE s == db[k].src
           t == Oldest(Stream(s) \ Has(k))
           X == [db[k] EXCEPT !.relay = @ \cup {t}]
<1>1. /\ db' = [db EXCEPT ![k] = X] /\ UNCHANGED <<uuid, acked>> /\ db[k].io
      /\ acks' = IF db[k].ssS /\ s \in Index /\ t \in db[s].wait
                 THEN [acks EXCEPT ![t] = @ \cup {k}] ELSE acks
  BY <1>0 DEF Receive, Connected
<1>2. /\ X.ro = db[k].ro /\ X.io = db[k].io /\ X.src = db[k].src
      /\ X.wait = db[k].wait /\ X.relay = db[k].relay \cup {t}
  BY <1>0 DEF Instance
<1> HIDE DEF t, X
<1>3. db[k].ro /\ db[k].wait = {} /\ db[k].src # k
  BY <1>1 DEF ModeInv
<1>4. Tame(k, db[k], X)
  BY <1>2, <1>3 DEF Tame
<1>5. TameDb /\ SrcKept /\ Grown
  BY <1>1, <1>2, <1>4, OneTame, OneSrc
<1>6. AcksStep
  <2>1. CASE acks' = acks
    BY <2>1 DEF AcksStep
  <2>2. CASE s \in Index /\ t \in db[s].wait /\ acks' = [acks EXCEPT ![t] = @ \cup {k}]
    <3>1. uuid[t] = s /\ t \in Txn
      BY <1>0, <2>2 DEF WaitInv, Instance
    <3>2. k \in Feeding(s)
      BY <1>1 DEF Feeding
    <3>3. t \in db'[k].relay
      BY <1>0, <1>1, <1>2
    <3>4. \A u \in Txn : acks'[u] = acks[u] \/ (u = t /\ acks'[u] = acks[u] \cup {k})
      BY <1>0, <2>2
    <3> QED BY <1>3, <2>2, <3>1, <3>2, <3>3, <3>4 DEF AcksStep
  <2> QED BY <1>1, <2>1, <2>2
<1>7. UuidStep
  BY <1>1 DEF UuidStep
<1> QED BY <1>1, <1>5, <1>6, <1>7 DEF TameStep

(* A commit takes its transaction from the waiting ones. *)
LEMMA CommitTame ==
    ASSUME MySQLTypeOK, ModeInv, NEW k \in Index, Commit(k)
    PROVE  /\ TameStep /\ SrcKept /\ Grown /\ uuid' = uuid
           /\ \E t \in db[k].wait :
                 /\ Cardinality(acks[t]) >= N \div 2
                 /\ acked' = acked \cup {t}
                 /\ t \in db'[k].exec /\ db'[k].wait = db[k].wait \ {t}
                 /\ db'[k].exec = db[k].exec \cup {t} /\ db'[k].relay = db[k].relay
                 /\ \A i \in Index \ {k} : db'[i] = db[i]
<1>0. db \in [Index -> Instance] /\ db[k] \in Instance /\ acks \in [Txn -> SUBSET Index]
  BY DEF MySQLTypeOK
<1>a. Tame(k, db[k], db[k])
  BY SameTame
<1>1. PICK t \in db[k].wait :
          /\ Cardinality(acks[t]) >= N \div 2
          /\ db' = [db EXCEPT ![k] = [db[k] EXCEPT !.wait = @ \ {t},
                                                   !.exec = @ \cup {t}]]
          /\ acked' = acked \cup {t}
          /\ acks' = [acks EXCEPT ![t] = {}]
  BY DEF Commit
<1> DEFINE X == [db[k] EXCEPT !.wait = @ \ {t}, !.exec = @ \cup {t}]
<1>2. db' = [db EXCEPT ![k] = X] /\ uuid' = uuid
  BY <1>1 DEF Commit
<1>3. /\ X.ro = db[k].ro /\ X.io = db[k].io /\ X.src = db[k].src
      /\ X.wait = db[k].wait \ {t} /\ X.ssM = db[k].ssM /\ X.relay = db[k].relay
      /\ X.exec = db[k].exec \cup {t}
  BY <1>0 DEF Instance
<1> HIDE DEF X
<1>4. Tame(k, db[k], X)
  BY <1>a, <1>3 DEF Tame
<1>5. TameDb /\ SrcKept /\ Grown
  <2>1. X.exec \cup X.relay \subseteq Has(k) \cup db[k].wait \cup Unwritten
    BY <1>1, <1>3 DEF Has
  <2> QED BY <1>2, <1>3, <1>4, <2>1, OneTame, OneSrc
<1>6. AcksStep /\ UuidStep
  BY <1>0, <1>1, <1>2 DEF AcksStep, UuidStep
<1>7. db'[k] = X /\ \A i \in Index \ {k} : db'[i] = db[i]
  BY <1>0, <1>2
<1> QED BY <1>1, <1>2, <1>3, <1>5, <1>6, <1>7 DEF TameStep

(* A client's write waits for acks, unless the instance has no replicas. *)
LEMMA WriteTame ==
    ASSUME MySQLTypeOK, ModeInv, WaitInv, NEW k \in Index, ClientWrite(k)
    PROVE  /\ TameStep /\ SrcKept /\ Grown
           /\ \/ acked' = acked
              \/ /\ N = 1 /\ NextTxn \in Txn /\ acked' = acked \cup {NextTxn}
                 /\ NextTxn \in db'[k].exec /\ uuid'[NextTxn] = k
                 /\ \A i \in Index : NextTxn \notin db'[i].wait
<1>0. db \in [Index -> Instance] /\ db[k] \in Instance
  BY DEF MySQLTypeOK
<1>1. /\ NextTxn \in Unwritten /\ NextTxn \in Txn /\ uuid[NextTxn] = Unborn
      /\ uuid' = [uuid EXCEPT ![NextTxn] = k] /\ acks' = acks /\ ~db[k].ro
      /\ uuid'[NextTxn] = k
  BY NextTxnUnborn, Written DEF ClientWrite, Unwritten
<1>2. AcksStep /\ UuidStep
  BY <1>1, WrittenHistory DEF ClientWrite
<1>a. Tame(k, db[k], db[k])
  BY SameTame
<1>3. CASE db[k].ssM
  <2> DEFINE X == [db[k] EXCEPT !.wait = @ \cup {NextTxn}]
  <2>1. db' = [db EXCEPT ![k] = X] /\ acked' = acked
    BY <1>0, <1>3 DEF ClientWrite
  <2>2. /\ X.ro = db[k].ro /\ X.io = db[k].io /\ X.src = db[k].src
        /\ X.wait = db[k].wait \cup {NextTxn} /\ X.ssM = db[k].ssM
        /\ X.relay = db[k].relay /\ X.exec = db[k].exec
    BY <1>0 DEF Instance
  <2> HIDE DEF X, NextTxn
  <2>3. Tame(k, db[k], X)
    BY <1>a, <1>1, <2>2 DEF Tame
  <2>4. X.exec \cup X.relay \subseteq Has(k) \cup db[k].wait \cup Unwritten
    BY <2>2 DEF Has
  <2> QED BY <1>2, <2>1, <2>2, <2>3, <2>4, OneTame, OneSrc DEF TameStep
<1>4. CASE ~db[k].ssM
  <2> DEFINE X == [db[k] EXCEPT !.exec = @ \cup {NextTxn}]
  <2>1. db' = [db EXCEPT ![k] = X] /\ acked' = acked \cup {NextTxn}
    BY <1>0, <1>4 DEF ClientWrite
  <2>2. /\ X.ro = db[k].ro /\ X.io = db[k].io /\ X.src = db[k].src
        /\ X.wait = db[k].wait /\ X.ssM = db[k].ssM
        /\ X.relay = db[k].relay /\ X.exec = db[k].exec \cup {NextTxn}
    BY <1>0 DEF Instance
  <2> HIDE DEF X, NextTxn
  <2>3. Tame(k, db[k], X)
    BY <1>a, <2>2 DEF Tame
  <2>4. X.exec \cup X.relay \subseteq Has(k) \cup db[k].wait \cup Unwritten
    BY <1>1, <2>2 DEF Has
  <2>5. N = 1
    BY <1>1, <1>4 DEF ModeInv
  <2>6. \A i \in Index : db'[i].wait = db[i].wait
    BY <1>0, <2>1, <2>2
  <2>7. \A i \in Index : NextTxn \notin db'[i].wait
    BY <1>1, <2>6, IndexFacts DEF WaitInv, Unborn
  <2>8. NextTxn \in db'[k].exec
    BY <1>0, <2>1, <2>2
  <2> QED BY <1>1, <1>2, <2>1, <2>2, <2>3, <2>4, <2>5, <2>7, <2>8, OneTame, OneSrc
         DEF TameStep
<1> QED BY <1>3, <1>4

-----------------------------------------------------------------------------
(* What a tame step keeps *)

(* Among the instances, a larger set has at least as many members. *)
LEMMA SubsetCard ==
    ASSUME NEW A \in SUBSET Index, NEW B \in SUBSET A
    PROVE  /\ IsFiniteSet(A) /\ Cardinality(A) \in Nat /\ Cardinality(B) \in Nat
           /\ Cardinality(B) <= Cardinality(A)
<1>1. IsFiniteSet(A)
  BY IndexFacts, FS_Subset
<1>2. IsFiniteSet(B) /\ Cardinality(B) <= Cardinality(A)
  BY <1>1, FS_Subset
<1> QED BY <1>1, <1>2, FS_CardinalityType

(* Half of the instances is a number. *)
LEMMA HalfFacts == N \div 2 \in Nat /\ 2 * (N \div 2) + 1 = N
BY NAssumption

(* No new replica of j, no new ack for a transaction that waits there. *)
LEMMA RoomShrinks ==
    ASSUME MySQLTypeOK, MySQLTypeOK', WaitInv, TameStep, NEW j \in Index
    PROVE  /\ Feeding(j)' \subseteq Feeding(j) /\ Feeding(j) \subseteq Index
           /\ Cardinality(Feeding(j)') <= Cardinality(Feeding(j))
           /\ Cardinality(Feeding(j)') \in Nat /\ Cardinality(Feeding(j)) \in Nat
           /\ \A t \in db[j].wait :
                 /\ Cardinality(acks[t] \cup Feeding(j)) \in Nat
                 /\ Cardinality(acks'[t] \cup Feeding(j)') \in Nat
                 /\ Cardinality(acks'[t] \cup Feeding(j)')
                       <= Cardinality(acks[t] \cup Feeding(j))
<1>1. Feeding(j)' \subseteq Feeding(j) /\ Feeding(j) \subseteq Index
  BY DEF Feeding, TameStep, TameDb, Tame
<1>2. ASSUME NEW t \in db[j].wait
      PROVE  /\ acks'[t] \cup Feeding(j)' \subseteq acks[t] \cup Feeding(j)
             /\ acks[t] \cup Feeding(j) \subseteq Index
  <2>1. t \in Txn /\ uuid[t] = j
    BY DEF MySQLTypeOK, Instance, WaitInv
  <2>2. acks'[t] \subseteq acks[t] \cup Feeding(j)
    BY <2>1 DEF TameStep, AcksStep
  <2>3. acks[t] \subseteq Index
    BY <2>1 DEF MySQLTypeOK
  <2> QED BY <1>1, <2>2, <2>3
<1> HIDE DEF Feeding
<1>3. /\ Cardinality(Feeding(j)') <= Cardinality(Feeding(j))
      /\ Cardinality(Feeding(j)') \in Nat /\ Cardinality(Feeding(j)) \in Nat
  BY <1>1, SubsetCard
<1>4. \A t \in db[j].wait :
          /\ Cardinality(acks[t] \cup Feeding(j)) \in Nat
          /\ Cardinality(acks'[t] \cup Feeding(j)') \in Nat
          /\ Cardinality(acks'[t] \cup Feeding(j)')
                <= Cardinality(acks[t] \cup Feeding(j))
  BY <1>2, SubsetCard
<1> QED BY <1>1, <1>3, <1>4

(* A transaction that begins to wait on a writable instance other than the *)
(* primary has no acks, and cannot get enough.                             *)
LEMMA NewWait ==
    ASSUME MySQLTypeOK, MySQLTypeOK', WaitInv, HistoryInv, FenceInv, TameStep,
           NEW j \in Index \ {primaryIdx}, NEW t \in db'[j].wait, t \notin db[j].wait
    PROVE  /\ Cardinality(acks'[t] \cup Feeding(j)') < N \div 2
           /\ Cardinality(acks'[t] \cup Feeding(j)') \in Nat
<1>1. uuid[t] = Unborn /\ ~db'[j].ro /\ t \in Txn
  BY DEF TameStep, TameDb, Tame, MySQLTypeOK, Instance
<1>2. ~db[j].ro
  BY <1>1 DEF TameStep, TameDb, Tame
<1>3. acks'[t] = {}
  <2>1. acks[t] = {} /\ uuid[t] \notin Index
    BY <1>1, IndexFacts DEF HistoryInv, Unborn
  <2> QED BY <1>1, <2>1 DEF TameStep, AcksStep
<1>4. Cardinality(Feeding(j)) < N \div 2
  BY <1>2 DEF FenceInv
<1>5. /\ Cardinality(Feeding(j)') <= Cardinality(Feeding(j))
      /\ Cardinality(Feeding(j)') \in Nat /\ Cardinality(Feeding(j)) \in Nat
  BY RoomShrinks
<1>6. acks'[t] \cup Feeding(j)' = Feeding(j)'
  BY <1>3
<1> DEFINE a == Cardinality(Feeding(j)')
           b == Cardinality(Feeding(j))
           half == N \div 2
<1>7. a <= b /\ a \in Nat /\ b \in Nat /\ b < half /\ half \in Nat
  BY <1>4, <1>5, HalfFacts
<1>8. a < half /\ a \in Nat
  <2> HIDE DEF a, b, half
  <2> QED BY <1>7
<1> QED BY <1>6, <1>8

(* What cannot get its acks never can. *)
LEMMA CannotAckKept ==
    ASSUME MySQLTypeOK, MySQLTypeOK', WaitInv, HistoryInv, FenceInv, TameStep,
           NEW j \in Index \ {primaryIdx}, CannotAck(j)
    PROVE  CannotAck(j)'
<1> SUFFICES ASSUME NEW t \in db'[j].wait
             PROVE  Cardinality(acks'[t] \cup Feeding(j)') < N \div 2
  BY DEF CannotAck
<1>1. CASE t \in db[j].wait
  <2>1. Cardinality(acks[t] \cup Feeding(j)) < N \div 2
    BY <1>1 DEF CannotAck
  <2> DEFINE a == Cardinality(acks'[t] \cup Feeding(j)')
             b == Cardinality(acks[t] \cup Feeding(j))
             half == N \div 2
  <2>2. a <= b /\ a \in Nat /\ b \in Nat /\ b < half /\ half \in Nat
    BY <1>1, <2>1, RoomShrinks, HalfFacts
  <2>3. a < half
    <3> HIDE DEF a, b, half
    <3> QED BY <2>2
  <2> QED BY <2>3
<1>2. CASE t \notin db[j].wait
  BY <1>2, NewWait
<1> QED BY <1>1, <1>2

(* The same for all but the transactions of a set, which may grow. *)
FencedNext(S) ==
    \A j \in Index \ {primaryIdx'} : \A t \in db'[j].wait :
        t \in S \/ Cardinality(acks'[t] \cup Feeding(j)') < N \div 2

(* A fence holds through a tame step. *)
LEMMA FencedKept ==
    ASSUME MySQLTypeOK, MySQLTypeOK', WaitInv, HistoryInv, FenceInv, TameStep,
           primaryIdx' = primaryIdx, NEW S, NEW T, S \subseteq T, Fenced(S)
    PROVE  FencedNext(T)
<1> SUFFICES ASSUME NEW j \in Index \ {primaryIdx}, NEW t \in db'[j].wait, t \notin T
             PROVE  Cardinality(acks'[t] \cup Feeding(j)') < N \div 2
  BY DEF FencedNext
<1>1. CASE t \in db[j].wait
  <2>1. Cardinality(acks[t] \cup Feeding(j)) < N \div 2
    BY <1>1 DEF Fenced
  <2> DEFINE a == Cardinality(acks'[t] \cup Feeding(j)')
             b == Cardinality(acks[t] \cup Feeding(j))
             half == N \div 2
  <2>2. a <= b /\ a \in Nat /\ b \in Nat /\ b < half /\ half \in Nat
    BY <1>1, <2>1, RoomShrinks, HalfFacts
  <2>3. a < half
    <3> HIDE DEF a, b, half
    <3> QED BY <2>2
  <2> QED BY <2>3
<1>2. CASE t \notin db[j].wait
  BY <1>2, NewWait
<1> QED BY <1>1, <1>2

(* What is acknowledged in a step is on the primary and on more than half  *)
(* of the instances.                                                       *)
AckedStep ==
    /\ acked \subseteq acked'
    /\ \A t \in acked' \ acked :
          /\ t \in Txn /\ uuid'[t] # Unborn
          /\ Cardinality(Holders(t)') > N \div 2
          /\ t \in db'[primaryIdx'].exec
          /\ \A i \in Index : t \notin db'[i].wait

(* Nothing that an instance has is lost. *)
LEMMA HasKept ==
    ASSUME DataKept, NEW i \in Index PROVE Has(i) \subseteq Has(i)'
BY DEF DataKept, Has

(* The transactions that are on more than half of the instances stay there. *)
LEMMA HoldersKept ==
    ASSUME DataKept, NEW t, Cardinality(Holders(t)) > N \div 2
    PROVE  Cardinality(Holders(t)') > N \div 2
<1>1. Holders(t) \subseteq Holders(t)' /\ Holders(t)' \subseteq Index
  BY HasKept DEF Holders
<1> DEFINE a == Cardinality(Holders(t))
           b == Cardinality(Holders(t)')
           half == N \div 2
<1>2. a <= b /\ a \in Nat /\ b \in Nat /\ half < a /\ half \in Nat
  BY <1>1, SubsetCard, HalfFacts
<1>3. b > half
  <2> HIDE DEF a, b, half
  <2> QED BY <1>2
<1> QED BY <1>3

(* The history of acks, as long as nothing is lost. *)
LEMMA HistoryKept ==
    ASSUME MySQLTypeOK, MySQLTypeOK', HistoryInv, AcksStep, UuidStep, DataKept,
           AckedStep, \A i \in Index : db'[i].wait \cap acked = {}
    PROVE  HistoryInv'
<1>0. /\ acks \in [Txn -> SUBSET Index] /\ acks' \in [Txn -> SUBSET Index]
      /\ acked \subseteq Txn
  BY DEF MySQLTypeOK
<1>a. Unborn \notin Index /\ Retired \notin Index /\ Retired # Unborn
  BY NAssumption DEF Unborn, Retired, Index
<1>1. ASSUME NEW t \in Txn, uuid'[t] = Unborn PROVE acks'[t] = {} /\ t \notin acked'
  <2>1. uuid[t] = Unborn
    BY <1>1, <1>a DEF UuidStep
  <2>2. acks[t] = {} /\ t \notin acked
    BY <2>1 DEF HistoryInv
  <2>3. acks'[t] = {}
    BY <1>a, <2>1, <2>2 DEF AcksStep
  <2>4. t \notin acked'
    BY <1>1, <2>2 DEF AckedStep
  <2> QED BY <2>3, <2>4
<1>2. ASSUME NEW t \in Txn, NEW r \in acks'[t] PROVE t \in Has(r)' /\ uuid'[t] # r
  <2>0. r \in Index
    BY <1>0
  <2>1. CASE r \in acks[t]
    <3>1. t \in Has(r) /\ uuid[t] # r /\ uuid[t] # Unborn
      BY <2>1 DEF HistoryInv
    <3>2. uuid'[t] # r
      BY <1>a, <2>0, <3>1 DEF UuidStep
    <3> QED BY <2>0, <3>1, <3>2, HasKept
  <2>2. CASE /\ t \in db'[r].exec \cup db'[r].relay
             /\ uuid[t] \in Index \ {r}
    <3>1. uuid'[t] # r
      BY <1>a, <2>0, <2>2 DEF UuidStep
    <3> QED BY <2>2, <3>1 DEF Has
  <2> QED BY <2>1, <2>2 DEF AcksStep
<1>3. \A i \in Index : db'[i].wait \cap acked' = {}
  BY DEF AckedStep
<1>4. \A t \in acked' : Cardinality(Holders(t)') > N \div 2
  BY HoldersKept DEF AckedStep, HistoryInv
<1> HIDE DEF Has, Holders
<1> QED BY <1>1, <1>2, <1>3, <1>4 DEF HistoryInv

(* No step that loses no data takes an acknowledged transaction away from  *)
(* the primary.                                                            *)
LEMMA DurabilityKept ==
    ASSUME primaryIdx \in Index, primaryIdx' = primaryIdx, DataKept, AckedStep, Durability
    PROVE  Durability'
BY DEF DataKept, AckedStep, Durability

(* A tame step keeps what is said of the store. *)
LEMMA StoreTame ==
    ASSUME MySQLTypeOK, MySQLTypeOK', WaitInv, StoreInv, TameStep, DataKept,
           AckedStep, primaryIdx \in Index, primaryIdx' = primaryIdx
    PROVE  StoreInv'
<1>0. HistoryInv /\ ModeInv /\ FenceInv /\ Durability
  BY DEF StoreInv
<1>1. HistoryInv'
  <2>1. ASSUME NEW i \in Index, NEW t \in db'[i].wait PROVE t \notin acked
    <3>1. t \in Txn
      BY DEF MySQLTypeOK, Instance
    <3> QED BY <1>0, <3>1 DEF TameStep, TameDb, Tame, HistoryInv
  <2> QED BY <1>0, <2>1, HistoryKept DEF TameStep
<1>2. ModeInv'
  <2>1. \A i \in Index : Tame(i, db[i], db'[i])
    BY DEF TameStep, TameDb
  <2> QED BY <1>0, <2>1 DEF Tame, ModeInv
<1>3. FenceInv'
  <2>1. ASSUME NEW j \in Index \ {primaryIdx}, ~db'[j].ro
        PROVE  Cardinality(Feeding(j)') < N \div 2
    <3> DEFINE a == Cardinality(Feeding(j)')
               b == Cardinality(Feeding(j))
               half == N \div 2
    <3>0. ~db[j].ro
      BY <2>1 DEF TameStep, TameDb, Tame
    <3>1. a <= b /\ a \in Nat /\ b \in Nat /\ b < half /\ half \in Nat
      BY <1>0, <3>0, RoomShrinks, HalfFacts DEF FenceInv
    <3>2. a < half
      <4> HIDE DEF a, b, half
      <4> QED BY <3>1
    <3> QED BY <3>2
  <2>2. FencedNext(db'[primaryIdx].exec)
    <3>1. db[primaryIdx].exec \subseteq db'[primaryIdx].exec
      BY DEF DataKept
    <3>2. Fenced(db[primaryIdx].exec)
      BY <1>0 DEF FenceInv
    <3> HIDE DEF Fenced
    <3> QED BY <1>0, <3>1, <3>2, FencedKept
  <2> HIDE DEF Feeding
  <2> QED BY <2>1, <2>2 DEF FenceInv, Fenced, FencedNext
<1>4. Durability'
  BY <1>0, DurabilityKept
<1> QED BY <1>1, <1>2, <1>3, <1>4 DEF StoreInv

(* A transaction that gets its acks is acknowledged safely: on a former    *)
(* primary only if the primary has it.                                     *)
LEMMA CommitAcked ==
    ASSUME MySQLTypeOK, MySQLTypeOK', WaitInv, StoreInv, DataKept,
           primaryIdx \in Index, primaryIdx' = primaryIdx,
           NEW k \in Index, Commit(k)
    PROVE  /\ AckedStep /\ TameStep /\ SrcKept /\ Grown
           /\ \E t \in db[k].wait :
                 /\ acked' = acked \cup {t} /\ uuid[t] = k
                 /\ Cardinality(acks[t]) >= N \div 2
                 /\ ~CannotAck(k)
                 /\ \A i \in Index \ {k} : Has(i)' = Has(i)
                 /\ k # primaryIdx => \A S : Fenced(S) => t \in S
<1>0. HistoryInv /\ ModeInv /\ FenceInv /\ Durability
  BY DEF StoreInv
<1>1. TameStep /\ SrcKept /\ Grown /\ uuid' = uuid
  BY <1>0, CommitTame
<1>2. PICK t \in db[k].wait :
         /\ Cardinality(acks[t]) >= N \div 2
         /\ acked' = acked \cup {t}
         /\ t \in db'[k].exec /\ db'[k].wait = db[k].wait \ {t}
         /\ \A i \in Index \ {k} : db'[i] = db[i]
  BY <1>0, CommitTame
<1>3. t \in Txn /\ uuid[t] = k /\ acks[t] \subseteq Index /\ Feeding(k) \subseteq Index
  BY DEF MySQLTypeOK, Instance, WaitInv, Feeding
<1>4. ~(Cardinality(acks[t] \cup Feeding(k)) < N \div 2)
  <2> DEFINE a == Cardinality(acks[t])
             b == Cardinality(acks[t] \cup Feeding(k))
             half == N \div 2
  <2>1. a <= b /\ a \in Nat /\ b \in Nat /\ half <= a /\ half \in Nat
    BY <1>2, <1>3, SubsetCard, HalfFacts
  <2>2. ~(b < half)
    <3> HIDE DEF a, b, half
    <3> QED BY <2>1
  <2> QED BY <2>2
<1>5. k # primaryIdx => \A S : Fenced(S) => t \in S
  BY <1>2, <1>4 DEF Fenced
<1>6. t \in db'[primaryIdx].exec
  <2>1. CASE k = primaryIdx
    BY <1>2, <2>1
  <2>2. CASE k # primaryIdx
    <3>1. t \in db[primaryIdx].exec
      BY <1>0, <1>5, <2>2 DEF FenceInv
    <3> QED BY <3>1 DEF DataKept
  <2> QED BY <2>1, <2>2
<1>7. Cardinality(Holders(t)') > N \div 2
  <2>1. k \notin acks[t] /\ \A r \in acks[t] : t \in Has(r)
    BY <1>0, <1>3 DEF HistoryInv
  <2>2. acks[t] \cup {k} \subseteq Holders(t)' /\ Holders(t)' \subseteq Index
    BY <1>2, <1>3, <2>1, HasKept DEF Holders, Has
  <2>3. IsFiniteSet(acks[t]) /\ Cardinality(acks[t] \cup {k}) = Cardinality(acks[t]) + 1
    BY <1>3, <2>1, SubsetCard, FS_AddElement
  <2> DEFINE a == Cardinality(acks[t])
             b == Cardinality(acks[t] \cup {k})
             c == Cardinality(Holders(t)')
             half == N \div 2
  <2>4. b = a + 1 /\ b <= c /\ a \in Nat /\ b \in Nat /\ c \in Nat
        /\ half <= a /\ half \in Nat
    BY <1>2, <1>3, <2>2, <2>3, SubsetCard, HalfFacts
  <2>5. c > half
    <3> HIDE DEF a, b, c, half
    <3> QED BY <2>4
  <2> QED BY <2>5
<1>8. \A i \in Index : t \notin db'[i].wait
  BY <1>2, <1>3 DEF WaitInv
<1>9. AckedStep
  <2>1. uuid'[t] # Unborn
    BY <1>1, <1>3, IndexFacts DEF Unborn
  <2> QED BY <1>2, <1>3, <1>6, <1>7, <1>8, <2>1 DEF AckedStep
<1>10. \A i \in Index \ {k} : Has(i)' = Has(i)
  BY <1>2 DEF Has
<1>11. ~CannotAck(k)
  BY <1>2, <1>4 DEF CannotAck
<1> HIDE DEF Has, CannotAck, Fenced
<1> QED BY <1>1, <1>2, <1>3, <1>5, <1>9, <1>10, <1>11

-----------------------------------------------------------------------------
(* What happens while the pass stands still *)

PassKept ==
    /\ UNCHANGED <<pc, todo, primaryIdx>> /\ SameView
    /\ ss'.goal = ss.goal /\ ss'.source = ss.source

(* The steps in which a failover compares statuses, and acts on them. *)
CompareSteps == {"foCompare", "foTop", "foWait", "foIndex"}

(* The steps in which the snapshot decides about a failover. *)
SeenSteps == {"gather", "recheck", "update", "annotate"} \cup FoSteps

(* What is acknowledged takes part in the comparison of a failover and in  *)
(* the wait of a switchover.                                               *)
AckedSeen ==
    /\ \A i \in Runners :
          pc \in CompareSteps \/ (pc = "foRecheck" /\ i \notin todo) =>
              acked' \cap Has(i)' \subseteq Gtids(ss.st[i])
    /\ pc \in {"swWait", "swIndex"} => acked' \subseteq ss.goal

(* The snapshot stays true. *)
LEMMA SeenTame ==
    ASSUME PassTypeOK, SeenInv, TameDb, SrcKept, DataKept, pc' = pc,
           ss'.known = ss.known, ss'.st = ss.st
    PROVE  SeenInv'
<1>0. ss.known \subseteq Index
  BY DEF PassTypeOK, StatusSetType
<1>1. \A i \in Index : /\ db[i].ro => db'[i].ro
                       /\ db[i].exec \subseteq db'[i].exec
                       /\ \/ db'[i].src = db[i].src
                          \/ db'[i].src = NoSource /\ db'[i].exec = {}
  BY DEF TameDb, Tame, SrcKept, DataKept
<1>2. pc \notin {"idle", "panic"} =>
         \A i \in ss.known : /\ ss.st[i].ro => db'[i].ro
                             /\ ss.st[i].exec \subseteq db'[i].exec
  BY <1>0, <1>1 DEF SeenInv
<1>3. pc \in SeenSteps =>
         \A i \in ss.known : ss.st[i].exec # {} /\ ss.st[i].src # NoSource =>
             db'[i].src # NoSource
  <2> SUFFICES ASSUME pc \in SeenSteps, NEW i \in ss.known, ss.st[i].exec # {},
                      ss.st[i].src # NoSource
               PROVE  db'[i].src # NoSource
    OBVIOUS
  <2>1. pc \notin {"idle", "panic"}
    BY DEF SeenSteps, FoSteps
  <2>2. db[i].src # NoSource
    BY DEF SeenInv, SeenSteps, FoSteps
  <2>3. db'[i].exec # {}
    BY <1>2, <2>1
  <2> QED BY <1>0, <1>1, <2>2, <2>3
<1> QED BY <1>2, <1>3 DEF SeenInv, SeenSteps, FoSteps

(* The snapshot of the replicas that a failover counts. *)
LEMMA SameFailedOk ==
    ASSUME SameView PROVE failedOk(ss') = failedOk(ss) /\ Runners' = Runners
BY DEF SameView, failedOk, Replicas, Runners

(* What is said of the pass survives a tame step outside of it. *)
LEMMA StageTame ==
    ASSUME Inv, MySQLTypeOK', CompareInv, StoreInv, StageInv, PassKept, TameStep,
           SrcKept, DataKept, AckedSeen
    PROVE  StageInv'
<1>0. /\ PassTypeOK /\ MySQLTypeOK /\ WaitInv /\ HistoryInv /\ FenceInv
      /\ SeenInv /\ LoopInv /\ FailoverInv /\ CarryInv /\ TameDb
      /\ primaryIdx \in Index /\ ss.known \subseteq Index /\ todo \subseteq Index
  BY DEF Inv, TypeOK, CompareInv, StoreInv, StageInv, TameStep, PassTypeOK,
         StatusSetType, KubeTypeOK
<1>1. /\ pc' = pc /\ todo' = todo /\ primaryIdx' = primaryIdx
      /\ ss'.known = ss.known /\ ss'.st = ss.st /\ ss'.primary = ss.primary
      /\ ss'.cand = ss.cand /\ ss'.goal = ss.goal /\ ss'.state = ss.state
      /\ failedOk(ss') = failedOk(ss) /\ Runners' = Runners
  BY SameFailedOk DEF PassKept, SameView
<1>2. SeenInv'
  BY <1>0, <1>1, SeenTame
<1>3. \A i \in Index : /\ db[i].ro => db'[i].ro
                       /\ db[i].exec \subseteq db'[i].exec
                       /\ db'[i].src \in {db[i].src, NoSource}
  BY <1>0 DEF TameDb, Tame, SrcKept, DataKept
<1>4. LoopInv'
  <2>1. CASE pc \notin RepSteps
    BY <1>1, <2>1 DEF LoopInv, RepSteps
  <2>2. CASE pc \in RepSteps
    <3>1. todo # {}
      BY <1>0, <2>2 DEF LoopInv, RepSteps
    <3>2. Callee \in Index /\ Callee' = Callee
      BY <1>0, <1>1, <3>1, CalleeType DEF Callee
    <3>3. /\ todo # {} /\ todo \subseteq ss.known \ {ss.primary}
          /\ pc \in {"repClone", "repPurged", "repChange", "repStart"} => db'[Callee].ro
          /\ pc = "repStart" => db'[Callee].src \in {ss.primary, NoSource}
      BY <1>0, <1>3, <2>2, <3>2 DEF LoopInv, RepSteps
    <3> QED BY <1>1, <3>2, <3>3 DEF LoopInv
  <2> QED BY <2>1, <2>2
<1>5. ASSUME NEW j \in ss.known \ {ss.primary}, CannotAck(j), pc \in SeenSteps
      PROVE  CannotAck(j)'
  <2>1. ss.primary = primaryIdx
    BY <1>5 DEF Inv, PassInv, SnapshotInv, SeenSteps, FoSteps
  <2> QED BY <1>0, <1>5, <2>1, CannotAckKept
<1>6. ASSUME pc \in {"foCompare", "foTop", "foWait", "foIndex"}, ss.cand # NoTopRunner
      PROVE  ss.cand \in Index
  BY <1>0, <1>6 DEF PassTypeOK, StatusSetType
<1>7. FailoverInv'
  <2>1. CASE pc \in {"gather", "recheck"}
    <3>1. \A j \in ss.known \ {ss.primary} : ~ss.st[j].waiting => CannotAck(j)'
      BY <1>0, <1>5, <2>1 DEF FailoverInv, SeenSteps
    <3> HIDE DEF CannotAck
    <3> QED BY <1>1, <2>1, <3>1 DEF FailoverInv
  <2>2. CASE pc \in {"update", "annotate", "foStop"}
    <3>1. \A j \in ss.known \ {ss.primary} : CannotAck(j)'
      BY <1>0, <1>5, <2>2 DEF FailoverInv, SeenSteps, FoSteps
    <3> HIDE DEF CannotAck
    <3> QED BY <1>0, <1>1, <2>2, <3>1 DEF FailoverInv
  <2>3. CASE pc = "foRecheck"
    <3>1. \A j \in ss.known \ {ss.primary} : CannotAck(j)'
      BY <1>0, <1>5, <2>3 DEF FailoverInv, SeenSteps, FoSteps
    <3>2. \A i \in Runners \ todo : acked' \cap Has(i)' \subseteq Gtids(ss.st[i])
      BY <2>3 DEF AckedSeen
    <3>3. Cardinality(failedOk(ss)) > N \div 2
      BY <1>0, <2>3 DEF FailoverInv
    <3> HIDE DEF CannotAck, Has
    <3> QED BY <1>1, <2>3, <3>1, <3>2, <3>3 DEF FailoverInv
  <2>4. CASE pc \in CompareSteps
    <3>1. \A j \in ss.known \ {ss.primary} : CannotAck(j)'
      BY <1>0, <1>5, <2>4 DEF FailoverInv, SeenSteps, FoSteps, CompareSteps
    <3>2. \A i \in Runners : acked' \cap Has(i)' \subseteq Gtids(ss.st[i])
      BY <2>4 DEF AckedSeen
    <3>3. Cardinality(failedOk(ss)) > N \div 2
      BY <1>0, <2>4 DEF FailoverInv, CompareSteps
    <3>4. pc \in {"foWait", "foIndex"} => ss.goal = ss.st[ss.cand].retrieved
      BY <1>0 DEF FailoverInv
    <3>5. pc = "foIndex" => ss.goal \subseteq db'[ss.cand].exec
      <4>1. pc = "foIndex" => ss.cand # NoTopRunner
        BY DEF Inv, PassInv, RaceInv
      <4> QED BY <1>0, <1>3, <1>6, <4>1 DEF FailoverInv
    <3> HIDE DEF CannotAck, Has
    <3> QED BY <1>1, <2>4, <3>1, <3>2, <3>3, <3>4, <3>5 DEF FailoverInv, CompareSteps
  <2>5. CASE pc \notin SeenSteps
    BY <1>1, <2>5 DEF FailoverInv, SeenSteps, FoSteps
  <2> QED BY <2>1, <2>2, <2>3, <2>4, <2>5 DEF SeenSteps, FoSteps, CompareSteps
<1>8. CarryInv'
  <2>1. pc \in {"swKill", "swStatus", "swWait", "swIndex"} => db'[primaryIdx].ro
    BY <1>0, <1>3 DEF CarryInv
  <2>2. pc \in {"swWait", "swIndex"} => acked' \subseteq ss.goal /\ FencedNext(ss.goal)
    BY <1>0, <1>1, FencedKept DEF CarryInv, AckedSeen
  <2>3. pc = "swIndex" => ss.goal \subseteq db'[ss.cand].exec
    <3>1. pc = "swIndex" => ss.cand \in Index
      BY DEF Inv, PassInv, SwitchInv, SwitchPlanned
    <3> QED BY <1>0, <1>3, <3>1 DEF CarryInv
  <2>4. FencedNext(ss.goal) => Fenced(ss.goal)'
    BY <1>1 DEF FencedNext, Fenced
  <2> HIDE DEF FencedNext, Fenced
  <2> QED BY <1>1, <2>1, <2>2, <2>3, <2>4 DEF CarryInv
<1> QED BY <1>2, <1>4, <1>7, <1>8 DEF StageInv

(* As long as nothing is acknowledged, nothing acknowledged is added to a  *)
(* compared instance.                                                      *)
LEMMA SameAckedSeen ==
    ASSUME Inv, CompareInv, StoreInv, StageInv, Grown, acked' = acked
    PROVE  AckedSeen
<1>0. /\ StoppedInv /\ HistoryInv /\ FailoverInv /\ CarryInv /\ Runners \subseteq Index
      /\ acked \subseteq Txn
  BY RunnersType DEF Inv, TypeOK, CompareInv, StoreInv, StageInv, MySQLTypeOK
<1>1. ASSUME NEW i \in Runners,
             pc \in CompareSteps \/ (pc = "foRecheck" /\ i \notin todo)
      PROVE  acked \cap Has(i)' \subseteq Gtids(ss.st[i])
  <2>1. ~db[i].io
    BY <1>0, <1>1 DEF StoppedInv, Fixed, CompareSteps
  <2>2. db'[i].exec \cup db'[i].relay \subseteq Has(i) \cup db[i].wait \cup Unwritten
    BY <1>0, <2>1 DEF Grown
  <2>3. acked \cap db[i].wait = {} /\ acked \cap Unwritten = {}
    BY <1>0 DEF HistoryInv, Unwritten
  <2>4. acked \cap Has(i) \subseteq Gtids(ss.st[i])
    BY <1>0, <1>1 DEF FailoverInv, CompareSteps
  <2>5. Has(i)' = db'[i].exec \cup db'[i].relay
    BY DEF Has
  <2> HIDE DEF Has
  <2> QED BY <2>2, <2>3, <2>4, <2>5
<1>2. pc \in {"swWait", "swIndex"} => acked \subseteq ss.goal
  BY <1>0 DEF CarryInv
<1> HIDE DEF Has
<1> QED BY <1>1, <1>2 DEF AckedSeen

(* A step that acknowledges nothing changes nothing of what is known. *)
LEMMA SameAckedStep == ASSUME acked' = acked PROVE AckedStep
BY DEF AckedStep

(* What is acknowledged during a comparison was compared, and what is      *)
(* acknowledged during a switchover was waited for.                        *)
LEMMA CommitAckedSeen ==
    ASSUME Inv, MySQLTypeOK', CompareInv, StoreInv, StageInv, DataKept,
           primaryIdx' = primaryIdx, NEW k \in Index, Commit(k)
    PROVE  AckedSeen
<1>0. /\ StoppedInv /\ HistoryInv /\ FailoverInv /\ CarryInv /\ Runners \subseteq Index
      /\ acked \subseteq Txn /\ MySQLTypeOK /\ WaitInv /\ primaryIdx \in Index
      /\ ModeInv
  BY RunnersType DEF Inv, TypeOK, CompareInv, StoreInv, StageInv, MySQLTypeOK, KubeTypeOK
<1>1. PICK t \in db[k].wait :
         /\ acked' = acked \cup {t} /\ uuid[t] = k
         /\ ~CannotAck(k)
         /\ \A i \in Index \ {k} : Has(i)' = Has(i)
         /\ k # primaryIdx => \A S : Fenced(S) => t \in S
  BY <1>0, CommitAcked
<1>2. ASSUME NEW i \in Runners,
             pc \in CompareSteps \/ (pc = "foRecheck" /\ i \notin todo)
      PROVE  acked' \cap Has(i)' \subseteq Gtids(ss.st[i])
  <2>1. i # k
    <3>1. CannotAck(i)
      BY <1>0, <1>2 DEF FailoverInv, CompareSteps, Runners
    <3> QED BY <1>1, <3>1
  <2>2. Has(i)' = Has(i)
    BY <1>0, <1>1, <2>1
  <2>3. acked \cap Has(i) \subseteq Gtids(ss.st[i])
    BY <1>0, <1>2 DEF FailoverInv, CompareSteps
  <2>4. {u \in Has(i) : uuid[u] # i} \subseteq Gtids(ss.st[i])
    BY <1>0, <1>2 DEF StoppedInv, Fixed, CompareSteps
  <2> HIDE DEF Has
  <2> QED BY <1>1, <2>1, <2>2, <2>3, <2>4
<1>3. ASSUME pc \in {"swWait", "swIndex"} PROVE acked' \subseteq ss.goal
  <2>1. acked \subseteq ss.goal /\ Fenced(ss.goal) /\ db[primaryIdx].ro
    BY <1>0, <1>3 DEF CarryInv
  <2>2. k # primaryIdx
    BY <1>0, <1>1, <2>1 DEF ModeInv
  <2> HIDE DEF Fenced
  <2> QED BY <1>1, <2>1, <2>2
<1> HIDE DEF Has
<1> QED BY <1>2, <1>3 DEF AckedSeen

-----------------------------------------------------------------------------
(* The environment *)

DurInv == PlainInv /\ StoreInv /\ StageInv

(* A spent event stays spent. *)
LEMMA SpentKept ==
    ASSUME events \in [Events -> Nat], NEW f \in Events, events[f] = 0,
           events' = events \/ \E e \in Events : Happens(e)
    PROVE  events'[f] = 0
BY DEF Happens

(* What happens outside of the pass. *)
LEMMA EnvironmentTame ==
    ASSUME Inv, Inv', CompareInv, DurInv, DataKept, PassKept, TameStep, SrcKept,
           AckedStep, AckedSeen, UNCHANGED <<source, restoring>>,
           events' = events \/ \E e \in Events : Happens(e)
    PROVE  DurInv'
<1>0. /\ MySQLTypeOK /\ MySQLTypeOK' /\ WaitInv /\ StoreInv /\ StageInv /\ PlainInv
      /\ primaryIdx \in Index /\ events \in [Events -> Nat] /\ primaryIdx' = primaryIdx
  BY DEF Inv, TypeOK, CompareInv, DurInv, KubeTypeOK, PassKept
<1>1. StoreInv'
  BY <1>0, StoreTame
<1>2. StageInv'
  BY <1>0, StageTame
<1>3. PlainInv'
  <2>1. events'["unlock"] = 0
    BY <1>0, SpentKept DEF PlainInv, Events
  <2> QED BY <1>0, <2>1 DEF PlainInv, PassKept
<1> QED BY <1>1, <1>2, <1>3 DEF DurInv

(* An unchanged store. *)
LEMMA FrameTame ==
    ASSUME ModeInv, UNCHANGED mysqlVars
    PROVE  TameStep /\ SrcKept /\ Grown /\ acked' = acked /\ DataKept
<1>1. UNCHANGED <<db, uuid, acks, acked>>
  BY DEF mysqlVars
<1>2. TameDb
  BY <1>1, SameTame DEF TameDb
<1>3. SrcKept /\ Grown /\ DataKept
  BY <1>1 DEF SrcKept, Grown, Has, DataKept
<1> QED BY <1>1, <1>2, <1>3, SameHistory DEF TameStep

(* A write to the external mysqld. *)
LEMMA ExternalTame ==
    ASSUME MySQLTypeOK, ModeInv, ExternalWrite
    PROVE  TameStep /\ SrcKept /\ Grown /\ acked' = acked
<1>1. UNCHANGED <<db, acks, acked>>
  BY DEF ExternalWrite
<1>2. TameDb
  BY <1>1, SameTame DEF TameDb
<1>3. SrcKept /\ Grown
  BY <1>1 DEF SrcKept, Grown, Has
<1>4. AcksStep /\ UuidStep
  BY <1>1, WrittenHistory DEF ExternalWrite
<1> QED BY <1>1, <1>2, <1>3, <1>4 DEF TameStep

(* A Pod that goes stops its instance. *)
LEMMA GoneTame ==
    ASSUME MySQLTypeOK, ModeInv, NEW k \in Index, PodGone(k)
    PROVE  TameStep /\ SrcKept /\ Grown /\ acked' = acked
<1>1. PICK X \in {Stopped(db[k]), db[k]} : db' = [db EXCEPT ![k] = X]
  BY DEF PodGone
<1>2. UNCHANGED <<uuid, acks, acked>>
  BY DEF PodGone
<1>3. /\ Tame(k, db[k], Stopped(db[k])) /\ Stopped(db[k]).src = db[k].src
      /\ Stopped(db[k]).exec \cup Stopped(db[k]).relay
            \subseteq Has(k) \cup db[k].wait \cup Unwritten
  BY StoppedTame DEF ModeInv
<1>4. Tame(k, db[k], db[k])
  BY SameTame
<1>5. db[k].exec \cup db[k].relay \subseteq Has(k) \cup db[k].wait \cup Unwritten
  BY DEF Has
<1>6. CASE X = db[k]
  BY <1>1, <1>2, <1>4, <1>5, <1>6, OneTame, OneSrc, SameHistory DEF TameStep
<1>7. CASE X = Stopped(db[k])
  BY <1>1, <1>2, <1>3, <1>7, OneTame, OneSrc, SameHistory DEF TameStep
<1> QED BY <1>1, <1>6, <1>7

(* A write on the only instance is acknowledged at once. *)
LEMMA SingleWrite ==
    ASSUME Inv, CompareInv, StoreInv, StageInv, N = 1, primaryIdx' = primaryIdx,
           NEW k \in Index, ~db[k].ro, NEW t \in Txn, acked' = acked \cup {t},
           t \in db'[k].exec, uuid'[t] = k, \A i \in Index : t \notin db'[i].wait
    PROVE  AckedStep /\ AckedSeen
<1>1. Index = {0} /\ k = 0 /\ primaryIdx = 0 /\ ss.primary = 0 /\ ss.known \subseteq Index
  BY DEF Index, Inv, TypeOK, KubeTypeOK, PassTypeOK, StatusSetType
<1>2. Cardinality(Holders(t)') > N \div 2
  <2>1. 0 \in Holders(t)' /\ Holders(t)' \subseteq Index
    BY <1>1 DEF Holders, Has
  <2>2. Holders(t)' = {0}
    BY <1>1, <2>1
  <2>3. Cardinality(Holders(t)') = 1
    BY <2>2, FS_Singleton
  <2> QED BY <2>3
<1>3. uuid'[t] # Unborn
  BY <1>1 DEF Unborn
<1>4. AckedStep
  BY <1>1, <1>2, <1>3 DEF AckedStep
<1>5. Runners = {}
  BY <1>1 DEF Runners
<1>6. pc \notin {"swWait", "swIndex"}
  BY <1>1 DEF StageInv, CarryInv
<1> QED BY <1>4, <1>5, <1>6 DEF AckedSeen

(* Nothing that the environment does endangers an acknowledged             *)
(* transaction, as long as no data are lost.                               *)
LEMMA EnvironmentDur ==
    ASSUME Inv, Inv', CompareInv, DurInv, DataKept, Environment PROVE DurInv'
<1>0. /\ MySQLTypeOK /\ MySQLTypeOK' /\ WaitInv /\ StoreInv /\ StageInv /\ PlainInv
      /\ ModeInv /\ CloneInv /\ ss \in StatusSetType /\ primaryIdx \in Index
  BY DEF Inv, TypeOK, CompareInv, DurInv, StoreInv, PassTypeOK, KubeTypeOK
<1>a. ASSUME TameStep, SrcKept, Grown, acked' = acked, PassKept,
             UNCHANGED <<source, restoring>>,
             events' = events \/ \E e \in Events : Happens(e)
      PROVE  DurInv'
  BY <1>0, <1>a, EnvironmentTame, SameAckedStep, SameAckedSeen
<1>b. UNCHANGED <<passVars, kubeVars>> =>
        PassKept /\ UNCHANGED <<source, restoring, primaryIdx>>
  BY DEF passVars, kubeVars, PassKept, SameView
<1>1. CASE SourceWrites
  <2>1. ExternalWrite /\ UNCHANGED <<passVars, kubeVars>> /\ Happens("external")
    BY <1>1 DEF SourceWrites
  <2> QED BY <1>0, <1>a, <1>b, <2>1, ExternalTame DEF Events
<1>2. CASE RemoveSource \/ Restore
  BY <1>0, <1>2 DEF RemoveSource, Restore, PlainInv
<1>3. ASSUME NEW i \in Index,
             \/ RequestDemote \/ SetOffline \/ ConnectionLost(i)
             \/ ConnectionBack(i) \/ PodTerminate(i) \/ PodCreate(i)
      PROVE  DurInv'
  <2>1. UNCHANGED <<mysqlVars, passVars, primaryIdx, source, restoring>>
    BY <1>3 DEF RequestDemote, SetOffline, ConnectionLost,
           ConnectionBack, PodTerminate, PodCreate, kubeVars
  <2>2. PassKept
    BY <2>1 DEF PassKept, SameView, passVars
  <2>3. events' = events \/ \E e \in Events : Happens(e)
    BY <1>3 DEF RequestDemote, SetOffline, ConnectionLost,
           ConnectionBack, PodTerminate, PodCreate, Events
  <2> QED BY <1>0, <1>a, <2>1, <2>2, <2>3, FrameTame
<1>4. ASSUME NEW i \in Index, Writes(i) PROVE DurInv'
  <2>1. /\ ClientWrite(i) /\ UNCHANGED <<passVars, kubeVars>> /\ Happens("write")
        /\ ~db[i].ro /\ "write" \in Events
    BY <1>4 DEF Writes, ClientWrite, Events
  <2>2. TameStep /\ SrcKept /\ Grown
    BY <1>0, <2>1, WriteTame
  <2>3. CASE acked' = acked
    BY <1>a, <1>b, <2>1, <2>2, <2>3
  <2>4. CASE /\ N = 1 /\ NextTxn \in Txn /\ acked' = acked \cup {NextTxn}
             /\ NextTxn \in db'[i].exec /\ uuid'[NextTxn] = i
             /\ \A j \in Index : NextTxn \notin db'[j].wait
    <3>1. AckedStep /\ AckedSeen
      BY <1>0, <1>b, <2>1, <2>4, SingleWrite
    <3> QED BY <1>0, <1>b, <2>1, <2>2, <3>1, EnvironmentTame
  <2> QED BY <1>0, <2>1, <2>3, <2>4, WriteTame
<1>5. ASSUME NEW i \in Index, Commits(i) PROVE DurInv'
  <2>1. Commit(i) /\ UNCHANGED <<passVars, kubeVars>> /\ events' = events
    BY <1>5 DEF Commits, Outside
  <2>2. PassKept /\ UNCHANGED <<source, restoring, primaryIdx>>
    BY <1>b, <2>1
  <2>3. AckedStep /\ TameStep /\ SrcKept
    BY <1>0, <2>1, <2>2, CommitAcked
  <2>4. AckedSeen
    BY <1>0, <2>1, <2>2, CommitAckedSeen
  <2> QED BY <2>1, <2>2, <2>3, <2>4, EnvironmentTame
<1>6. ASSUME NEW i \in Index, Receives(i) PROVE DurInv'
  <2>1. Receive(i) /\ UNCHANGED <<passVars, kubeVars>> /\ events' = events
    BY <1>6 DEF Receives, Outside
  <2> QED BY <1>0, <1>a, <1>b, <2>1, ReceiveTame
<1>7. ASSUME NEW i \in Index, EndsClone(i) PROVE FALSE
  BY <1>0, <1>7 DEF EndsClone, CloneEnd, CloneInv, PlainInv
<1>8. ASSUME NEW i \in Index, InstanceUnlocked(i) PROVE FALSE
  BY <1>0, <1>8 DEF InstanceUnlocked, Happens, PlainInv
<1>9. ASSUME NEW i \in Index,
             \/ Applies(i) \/ FailsClone(i) \/ InstanceCrash(i) \/ InstanceStart(i)
             \/ InstanceDiverges(i) \/ VolumeLost(i)
      PROVE  DurInv'
  <2>1. LifeStep(i) /\ UNCHANGED <<passVars, kubeVars>>
    BY <1>9 DEF Applies, FailsClone, InstanceCrash, InstanceStart, InstanceDiverges,
       VolumeLost, LifeStep, Outside
  <2>2. events' = events \/ \E e \in Events : Happens(e)
    BY <1>9 DEF Applies, FailsClone, InstanceCrash, InstanceStart, InstanceDiverges,
       VolumeLost, Outside, Events
  <2> QED BY <1>0, <1>a, <1>b, <2>1, <2>2, LifeTame
<1>10. ASSUME NEW i \in Index, PodGone(i) PROVE DurInv'
  <2>1. /\ ss' = ss \/ ss' = [ss EXCEPT !.gone = @ \cup {i}]
        /\ UNCHANGED <<primaryIdx, source, restoring, pc, todo, events>>
    BY <1>10 DEF PodGone
  <2>2. PassKept
    <3>1. CASE ss' = ss
      BY <2>1, <3>1 DEF PassKept, SameView
    <3>2. CASE ss' = [ss EXCEPT !.gone = @ \cup {i}]
      BY <1>0, <2>1, <3>2 DEF PassKept, SameView, StatusSetType
    <3> QED BY <2>1, <3>1, <3>2
  <2> QED BY <1>0, <1>a, <1>10, <2>1, <2>2, GoneTame
<1>11. 0 \in Index
  BY NAssumption DEF Index
<1> QED BY <1>1, <1>2, <1>3, <1>4, <1>5, <1>6, <1>7, <1>8, <1>9, <1>10, <1>11
       DEF Environment, Mysqld

-----------------------------------------------------------------------------
(* configure *)

MidSteps == {"midReadOnly", "midSource", "midStart"}

(* The steps that begin with a replica known to be read-only. *)
ConnectSteps == {"repClone", "repPurged", "repChange", "repStart"}

(* Where configure goes in a cluster without a replication source: the     *)
(* loop visits replicas that answered, and one that is cloned or connected *)
(* first is read-only in the snapshot.                                     *)
PlainDest(d) ==
    /\ d \in ConfDest
    /\ d[1] \notin MidSteps \cup {"repStart"}
    /\ d[1] \in RepSteps => d[2] # {} /\ d[2] \subseteq ss.known \ {ss.primary}
    /\ d[1] \in ConnectSteps => ss.st[LowestOrdinal(d[2])].ro

(* Where it may go without endangering a transaction. *)
GoodDest(d) ==
    /\ d \in ConfDest
    /\ d[1] \notin MidSteps
    /\ d[1] \in RepSteps => d[2] # {} /\ d[2] \subseteq ss.known \ {ss.primary}
    /\ d[1] \in ConnectSteps => db'[LowestOrdinal(d[2])].ro
    /\ d[1] = "repStart" => db'[LowestOrdinal(d[2])].src \in {ss.primary, NoSource}

(* The first call that configureReplica makes is never START REPLICA, and  *)
(* a writable replica is locked first.                                     *)
LEMMA EntryFacts ==
    ASSUME NEW i
    PROVE  /\ SourceEntry(i) \in {"repPurged", "repChange", "done"}
           /\ CloneEntry(i) \in {"repClone", "repPurged", "repChange", "done"}
           /\ ReplicaEntry(i) \in (RepSteps \ {"repStart"}) \cup {"done"}
           /\ ReplicaEntry(i) \in ConnectSteps => ss.st[i].ro
<1>1. SourceEntry(i) \in {"repPurged", "repChange", "done"}
  BY DEF SourceEntry
<1>2. CloneEntry(i) \in {"repClone", "repPurged", "repChange", "done"}
  BY <1>1 DEF CloneEntry
<1>3. ReplicaEntry(i) \in (RepSteps \ {"repStart"}) \cup {"done"}
  BY <1>2 DEF ReplicaEntry, RepSteps
<1>4. ReplicaEntry(i) \in ConnectSteps => ss.st[i].ro
  BY DEF ReplicaEntry, ConnectSteps
<1> QED BY <1>1, <1>2, <1>3, <1>4

(* The loop over the replicas. *)
LEMMA ReplicaPlain ==
    ASSUME PassTypeOK, PlainDest(ToLabel), PlainDest(ToIdle),
           NEW rest \in SUBSET (ss.known \ {ss.primary})
    PROVE  PlainDest(ToReplica(rest))
<1>0. ss.known \subseteq Index /\ rest \subseteq Index /\ Index \subseteq Nat
  BY IndexFacts DEF PassTypeOK, StatusSetType
<1> DEFINE work == {i \in rest : ReplicaEntry(i) # "done"}
           next == {i \in rest : \E j \in work : i >= j}
           silent == \E i \in rest \ (next \cup ss.errants) : ~Answers(i)
           w == LowestOrdinal(work)
<1>1. ToReplica(rest) = IF silent THEN ToIdle
                        ELSE IF work = {} THEN ToLabel
                        ELSE <<ReplicaEntry(LowestOrdinal(work)), next>>
  BY DEF ToReplica
<1>2. CASE silent \/ work = {}
  <2> HIDE DEF work, next, silent, PlainDest
  <2> QED BY <1>1, <1>2
<1>3. CASE ~silent /\ work # {}
  <2>1. work \subseteq Nat /\ next \subseteq Nat /\ work \subseteq rest /\ next \subseteq rest
    BY <1>0
  <2>2. w \in work /\ \A j \in work : w <= j
    <3> HIDE DEF work
    <3> QED BY <1>3, <2>1, LowestOrdinalExists
  <2>3. w \in next /\ \A i \in next : w <= i
    BY <1>0, <2>1, <2>2
  <2>4. LowestOrdinal(next) = w
    <3>1. LowestOrdinal(next) \in next /\ \A j \in next : LowestOrdinal(next) <= j
      <4> HIDE DEF next, w
      <4> QED BY <2>1, <2>3, LowestOrdinalExists
    <3>2. LowestOrdinal(next) <= w /\ w <= LowestOrdinal(next)
      BY <2>3, <3>1
    <3>3. LowestOrdinal(next) \in Nat /\ w \in Nat
      BY <2>1, <2>3, <3>1
    <3> HIDE DEF next, w
    <3> QED BY <3>2, <3>3
  <2>5. /\ ReplicaEntry(w) \in RepSteps \ {"repStart"}
        /\ ReplicaEntry(w) \in ConnectSteps => ss.st[w].ro
    BY <2>2, EntryFacts
  <2>6. ToReplica(rest) = <<ReplicaEntry(w), next>>
    BY <1>1, <1>3
  <2>7. next # {} /\ next \subseteq ss.known \ {ss.primary} /\ next \subseteq Index
    BY <1>0, <2>1, <2>3
  <2> DEFINE e == ReplicaEntry(w)
  <2> HIDE DEF work, next, silent, w, e
  <2>8. e \in RepSteps \ {"repStart"} /\ (e \in ConnectSteps => ss.st[w].ro)
    BY <2>5 DEF e
  <2>9. e \in ConfSteps /\ e \notin MidSteps
    BY <2>8 DEF RepSteps, ConfSteps, MidSteps
  <2>10. PlainDest(<<e, next>>)
    BY <2>4, <2>7, <2>8, <2>9 DEF PlainDest, ConfDest
  <2> QED BY <2>6, <2>10 DEF e
<1> QED BY <1>2, <1>3

(* The stages of configure. *)
LEMMA PlainDestinations ==
    ASSUME PassTypeOK, ~ss.source
    PROVE  /\ PlainDest(ToIdle) /\ PlainDest(ToWritable) /\ PlainDest(ToLabel)
           /\ \A rest \in SUBSET (ss.known \ {ss.primary}) : PlainDest(ToReplica(rest))
           /\ PlainDest(ToReplicas) /\ PlainDest(ToSemiSync) /\ PlainDest(ToPrimWait)
           /\ PlainDest(ToPrimary) /\ PlainDest(ToKill)
<1>0. ss.primary \in Index /\ ss.known \subseteq Index
  BY DEF PassTypeOK, StatusSetType
<1>a. ASSUME NEW step \in {"idle", "writable", "label", "primSemiSync", "primWait",
                           "primStop", "kill"},
             NEW work \in SUBSET Index
      PROVE  PlainDest(<<step, work>>)
  BY DEF PlainDest, ConfDest, ConfSteps, MidSteps, RepSteps, ConnectSteps
<1> HIDE DEF PlainDest
<1>1. PlainDest(ToIdle)
  BY <1>a DEF ToIdle
<1>2. PlainDest(ToWritable)
  BY <1>0, <1>1, <1>a DEF ToWritable
<1>3. PlainDest(ToLabel)
  BY <1>0, <1>2, <1>a DEF ToLabel, Alive
<1>4. \A rest \in SUBSET (ss.known \ {ss.primary}) : PlainDest(ToReplica(rest))
  BY <1>1, <1>3, ReplicaPlain
<1>5. PlainDest(ToReplicas)
  BY <1>4 DEF ToReplicas
<1>6. PlainDest(ToSemiSync)
  BY <1>0, <1>5, <1>a DEF ToSemiSync
<1>7. PlainDest(ToPrimWait)
  BY <1>0, <1>6, <1>a DEF ToPrimWait
<1>8. PlainDest(ToPrimary)
  BY <1>0, <1>7, <1>a DEF ToPrimary
<1>9. PlainDest(ToKill)
  BY <1>0, <1>8, <1>a DEF ToKill, Alive
<1> QED BY <1>1, <1>2, <1>3, <1>4, <1>5, <1>6, <1>7, <1>8, <1>9

(* A replica that the snapshot shows read-only still is. *)
LEMMA PlainGood ==
    ASSUME PassTypeOK, SeenInv, pc \notin {"idle", "panic"}, NEW d, PlainDest(d),
           \A i \in Index : db[i].ro => db'[i].ro
    PROVE  GoodDest(d)
<1>0. ss.known \subseteq Index /\ Index \subseteq Nat
  BY IndexFacts DEF PassTypeOK, StatusSetType
<1>1. ASSUME d[1] \in ConnectSteps PROVE db'[LowestOrdinal(d[2])].ro
  <2>1. d[1] \in RepSteps
    BY <1>1 DEF ConnectSteps, RepSteps
  <2>2. d[2] # {} /\ d[2] \subseteq ss.known
    BY <2>1 DEF PlainDest
  <2>3. LowestOrdinal(d[2]) \in d[2]
    BY <1>0, <2>2, LowestOrdinalExists
  <2>4. ss.st[LowestOrdinal(d[2])].ro
    BY <1>1 DEF PlainDest
  <2> QED BY <1>0, <2>2, <2>3, <2>4 DEF SeenInv
<1> QED BY <1>1 DEF PlainDest, GoodDest

(* A call of configure that succeeds. *)
LEMMA ConfigureTake ==
    ASSUME Inv, DurInv, pc \notin {"idle", "panic"}, DataKept, NEW d, GoodDest(d), Take(d),
           \A i \in Index : db[i].ro => db'[i].ro,
           UNCHANGED <<source, restoring, events>>
    PROVE  PlainInv' /\ StageInv'
<1>0. PassTypeOK /\ SeenInv /\ PlainInv /\ ss.known \subseteq Index
  BY DEF Inv, TypeOK, DurInv, StageInv, PassTypeOK, StatusSetType
<1>1. d \in ConfDest /\ pc' = d[1] /\ todo' = d[2] /\ (pc' # "idle" => SameView)
  BY <1>0, ConfDestType, TakeType DEF GoodDest
<1>2. pc' # "idle" => ss'.source = ss.source
  BY <1>0, TakeSpec DEF SameSpec
<1>3. pc' \in ConfSteps \cup {"idle"} /\ pc' \notin MidSteps
  BY <1>1 DEF GoodDest, ConfDest
<1>4. PlainInv'
  BY <1>0, <1>2, <1>3 DEF PlainInv, ConfSteps, MidSteps
<1>5. SeenInv'
  <2>1. \A i \in Index : db[i].exec \subseteq db'[i].exec
    BY DEF DataKept
  <2>2. \A i \in ss.known : /\ ss.st[i].ro => db'[i].ro
                            /\ ss.st[i].exec \subseteq db'[i].exec
    BY <1>0, <2>1 DEF SeenInv
  <2>3. pc' # "idle" => ss'.known = ss.known /\ ss'.st = ss.st
    BY <1>1 DEF SameView
  <2> QED BY <1>3, <2>2, <2>3 DEF SeenInv, ConfSteps
<1>6. LoopInv'
  <2>1. pc' # "idle" => ss'.known = ss.known /\ ss'.primary = ss.primary
    BY <1>1 DEF SameView
  <2>2. Callee' = LowestOrdinal(d[2])
    BY <1>1 DEF Callee
  <2> QED BY <1>1, <2>1, <2>2 DEF LoopInv, GoodDest, RepSteps, ConnectSteps
<1>7. FailoverInv' /\ CarryInv'
  BY <1>3 DEF FailoverInv, CarryInv, ConfSteps
<1> QED BY <1>4, <1>5, <1>6, <1>7 DEF StageInv

(* The fence around former primaries, when no session and no ack changes   *)
(* and none of them gets a new replica.                                    *)
LEMMA FenceFrame ==
    ASSUME MySQLTypeOK, FenceInv, acks' = acks, primaryIdx \in Index,
           primaryIdx' = primaryIdx,
           db[primaryIdx].exec \subseteq db'[primaryIdx].exec,
           \A i \in Index : db'[i].wait = db[i].wait,
           \A j \in Index \ {primaryIdx} :
               (db[j].ro => db'[j].ro) /\ Feeding(j)' \subseteq Feeding(j)
    PROVE  FenceInv'
<1>1. ASSUME NEW j \in Index \ {primaryIdx}, ~db'[j].ro
      PROVE  Cardinality(Feeding(j)') < N \div 2
  <2> DEFINE a == Cardinality(Feeding(j)')
             b == Cardinality(Feeding(j))
             half == N \div 2
  <2>1. Feeding(j) \subseteq Index
    BY DEF Feeding
  <2>2. a <= b /\ a \in Nat /\ b \in Nat /\ b < half /\ half \in Nat
    BY <1>1, <2>1, SubsetCard, HalfFacts DEF FenceInv
  <2>3. a < half
    <3> HIDE DEF a, b, half
    <3> QED BY <2>2
  <2> QED BY <2>3
<1>2. ASSUME NEW j \in Index \ {primaryIdx}, NEW t \in db'[j].wait,
             t \notin db'[primaryIdx].exec
      PROVE  Cardinality(acks'[t] \cup Feeding(j)') < N \div 2
  <2> DEFINE a == Cardinality(acks'[t] \cup Feeding(j)')
             b == Cardinality(acks[t] \cup Feeding(j))
             half == N \div 2
  <2>1. t \in Txn /\ t \in db[j].wait /\ t \notin db[primaryIdx].exec
    BY <1>2 DEF MySQLTypeOK, Instance
  <2>2. /\ acks[t] \cup Feeding(j) \subseteq Index
        /\ acks'[t] \cup Feeding(j)' \subseteq acks[t] \cup Feeding(j)
    <3>1. acks[t] \subseteq Index
      BY <2>1 DEF MySQLTypeOK
    <3>2. Feeding(j) \subseteq Index
      BY DEF Feeding
    <3> HIDE DEF Feeding
    <3> QED BY <3>1, <3>2
  <2>3. a <= b /\ a \in Nat /\ b \in Nat /\ half \in Nat
    BY <2>2, SubsetCard, HalfFacts
  <2>4. b < half
    BY <2>1 DEF FenceInv, Fenced
  <2>5. a < half
    <3> HIDE DEF a, b, half
    <3> QED BY <2>3, <2>4
  <2> QED BY <2>5
<1> HIDE DEF Feeding
<1> QED BY <1>1, <1>2 DEF FenceInv, Fenced

(* A read-only replica of the primary begins to replicate. *)
LEMMA StartStore ==
    ASSUME MySQLTypeOK, MySQLTypeOK', StoreInv, DataKept, primaryIdx \in Index,
           primaryIdx' = primaryIdx, NEW k \in Index, StartReplica(k), db[k].ro,
           db[k].src \in {primaryIdx, NoSource}
    PROVE  StoreInv' /\ \A i \in Index : db[i].ro => db'[i].ro
<1>0. /\ db \in [Index -> Instance] /\ db[k] \in Instance
      /\ HistoryInv /\ ModeInv /\ FenceInv /\ Durability
  BY DEF MySQLTypeOK, StoreInv
<1> DEFINE X == [db[k] EXCEPT !.io = TRUE, !.sql = TRUE]
<1>1. db' = [db EXCEPT ![k] = X] /\ UNCHANGED <<uuid, acks, acked>>
  BY DEF StartReplica
<1>2. /\ X.ro = db[k].ro /\ X.src = db[k].src /\ X.wait = db[k].wait
      /\ X.exec = db[k].exec /\ X.relay = db[k].relay
  BY <1>0 DEF Instance
<1> HIDE DEF X
<1>3. /\ db'[k] = X /\ \A i \in Index : i # k => db'[i] = db[i]
      /\ \A i \in Index : /\ db'[i].ro = db[i].ro /\ db'[i].src = db[i].src
                          /\ db'[i].wait = db[i].wait
  BY <1>0, <1>1, <1>2
<1>4. HistoryInv'
  <2>1. AcksStep /\ UuidStep /\ AckedStep
    BY <1>1, SameHistory, SameAckedStep
  <2>2. \A i \in Index : db'[i].wait \cap acked = {}
    BY <1>0, <1>3 DEF HistoryInv
  <2> QED BY <1>0, <2>1, <2>2, HistoryKept
<1>5. ModeInv'
  BY <1>0, <1>3 DEF ModeInv
<1>6. FenceInv'
  <2>1. \A j \in Index \ {primaryIdx} : Feeding(j)' \subseteq Feeding(j)
    <3>1. NoSource \notin Index
      BY IndexFacts DEF NoSource
    <3> QED BY <1>3, <3>1 DEF Feeding
  <2>2. db[primaryIdx].exec \subseteq db'[primaryIdx].exec
    BY DEF DataKept
  <2> QED BY <1>0, <1>1, <1>3, <2>1, <2>2, FenceFrame
<1>7. Durability'
  BY <1>0, <1>1, DurabilityKept, SameAckedStep
<1> QED BY <1>3, <1>4, <1>5, <1>6, <1>7 DEF StoreInv

(* The primary becomes writable, with semi-sync enabled. *)
LEMMA WritableStore ==
    ASSUME MySQLTypeOK, MySQLTypeOK', StoreInv, DataKept, primaryIdx \in Index,
           primaryIdx' = primaryIdx, SetWritable(primaryIdx),
           db[primaryIdx].ssM \/ N = 1
    PROVE  StoreInv'
<1> DEFINE k == primaryIdx
           X == [db[k] EXCEPT !.io = FALSE, !.sql = FALSE, !.relay = {}, !.ro = FALSE]
<1>0. /\ db \in [Index -> Instance] /\ db[k] \in Instance
      /\ HistoryInv /\ ModeInv /\ FenceInv /\ Durability
  BY DEF MySQLTypeOK, StoreInv
<1>1. db' = [db EXCEPT ![k] = X] /\ UNCHANGED <<uuid, acks, acked>>
  BY DEF SetWritable
<1>2. /\ ~X.ro /\ ~X.io /\ X.src = db[k].src /\ X.wait = db[k].wait
      /\ X.exec = db[k].exec /\ X.relay = {} /\ X.ssM = db[k].ssM
  BY <1>0 DEF Instance
<1> HIDE DEF X
<1>3. /\ db'[k] = X /\ \A i \in Index : i # k => db'[i] = db[i]
      /\ \A i \in Index : db'[i].wait = db[i].wait
  BY <1>0, <1>1, <1>2
<1>4. HistoryInv'
  <2>1. AcksStep /\ UuidStep /\ AckedStep
    BY <1>1, SameHistory, SameAckedStep
  <2>2. \A i \in Index : db'[i].wait \cap acked = {}
    BY <1>0, <1>3 DEF HistoryInv
  <2> QED BY <1>0, <2>1, <2>2, HistoryKept
<1>5. ModeInv'
  BY <1>0, <1>2, <1>3 DEF ModeInv
<1>6. FenceInv'
  <2>1. \A j \in Index \ {primaryIdx} :
           (db[j].ro => db'[j].ro) /\ Feeding(j)' \subseteq Feeding(j)
    BY <1>2, <1>3 DEF Feeding
  <2>2. db[primaryIdx].exec \subseteq db'[primaryIdx].exec
    BY DEF DataKept
  <2> HIDE DEF k
  <2> QED BY <1>0, <1>1, <1>3, <2>1, <2>2, FenceFrame
<1>7. Durability'
  BY <1>0, <1>1, DurabilityKept, SameAckedStep
<1> QED BY <1>4, <1>5, <1>6, <1>7 DEF StoreInv

(* A tame step of the controller. *)
LEMMA StatementStore ==
    ASSUME Inv, Inv', CompareInv, DurInv, DataKept, TameDb,
           UNCHANGED <<uuid, acks, acked, primaryIdx>>
    PROVE  StoreInv' /\ \A i \in Index : db[i].ro => db'[i].ro
<1>1. /\ MySQLTypeOK /\ MySQLTypeOK' /\ WaitInv /\ StoreInv /\ primaryIdx \in Index
  BY DEF Inv, TypeOK, CompareInv, DurInv, KubeTypeOK
<1>2. TameStep /\ AckedStep
  BY SameHistory, SameAckedStep DEF TameStep
<1>3. \A i \in Index : db[i].ro => db'[i].ro
  BY DEF TameDb, Tame
<1> QED BY <1>1, <1>2, <1>3, StoreTame

(* The end of a pass. *)
LEMMA EndDur ==
    ASSUME Inv, PlainInv, StoreInv', pc' \in {"idle", "panic"}, UNCHANGED <<source, restoring>>,
           events' = events \/ \E e \in Events : Happens(e)
    PROVE  DurInv'
<1>1. StageInv'
  BY DEF StageInv, SeenInv, LoopInv, FailoverInv, CarryInv
<1>2. events'["unlock"] = 0
  BY SpentKept DEF PlainInv, Events, Inv, TypeOK
<1>3. PlainInv'
  BY <1>2 DEF PlainInv
<1> QED BY <1>1, <1>3 DEF DurInv

(* The rest of configureReplica, or the next replica. *)
LEMMA ContinueGood ==
    ASSUME Inv, DurInv, pc \in RepSteps, NEW step \in RepSteps \cup {"done"},
           \A i \in Index : db[i].ro => db'[i].ro,
           step \in ConnectSteps => db'[Callee].ro,
           step = "repStart" => db'[Callee].src \in {ss.primary, NoSource}
    PROVE  GoodDest(ContinueReplica(step))
<1>0. /\ PassTypeOK /\ SeenInv /\ todo # {} /\ todo \subseteq ss.known \ {ss.primary}
      /\ ~ss.source /\ pc \notin {"idle", "panic"}
  BY DEF Inv, TypeOK, DurInv, StageInv, LoopInv, RepSteps, PlainInv
<1>1. CASE step = "done"
  <2>1. PlainDest(ToReplica(todo \ {Callee}))
    BY <1>0, PlainDestinations
  <2>2. GoodDest(ToReplica(todo \ {Callee}))
    BY <1>0, <2>1, PlainGood
  <2> QED BY <1>1, <2>2 DEF ContinueReplica
<1>2. CASE step \in RepSteps
  <2>1. ContinueReplica(step) = <<step, todo>>
    BY <1>2 DEF ContinueReplica, RepSteps
  <2>2. LowestOrdinal(todo) = Callee
    BY DEF Callee
  <2>3. step \in ConfSteps /\ step \notin MidSteps /\ todo \subseteq Index
    BY <1>0, <1>2 DEF RepSteps, ConfSteps, MidSteps, PassTypeOK
  <2>4. GoodDest(<<step, todo>>)
    BY <1>0, <2>2, <2>3 DEF GoodDest, ConfDest
  <2> QED BY <2>1, <2>4
<1> QED BY <1>1, <1>2

(* A statement of configure that succeeds, and a good destination. *)
LEMMA CallDur ==
    ASSUME Inv, Inv', CompareInv, DurInv, DataKept, pc \in ConfAll,
           TameDb, UNCHANGED <<uuid, acks, acked, primaryIdx, source, restoring, events>>,
           NEW d, (\A i \in Index : db[i].ro => db'[i].ro) => GoodDest(d), Take(d)
    PROVE  DurInv'
<1>1. StoreInv' /\ \A i \in Index : db[i].ro => db'[i].ro
  BY StatementStore
<1>2. pc \notin {"idle", "panic"}
  BY DEF ConfAll, ConfSteps
<1>3. PlainInv' /\ StageInv'
  BY <1>1, <1>2, ConfigureTake
<1> QED BY <1>1, <1>3 DEF DurInv

(* A turn of a loop of configure over Pods or connections. *)
LEMMA TurnDur ==
    ASSUME Inv, Inv', CompareInv, DurInv, DataKept, pc \in {"unlabel", "kill", "label"},
           TameDb, UNCHANGED <<uuid, acks, acked, primaryIdx, source, restoring, events>>,
           NEW d, PlainDest(d), NextTurn(d)
    PROVE  DurInv'
<1>0. PassTypeOK /\ SeenInv /\ PlainInv /\ ss.known \subseteq Index
  BY DEF Inv, TypeOK, DurInv, StageInv, PassTypeOK, StatusSetType
<1>1. CASE Take(d)
  <2>1. (\A i \in Index : db[i].ro => db'[i].ro) => GoodDest(d)
    BY <1>0, PlainGood
  <2>2. pc \in ConfAll
    BY DEF ConfAll, ConfSteps
  <2> QED BY <1>1, <2>1, <2>2, CallDur
<1>2. CASE UNCHANGED <<pc, ss>>
  <2>1. StoreInv' /\ \A i \in Index : db[i].ro => db'[i].ro
    BY StatementStore
  <2>2. PlainInv'
    BY <1>0, <1>2 DEF PlainInv
  <2>3. SeenInv'
    <3>1. \A i \in Index : db[i].exec \subseteq db'[i].exec
      BY DEF DataKept
    <3>2. \A i \in ss.known : /\ ss.st[i].ro => db'[i].ro
                              /\ ss.st[i].exec \subseteq db'[i].exec
      BY <1>0, <2>1, <3>1 DEF SeenInv
    <3> QED BY <1>2, <3>2 DEF SeenInv
  <2>4. LoopInv' /\ FailoverInv' /\ CarryInv'
    BY <1>2 DEF LoopInv, FailoverInv, CarryInv
  <2> QED BY <2>1, <2>2, <2>3, <2>4 DEF DurInv, StageInv
<1> QED BY <1>1, <1>2 DEF NextTurn

(* Unchanged instances are tame. *)
LEMMA FrameTameDb ==
    ASSUME ModeInv, UNCHANGED mysqlVars
    PROVE  TameDb /\ UNCHANGED <<uuid, acks, acked>>
BY FrameTame DEF TameStep, mysqlVars

(* configure keeps every acknowledged transaction, as long as no data are  *)
(* lost and semi-sync is enabled when the primary is made writable.        *)
LEMMA ConfigureDur ==
    ASSUME Inv, Inv', CompareInv, DurInv, DataKept, SemiSyncFirst, Configure
    PROVE  DurInv'
<1>0. /\ MySQLTypeOK /\ MySQLTypeOK' /\ PassTypeOK /\ ModeInv /\ StoreInv /\ PlainInv /\ SeenInv
      /\ LoopInv /\ primaryIdx \in Index /\ ss.primary \in Index /\ pods \subseteq Index
      /\ ss.known \subseteq Index
  BY DEF Inv, TypeOK, DurInv, StoreInv, StageInv, PassTypeOK, StatusSetType, KubeTypeOK
<1>1. /\ UNCHANGED <<primaryIdx, source, restoring, events>> /\ pc \in ConfAll
      /\ pc \notin {"idle", "panic"}
  BY ConfigureFrame, ConfigureMoves DEF ConfAll, ConfSteps
<1>2. ~ss.source /\ pc \notin MidSteps
  BY <1>0, <1>1 DEF PlainInv, MidSteps
<1>3. ss.primary = primaryIdx
  BY <1>1 DEF Inv, PassInv, SnapshotInv, ConfAll, ConfSteps
<1>4. /\ PlainDest(ToIdle) /\ PlainDest(ToWritable)
      /\ PlainDest(ToReplicas) /\ PlainDest(ToSemiSync) /\ PlainDest(ToPrimWait)
      /\ PlainDest(ToPrimary) /\ PlainDest(ToKill)
  BY <1>0, <1>2, PlainDestinations
<1>a. ASSUME TameDb, UNCHANGED <<uuid, acks, acked>>, NEW d, Take(d), PlainDest(d)
      PROVE  DurInv'
  <2>1. (\A i \in Index : db[i].ro => db'[i].ro) => GoodDest(d)
    BY <1>0, <1>1, <1>a, PlainGood
  <2> QED BY <1>1, <1>a, <2>1, CallDur
<1>b. ASSUME NEW s, Calling(s) PROVE Callee \in Index
  BY <1>0, <1>b DEF Calling, Answers, Reachable
<1>5. CASE removeRoleLabel \/ addRoleLabel
  <2>1. UNCHANGED mysqlVars /\ pc \in {"unlabel", "label"}
        /\ (NextTurn(ToKill) \/ NextTurn(ToWritable))
    BY <1>5 DEF removeRoleLabel, addRoleLabel, SetRole
  <2>2. TameDb /\ UNCHANGED <<uuid, acks, acked>>
    BY <1>0, <2>1, FrameTameDb
  <2> QED BY <1>1, <1>4, <2>1, <2>2, TurnDur
<1>6. CASE killAlive
  <2>1. KillConnections(Callee) /\ pc = "kill" /\ NextTurn(ToPrimary) /\ Callee \in Index
    BY <1>6, <1>b DEF killAlive, Calling
  <2>2. TameDb /\ UNCHANGED <<uuid, acks, acked>>
    BY <1>0, <2>1, StatementTame DEF KillConnections
  <2> QED BY <1>1, <1>4, <2>1, <2>2, TurnDur
<1>7. CASE midReadOnly \/ midSource \/ midStart
  BY <1>2, <1>7 DEF midReadOnly, midSource, midStart, Calling, MidSteps
<1>8. CASE primStop
  <2>1. StopReplicaIOThread(ss.primary) /\ Take(ToPrimWait)
    BY <1>8 DEF primStop
  <2>2. TameDb /\ UNCHANGED <<uuid, acks, acked>>
    BY <1>0, <2>1, StatementTame DEF StopReplicaIOThread
  <2> QED BY <1>4, <1>a, <2>1, <2>2
<1>9. CASE primWait
  <2>1. UNCHANGED mysqlVars /\ Take(ToSemiSync)
    BY <1>9 DEF primWait
  <2>2. TameDb /\ UNCHANGED <<uuid, acks, acked>>
    BY <1>0, <2>1, FrameTameDb
  <2> QED BY <1>4, <1>a, <2>1, <2>2
<1>10. CASE primSemiSync
  <2>1. ConfigurePrimary(ss.primary) /\ Take(ToReplicas)
    BY <1>10 DEF primSemiSync
  <2>2. TameDb /\ UNCHANGED <<uuid, acks, acked>>
    BY <1>0, <2>1, StatementTame DEF ConfigurePrimary
  <2> QED BY <1>4, <1>a, <2>1, <2>2
<1>11. CASE repStop
  <2>1. StopReplicaIOThread(Callee) /\ Take(ContinueReplica("done")) /\ pc = "repStop"
        /\ Callee \in Index
    BY <1>11, <1>b DEF repStop, Calling
  <2>2. TameDb /\ UNCHANGED <<uuid, acks, acked>>
    BY <1>0, <2>1, StatementTame DEF StopReplicaIOThread
  <2>3. (\A i \in Index : db[i].ro => db'[i].ro) => GoodDest(ContinueReplica("done"))
    BY <2>1, ContinueGood DEF RepSteps, ConnectSteps
  <2> QED BY <1>1, <2>1, <2>2, <2>3, CallDur
<1>12. CASE repKill
  <2>1. KillConnections(Callee) /\ Take(ContinueReplica("repReadOnly")) /\ pc = "repKill"
        /\ Callee \in Index
    BY <1>12, <1>b DEF repKill, Calling
  <2>2. TameDb /\ UNCHANGED <<uuid, acks, acked>>
    BY <1>0, <2>1, StatementTame DEF KillConnections
  <2>3. (\A i \in Index : db[i].ro => db'[i].ro) => GoodDest(ContinueReplica("repReadOnly"))
    BY <2>1, ContinueGood DEF RepSteps, ConnectSteps
  <2> QED BY <1>1, <2>1, <2>2, <2>3, CallDur
<1>13. CASE repReadOnly
  <2>1. SetReadOnly(Callee) /\ Take(ContinueReplica(CloneEntry(Callee))) /\ pc = "repReadOnly"
        /\ Callee \in Index
    BY <1>13, <1>b DEF repReadOnly, Calling
  <2>2. TameDb /\ UNCHANGED <<uuid, acks, acked>>
    BY <1>0, <2>1, StatementTame DEF SetReadOnly
  <2>3. db'[Callee].ro
    <3>1. db[Callee] \in Instance /\ db' = [db EXCEPT ![Callee].ro = TRUE]
      BY <1>0, <2>1 DEF MySQLTypeOK, SetReadOnly
    <3> QED BY <1>0, <2>1, <3>1 DEF MySQLTypeOK, Instance
  <2>4. CloneEntry(Callee) \in RepSteps \cup {"done"} /\ CloneEntry(Callee) # "repStart"
    BY EntryFacts DEF RepSteps
  <2>5. (\A i \in Index : db[i].ro => db'[i].ro)
            => GoodDest(ContinueReplica(CloneEntry(Callee)))
    BY <2>1, <2>3, <2>4, ContinueGood DEF RepSteps
  <2> QED BY <1>1, <2>1, <2>2, <2>5, CallDur
<1>14. CASE repClone
  <2>1. CloneFrom(Callee, ss.primary) /\ Take(ContinueReplica(SourceEntry(Callee)))
        /\ pc = "repClone" /\ Callee \in Index
    BY <1>14, <1>b DEF repClone, Calling
  <2>2. TameDb /\ UNCHANGED <<uuid, acks, acked>> /\ db'[Callee].ro
    BY <1>0, <2>1, ClonedTame DEF CloneFrom
  <2>3. SourceEntry(Callee) \in RepSteps \cup {"done"} /\ SourceEntry(Callee) # "repStart"
    BY EntryFacts DEF RepSteps
  <2>4. (\A i \in Index : db[i].ro => db'[i].ro)
            => GoodDest(ContinueReplica(SourceEntry(Callee)))
    BY <2>1, <2>2, <2>3, ContinueGood DEF RepSteps
  <2> QED BY <1>1, <2>1, <2>2, <2>4, CallDur
<1>15. CASE repPurged
  <2>1. UNCHANGED mysqlVars /\ pc' = "idle"
    BY <1>15 DEF repPurged, Idle
  <2>2. TameDb /\ UNCHANGED <<uuid, acks, acked>>
    BY <1>0, <2>1, FrameTameDb
  <2>3. StoreInv'
    BY <1>1, <2>2, StatementStore
  <2> QED BY <1>0, <1>1, <2>1, <2>3, EndDur
<1>16. CASE repChange
  <2>1. /\ ChangeSource(Callee, ss.primary, ~ss.source)
        /\ Take(ContinueReplica("repStart")) /\ pc = "repChange" /\ Callee \in Index
    BY <1>16, <1>b DEF repChange, Calling
  <2>2. /\ db[Callee].ro /\ Callee # ss.primary /\ ss.primary \in Source
        /\ (~ss.source) \in BOOLEAN
    <3>1. db[Callee].ro /\ todo # {} /\ ss.primary \notin todo
      BY <1>0, <2>1 DEF LoopInv
    <3>2. Callee \in todo
      BY <1>0, <3>1, CalleeType
    <3> QED BY <1>0, <3>1, <3>2 DEF Source
  <2>3. TameDb /\ db'[Callee].src = ss.primary /\ UNCHANGED <<uuid, acks, acked>>
    BY <1>0, <2>1, <2>2, ChangeTame
  <2>4. (\A i \in Index : db[i].ro => db'[i].ro) => GoodDest(ContinueReplica("repStart"))
    BY <2>1, <2>2, <2>3, ContinueGood DEF RepSteps
  <2> QED BY <1>1, <2>1, <2>3, <2>4, CallDur
<1>17. CASE repStart
  <2>1. StartReplica(Callee) /\ Take(ContinueReplica("done")) /\ pc = "repStart"
        /\ Callee \in Index
    BY <1>17, <1>b DEF repStart, Calling
  <2>2. db[Callee].ro /\ db[Callee].src \in {primaryIdx, NoSource}
    BY <1>0, <1>3, <2>1 DEF LoopInv
  <2>3. StoreInv' /\ \A i \in Index : db[i].ro => db'[i].ro
    BY <1>0, <1>1, <2>1, <2>2, StartStore
  <2>4. GoodDest(ContinueReplica("done"))
    BY <2>1, <2>3, ContinueGood DEF RepSteps, ConnectSteps
  <2>5. PlainInv' /\ StageInv'
    BY <1>1, <2>1, <2>3, <2>4, ConfigureTake
  <2> QED BY <2>3, <2>5 DEF DurInv
<1>18. CASE makeWritable
  <2>1. SetWritable(primaryIdx) /\ pc' = "idle" /\ (db[primaryIdx].ssM \/ N = 1)
    BY <1>3, <1>18 DEF makeWritable, SemiSyncFirst, Idle
  <2>2. StoreInv'
    BY <1>0, <1>1, <2>1, WritableStore
  <2> QED BY <1>0, <1>1, <2>1, <2>2, EndDur
<1> QED BY <1>5, <1>6, <1>7, <1>8, <1>9, <1>10, <1>11, <1>12, <1>13, <1>14, <1>15,
       <1>16, <1>17, <1>18 DEF Configure

-----------------------------------------------------------------------------
(* GatherStatus, and passes that end *)

(* A step that touches no instance keeps the store. *)
LEMMA FrameStore ==
    ASSUME Inv, Inv', CompareInv, DurInv, UNCHANGED <<mysqlVars, primaryIdx>>
    PROVE  StoreInv' /\ DataKept
<1>1. ModeInv
  BY DEF DurInv, StoreInv
<1>2. TameDb /\ DataKept /\ UNCHANGED <<uuid, acks, acked>>
  BY <1>1, FrameTame, FrameTameDb
<1> QED BY <1>2, StatementStore

(* A pass that ends keeps the invariant. *)
LEMMA EndsDur ==
    ASSUME Inv, Inv', CompareInv, DurInv, pc' \in {"idle", "panic"},
           UNCHANGED <<mysqlVars, primaryIdx, source, restoring>>,
           events' = events \/ \E e \in Events : Happens(e)
    PROVE  DurInv'
<1>1. PlainInv
  BY DEF DurInv
<1> QED BY <1>1, FrameStore, EndDur

(* A call that fails or times out, an interrupted pass, the restart of the *)
(* controller, a failover that is given up and the end of a switchover.    *)
LEMMA FailureDur ==
    ASSUME Inv, Inv', CompareInv, DurInv,
           \/ CallFails \/ CallTimesOut \/ Abort \/ ControllerRestart
           \/ annotateStops \/ foGiveUp \/ swDemote
    PROVE  DurInv'
<1>1. /\ pc' \in {"idle", "panic"} /\ UNCHANGED mysqlVars
      /\ UNCHANGED <<primaryIdx, source, restoring>>
  BY DEF CallFails, CallTimesOut, Abort, ControllerRestart, annotateStops, Idle,
     foGiveUp, swDemote, Outside, kubeVars
<1>2. UNCHANGED events \/ Happens("abort")
  BY DEF CallFails, CallTimesOut, Abort, ControllerRestart, annotateStops, foGiveUp,
     swDemote, Outside
<1>3. "abort" \in Events
  BY DEF Events
<1> QED BY <1>1, <1>2, <1>3, EndsDur

(* What the conclusion of a pass is drawn from: the statuses that were     *)
(* gathered, without the hung replicas, and a new status of the primary.   *)
LEMMA ConclusionSeen ==
    ASSUME Inv, FinishGather
    PROVE  /\ ss'.primary = ss.primary /\ ss'.source = ss.source
           /\ ss'.known \subseteq ss.known
           /\ \A i \in ss'.known : i # ss.primary =>
                 ss'.st[i] = ss.st[i] /\ ~ss.st[i].waiting
           /\ ss.primary \in ss'.known => ss'.st[ss.primary] = GetStatus(ss.primary)
           /\ ss'.state = "Failed" => Cardinality(failedOk(ss')) > N \div 2
           /\ ss'.switchPod = ss.switchPod
           /\ ExecutedGTID(ss') # {} => \A i \in ss'.errants :
                 /\ i \in ss.known \ {ss.primary}
                 /\ \E t \in ss.st[i].exec :
                       t \notin db[ss.primary].exec /\ uuid[t] # ss.primary
           /\ ss'.state \in {"Healthy", "Degraded"} /\ N > 1 =>
                 /\ ss.primary \in ss'.known /\ ss'.st[ss.primary].ro = ss.source
                 /\ ss'.cand \in ss'.known \ {ss.primary}
                 /\ ss'.st[ss'.cand].src = ss.primary
<1>0. /\ PassTypeOK /\ MySQLTypeOK /\ PassInv /\ pc = "recheck"
      /\ ss \in StatusSetType /\ ss.primary \in Index /\ ss.known \subseteq Index
  BY DEF Inv, TypeOK, FinishGather, PassTypeOK, StatusSetType
<1>1. PICK ready \in SUBSET pods, delay \in BOOLEAN :
         ss' = Decided([WithoutHangups(WithErrants(Rechecked)) EXCEPT
                           !.ready = ready, !.prevent = delay])
  BY DEF FinishGather
<1> DEFINE a == Rechecked
           b == WithErrants(a)
           c == WithoutHangups(b)
           d == [c EXCEPT !.ready = ready, !.prevent = delay]
<1>3. /\ a \in StatusSetType /\ a.source = ss.source /\ a.primary = ss.primary
      /\ a.known = ss.known /\ a.recorded = ss.recorded /\ a.switchPod = ss.switchPod
      /\ \A i \in Index : i # ss.primary => a.st[i] = ss.st[i]
      /\ a.primary \in a.known => a.st[a.primary] = GetStatus(ss.primary)
  <2>1. GetStatus(ss.primary) \in InstanceStatus
    BY <1>0, GetStatusType
  <2> QED BY <1>0, <2>1 DEF Rechecked, StatusSetType, PstKnown
<1> HIDE DEF a
<1>4. /\ b \in StatusSetType /\ b.source = ss.source /\ b.primary = ss.primary
      /\ b.known = ss.known /\ b.st = a.st /\ b.errants = detectErrants(a, uuid)
      /\ b.switchPod = ss.switchPod
  <2>1. a.primary \notin a.recorded
    BY <1>0, <1>3 DEF PassInv, SnapshotInv
  <2>2. b \in StatusSetType
    BY <1>3, <2>1, WithErrantsType
  <2>3. b = [a EXCEPT !.errants = detectErrants(a, uuid)]
    BY DEF WithErrants
  <2> HIDE DEF detectErrants
  <2> QED BY <1>3, <2>2, <2>3 DEF StatusSetType
<1> HIDE DEF b
<1>5. /\ c \in StatusSetType /\ c.source = ss.source /\ c.primary = ss.primary
      /\ c.known = ss.known \ hangupReplicas(b) /\ c.errants = b.errants
      /\ c.switchPod = ss.switchPod
      /\ \A i \in c.known : c.st[i] = a.st[i]
  <2> DEFINE st == [i \in Index |-> IF i \in hangupReplicas(b) THEN NilStatus
                                    ELSE b.st[i]]
  <2>1. c \in StatusSetType
    BY <1>4, WithoutHangupsType
  <2>2. c = [b EXCEPT !.known = b.known \ hangupReplicas(b), !.st = st]
    BY <1>4 DEF WithoutHangups, StatusSetType
  <2>3. \A i \in ss.known \ hangupReplicas(b) : st[i] = a.st[i]
    BY <1>0, <1>4
  <2>4. c.st = st /\ c.known = b.known \ hangupReplicas(b) /\ c.source = b.source
        /\ c.primary = b.primary /\ c.errants = b.errants /\ c.switchPod = b.switchPod
    <3> HIDE DEF st
    <3> QED BY <1>4, <2>2 DEF StatusSetType
  <2> HIDE DEF st
  <2> QED BY <1>4, <2>1, <2>3, <2>4
<1> HIDE DEF c
<1>6. /\ d.source = ss.source /\ d.primary = ss.primary /\ d.known = c.known
      /\ d.st = c.st /\ d.errants = c.errants /\ d \in StatusSetType
      /\ d.switchPod = c.switchPod
  <2>1. ready \subseteq Index /\ delay \in BOOLEAN
    BY <1>1 DEF Inv, TypeOK, KubeTypeOK
  <2> QED BY <1>5, <2>1 DEF StatusSetType
<1>7. ss' = Decided(d)
  BY <1>1 DEF c, b, a
<1> HIDE DEF d
<1>8. /\ ss'.source = d.source /\ ss'.primary = d.primary /\ ss'.known = d.known
      /\ ss'.st = d.st /\ ss'.errants = d.errants /\ ss'.state = DecideState(d)
      /\ ss'.switchPod = d.switchPod
      /\ Candidates(d) # {} => ss'.cand = LowestOrdinal(Candidates(d))
  BY <1>6, <1>7 DEF Decided, StatusSetType
<1>9. failedOk(ss') = failedOk(d)
  BY <1>8 DEF failedOk, Replicas
<1>10. DecideState(d) = "Failed" => isFailed(d)
  BY DEF DecideState
<1>11. ss'.state = "Failed" => Cardinality(failedOk(ss')) > N \div 2
  BY <1>8, <1>9, <1>10 DEF isFailed
<1>12. ASSUME NEW i \in ss'.known, i # ss.primary
       PROVE  ss'.st[i] = ss.st[i] /\ ~ss.st[i].waiting
  <2>1. i \in ss.known /\ i \notin hangupReplicas(b) /\ i \in Index /\ i \in c.known
    BY <1>0, <1>5, <1>6, <1>8, <1>12
  <2>2. ss'.st[i] = a.st[i] /\ a.st[i] = ss.st[i]
    BY <1>3, <1>5, <1>6, <1>8, <1>12, <2>1
  <2>3. ~b.st[i].waiting
    BY <1>4, <1>12, <2>1 DEF hangupReplicas
  <2> QED BY <1>4, <2>2, <2>3
<1>13. ss.primary \in ss'.known => ss'.st[ss.primary] = GetStatus(ss.primary)
  BY <1>3, <1>5, <1>6, <1>8
<1>14. ASSUME ExecutedGTID(ss') # {}, NEW i \in ss'.errants
       PROVE  /\ i \in ss.known \ {ss.primary}
              /\ \E t \in ss.st[i].exec :
                    t \notin db[ss.primary].exec /\ uuid[t] # ss.primary
  <2>1. ss.primary \in ss'.known
    BY <1>6, <1>8, <1>14 DEF ExecutedGTID, PstKnown
  <2>2. ss.primary \in ss.known /\ ExecutedGTID(ss') = ExecutedGTID(a)
    BY <1>3, <1>5, <1>6, <1>8, <2>1 DEF ExecutedGTID, PstKnown, Pst
  <2>3. ExecutedGTID(a) = db[ss.primary].exec
    BY <1>3, <2>2 DEF ExecutedGTID, PstKnown, Pst, GetStatus
  <2>4. i \in detectErrants(a, uuid)
    BY <1>4, <1>5, <1>6, <1>8
  <2>5. /\ i \in a.known \ {a.primary}
        /\ \E t \in a.st[i].exec \ ExecutedGTID(a) : uuid[t] # a.primary
    BY <1>14, <2>2, <2>4 DEF detectErrants, containErrantTransactions
  <2>6. i \in ss.known \ {ss.primary} /\ a.st[i] = ss.st[i]
    BY <1>0, <1>3, <2>5
  <2> QED BY <1>3, <2>3, <2>5, <2>6
<1>15. ASSUME ss'.state \in {"Healthy", "Degraded"}, N > 1
       PROVE  /\ ss.primary \in ss'.known /\ ss'.st[ss.primary].ro = ss.source
              /\ ss'.cand \in ss'.known \ {ss.primary}
              /\ ss'.st[ss'.cand].src = ss.primary
  <2>1. OperationsHaveTheirTargets(d)
    BY <1>0, <1>6, OperationsHaveTargets
  <2>2. /\ PstKnown(d) /\ Candidates(d) # {}
        /\ \A i \in Candidates(d) : i # d.primary /\ FollowsPrimary(d, i)
    BY <1>8, <1>15, <2>1 DEF OperationsHaveTheirTargets
  <2>3. isHealthy(d) \/ isDegraded(d)
    BY <1>8, <1>15 DEF DecideState
  <2>4. Pst(d).ro = d.source
    BY <2>3 DEF isHealthy, isDegraded, primaryModeOk
  <2>5. Candidates(d) \subseteq Nat
    BY IndexFacts DEF Candidates, Replicas, degradedOk
  <2>6. ss'.cand \in Candidates(d)
    <3> HIDE DEF Candidates
    <3> QED BY <1>8, <2>2, <2>5, LowestOrdinalExists
  <2>7. ss'.cand # d.primary /\ FollowsPrimary(d, ss'.cand)
    BY <2>2, <2>6
  <2> QED BY <1>6, <1>8, <2>2, <2>4, <2>7 DEF PstKnown, Pst, FollowsPrimary
<1> QED BY <1>5, <1>6, <1>8, <1>11, <1>12, <1>13, <1>14, <1>15

(* What a status says when it is read. *)
LEMMA StatusFacts ==
    ASSUME NEW i
    PROVE  /\ GetStatus(i).ro = db[i].ro /\ GetStatus(i).exec = db[i].exec
           /\ GetStatus(i).src = db[i].src /\ GetStatus(i).retrieved = db[i].relay
           /\ GetStatus(i).waiting = (db[i].wait # {})
BY DEF GetStatus

(* An instance without waiting sessions has none that can succeed. *)
LEMMA NoneWaits == ASSUME NEW j, db[j].wait = {} PROVE CannotAck(j)
BY DEF CannotAck

(* The fence does not depend on the pass. *)
LEMMA CannotAckFrame ==
    ASSUME NEW j, UNCHANGED mysqlVars PROVE CannotAck(j)' <=> CannotAck(j)
BY DEF CannotAck, Feeding, mysqlVars

(* GatherStatus keeps the invariant. *)
LEMMA GatherDur ==
    ASSUME Inv, Inv', CompareInv, DurInv, Gather PROVE DurInv'
<1>0. /\ PlainInv /\ StageInv /\ SeenInv /\ FailoverInv /\ ss \in StatusSetType
      /\ ss.known \subseteq Index /\ ss.primary \in Index /\ events \in [Events -> Nat]
  BY DEF DurInv, StageInv, Inv, TypeOK, PassTypeOK, StatusSetType
<1>1. CASE GatherBegin
  <2>1. /\ UNCHANGED <<mysqlVars, primaryIdx, source, restoring, events>>
        /\ pc' = "gather" /\ ss'.known = {} /\ ss'.source = source
    BY <1>1 DEF GatherBegin, Outside, kubeVars, NoStatusSet
  <2>2. StoreInv'
    BY <2>1, FrameStore
  <2>3. PlainInv'
    BY <1>0, <2>1 DEF PlainInv
  <2>4. StageInv'
    BY <2>1 DEF StageInv, SeenInv, LoopInv, FailoverInv, CarryInv
  <2> QED BY <2>2, <2>3, <2>4 DEF DurInv
<1>2. ASSUME NEW k \in Index, ReadStatus(k) PROVE DurInv'
  <2>1. /\ UNCHANGED <<mysqlVars, primaryIdx, source, restoring, events>>
        /\ pc = "gather" /\ pc' \in {"gather", "recheck"}
        /\ ss' = ss \/ ss' = [ss EXCEPT !.known = @ \cup {k}, !.st[k] = GetStatus(k)]
    BY <1>2 DEF ReadStatus, Outside, kubeVars
  <2>2. StoreInv' /\ UNCHANGED db
    BY <2>1, FrameStore DEF mysqlVars
  <2>3. ss'.source = ss.source /\ ss'.primary = ss.primary
        /\ ss'.known \subseteq ss.known \cup {k}
        /\ \A i \in ss'.known : \/ i = k /\ ss'.st[i] = GetStatus(k)
                                \/ i \in ss.known /\ ss'.st[i] = ss.st[i]
    <3>1. CASE ss' = ss
      BY <3>1
    <3>2. CASE ss' = [ss EXCEPT !.known = @ \cup {k}, !.st[k] = GetStatus(k)]
      BY <1>0, <1>2, <3>2 DEF StatusSetType
    <3> QED BY <2>1, <3>1, <3>2
  <2>4. PlainInv'
    BY <1>0, <2>1, <2>3 DEF PlainInv
  <2>5. SeenInv'
    BY <1>0, <2>1, <2>2, <2>3, StatusFacts DEF SeenInv
  <2>6. FailoverInv'
    <3>1. ASSUME NEW j \in ss'.known \ {ss.primary}, ~ss'.st[j].waiting
          PROVE  CannotAck(j)
      <4>1. CASE j = k /\ ss'.st[j] = GetStatus(k)
        BY <3>1, <4>1, StatusFacts, NoneWaits
      <4>2. CASE j \in ss.known /\ ss'.st[j] = ss.st[j]
        BY <1>0, <2>1, <3>1, <4>2 DEF FailoverInv
      <4> QED BY <2>3, <3>1, <4>1, <4>2
    <3> QED BY <2>1, <2>3, <3>1, CannotAckFrame DEF FailoverInv
  <2>7. LoopInv' /\ CarryInv'
    BY <2>1 DEF LoopInv, CarryInv
  <2> QED BY <2>2, <2>4, <2>5, <2>6, <2>7 DEF DurInv, StageInv
<1>3. CASE FinishGather
  <2>1. /\ UNCHANGED <<mysqlVars, primaryIdx, source, restoring>>
        /\ pc = "recheck" /\ pc' = "update"
        /\ events' = events \/ \E e \in {"delay", "flaky"} : Happens(e)
    BY <1>3, SeenFacts DEF kubeVars
  <2>2. StoreInv' /\ UNCHANGED db
    BY <2>1, FrameStore DEF mysqlVars
  <2>3. /\ ss'.primary = ss.primary /\ ss'.source = ss.source
        /\ ss'.known \subseteq ss.known
        /\ \A i \in ss'.known : i # ss.primary =>
              ss'.st[i] = ss.st[i] /\ ~ss.st[i].waiting
        /\ ss.primary \in ss'.known => ss'.st[ss.primary] = GetStatus(ss.primary)
        /\ ss'.state = "Failed" => Cardinality(failedOk(ss')) > N \div 2
    BY <1>3, ConclusionSeen
  <2>4. PlainInv'
    <3>1. events'["unlock"] = 0
      BY <1>0, <2>1, SpentKept DEF PlainInv, Events
    <3> QED BY <1>0, <2>1, <2>3, <3>1 DEF PlainInv
  <2>5. SeenInv'
    BY <1>0, <2>1, <2>2, <2>3, StatusFacts DEF SeenInv
  <2>6. FailoverInv'
    <3>1. \A j \in ss'.known \ {ss.primary} : CannotAck(j)
      BY <1>0, <2>1, <2>3 DEF FailoverInv
    <3>2. \A j \in ss'.known \ {ss'.primary} : CannotAck(j)'
      BY <2>1, <2>3, <3>1, CannotAckFrame
    <3> QED BY <2>1, <2>3, <3>2 DEF FailoverInv
  <2>7. LoopInv' /\ CarryInv'
    BY <2>1 DEF LoopInv, CarryInv
  <2> QED BY <2>2, <2>4, <2>5, <2>6, <2>7 DEF DurInv, StageInv
<1> QED BY <1>1, <1>2, <1>3 DEF Gather

-----------------------------------------------------------------------------
(* The report, and the choice of the operation *)

(* updateStatus keeps the invariant. *)
LEMMA UpdateDur ==
    ASSUME Inv, Inv', CompareInv, DurInv, updateStatus PROVE DurInv'
<1>0. PlainInv /\ SeenInv /\ FailoverInv
  BY DEF DurInv, StageInv
<1>1. /\ UNCHANGED <<mysqlVars, primaryIdx, source, restoring, events, ss>>
      /\ pc = "update" /\ pc' = "annotate"
  BY DEF updateStatus
<1>2. StoreInv' /\ UNCHANGED db
  BY <1>1, FrameStore DEF mysqlVars
<1>3. PlainInv'
  BY <1>0, <1>1 DEF PlainInv
<1>4. SeenInv'
  BY <1>0, <1>1, <1>2 DEF SeenInv
<1>5. FailoverInv'
  <2>1. \A j \in ss.known \ {ss.primary} : CannotAck(j)'
    BY <1>0, <1>1, CannotAckFrame DEF FailoverInv
  <2>2. ss.state = "Failed" => Cardinality(failedOk(ss)) > N \div 2
    BY <1>0, <1>1 DEF FailoverInv
  <2> HIDE DEF CannotAck
  <2> QED BY <1>1, <2>1, <2>2 DEF FailoverInv
<1>6. LoopInv' /\ CarryInv'
  BY <1>1 DEF LoopInv, CarryInv
<1> QED BY <1>2, <1>3, <1>4, <1>5, <1>6 DEF DurInv, StageInv

(* The operations of a cluster without a replication source. *)
LEMMA PlainOperation ==
    ASSUME PassTypeOK, ~ss.source, ss.state # "Cloning"
    PROVE  \/ ToOperation = <<"foStop", ss.known \ {ss.primary}>> /\ ss.state = "Failed"
           \/ ToOperation = <<"swReadOnly", {ss.primary}>>
           \/ ToOperation = <<"unlabel", StaleLabels>>
           \/ PlainDest(ToOperation)
<1>1. PlainDest(ToIdle) /\ PlainDest(ToKill)
  BY PlainDestinations
<1>2. ToConfigure = <<"unlabel", StaleLabels>> \/ PlainDest(ToConfigure)
  <2> HIDE DEF PlainDest
  <2> QED BY <1>1 DEF ToConfigure
<1>3. ~Cloneable
  BY DEF Cloneable
<1> HIDE DEF PlainDest
<1> QED BY <1>1, <1>2, <1>3 DEF ToOperation

(* The operation that a pass chooses begins with what it needs. *)
LEMMA AnnotateDur ==
    ASSUME Inv, Inv', CompareInv, DurInv, annotate PROVE DurInv'
<1>0. /\ PassTypeOK /\ PlainInv /\ SeenInv /\ FailoverInv /\ ss.known \subseteq Index
      /\ ss.primary \in Index /\ CloneInv
  BY DEF DurInv, StageInv, Inv, TypeOK, PassTypeOK, StatusSetType, CompareInv
<1>1. /\ UNCHANGED <<mysqlVars, primaryIdx, source, restoring, events>>
      /\ pc = "annotate" /\ Take(ToOperation)
  BY DEF annotate
<1>2. StoreInv' /\ UNCHANGED db /\ DataKept
  BY <1>1, FrameStore DEF mysqlVars
<1>3. ~ss.source /\ ss.state # "Cloning"
  BY <1>0, <1>1 DEF PlainInv, CloneInv
<1>4. \A i \in ss.known : /\ ss.st[i].ro => db[i].ro
                          /\ ss.st[i].exec \subseteq db[i].exec
                          /\ ss.st[i].exec # {} /\ ss.st[i].src # NoSource =>
                                db[i].src # NoSource
  BY <1>0, <1>1 DEF SeenInv
<1>a. ASSUME NEW d \in PassSteps \X SUBSET Index, ToOperation = d,
             d[1] \in {"foStop", "swReadOnly", "unlabel"}
      PROVE  pc' = d[1] /\ SameView /\ PlainInv' /\ SeenInv' /\ LoopInv' /\ CarryInv'
  <2>1. pc' = d[1] /\ SameView
    BY <1>0, <1>1, <1>a, TakeType
  <2>2. SameSpec
    BY <1>0, <1>1, <1>a, <2>1, TakeSpec
  <2>3. PlainInv'
    BY <1>0, <1>1, <1>3, <1>a, <2>1, <2>2 DEF PlainInv, SameSpec
  <2>4. SeenInv'
    BY <1>2, <1>4, <2>1 DEF SeenInv, SameView
  <2>5. LoopInv' /\ CarryInv'
    BY <1>a, <2>1 DEF LoopInv, CarryInv
  <2> QED BY <2>1, <2>3, <2>4, <2>5
<1>5. CASE /\ ToOperation = <<"foStop", ss.known \ {ss.primary}>>
           /\ ss.state = "Failed"
  <2>1. <<"foStop", ss.known \ {ss.primary}>> \in PassSteps \X SUBSET Index
    BY <1>0 DEF PassSteps
  <2>2. /\ pc' = "foStop" /\ SameView /\ PlainInv' /\ SeenInv' /\ LoopInv' /\ CarryInv'
    BY <1>5, <1>a, <2>1
  <2>3. FailoverInv'
    <3>1. \A j \in ss.known \ {ss.primary} : CannotAck(j)'
      BY <1>0, <1>1, CannotAckFrame DEF FailoverInv
    <3>2. Cardinality(failedOk(ss')) > N \div 2
      BY <1>0, <1>1, <1>5, <2>2, SameFailedOk DEF FailoverInv
    <3> HIDE DEF CannotAck
    <3> QED BY <2>2, <3>1, <3>2 DEF FailoverInv, SameView
  <2> QED BY <1>2, <2>2, <2>3 DEF DurInv, StageInv
<1>6. ASSUME NEW d \in PassSteps \X SUBSET Index, ToOperation = d,
             d[1] \in {"swReadOnly", "unlabel"}
      PROVE  DurInv'
  <2>1. /\ pc' = d[1] /\ PlainInv' /\ SeenInv' /\ LoopInv' /\ CarryInv'
    BY <1>6, <1>a
  <2>2. FailoverInv'
    BY <1>6, <2>1 DEF FailoverInv
  <2> QED BY <1>2, <2>1, <2>2 DEF DurInv, StageInv
<1>7. CASE ToOperation = <<"swReadOnly", {ss.primary}>> \/ ToOperation = <<"unlabel", StaleLabels>>
  <2>1. /\ <<"swReadOnly", {ss.primary}>> \in PassSteps \X SUBSET Index
        /\ <<"unlabel", StaleLabels>> \in PassSteps \X SUBSET Index
    BY <1>0 DEF PassSteps, StaleLabels
  <2> HIDE DEF ToOperation
  <2> QED BY <1>6, <1>7, <2>1
<1>8. CASE PlainDest(ToOperation)
  <2>1. GoodDest(ToOperation)
    BY <1>0, <1>1, <1>2, <1>8, PlainGood
  <2>2. PlainInv' /\ StageInv'
    BY <1>1, <1>2, <2>1, ConfigureTake
  <2> QED BY <1>2, <2>2 DEF DurInv
<1> QED BY <1>0, <1>3, <1>5, <1>7, <1>8, PlainOperation

(* The clone from outside is not used without a replication source. *)
LEMMA NoClone == ASSUME PlainInv, Clone PROVE FALSE
BY DEF PlainInv, Clone, cloneBegin, cloneEnd, Calling

-----------------------------------------------------------------------------
(* switchover *)

(* A new primary is recorded. *)
LEMMA IndexStore ==
    ASSUME MySQLTypeOK, StoreInv, UNCHANGED mysqlVars, NEW c \in Index, primaryIdx' = c,
           acked \subseteq db[c].exec,
           \A j \in Index \ {c} :
               /\ ~db[j].ro => Cardinality(Feeding(j)) < N \div 2
               /\ \A t \in db[j].wait :
                     t \in db[c].exec \/ Cardinality(acks[t] \cup Feeding(j)) < N \div 2
    PROVE  StoreInv'
<1>1. UNCHANGED <<db, uuid, acks, acked>>
  BY DEF mysqlVars
<1>2. \A j \in Index : Feeding(j)' = Feeding(j)
  BY <1>1 DEF Feeding
<1>3. HistoryInv' /\ ModeInv'
  <2>1. \A t : Holders(t)' = Holders(t)
    BY <1>1 DEF Holders, Has
  <2>2. \A i \in Index : Has(i)' = Has(i)
    BY <1>1 DEF Has
  <2>3. ModeInv'
    BY <1>1 DEF StoreInv, ModeInv
  <2> HIDE DEF Holders, Has
  <2>4. \A t \in Txn : acks[t] \subseteq Index
    BY DEF MySQLTypeOK
  <2>5. HistoryInv'
    BY <1>1, <2>1, <2>2, <2>4 DEF StoreInv, HistoryInv
  <2> QED BY <2>3, <2>5
<1>4. FenceInv'
  <2> HIDE DEF Feeding
  <2> QED BY <1>1, <1>2 DEF FenceInv, Fenced
<1>5. Durability'
  BY <1>1 DEF Durability
<1> QED BY <1>3, <1>4, <1>5 DEF StoreInv

(* Taking a destination keeps the goal of the wait. *)
LEMMA TakeGoal ==
    ASSUME PassTypeOK, NEW dest, Take(dest), pc' # "idle" PROVE ss'.goal = ss.goal
<1>1. ss' = [ss EXCEPT !.ready = {}, !.switchPod = FALSE, !.annotated = {}]
  BY DEF Take
<1>2. ss \in StatusSetType
  BY DEF PassTypeOK
<1> QED BY <1>1, <1>2 DEF StatusSetType

(* The old primary is locked before its transactions are waited for. *)
LEMMA SwitchStage ==
    ASSUME Inv, DurInv, DataKept, \A i \in Index : db[i].ro => db'[i].ro,
           pc \notin {"idle", "panic"}, UNCHANGED <<source, restoring, events, primaryIdx>>,
           ss'.known = ss.known, ss'.st = ss.st, ss'.source = ss.source,
           \/ pc' \in {"swReadOnly", "swDemote"}
           \/ pc' \in {"swKill", "swStatus"} /\ db'[primaryIdx].ro
           \/ /\ pc' \in {"swWait", "swIndex"} /\ db'[primaryIdx].ro
              /\ acked' \subseteq ss'.goal /\ Fenced(ss.goal)'
              /\ pc' = "swIndex" => ss'.goal \subseteq db'[ss'.cand].exec
    PROVE  PlainInv' /\ StageInv'
<1>0. PlainInv /\ SeenInv /\ ss.known \subseteq Index
  BY DEF DurInv, StageInv, Inv, TypeOK, PassTypeOK, StatusSetType
<1>1. PlainInv'
  BY <1>0 DEF PlainInv
<1>2. SeenInv'
  <2>1. \A i \in Index : db[i].exec \subseteq db'[i].exec
    BY DEF DataKept
  <2>2. \A i \in ss.known : /\ ss.st[i].ro => db'[i].ro
                            /\ ss.st[i].exec \subseteq db'[i].exec
    BY <1>0, <2>1 DEF SeenInv
  <2> QED BY <2>2 DEF SeenInv
<1>3. LoopInv' /\ FailoverInv'
  BY DEF LoopInv, FailoverInv
<1>4. CarryInv'
  BY DEF CarryInv
<1> QED BY <1>1, <1>2, <1>3, <1>4 DEF StageInv

(* switchover keeps the invariant: the old primary is locked, and all that *)
(* is or can be acknowledged has reached the new one.                      *)
LEMMA SwitchoverDur ==
    ASSUME Inv, Inv', CompareInv, DurInv, DataKept, Switchover PROVE DurInv'
<1>0. /\ MySQLTypeOK /\ MySQLTypeOK' /\ PassTypeOK /\ ModeInv /\ StoreInv /\ PlainInv
      /\ CarryInv /\ FenceInv /\ Durability
      /\ primaryIdx \in Index /\ ss.primary \in Index /\ ss \in StatusSetType
  BY DEF Inv, TypeOK, DurInv, StoreInv, StageInv, PassTypeOK, StatusSetType, KubeTypeOK
<1>1. pc \in SwAll \cup {"swIndex"} => ss.primary = primaryIdx
  BY DEF Inv, PassInv, SnapshotInv, SwAll
<1>a. UNCHANGED Outside => UNCHANGED <<source, restoring, events, primaryIdx>>
  BY DEF Outside, kubeVars
<1>b. ASSUME NEW d \in PassSteps \X SUBSET Index, Take(d), d[1] # "idle"
      PROVE  /\ pc' = d[1] /\ ss'.known = ss.known /\ ss'.st = ss.st
             /\ ss'.source = ss.source /\ ss'.goal = ss.goal /\ ss'.cand = ss.cand
  BY <1>0, <1>b, TakeType, TakeSpec, TakeGoal DEF SameView, SameSpec
<1>c. todo \subseteq Index
  BY <1>0 DEF PassTypeOK
<1>2. CASE swReadOnly
  <2>1. /\ SetReadOnly(primaryIdx) /\ Take(<<"swKill", todo>>) /\ pc = "swReadOnly"
        /\ UNCHANGED <<source, restoring, events, primaryIdx>>
    BY <1>1, <1>2, <1>a DEF swReadOnly, Calling, SwAll
  <2>2. /\ pc' = "swKill" /\ ss'.known = ss.known /\ ss'.st = ss.st
        /\ ss'.source = ss.source
    BY <1>b, <1>c, <2>1 DEF PassSteps
  <2>3. TameDb /\ UNCHANGED <<uuid, acks, acked>>
    BY <1>0, <2>1, StatementTame DEF SetReadOnly
  <2>4. StoreInv' /\ \A i \in Index : db[i].ro => db'[i].ro
    BY <2>1, <2>3, StatementStore
  <2>5. db'[primaryIdx].ro
    <3>1. db[primaryIdx] \in Instance /\ db' = [db EXCEPT ![primaryIdx].ro = TRUE]
      BY <1>0, <2>1 DEF MySQLTypeOK, SetReadOnly
    <3> QED BY <1>0, <3>1 DEF MySQLTypeOK, Instance
  <2>6. PlainInv' /\ StageInv'
    BY <2>1, <2>2, <2>4, <2>5, SwitchStage
  <2> QED BY <2>4, <2>6 DEF DurInv
<1>3. CASE swReadOnlySlow
  <2>1. /\ KillConnections(primaryIdx) /\ pc = "swReadOnly" /\ pc' = pc /\ ss' = ss
        /\ UNCHANGED <<source, restoring, events, primaryIdx>>
    BY <1>1, <1>3, <1>a DEF swReadOnlySlow, Calling, SwAll, passVars
  <2>2. TameDb /\ UNCHANGED <<uuid, acks, acked>>
    BY <1>0, <2>1, StatementTame DEF KillConnections
  <2>3. StoreInv' /\ \A i \in Index : db[i].ro => db'[i].ro
    BY <2>1, <2>2, StatementStore
  <2>4. PlainInv' /\ StageInv'
    BY <2>1, <2>3, SwitchStage
  <2> QED BY <2>3, <2>4 DEF DurInv
<1>4. CASE swKill
  <2>1. /\ KillConnections(primaryIdx) /\ Take(<<"swStatus", todo>>) /\ pc = "swKill"
        /\ UNCHANGED <<source, restoring, events, primaryIdx>>
    BY <1>1, <1>4, <1>a DEF swKill, Calling, SwAll
  <2>2. /\ pc' = "swStatus" /\ ss'.known = ss.known /\ ss'.st = ss.st
        /\ ss'.source = ss.source
    BY <1>b, <1>c, <2>1 DEF PassSteps
  <2>3. TameDb /\ UNCHANGED <<uuid, acks, acked>>
    BY <1>0, <2>1, StatementTame DEF KillConnections
  <2>4. StoreInv' /\ \A i \in Index : db[i].ro => db'[i].ro
    BY <2>1, <2>3, StatementStore
  <2>5. db'[primaryIdx].ro
    BY <1>0, <2>1, <2>4 DEF CarryInv
  <2>6. PlainInv' /\ StageInv'
    BY <2>1, <2>2, <2>4, <2>5, SwitchStage
  <2> QED BY <2>4, <2>6 DEF DurInv
<1>5. CASE swStatus
  <2>1. /\ pc = "swStatus" /\ ss' = [ss EXCEPT !.goal = db[primaryIdx].exec] /\ pc' = "swWait"
        /\ UNCHANGED <<mysqlVars, source, restoring, events, primaryIdx>>
    BY <1>1, <1>5, <1>a DEF swStatus, Calling, SwAll
  <2>2. /\ ss'.known = ss.known /\ ss'.st = ss.st /\ ss'.source = ss.source
        /\ ss'.goal = db[primaryIdx].exec
    BY <1>0, <2>1 DEF StatusSetType
  <2>3. StoreInv' /\ UNCHANGED <<db, acks, acked>>
    BY <2>1, FrameStore DEF mysqlVars
  <2>4. db'[primaryIdx].ro /\ acked' \subseteq ss'.goal
    BY <1>0, <2>1, <2>2, <2>3 DEF CarryInv, Durability
  <2>5. Fenced(ss.goal)'
    BY <1>0, <2>1, <2>2, <2>3 DEF FenceInv, Fenced, Feeding
  <2>6. PlainInv' /\ StageInv'
    <3> HIDE DEF Fenced
    <3> QED BY <2>1, <2>2, <2>3, <2>4, <2>5, SwitchStage
  <2> QED BY <2>3, <2>6 DEF DurInv
<1>6. CASE swWait
  <2>1. /\ pc = "swWait" /\ Take(<<"swIndex", {}>>) /\ ss.goal \subseteq db[ss.cand].exec
        /\ UNCHANGED <<mysqlVars, source, restoring, events, primaryIdx>>
    BY <1>6, <1>a DEF swWait, Calling, WaitForGTID
  <2>2. /\ pc' = "swIndex" /\ ss'.known = ss.known /\ ss'.st = ss.st
        /\ ss'.source = ss.source /\ ss'.goal = ss.goal /\ ss'.cand = ss.cand
    BY <1>b, <2>1 DEF PassSteps
  <2>3. StoreInv' /\ UNCHANGED <<db, acks, acked>>
    BY <2>1, FrameStore DEF mysqlVars
  <2>4. db'[primaryIdx].ro /\ acked' \subseteq ss'.goal /\ ss'.goal \subseteq db'[ss'.cand].exec
    BY <1>0, <2>1, <2>2, <2>3 DEF CarryInv
  <2>5. Fenced(ss.goal)'
    BY <1>0, <2>1, <2>2, <2>3 DEF CarryInv, Fenced, Feeding
  <2>6. PlainInv' /\ StageInv'
    <3> HIDE DEF Fenced
    <3> QED BY <2>1, <2>2, <2>3, <2>4, <2>5, SwitchStage
  <2> QED BY <2>3, <2>6 DEF DurInv
<1>7. CASE swIndex
  <2> DEFINE d == IF ss.demoted THEN <<"swDemote", {}>> ELSE ToIdle
  <2>1. /\ pc = "swIndex" /\ primaryIdx' = ss.cand /\ Take(d)
        /\ UNCHANGED <<mysqlVars, source, restoring, events>>
        /\ d \in PassSteps \X SUBSET Index /\ d[1] \in {"idle", "swDemote"}
    BY <1>7 DEF swIndex, ToIdle, PassSteps
  <2> HIDE DEF d
  <2>2. /\ db[primaryIdx].ro /\ acked \subseteq ss.goal /\ Fenced(ss.goal)
        /\ ss.goal \subseteq db[ss.cand].exec /\ ss.cand \in Index
    BY <1>0, <2>1 DEF CarryInv, Inv, PassInv, SwitchInv, SwitchPlanned
  <2>3. \A j \in Index \ {ss.cand} :
            /\ ~db[j].ro => Cardinality(Feeding(j)) < N \div 2
            /\ \A t \in db[j].wait : t \in db[ss.cand].exec
                  \/ Cardinality(acks[t] \cup Feeding(j)) < N \div 2
    <3>1. db[primaryIdx].wait = {}
      BY <1>0, <2>2 DEF ModeInv
    <3> HIDE DEF Feeding
    <3> QED BY <1>0, <2>2, <3>1 DEF FenceInv, Fenced
  <2>4. StoreInv'
    BY <1>0, <2>1, <2>2, <2>3, IndexStore
  <2>5. CASE d[1] = "idle"
    <3>1. pc' = "idle"
      BY <1>0, <2>1, <2>5, TakeType
    <3> QED BY <1>0, <2>1, <2>4, <3>1, EndDur
  <2>6. CASE d[1] = "swDemote"
    <3>1. pc' = "swDemote" /\ ss'.known = ss.known /\ ss'.st = ss.st /\ ss'.source = ss.source
      BY <1>b, <2>1, <2>6
    <3>2. PlainInv'
      BY <1>0, <2>1, <3>1 DEF PlainInv
    <3>3. SeenInv'
      BY <2>1, <3>1 DEF DurInv, StageInv, SeenInv, mysqlVars
    <3>4. LoopInv' /\ FailoverInv' /\ CarryInv'
      BY <3>1 DEF LoopInv, FailoverInv, CarryInv
    <3> QED BY <2>4, <3>2, <3>3, <3>4 DEF DurInv, StageInv
  <2> QED BY <2>1, <2>5, <2>6
<1>8. CASE swDemote
  BY <1>8, FailureDur
<1> QED BY <1>2, <1>3, <1>4, <1>5, <1>6, <1>7, <1>8 DEF Switchover

-----------------------------------------------------------------------------
(* failover *)

(* Without a majority and one more instance, less than half remain. *)
LEMMA Outnumbered ==
    ASSUME NEW F \in SUBSET Index, Cardinality(F) > N \div 2, NEW j \in Index \ F,
           NEW A \in SUBSET (Index \ (F \cup {j}))
    PROVE  Cardinality(A) < N \div 2
<1> DEFINE B == F \cup {j}
           C == Index \ B
           f == Cardinality(F)
           a == Cardinality(A)
           half == N \div 2
<1>1. IsFiniteSet(F) /\ f \in Nat
  BY SubsetCard
<1>2. Cardinality(B) = f + 1
  BY <1>1, FS_AddElement
<1>3. Index \cap B = B
  OBVIOUS
<1>4. Cardinality(C) = N - (f + 1)
  BY <1>2, <1>3, IndexFacts, FS_Difference
<1>5. a <= N - (f + 1) /\ a \in Nat
  <2>1. C \in SUBSET Index /\ A \in SUBSET C
    OBVIOUS
  <2> HIDE DEF C, a
  <2>2. Cardinality(A) <= Cardinality(C) /\ Cardinality(A) \in Nat
    BY <2>1, SubsetCard
  <2> QED BY <1>4, <2>2 DEF a
<1>6. half \in Nat /\ 2 * half + 1 = N /\ f > half
  BY HalfFacts
<1>7. a < half
  <2> HIDE DEF a, f, half, B, C
  <2> QED BY <1>1, <1>5, <1>6
<1> QED BY <1>7

(* Two majorities meet. *)
LEMMA Majorities ==
    ASSUME NEW F \in SUBSET Index, Cardinality(F) > N \div 2,
           NEW G \in SUBSET Index, Cardinality(G) > N \div 2
    PROVE  \E k \in F : k \in G
<1> DEFINE f == Cardinality(F)
           g == Cardinality(G)
           half == N \div 2
<1>1. f \in Nat /\ g \in Nat /\ half \in Nat /\ 2 * half + 1 = N /\ f > half /\ g > half
  BY SubsetCard, HalfFacts
<1>2. f + g > N
  <2> HIDE DEF f, g, half
  <2> QED BY <1>1
<1>3. F \cap G # {}
  BY <1>2, IndexFacts, FS_MajoritiesIntersect
<1> QED BY <1>3

(* The steps of a failover that only look at the statuses. *)
LEMMA CompareStage ==
    ASSUME Inv, Inv', CompareInv, DurInv, pc \in CompareSteps, pc' \in CompareSteps,
           UNCHANGED <<mysqlVars, primaryIdx, source, restoring, events>>,
           ss'.known = ss.known, ss'.st = ss.st, ss'.errants = ss.errants,
           ss'.primary = ss.primary, ss'.source = ss.source,
           pc' \in {"foWait", "foIndex"} => ss'.goal = ss.st[ss'.cand].retrieved,
           pc' = "foIndex" => ss'.goal \subseteq db[ss'.cand].exec
    PROVE  DurInv'
<1>0. PlainInv /\ SeenInv /\ FailoverInv
  BY DEF DurInv, StageInv
<1>1. StoreInv' /\ UNCHANGED <<db, acked>>
  BY FrameStore DEF mysqlVars
<1>2. PlainInv'
  BY <1>0 DEF PlainInv, CompareSteps
<1>3. SeenInv'
  BY <1>0, <1>1 DEF SeenInv, CompareSteps
<1>4. Runners' = Runners /\ failedOk(ss') = failedOk(ss)
  BY DEF Runners, failedOk, Replicas
<1>5. FailoverInv'
  <2>1. \A j \in ss.known \ {ss.primary} : CannotAck(j)'
    BY <1>0, CannotAckFrame DEF FailoverInv, CompareSteps
  <2>2. Cardinality(failedOk(ss)) > N \div 2
    BY <1>0 DEF FailoverInv, CompareSteps
  <2>3. \A i \in Runners : acked \cap Has(i) \subseteq Gtids(ss.st[i])
    BY <1>0 DEF FailoverInv, CompareSteps
  <2>4. \A i \in Runners : Has(i)' = Has(i)
    BY <1>1 DEF Has
  <2> HIDE DEF CannotAck, Has
  <2> QED BY <1>1, <1>4, <2>1, <2>2, <2>3, <2>4 DEF FailoverInv, CompareSteps
<1>6. LoopInv' /\ CarryInv'
  BY DEF LoopInv, CarryInv, CompareSteps
<1> QED BY <1>1, <1>2, <1>3, <1>5, <1>6 DEF DurInv, StageInv

(* foStop keeps the invariant. *)
LEMMA StopDur ==
    ASSUME Inv, Inv', CompareInv, DurInv, DataKept, foStop PROVE DurInv'
<1>0. /\ MySQLTypeOK /\ MySQLTypeOK' /\ PassTypeOK /\ ModeInv /\ WaitInv /\ HistoryInv
      /\ FenceInv /\ PlainInv /\ SeenInv /\ FailoverInv /\ ss.known \subseteq Index
      /\ primaryIdx \in Index /\ pods \subseteq Index /\ Runners \subseteq Index
  BY RunnersType DEF Inv, TypeOK, DurInv, StoreInv, StageInv, CompareInv, PassTypeOK,
     StatusSetType, KubeTypeOK
<1>1. /\ pc = "foStop" /\ StopReplicaIOThread(Callee) /\ Callee \in Index
      /\ NextTurn(<<"foRecheck", Runners>>)
      /\ UNCHANGED <<source, restoring, events, primaryIdx>>
  BY <1>0 DEF foStop, Calling, Answers, Reachable, Outside, kubeVars
<1>2. TameDb /\ UNCHANGED <<uuid, acks, acked>>
  BY <1>0, <1>1, StatementTame DEF StopReplicaIOThread
<1>3. StoreInv' /\ \A i \in Index : db[i].ro => db'[i].ro
  BY <1>1, <1>2, StatementStore
<1>4. /\ pc' \in {"foStop", "foRecheck"} /\ SameView /\ ss'.source = ss.source
      /\ pc' = "foRecheck" => todo' = Runners
  <2>1. CASE Take(<<"foRecheck", Runners>>)
    <3>1. <<"foRecheck", Runners>> \in PassSteps \X SUBSET Index
      BY <1>0 DEF PassSteps
    <3>2. pc' = "foRecheck" /\ todo' = Runners /\ SameView
      BY <1>0, <2>1, <3>1, TakeType
    <3>3. SameSpec
      BY <1>0, <2>1, <3>2, TakeSpec
    <3> QED BY <3>2, <3>3 DEF SameSpec
  <2>2. CASE UNCHANGED <<pc, ss>>
    BY <1>1, <2>2 DEF SameView
  <2> QED BY <1>1, <2>1, <2>2 DEF NextTurn
<1>5. PlainInv'
  BY <1>0, <1>1, <1>4 DEF PlainInv
<1>6. SeenInv'
  <2>1. \A i \in Index : db'[i].src = db[i].src
    <3>1. db \in [Index -> Instance] /\ db' = [db EXCEPT ![Callee].io = FALSE]
      BY <1>0, <1>1 DEF MySQLTypeOK, StopReplicaIOThread
    <3> QED BY <1>1, <3>1 DEF Instance
  <2>2. \A i \in Index : db[i].exec \subseteq db'[i].exec
    BY DEF DataKept
  <2>3. \A i \in ss.known : /\ ss.st[i].ro => db'[i].ro
                            /\ ss.st[i].exec \subseteq db'[i].exec
                            /\ ss.st[i].exec # {} /\ ss.st[i].src # NoSource =>
                                  db'[i].src # NoSource
    BY <1>0, <1>1, <1>3, <2>1, <2>2 DEF SeenInv
  <2> QED BY <1>4, <2>3 DEF SeenInv, SameView
<1>7. FailoverInv'
  <2>0. ss.primary = primaryIdx
    BY <1>1 DEF Inv, PassInv, SnapshotInv
  <2>1. TameStep
    BY <1>2, SameHistory DEF TameStep
  <2>2. \A j \in ss.known \ {ss.primary} : CannotAck(j)
    BY <1>0, <1>1 DEF FailoverInv
  <2>3. \A j \in ss.known \ {ss.primary} : CannotAck(j)'
    BY <1>0, <2>0, <2>1, <2>2, CannotAckKept
  <2>4. Cardinality(failedOk(ss')) > N \div 2 /\ Runners' = Runners
    BY <1>0, <1>1, <1>4, SameFailedOk DEF FailoverInv
  <2> HIDE DEF CannotAck
  <2> QED BY <1>4, <2>3, <2>4 DEF FailoverInv, SameView
<1>8. LoopInv' /\ CarryInv'
  BY <1>4 DEF LoopInv, CarryInv
<1> QED BY <1>3, <1>5, <1>6, <1>7, <1>8 DEF DurInv, StageInv

(* foRecheck keeps the invariant: an instance that was counted with data   *)
(* and a source still is.                                                  *)
LEMMA RecheckDur ==
    ASSUME Inv, Inv', CompareInv, DurInv, foRecheck PROVE DurInv'
<1>0. /\ PlainInv /\ SeenInv /\ FailoverInv /\ ss \in StatusSetType
      /\ ss.known \subseteq Index /\ pods \subseteq Index /\ PassTypeOK
      /\ Runners \subseteq Index
  BY RunnersType DEF Inv, TypeOK, DurInv, StageInv, PassTypeOK, StatusSetType, KubeTypeOK
<1>1. /\ pc = "foRecheck" /\ pc' \in {"foRecheck", "foCompare"} /\ Callee \in Index
      /\ ss' = [ss EXCEPT !.st[Callee] = GetStatus(Callee), !.cand = NoTopRunner]
      /\ UNCHANGED <<mysqlVars, source, restoring, events, primaryIdx>>
      /\ \/ todo = {Callee} /\ pc' = "foCompare"
         \/ todo' = todo \ {Callee} /\ pc' = pc
  BY <1>0 DEF foRecheck, Calling, Answers, Reachable, Outside, kubeVars
<1>2. StoreInv' /\ UNCHANGED <<db, acked>>
  BY <1>1, FrameStore DEF mysqlVars
<1>3. /\ ss'.st[Callee] = GetStatus(Callee)
      /\ \A i \in Index : i # Callee => ss'.st[i] = ss.st[i]
      /\ ss'.known = ss.known /\ ss'.errants = ss.errants /\ ss'.primary = ss.primary
      /\ ss'.source = ss.source
  BY <1>0, <1>1 DEF StatusSetType
<1>4. PlainInv'
  BY <1>0, <1>1, <1>3 DEF PlainInv
<1>5. SeenInv'
  <2>1. ASSUME NEW i \in ss.known
        PROVE  /\ ss'.st[i].ro => db[i].ro
               /\ ss'.st[i].exec \subseteq db[i].exec
               /\ ss'.st[i].exec # {} /\ ss'.st[i].src # NoSource => db[i].src # NoSource
    <3>1. CASE i = Callee
      BY <1>3, <3>1, StatusFacts
    <3>2. CASE i # Callee
      BY <1>0, <1>1, <1>3, <3>2 DEF SeenInv
    <3> QED BY <3>1, <3>2
  <2> QED BY <1>1, <1>2, <1>3, <2>1 DEF SeenInv
<1>6. Cardinality(failedOk(ss')) > N \div 2
  <2>1. failedOk(ss) \subseteq failedOk(ss')
    <3> SUFFICES ASSUME NEW i \in failedOk(ss)
                 PROVE  ss'.st[i].src # NoSource /\ ss'.st[i].exec # {}
      BY <1>3 DEF failedOk, Replicas
    <3>1. i \in ss.known /\ ss.st[i].src # NoSource /\ ss.st[i].exec # {}
      BY DEF failedOk
    <3>2. db[i].src # NoSource /\ db[i].exec # {}
      BY <1>0, <1>1, <3>1 DEF SeenInv
    <3>3. CASE i = Callee
      BY <1>3, <3>2, <3>3, StatusFacts
    <3>4. CASE i # Callee
      BY <1>0, <1>3, <3>1, <3>4
    <3> QED BY <3>3, <3>4
  <2>2. failedOk(ss') \subseteq Index
    BY DEF failedOk, Replicas
  <2> DEFINE a == Cardinality(failedOk(ss))
             b == Cardinality(failedOk(ss'))
             half == N \div 2
  <2>3. a <= b /\ a \in Nat /\ b \in Nat
    BY <2>1, <2>2, SubsetCard
  <2>4. a > half /\ half \in Nat
    BY <1>0, <1>1, HalfFacts DEF FailoverInv
  <2>5. b > half
    <3> HIDE DEF a, b, half
    <3> QED BY <2>3, <2>4
  <2> QED BY <2>5
<1>7. ASSUME NEW i \in Runners, i = Callee \/ i \notin todo
      PROVE  acked \cap Has(i) \subseteq Gtids(ss'.st[i])
  <2>1. CASE i = Callee
    <3>1. Gtids(GetStatus(i)) = Has(i)
      BY DEF Gtids, GetStatus, Has
    <3> QED BY <1>3, <2>1, <3>1
  <2>2. CASE i # Callee
    <3>1. acked \cap Has(i) \subseteq Gtids(ss.st[i])
      BY <1>0, <1>1, <1>7, <2>2 DEF FailoverInv
    <3> QED BY <1>0, <1>3, <2>2, <3>1
  <2> QED BY <2>1, <2>2
<1>8. FailoverInv'
  <2>1. \A j \in ss.known \ {ss.primary} : CannotAck(j)'
    BY <1>0, <1>1, CannotAckFrame DEF FailoverInv
  <2>2. Runners' = Runners /\ \A i \in Runners : Has(i)' = Has(i)
    BY <1>2, <1>3 DEF Runners, Has
  <2>3. pc' = "foRecheck" =>
           \A i \in Runners \ todo' : acked' \cap Has(i)' \subseteq Gtids(ss'.st[i])
    BY <1>1, <1>2, <1>7, <2>2
  <2>4. pc' = "foCompare" =>
           \A i \in Runners : acked' \cap Has(i)' \subseteq Gtids(ss'.st[i])
    <3>1. pc' = "foCompare" => todo = {Callee}
      BY <1>1
    <3> QED BY <1>2, <1>7, <2>2, <3>1
  <2> HIDE DEF CannotAck, Has
  <2> QED BY <1>1, <1>3, <1>6, <2>1, <2>2, <2>3, <2>4 DEF FailoverInv
<1>9. LoopInv' /\ CarryInv'
  BY <1>1 DEF LoopInv, CarryInv
<1> QED BY <1>2, <1>4, <1>5, <1>8, <1>9 DEF DurInv, StageInv

(* The heart of the failover: more than half of the instances were         *)
(* compared with their IO threads stopped, so what a client was told of is *)
(* on one of them, what one of them acknowledged takes part in the         *)
(* comparison, the leader has executed all of it, and those that were not  *)
(* compared are too few to acknowledge anything.                           *)
LEMMA FailoverIndex ==
    ASSUME Inv, CompareInv, DurInv, pc = "foIndex"
    PROVE  /\ ss.cand \in Index
           /\ acked \subseteq db[ss.cand].exec
           /\ \A j \in Index \ {ss.cand} :
                 /\ ~db[j].ro => Cardinality(Feeding(j)) < N \div 2
                 /\ \A t \in db[j].wait : t \in db[ss.cand].exec
                       \/ Cardinality(acks[t] \cup Feeding(j)) < N \div 2
<1> DEFINE F == failedOk(ss)
           c == ss.cand
<1>0. /\ MySQLTypeOK /\ WaitInv /\ HistoryInv /\ ModeInv /\ FenceInv /\ SeenInv /\ FailoverInv
      /\ StoppedInv /\ ss.known \subseteq Index /\ primaryIdx \in Index
      /\ RaceInv /\ ss.primary = primaryIdx /\ Runners \subseteq Index
  BY RunnersType DEF Inv, TypeOK, DurInv, StoreInv, StageInv, CompareInv, PassTypeOK,
     StatusSetType, KubeTypeOK, PassInv, SnapshotInv
<1>1. c \in Runners /\ c \in Index /\ c \in ss.known
  BY <1>0 DEF RaceInv, Runners
<1>2. F \subseteq Runners /\ F \subseteq Index \ {primaryIdx} /\ Cardinality(F) > N \div 2
  BY <1>0 DEF failedOk, Replicas, Runners, FailoverInv
<1>3. \A k \in F : InTheRace(ss.st[k])
  BY DEF failedOk, InTheRace, Gtids
<1>4. Gtids(ss.st[c]) \subseteq db[c].exec
  <2>1. ss.goal = ss.st[c].retrieved /\ ss.goal \subseteq db[c].exec
    BY <1>0 DEF FailoverInv
  <2>2. ss.st[c].exec \subseteq db[c].exec
    BY <1>0, <1>1 DEF SeenInv
  <2> QED BY <2>1, <2>2 DEF Gtids
<1>5. \A k \in F : Gtids(ss.st[k]) \subseteq db[c].exec
  <2>1. \A k \in F : Gtids(ss.st[k]) \subseteq Gtids(ss.st[c])
    BY <1>0, <1>2, <1>3 DEF RaceInv
  <2> QED BY <1>4, <2>1
<1>6. \A k \in F : ~db[k].io /\ {t \in Has(k) : uuid[t] # k} \subseteq Gtids(ss.st[k])
  BY <1>0, <1>2 DEF StoppedInv, Fixed
<1>7. ASSUME NEW t \in acked PROVE t \in db[c].exec
  <2>1. Cardinality(Holders(t)) > N \div 2 /\ Holders(t) \subseteq Index
    BY <1>0 DEF HistoryInv, Holders
  <2>2. PICK k \in F : k \in Holders(t)
    BY <1>2, <2>1, Majorities
  <2>3. t \in Has(k)
    BY <2>2 DEF Holders
  <2>4. acked \cap Has(k) \subseteq Gtids(ss.st[k])
    BY <1>0, <1>2 DEF FailoverInv
  <2> HIDE DEF F, Has
  <2> QED BY <1>5, <2>3, <2>4
<1>8. ASSUME NEW j \in Index
      PROVE  Feeding(j) \subseteq Index \ (F \cup {j})
  <2>1. db[j].src # j
    BY <1>0 DEF ModeInv
  <2> QED BY <1>6, <2>1 DEF Feeding
<1>9. ASSUME NEW j \in Index \ {c}, ~db[j].ro
      PROVE  Cardinality(Feeding(j)) < N \div 2
  <2>1. CASE j = primaryIdx
    <3>1. j \in Index \ F /\ Feeding(j) \in SUBSET (Index \ (F \cup {j}))
      BY <1>2, <1>8, <2>1
    <3> HIDE DEF F, Feeding
    <3> QED BY <1>2, <3>1, Outnumbered
  <2>2. CASE j # primaryIdx
    BY <1>0, <1>9, <2>2 DEF FenceInv
  <2> QED BY <2>1, <2>2
<1>10. ASSUME NEW j \in Index \ {c}, NEW t \in db[j].wait, t \notin db[c].exec
       PROVE  Cardinality(acks[t] \cup Feeding(j)) < N \div 2
  <2>1. CASE j \in ss.known \ {ss.primary}
    BY <1>0, <2>1 DEF FailoverInv, CannotAck
  <2>2. CASE j \notin ss.known \ {ss.primary}
    <3>1. j \in Index \ F
      BY <2>2 DEF failedOk, Replicas
    <3>2. t \in Txn /\ uuid[t] = j /\ acks[t] \subseteq Index
      BY <1>0 DEF MySQLTypeOK, Instance, WaitInv
    <3>3. \A r \in acks[t] : t \in Has(r) /\ r # j
      BY <1>0, <3>2 DEF HistoryInv
    <3>4. acks[t] \cap F = {}
      <4> SUFFICES ASSUME NEW k \in acks[t], k \in F PROVE FALSE
        OBVIOUS
      <4>1. t \in Has(k) /\ uuid[t] # k
        BY <3>2, <3>3
      <4> HIDE DEF F, Has
      <4>2. t \in Gtids(ss.st[k])
        BY <1>6, <4>1
      <4> QED BY <1>5, <1>10, <4>2
    <3>5. acks[t] \cup Feeding(j) \in SUBSET (Index \ (F \cup {j}))
      <4>1. Feeding(j) \subseteq Index \ (F \cup {j})
        BY <1>8
      <4> HIDE DEF F, Feeding
      <4> QED BY <3>2, <3>3, <3>4, <4>1
    <3> HIDE DEF F, Feeding
    <3> QED BY <1>2, <3>1, <3>5, Outnumbered
  <2> QED BY <2>1, <2>2
<1> QED BY <1>1, <1>7, <1>9, <1>10

(* failover keeps the invariant. *)
LEMMA FailoverDur ==
    ASSUME Inv, Inv', CompareInv, DurInv, DataKept, Failover PROVE DurInv'
<1>0. /\ MySQLTypeOK /\ PassTypeOK /\ StoreInv /\ PlainInv /\ FailoverInv /\ ss \in StatusSetType
  BY DEF Inv, TypeOK, DurInv, StageInv, PassTypeOK
<1>a. UNCHANGED Outside => UNCHANGED <<source, restoring, events, primaryIdx>>
  BY DEF Outside, kubeVars
<1>1. CASE foStop
  BY <1>1, StopDur
<1>2. CASE foRecheck
  BY <1>2, RecheckDur
<1>3. CASE foCompare
  <2> DEFINE top == topRunner(ss.cand, Callee, ss.st)
  <2>1. /\ pc = "foCompare" /\ pc' \in {"foCompare", "foTop"}
        /\ ss' = [ss EXCEPT !.cand = top]
        /\ UNCHANGED <<mysqlVars, source, restoring, events, primaryIdx>>
    BY <1>3, <1>a DEF foCompare
  <2> HIDE DEF top
  <2>2. /\ ss'.known = ss.known /\ ss'.st = ss.st /\ ss'.errants = ss.errants
        /\ ss'.primary = ss.primary /\ ss'.source = ss.source
    BY <1>0, <2>1 DEF StatusSetType
  <2> QED BY <2>1, <2>2, CompareStage DEF CompareSteps
<1>4. CASE foTop
  <2> DEFINE g == ss.st[ss.cand].retrieved
  <2>1. /\ pc = "foTop" /\ pc' = "foWait" /\ ss' = [ss EXCEPT !.goal = g]
        /\ UNCHANGED <<mysqlVars, source, restoring, events, primaryIdx>>
    BY <1>4, <1>a DEF foTop
  <2> HIDE DEF g
  <2>2. /\ ss'.known = ss.known /\ ss'.st = ss.st /\ ss'.errants = ss.errants
        /\ ss'.primary = ss.primary /\ ss'.source = ss.source
        /\ ss'.goal = g /\ ss'.cand = ss.cand
    BY <1>0, <2>1 DEF StatusSetType
  <2>3. ss'.goal = ss.st[ss'.cand].retrieved
    BY <2>2 DEF g
  <2> QED BY <2>1, <2>2, <2>3, CompareStage DEF CompareSteps
<1>5. CASE foWait
  <2>1. /\ pc = "foWait" /\ Take(<<"foIndex", {}>>) /\ ss.goal \subseteq db[ss.cand].exec
        /\ UNCHANGED <<mysqlVars, source, restoring, events, primaryIdx>>
    BY <1>5, <1>a DEF foWait, Calling, WaitForGTID
  <2>2. pc' = "foIndex" /\ SameView
    BY <1>0, <2>1, TakeType DEF PassSteps
  <2>3. SameSpec /\ ss'.goal = ss.goal
    BY <1>0, <2>1, <2>2, TakeSpec, TakeGoal
  <2>4. ss.goal = ss.st[ss.cand].retrieved
    BY <1>0, <2>1 DEF FailoverInv
  <2>5. /\ ss'.known = ss.known /\ ss'.st = ss.st /\ ss'.errants = ss.errants
        /\ ss'.primary = ss.primary /\ ss'.source = ss.source /\ ss'.cand = ss.cand
    BY <2>2, <2>3 DEF SameView, SameSpec
  <2> QED BY <2>1, <2>2, <2>3, <2>4, <2>5, CompareStage DEF CompareSteps
<1>6. CASE foGiveUp
  BY <1>6, FailureDur
<1>7. CASE foIndex
  <2>1. /\ pc = "foIndex" /\ primaryIdx' = ss.cand /\ pc' = "idle"
        /\ UNCHANGED <<mysqlVars, source, restoring, events>>
    BY <1>7 DEF foIndex, Idle
  <2>2. StoreInv'
    BY <1>0, <2>1, FailoverIndex, IndexStore
  <2> QED BY <1>0, <2>1, <2>2, EndDur
<1> QED BY <1>1, <1>2, <1>3, <1>4, <1>5, <1>6, <1>7 DEF Failover

-----------------------------------------------------------------------------
(* The theorem *)

(* Every step keeps the invariant, if it loses no data and does not make   *)
(* a primary writable without semi-sync.                                   *)
LEMMA NextDur ==
    ASSUME Inv, Inv', CompareInv, DurInv, [Next]_vars,
           [DataKept /\ SemiSyncFirst]_vars
    PROVE  DurInv'
<1>0. ModeInv /\ StoreInv /\ StageInv /\ PlainInv
  BY DEF DurInv, StoreInv
<1>1. CASE UNCHANGED vars
  <2>1. UNCHANGED <<mysqlVars, kubeVars, passVars, events>>
    BY <1>1 DEF vars
  <2>2. UNCHANGED <<source, restoring>> /\ PassKept
    BY <2>1 DEF kubeVars, passVars, PassKept, SameView
  <2>3. TameStep /\ SrcKept /\ Grown /\ acked' = acked /\ DataKept
    BY <1>0, <2>1, FrameTame
  <2> QED BY <1>0, <2>1, <2>2, <2>3, EnvironmentTame, SameAckedStep, SameAckedSeen
<1>2. ASSUME Next, DataKept, SemiSyncFirst PROVE DurInv'
  <2>1. CASE Gather
    BY <2>1, GatherDur
  <2>2. CASE Report
    BY <2>2, UpdateDur, AnnotateDur, FailureDur DEF Report
  <2>3. CASE Clone
    BY <1>0, <2>3, NoClone
  <2>4. CASE Switchover
    BY <1>2, <2>4, SwitchoverDur
  <2>5. CASE Failover
    BY <1>2, <2>5, FailoverDur
  <2>6. CASE Configure
    BY <1>2, <2>6, ConfigureDur
  <2>7. CASE CallFails \/ CallTimesOut \/ Abort
    BY <2>7, FailureDur
  <2>8. CASE Environment
    BY <1>2, <2>8, EnvironmentDur
  <2> QED BY <1>2, <2>1, <2>2, <2>3, <2>4, <2>5, <2>6, <2>7, <2>8 DEF Next, Pass
<1> QED BY <1>1, <1>2

(* The scenarios of the theorem have no clone from outside. *)
LEMMA OwnFirst == ASSUME NEW s, OwnData(s) PROVE ClonesFirst(s)
BY DEF OwnData, ClonesFirst

(* The invariant holds at first. *)
LEMMA InitDur ==
    ASSUME \A s \in Scenarios : OwnData(s), Init PROVE DurInv
<1>0. 0 \in Index /\ NoSource \notin Index /\ Seeds \subseteq Txn
  BY NAssumption, IndexFacts, ClusteringAssumption DEF Index, NoSource
<1>1. PICK s \in Scenarios :
         /\ IF s.start = "replicating" THEN StartReplicating ELSE StartFresh
         /\ source = (s.start = "source") /\ restoring = (s.start = "restore")
         /\ events = s.events
  BY DEF Init
<1>2. pc = "idle" /\ primaryIdx = 0 /\ \A t \in Txn : acks[t] = {}
  BY DEF Init
<1>3. PlainInv
  BY <1>1, <1>2 DEF OwnData, PlainInv
<1>4. StageInv
  BY <1>2 DEF StageInv, SeenInv, LoopInv, FailoverInv, CarryInv
<1>5. CASE StartReplicating
  <2>1. \A i \in Index : db[i] = ReplicatingInstance(i)
    BY <1>5 DEF StartReplicating
  <2> DEFINE several == N > 1
             P == [FreshInstance EXCEPT !.exec = Seeds, !.ro = FALSE, !.ssM = several]
             R == [FreshInstance EXCEPT !.exec = Seeds, !.src = 0, !.io = TRUE,
                                        !.sql = TRUE, !.ssS = TRUE]
  <2>a. \A i \in Index : db[i] = IF i = 0 THEN P ELSE R
    BY <2>1 DEF ReplicatingInstance
  <2>b. several \in BOOLEAN /\ (several \/ N = 1)
    BY NAssumption
  <2> HIDE DEF several
  <2>c. /\ P.wait = {} /\ P.relay = {} /\ P.exec = Seeds /\ ~P.ro /\ ~P.io
        /\ P.src = NoSource /\ P.ssM = several
    BY DEF FreshInstance
  <2>d. R.wait = {} /\ R.relay = {} /\ R.exec = Seeds /\ R.ro /\ R.src = 0
    BY DEF FreshInstance
  <2> HIDE DEF P, R
  <2>2. \A i \in Index : /\ db[i].wait = {} /\ db[i].relay = {} /\ db[i].exec = Seeds
                         /\ i # 0 => db[i].ro /\ db[i].src = 0
    BY <2>a, <2>c, <2>d
  <2>3. /\ ~db[0].ro /\ ~db[0].io /\ db[0].src = NoSource /\ (db[0].ssM \/ N = 1)
    BY <1>0, <2>a, <2>b, <2>c
  <2>4. /\ \A t \in Txn : uuid[t] = Unborn => t \notin acked
        /\ acked = Seeds
    BY <1>5 DEF StartReplicating, Unborn
  <2>5. \A t \in acked : Cardinality(Holders(t)) > N \div 2
    <3>1. \A t \in acked : Holders(t) = Index
      BY <2>2, <2>4 DEF Holders, Has
    <3> QED BY <3>1, IndexFacts, NAssumption
  <2>6. HistoryInv
    BY <1>2, <2>2, <2>4, <2>5 DEF HistoryInv
  <2>7. ModeInv
    BY <1>0, <2>2, <2>3 DEF ModeInv
  <2>8. FenceInv
    BY <1>2, <2>2 DEF FenceInv, Fenced
  <2>9. Durability
    BY <1>0, <1>2, <2>2, <2>4 DEF Durability
  <2> QED BY <1>3, <1>4, <2>6, <2>7, <2>8, <2>9 DEF DurInv, StoreInv
<1>6. CASE StartFresh
  <2>1. \A i \in Index : /\ db[i].wait = {} /\ db[i].relay = {} /\ db[i].ro
                         /\ db[i].src = NoSource
    BY <1>6 DEF StartFresh, FreshInstance
  <2>2. acked = {}
    BY <1>6 DEF StartFresh
  <2>3. HistoryInv
    BY <1>2, <2>1, <2>2 DEF HistoryInv
  <2>4. ModeInv
    BY <1>0, <2>1 DEF ModeInv
  <2>5. FenceInv
    BY <1>2, <2>1 DEF FenceInv, Fenced
  <2>6. Durability
    BY <2>2 DEF Durability
  <2> QED BY <1>3, <1>4, <2>3, <2>4, <2>5, <2>6 DEF DurInv, StoreInv
<1> QED BY <1>1, <1>5, <1>6

(* No acknowledged transaction is lost.  In any sequence of failovers,     *)
(* switchovers, crashes, restarts, lost connections, deleted Pods, user    *)
(* requests, calls that fail and passes that are interrupted, the instance *)
(* recorded as the primary has executed every transaction that a client    *)
(* was told had committed -- as long as what the code takes for granted    *)
(* holds: no log is deleted before it is executed (DataKept), and a mysqld *)
(* that becomes writable has semi-sync enabled (SemiSyncFirst).            *)
THEOREM AcknowledgedSurvives ==
    ASSUME \A s \in Scenarios : OwnData(s)
    PROVE  Spec /\ [][DataKept /\ SemiSyncFirst]_vars => []Durability
<1> DEFINE I == Inv /\ CompareInv /\ DurInv
<1>1. Init => I
  <2>1. \A s \in Scenarios : ClonesFirst(s)
    BY OwnFirst
  <2> QED BY <2>1, InitInv, InitCompare, InitDur
<1>2. I /\ [Next]_vars /\ [DataKept /\ SemiSyncFirst]_vars => I'
  BY NextInv, NextCompare, NextDur
<1>3. I => Durability
  BY DEF DurInv, StoreInv
<1> HIDE DEF I
<1> QED BY <1>1, <1>2, <1>3, PTL DEF Spec

-----------------------------------------------------------------------------
(* The promise to the clients *)

(* Nothing is acknowledged, the primary stays, and at most one instance    *)
(* executes something.                                                     *)
Local ==
    /\ acked' = acked /\ primaryIdx' = primaryIdx
    /\ \E k \in Index : \A i \in Index : i # k => db'[i].exec = db[i].exec

(* Instance k commits t and answers the client. *)
Answered(k, t) ==
    /\ t \notin acked /\ acked' = acked \cup {t} /\ primaryIdx' = primaryIdx
    /\ db'[k].exec = db[k].exec \cup {t}
    /\ \A i \in Index : i # k => db'[i].exec = db[i].exec

(* The primary may change. *)
Elected == UNCHANGED <<db, acked>>

(* Nothing but the recorded primary changes in a step without a statement. *)
LEMMA FrameLocal ==
    ASSUME UNCHANGED <<mysqlVars, primaryIdx>> PROVE Local
<1>1. 0 \in Index
  BY NAssumption DEF Index
<1> QED BY <1>1 DEF Local, mysqlVars

(* A statement reaches one instance. *)
LEMMA StatementLocal ==
    ASSUME MySQLTypeOK, Statement, primaryIdx' = primaryIdx PROVE Local
<1>1. CASE UNCHANGED mysqlVars
  BY <1>1, FrameLocal
<1>2. ASSUME NEW k \in Index,
             \/ KillConnections(k) \/ StopReplicaIOThread(k) \/ SetReadOnly(k)
             \/ SetWritable(k) \/ ConfigurePrimary(k) \/ StartReplica(k)
             \/ \E s \in Source, semisync \in BOOLEAN : ChangeSource(k, s, semisync)
             \/ \E donor \in Index : CloneFrom(k, donor)
      PROVE  Local
  <2>1. db \in [Index -> Instance]
    BY DEF MySQLTypeOK
  <2>2. acked' = acked /\ \A i \in Index : i # k => db'[i] = db[i]
    BY <1>2, <2>1 DEF KillConnections, StopReplicaIOThread, SetReadOnly, SetWritable,
       ConfigurePrimary, StartReplica, ChangeSource, CloneFrom
  <2> QED BY <2>2 DEF Local
<1> QED BY <1>1, <1>2 DEF Statement

(* What mysqld does by itself, or what is done to it. *)
LEMMA MysqldLocal ==
    ASSUME MySQLTypeOK, HistoryInv, NEW k \in Index, MysqldStep(k), primaryIdx' = primaryIdx
    PROVE  Local \/ \E t \in Txn : Answered(k, t)
<1>0. db \in [Index -> Instance] /\ db[k] \in Instance
  BY DEF MySQLTypeOK
<1>1. CASE \/ Receive(k) \/ Apply(k) \/ Crash(k) \/ Start(k) \/ Wipe(k) \/ Unlock(k)
           \/ StrayWrite(k) \/ CloneEnd(k) \/ CloneFail(k)
  <2>1. acked' = acked /\ \A i \in Index : i # k => db'[i] = db[i]
    BY <1>0, <1>1 DEF Receive, Apply, Crash, Start, Wipe, Unlock, StrayWrite, CloneEnd,
       CloneFail
  <2> QED BY <2>1 DEF Local
<1>2. CASE ClientWrite(k)
  <2>1. NextTxn \in Txn /\ uuid[NextTxn] = Unborn
    BY <1>2, NextTxnUnborn DEF ClientWrite
  <2>2. NextTxn \notin acked
    BY <2>1 DEF HistoryInv
  <2>3. \/ db' = [db EXCEPT ![k].wait = @ \cup {NextTxn}] /\ acked' = acked
        \/ db' = [db EXCEPT ![k].exec = @ \cup {NextTxn}] /\ acked' = acked \cup {NextTxn}
    BY <1>2 DEF ClientWrite
  <2> HIDE DEF NextTxn
  <2>4. CASE db' = [db EXCEPT ![k].wait = @ \cup {NextTxn}] /\ acked' = acked
    BY <1>0, <2>4 DEF Local
  <2>5. CASE db' = [db EXCEPT ![k].exec = @ \cup {NextTxn}] /\ acked' = acked \cup {NextTxn}
    <3>1. Answered(k, NextTxn)
      BY <1>0, <2>2, <2>5 DEF Answered, Instance
    <3> QED BY <2>1, <3>1
  <2> QED BY <2>3, <2>4, <2>5
<1>3. CASE Commit(k)
  <2>1. PICK t \in db[k].wait :
           /\ db' = [db EXCEPT ![k] = [db[k] EXCEPT !.wait = @ \ {t}, !.exec = @ \cup {t}]]
           /\ acked' = acked \cup {t}
    BY <1>3 DEF Commit
  <2>2. t \in Txn /\ t \notin acked
    BY <1>0 DEF Instance, HistoryInv
  <2>3. Answered(k, t)
    BY <1>0, <2>1, <2>2 DEF Answered, Instance
  <2> QED BY <2>2, <2>3
<1> QED BY <1>1, <1>2, <1>3 DEF MysqldStep

(* Every step of the cluster is of one of the three kinds. *)
LEMMA NextKinds ==
    ASSUME Inv, DurInv, Next
    PROVE  Local \/ Elected \/ \E k \in Index, t \in Txn : Answered(k, t)
<1>0. /\ MySQLTypeOK /\ HistoryInv /\ PlainInv /\ primaryIdx \in Index /\ ss.primary \in Index
      /\ pods \subseteq Index
  BY DEF Inv, TypeOK, DurInv, StoreInv, PassTypeOK, StatusSetType, KubeTypeOK
<1>1. CASE UNCHANGED <<mysqlVars, primaryIdx>>
  BY <1>1, FrameLocal
<1>2. CASE Gather \/ Report \/ CallFails \/ CallTimesOut \/ Abort
  <2>1. CASE Gather
    BY <1>1, <2>1 DEF Gather, GatherBegin, ReadStatus, FinishGather, Outside, kubeVars
  <2>2. CASE Report
    BY <1>1, <2>2 DEF Report, updateStatus, annotate, annotateStops, ControllerRestart,
       Outside, kubeVars
  <2>3. CASE CallFails \/ CallTimesOut \/ Abort
    BY <1>1, <2>3 DEF CallFails, CallTimesOut, Abort, Outside, kubeVars
  <2> QED BY <1>2, <2>1, <2>2, <2>3
<1>3. CASE Clone
  BY <1>0, <1>3, NoClone
<1>4. CASE Configure
  BY <1>0, <1>4, ConfigureFrame, StatementLocal
<1>5. CASE swIndex \/ foIndex
  BY <1>5 DEF swIndex, foIndex, Elected, mysqlVars
<1>6. CASE Switchover /\ ~swIndex
  <2>1. CASE swReadOnly \/ swReadOnlySlow \/ swKill
    <3>1. (SetReadOnly(ss.primary) \/ KillConnections(ss.primary)) /\ primaryIdx' = primaryIdx
      BY <2>1 DEF swReadOnly, swReadOnlySlow, swKill, Outside, kubeVars
    <3> QED BY <1>0, <3>1, StatementLocal DEF Statement
  <2>2. CASE swStatus \/ swWait \/ swDemote
    BY <1>1, <2>2 DEF swStatus, swWait, swDemote, Outside, kubeVars
  <2> QED BY <1>6, <2>1, <2>2 DEF Switchover
<1>7. CASE Failover /\ ~foIndex
  <2>1. CASE foStop
    <3>1. Callee \in Index /\ StopReplicaIOThread(Callee) /\ primaryIdx' = primaryIdx
      BY <1>0, <2>1 DEF foStop, Calling, Answers, Reachable, Outside, kubeVars
    <3> QED BY <1>0, <3>1, StatementLocal DEF Statement
  <2>2. CASE foRecheck \/ foCompare \/ foTop \/ foGiveUp \/ foWait
    BY <1>1, <2>2 DEF foRecheck, foCompare, foTop, foGiveUp, foWait, Outside, kubeVars
  <2> QED BY <1>7, <2>1, <2>2 DEF Failover
<1>8. CASE SourceWrites \/ RequestDemote \/ SetOffline
  <2>1. UNCHANGED <<db, acked, primaryIdx>>
    BY <1>8 DEF SourceWrites, ExternalWrite, RequestDemote, SetOffline, mysqlVars, kubeVars
  <2> QED BY <2>1 DEF Elected
<1>9. CASE RemoveSource \/ Restore
  BY <1>0, <1>9 DEF RemoveSource, Restore, PlainInv
<1>10. ASSUME NEW i \in Index,
              \/ Mysqld(i) \/ InstanceCrash(i) \/ InstanceStart(i) \/ InstanceUnlocked(i)
              \/ InstanceDiverges(i) \/ VolumeLost(i)
       PROVE  Local \/ \E t \in Txn : Answered(i, t)
  <2>1. MysqldStep(i) /\ UNCHANGED kubeVars
    BY <1>10 DEF Mysqld, Writes, Commits, Receives, Applies, EndsClone, FailsClone,
       InstanceCrash, InstanceStart, InstanceUnlocked, InstanceDiverges, VolumeLost,
       MysqldStep, Outside
  <2>2. primaryIdx' = primaryIdx
    BY <2>1 DEF kubeVars
  <2> QED BY <1>0, <2>1, <2>2, MysqldLocal
<1>11. ASSUME NEW i \in Index,
              ConnectionLost(i) \/ ConnectionBack(i) \/ PodTerminate(i) \/ PodCreate(i)
       PROVE  Elected
  BY <1>11 DEF ConnectionLost, ConnectionBack, PodTerminate, PodCreate, mysqlVars, Elected
<1>12. ASSUME NEW i \in Index, PodGone(i) PROVE Local
  <2>1. db \in [Index -> Instance]
    BY <1>0 DEF MySQLTypeOK
  <2>2. acked' = acked /\ primaryIdx' = primaryIdx /\ \A j \in Index : j # i => db'[j] = db[j]
    BY <1>12, <2>1 DEF PodGone
  <2> QED BY <2>2 DEF Local
<1>13. CASE Environment
  BY <1>8, <1>9, <1>10, <1>11, <1>12, <1>13 DEF Environment
<1> QED BY <1>2, <1>3, <1>4, <1>5, <1>6, <1>7, <1>13 DEF Next, Pass

(* Each kind of step is one of module Ledger, or none. *)
LEMMA LedgerStep ==
    ASSUME Inv, Inv', DurInv, DurInv', DataKept, Next
    PROVE  Promise!Next \/ UNCHANGED Promise!ledgerVars
<1>0. /\ MySQLTypeOK /\ MySQLTypeOK' /\ Durability /\ Durability' /\ primaryIdx \in Index
      /\ primaryIdx' \in Index
  BY DEF Inv, TypeOK, DurInv, StoreInv, KubeTypeOK
<1> DEFINE held == [i \in Index |-> db[i].exec]
<1>1. \A i \in Index : /\ held[i] = db[i].exec /\ held'[i] = db'[i].exec
                       /\ db[i].exec \subseteq db'[i].exec /\ db'[i].exec \subseteq Txn
  BY <1>0 DEF DataKept, MySQLTypeOK, Instance
<1>2. held = [i \in Index |-> held[i]] /\ held' = [i \in Index |-> held'[i]]
  OBVIOUS
<1>3. CASE Local
  <2>1. PICK k \in Index : \A i \in Index : i # k => db'[i].exec = db[i].exec
    BY <1>3 DEF Local
  <2>2. acked' = acked /\ primaryIdx' = primaryIdx
    BY <1>3 DEF Local
  <2>3. held' = [held EXCEPT ![k] = @ \cup db'[k].exec]
    BY <1>1, <2>1
  <2>4. Promise!Advance(k)
    BY <1>1, <2>2, <2>3 DEF Promise!Advance
  <2> QED BY <2>4 DEF Promise!Next
<1>4. CASE Elected
  <2>1. held' = held /\ acked' = acked
    BY <1>4 DEF Elected
  <2>2. CASE primaryIdx' = primaryIdx
    BY <2>1, <2>2 DEF Promise!ledgerVars
  <2>3. CASE primaryIdx' # primaryIdx
    <3>1. acked \subseteq held[primaryIdx']
      BY <1>0, <1>1, <1>4 DEF Durability, Elected
    <3>2. Promise!Elect(primaryIdx')
      BY <2>1, <2>3, <3>1 DEF Promise!Elect
    <3> QED BY <1>0, <3>2 DEF Promise!Next
  <2> QED BY <2>2, <2>3
<1>5. ASSUME NEW k \in Index, NEW t \in Txn, Answered(k, t)
      PROVE  Promise!Next
  <2>1. /\ t \notin acked /\ acked' = acked \cup {t} /\ primaryIdx' = primaryIdx
        /\ held' = [held EXCEPT ![k] = @ \cup {t}]
    BY <1>1, <1>5 DEF Answered
  <2>2. t \in held'[primaryIdx]
    BY <1>0, <1>1, <2>1 DEF Durability
  <2>3. Promise!Acknowledge(k, t)
    BY <2>1, <2>2 DEF Promise!Acknowledge
  <2> QED BY <2>3 DEF Promise!Next
<1> QED BY <1>3, <1>4, <1>5, NextKinds

(* A run of the operator whose instances keep their data, and whose        *)
(* primary is writable only with semi-sync on, is a run of module Ledger:  *)
(* what a client was told had committed is held by the instance it is sent *)
(* to, after every commit, configuration, switchover, failover, crash and  *)
(* cut.  The mapping takes acked for the ledger, currentPrimaryIndex for   *)
(* the leader and gtid_executed for what an instance holds.                *)
THEOREM ClusterKeepsPromise ==
    ASSUME \A s \in Scenarios : OwnData(s)
    PROVE  Spec /\ [][DataKept /\ SemiSyncFirst]_vars => ImplementsLedger
<1> DEFINE I == Inv /\ CompareInv /\ DurInv
<1>1. Init => I
  <2>1. \A s \in Scenarios : ClonesFirst(s)
    BY OwnFirst
  <2> QED BY <2>1, InitInv, InitCompare, InitDur
<1>2. I /\ [Next]_vars /\ [DataKept /\ SemiSyncFirst]_vars => I'
  BY NextInv, NextCompare, NextDur
<1>3. I => Promise!Init
  <2> SUFFICES ASSUME I PROVE Promise!Init
    OBVIOUS
  <2>1. MySQLTypeOK /\ Durability /\ primaryIdx \in Index
    BY DEF Inv, TypeOK, DurInv, StoreInv, KubeTypeOK
  <2>2. [i \in Index |-> db[i].exec] \in [Index -> SUBSET Txn]
    BY <2>1 DEF MySQLTypeOK, Instance
  <2>3. acked \subseteq [i \in Index |-> db[i].exec][primaryIdx]
    BY <2>1 DEF Durability
  <2> QED BY <2>1, <2>2, <2>3 DEF Promise!Init
<1>4. I /\ I' /\ [Next]_vars /\ [DataKept /\ SemiSyncFirst]_vars
          => [Promise!Next]_(Promise!ledgerVars)
  <2> SUFFICES ASSUME I, I', [Next]_vars, [DataKept /\ SemiSyncFirst]_vars
               PROVE  Promise!Next \/ UNCHANGED Promise!ledgerVars
    OBVIOUS
  <2>1. CASE UNCHANGED vars
    BY <2>1 DEF vars, mysqlVars, kubeVars, Promise!ledgerVars
  <2>2. CASE ~UNCHANGED vars
    <3>1. Next /\ DataKept
      BY <2>2
    <3> QED BY <3>1, LedgerStep
  <2> QED BY <2>1, <2>2
<1> HIDE DEF I
<1> QED BY <1>1, <1>2, <1>3, <1>4, PTL DEF Spec, ImplementsLedger, Promise!Spec

=============================================================================
