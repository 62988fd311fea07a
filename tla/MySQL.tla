-------------------------------- MODULE MySQL --------------------------------
(***************************************************************************)
(* The mysqld instances of one MySQLCluster as the clustering code sees    *)
(* them, and the operations of pkg/dbop on them.                           *)
(*                                                                         *)
(* mysqld itself is not part of the repository: writes, semi-synchronous   *)
(* replication (AFTER_SYNC), crashes and restarts are modelled from the    *)
(* settings in pkg/mycnf/generator.go (super_read_only=ON at start,        *)
(* skip_replica_start=ON, relay_log_recovery=OFF) and from how pkg/dbop    *)
(* uses it.                                                                *)
(***************************************************************************)
EXTENDS StatusSet

VARIABLES
    db,         \* the instances: a record per index
    uuid,       \* the instance whose server_uuid a transaction carries
    acks,       \* the replicas that acknowledged a waiting transaction
    ext,        \* gtid_executed of the external mysqld
    acked       \* the transactions whose client was told they committed

mysqlVars == <<db, uuid, acks, ext, acked>>

Unborn == -1        \* the transaction does not exist yet
Retired == N + 1    \* its server_uuid is not that of an instance (any more)
Origins == Index \cup {Unborn, External, Retired}

(* exec: gtid_executed; wait: in the binary log, waiting for acks before   *)
(* the engine commit; relay: in the relay log and not executed; purged:    *)
(* gtid_purged; src: the configured source; io, sql: the replication       *)
(* threads were started; ssM, ssS: semi-sync enabled as source (with a     *)
(* wait count of N/2) and as replica.                                      *)
Instance ==
    [up: BOOLEAN, exec: SUBSET Txn, wait: SUBSET Txn, relay: SUBSET Txn,
     purged: SUBSET Txn, ro: BOOLEAN, src: Source, io: BOOLEAN, sql: BOOLEAN,
     ssM: BOOLEAN, ssS: BOOLEAN, clone: CloneStates]

(* mysqld after moco-agent has initialised it (RESET MASTER included). *)
FreshInstance ==
    [up |-> TRUE, exec |-> {}, wait |-> {}, relay |-> {}, purged |-> {},
     ro |-> TRUE, src |-> NoSource, io |-> FALSE, sql |-> FALSE,
     ssM |-> FALSE, ssS |-> FALSE, clone |-> "none"]

MySQLTypeOK ==
    /\ db \in [Index -> Instance]
    /\ uuid \in [Txn -> Origins]
    /\ acks \in [Txn -> SUBSET Index]
    /\ ext \subseteq Txn
    /\ acked \subseteq Txn

(* Replica_IO_Running = "Yes": the thread runs and its source answers. *)
Connected(i) ==
    /\ db[i].up
    /\ db[i].io
    /\ db[i].src # NoSource
    /\ db[i].src \in Index => db[db[i].src].up

Hosts(i) == {r \in Index : Connected(r) /\ db[r].src = i}

(* dbop.GetStatus *)
GetStatus(i) ==
    [exec |-> db[i].exec, retrieved |-> db[i].relay, purged |-> db[i].purged,
     ro |-> db[i].ro, src |-> db[i].src, io |-> Connected(i),
     ssM |-> db[i].ssM, ssS |-> db[i].ssS, waiting |-> db[i].wait # {},
     hosts |-> Hosts(i), clone |-> db[i].clone]

-----------------------------------------------------------------------------
(* pkg/dbop: the statements the controller sends.  Each operator is the    *)
(* effect of a successful call on instance i.                              *)

(* Killing a session that waits for acks ends the wait: the transaction is *)
(* committed on the instance and its client never learns of it.            *)
Released(inst) == [inst EXCEPT !.exec = @ \cup inst.wait, !.wait = {}]

KillConnections(i) ==
    /\ db' = [db EXCEPT ![i] = Released(db[i])]
    /\ UNCHANGED <<uuid, acks, ext, acked>>

StopReplicaIOThread(i) ==
    /\ db' = [db EXCEPT ![i].io = FALSE]
    /\ UNCHANGED <<uuid, acks, ext, acked>>

WaitForGTID(i, gtids) == gtids \subseteq db[i].exec

(* super_read_only=1 waits for the commits in progress. *)
SetReadOnly(i) ==
    /\ db[i].wait = {}
    /\ db' = [db EXCEPT ![i].ro = TRUE]
    /\ UNCHANGED <<uuid, acks, ext, acked>>

(* STOP REPLICA, RESET REPLICA (which empties the relay log and keeps the  *)
(* source) and read_only=0.                                                *)
SetWritable(i) ==
    /\ db' = [db EXCEPT ![i] = [db[i] EXCEPT !.io = FALSE, !.sql = FALSE,
                                             !.relay = {}, !.ro = FALSE]]
    /\ UNCHANGED <<uuid, acks, ext, acked>>

ConfigurePrimary(i) ==
    /\ db' = [db EXCEPT ![i].ssM = TRUE]
    /\ UNCHANGED <<uuid, acks, ext, acked>>

(* ConfigureReplica up to START REPLICA.  With both threads stopped,       *)
(* CHANGE REPLICATION SOURCE deletes the relay logs.  Turning semi-sync    *)
(* off as a source releases the waiting sessions.                          *)
ChangeSource(i, source, semisync) ==
    /\ db' = [db EXCEPT ![i] =
                [Released(db[i]) EXCEPT !.io = FALSE, !.sql = FALSE,
                     !.relay = {}, !.src = source, !.ssS = semisync,
                     !.ssM = FALSE]]
    /\ UNCHANGED <<uuid, acks, ext, acked>>

StartReplica(i) ==
    /\ db' = [db EXCEPT ![i] = [db[i] EXCEPT !.io = TRUE, !.sql = TRUE]]
    /\ UNCHANGED <<uuid, acks, ext, acked>>

(* CLONE INSTANCE through moco-agent, with the restart it ends with.  The  *)
(* binary logs are not cloned, so everything is purged on the recipient.   *)
Cloned(gtids) ==
    [FreshInstance EXCEPT !.exec = gtids, !.purged = gtids,
                          !.clone = "completed"]

(* The agent's clone of the external mysqld takes as long as it takes. *)
CloneStart(i) ==
    /\ db' = [db EXCEPT ![i].clone = "in progress"]
    /\ UNCHANGED <<uuid, acks, ext, acked>>

CloneEnd(i) ==
    /\ db[i].up
    /\ db[i].clone = "in progress"
    /\ db' = [db EXCEPT ![i] = Cloned(ext)]
    /\ UNCHANGED <<uuid, acks, ext, acked>>

CloneFail(i) ==
    /\ db[i].up
    /\ db[i].clone = "in progress"
    /\ db' = [db EXCEPT ![i].clone = "failed"]
    /\ UNCHANGED <<uuid, acks, ext, acked>>

CloneFrom(i, donor) ==
    /\ db[donor].up
    /\ db' = [db EXCEPT ![i] = Cloned(db[donor].exec)]
    /\ UNCHANGED <<uuid, acks, ext, acked>>

-----------------------------------------------------------------------------
(* mysqld by itself *)

Unwritten == {t \in Txn : uuid[t] = Unborn}
NextTxn == CHOOSE t \in Unwritten : \A u \in Unwritten : t <= u
Oldest(S) == CHOOSE t \in S : \A u \in S : t <= u

(* A client commits on instance i: with semi-sync it waits, without it the *)
(* transaction is acknowledged at once.                                    *)
ClientWrite(i) ==
    /\ db[i].up
    /\ ~db[i].ro
    /\ Unwritten # {}
    /\ uuid' = [uuid EXCEPT ![NextTxn] = i]
    /\ IF db[i].ssM
       THEN /\ db' = [db EXCEPT ![i].wait = @ \cup {NextTxn}]
            /\ UNCHANGED acked
       ELSE /\ db' = [db EXCEPT ![i].exec = @ \cup {NextTxn}]
            /\ acked' = acked \cup {NextTxn}
    /\ UNCHANGED <<acks, ext>>

(* The engine commit and the answer to the client, after N/2 acks. *)
Commit(i) ==
    /\ db[i].up
    /\ \E t \in db[i].wait :
          /\ Cardinality(acks[t]) >= N \div 2
          /\ db' = [db EXCEPT ![i] = [db[i] EXCEPT !.wait = @ \ {t},
                                                   !.exec = @ \cup {t}]]
          /\ acked' = acked \cup {t}
          /\ acks' = [acks EXCEPT ![t] = {}]
    /\ UNCHANGED <<uuid, ext>>

ExternalWrite ==
    /\ Unwritten # {}
    /\ uuid' = [uuid EXCEPT ![NextTxn] = External]
    /\ ext' = ext \cup {NextTxn}
    /\ UNCHANGED <<db, acks, acked>>

(* What the binary log of a source offers, and what it has lost. *)
Stream(s) == IF s = External THEN ext ELSE db[s].exec \cup db[s].wait
Purged(s) == IF s = External THEN {} ELSE db[s].purged
Has(r) == db[r].exec \cup db[r].relay

(* The IO thread of r stores the next transaction in the relay log, and    *)
(* acknowledges it to a semi-sync source that waits for it.  A source      *)
(* refuses a replica that needs purged transactions.                       *)
Receive(r) ==
    LET s == db[r].src IN
    /\ Connected(r)
    /\ Stream(s) \ Has(r) # {}
    /\ Purged(s) \subseteq Has(r)
    /\ LET t == Oldest(Stream(s) \ Has(r)) IN
          /\ db' = [db EXCEPT ![r].relay = @ \cup {t}]
          /\ acks' = IF db[r].ssS /\ s \in Index /\ t \in db[s].wait
                     THEN [acks EXCEPT ![t] = @ \cup {r}] ELSE acks
    /\ UNCHANGED <<uuid, ext, acked>>

Apply(r) ==
    /\ db[r].up
    /\ db[r].sql
    /\ db[r].relay # {}
    /\ LET t == Oldest(db[r].relay) IN
          db' = [db EXCEPT ![r] = [db[r] EXCEPT !.relay = @ \ {t},
                                                !.exec = @ \cup {t}]]
    /\ UNCHANGED <<uuid, acks, ext, acked>>

(* mysqld stops.  What was in the binary log is committed by the recovery, *)
(* relay logs are kept, and the settings fall back to those of my.cnf.     *)
Stopped(inst) ==
    [Released(inst) EXCEPT !.up = FALSE, !.ro = TRUE, !.io = FALSE,
        !.sql = FALSE, !.ssM = FALSE, !.ssS = FALSE,
        !.clone = IF @ = "in progress" THEN "failed" ELSE @]

Crash(i) ==
    /\ db[i].up
    /\ db' = [db EXCEPT ![i] = Stopped(db[i])]
    /\ UNCHANGED <<uuid, acks, ext, acked>>

Start(i) ==
    /\ ~db[i].up
    /\ db' = [db EXCEPT ![i].up = TRUE]
    /\ UNCHANGED <<uuid, acks, ext, acked>>

(* The restore Job loads a dump with --updateGtidSet=replace: the GTIDs of *)
(* the dumped cluster count as executed and purged.                        *)
LoadDump(i) ==
    /\ db[i].up
    /\ Unwritten # {}
    /\ db' = [db EXCEPT ![i] = [db[i] EXCEPT !.exec = {NextTxn},
                                             !.purged = {NextTxn}]]
    /\ uuid' = [uuid EXCEPT ![NextTxn] = Retired]
    /\ acked' = acked \cup {NextTxn}
    /\ UNCHANGED <<acks, ext>>

(* An administrator clears super_read_only by hand. *)
Unlock(i) ==
    /\ db[i].up
    /\ db[i].ro
    /\ db' = [db EXCEPT ![i].ro = FALSE]
    /\ UNCHANGED <<uuid, acks, ext, acked>>

(* An administrator's own transaction, committed around super_read_only.   *)
StrayWrite(i) ==
    /\ db[i].up
    /\ Unwritten # {}
    /\ uuid' = [uuid EXCEPT ![NextTxn] = i]
    /\ db' = [db EXCEPT ![i].exec = @ \cup {NextTxn}]
    /\ UNCHANGED <<acks, ext, acked>>

(* The volume is deleted and the instance initialised again, with a new    *)
(* server_uuid.                                                            *)
Wipe(i) ==
    /\ ~db[i].up
    /\ db' = [db EXCEPT ![i] = [FreshInstance EXCEPT !.up = FALSE]]
    /\ uuid' = [t \in Txn |-> IF uuid[t] = i THEN Retired ELSE uuid[t]]
    /\ UNCHANGED <<acks, ext, acked>>

=============================================================================
