-------------------------------- MODULE Ledger --------------------------------
(***************************************************************************)
(* What a MySQLCluster promises to the clients of its primary Service: a   *)
(* ledger of the transactions they were told had committed, which only     *)
(* grows, and a leader that holds all of it.  The leader may change, only  *)
(* to an instance that holds the whole ledger; the other instances may     *)
(* lose what they hold, only to become a copy of what the leader has.      *)
(*                                                                         *)
(* Nothing here says how: semi-sync acks, the comparison of GTID sets, the *)
(* stop of IO threads and the waits are those of module Clustering.        *)
(***************************************************************************)
CONSTANTS Nodes, Txns

VARIABLES
    log,        \* the transactions acknowledged to a client
    leader,     \* the instance that clients are sent to
    held        \* what each instance has executed

ledgerVars == <<log, leader, held>>

Init ==
    /\ leader \in Nodes
    /\ held \in [Nodes -> SUBSET Txns]
    /\ log \subseteq held[leader]

(* An instance commits t and answers its client.  It need not be the       *)
(* leader: a deposed one may answer for a transaction that the new leader  *)
(* already has.                                                            *)
Acknowledge(i, t) ==
    /\ t \notin log
    /\ log' = log \cup {t}
    /\ held' = [held EXCEPT ![i] = @ \cup {t}]
    /\ t \in held'[leader]
    /\ UNCHANGED leader

Elect(i) ==
    /\ i # leader
    /\ log \subseteq held[i]
    /\ leader' = i
    /\ UNCHANGED <<log, held>>

(* An instance executes more: replication, or a commit no client learns of. *)
Advance(i) ==
    /\ \E more \in SUBSET Txns : held' = [held EXCEPT ![i] = @ \cup more]
    /\ UNCHANGED <<log, leader>>

(* An instance other than the leader starts again from nothing or from a   *)
(* copy of the leader.                                                     *)
Replace(i) ==
    /\ i # leader
    /\ held' \in {[held EXCEPT ![i] = {}], [held EXCEPT ![i] = held[leader]]}
    /\ UNCHANGED <<log, leader>>

Next ==
    \E i \in Nodes :
        \/ \E t \in Txns : Acknowledge(i, t)
        \/ Elect(i)
        \/ Advance(i)
        \/ Replace(i)

Spec == Init /\ [][Next]_ledgerVars

-----------------------------------------------------------------------------
(* What follows for a client: at every moment the instance it is sent to   *)
(* has executed all that was ever acknowledged (status.currentPrimaryIndex *)
(* and gtid_executed).                                                     *)
NothingLost == log \subseteq held[leader]

=============================================================================
