----------------------------- MODULE LedgerProofs -----------------------------
(* The promise of module Ledger, for every set of instances and            *)
(* transactions.  A specification that implements Ledger inherits it.      *)
EXTENDS Ledger, TLAPS

(* Inductive: the leader is an instance and each holds a set of            *)
(* transactions, so that what a step does to one instance is a fact about  *)
(* that instance alone.                                                    *)
LedgerInv ==
    /\ leader \in Nodes
    /\ held \in [Nodes -> SUBSET Txns]
    /\ NothingLost

(* An acknowledgement records what the leader has. *)
LEMMA AcknowledgeKeeps ==
    ASSUME LedgerInv, NEW i \in Nodes, NEW t \in Txns, Acknowledge(i, t)
    PROVE  LedgerInv'
<1>1. held' \in [Nodes -> SUBSET Txns]
    BY DEF LedgerInv, Acknowledge
<1>2. held[leader] \subseteq held'[leader]
    BY DEF LedgerInv, Acknowledge
<1>3. NothingLost'
    BY <1>2 DEF LedgerInv, Acknowledge, NothingLost
<1> QED
    BY <1>1, <1>3 DEF LedgerInv, Acknowledge

(* A new leader has everything that was acknowledged. *)
LEMMA ElectKeeps ==
    ASSUME LedgerInv, NEW i \in Nodes, Elect(i)
    PROVE  LedgerInv'
    BY DEF LedgerInv, Elect, NothingLost

(* Nothing is lost when a node gets more. *)
LEMMA AdvanceKeeps ==
    ASSUME LedgerInv, NEW i \in Nodes, Advance(i)
    PROVE  LedgerInv'
<1>1. PICK more \in SUBSET Txns : held' = [held EXCEPT ![i] = @ \cup more]
    BY DEF Advance
<1>2. held' \in [Nodes -> SUBSET Txns]
    BY <1>1 DEF LedgerInv
<1>3. held[leader] \subseteq held'[leader]
    BY <1>1 DEF LedgerInv
<1> QED
    BY <1>2, <1>3 DEF LedgerInv, Advance, NothingLost

(* The contents of a node that does not lead do not matter. *)
LEMMA ReplaceKeeps ==
    ASSUME LedgerInv, NEW i \in Nodes, Replace(i)
    PROVE  LedgerInv'
<1>1. held' \in [Nodes -> SUBSET Txns]
    BY DEF LedgerInv, Replace
<1>2. held'[leader] = held[leader]
    BY DEF LedgerInv, Replace
<1> QED
    BY <1>1, <1>2 DEF LedgerInv, Replace, NothingLost

(* The leader holds the whole ledger for ever, however often it changes    *)
(* (updateStatus of currentPrimaryIndex) and whatever instances lose.      *)
THEOREM LedgerHeld == Spec => []NothingLost
<1>1. Init => LedgerInv
    BY DEF Init, LedgerInv, NothingLost
<1>2. LedgerInv /\ [Next]_ledgerVars => LedgerInv'
    <2> SUFFICES ASSUME LedgerInv, [Next]_ledgerVars PROVE LedgerInv'
        OBVIOUS
    <2>1. CASE UNCHANGED ledgerVars
        BY <2>1 DEF ledgerVars, LedgerInv, NothingLost
    <2>2. CASE Next
        <3>1. PICK i \in Nodes :
                  \/ \E t \in Txns : Acknowledge(i, t)
                  \/ Elect(i) \/ Advance(i) \/ Replace(i)
            BY <2>2 DEF Next
        <3> QED
            BY <3>1, AcknowledgeKeeps, ElectKeeps, AdvanceKeeps, ReplaceKeeps
    <2> QED
        BY <2>1, <2>2
<1>3. LedgerInv => NothingLost
    BY DEF LedgerInv
<1> QED
    BY <1>1, <1>2, <1>3, PTL DEF Spec

=============================================================================
