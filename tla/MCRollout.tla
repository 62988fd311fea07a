----------------------------- MODULE MCRollout -----------------------------
(* Scenarios of module Rollout: clusters of one and of three Pods. *)
EXTENDS Rollout

None == [fail |-> 0, error |-> 0, grow |-> 0, backup |-> 0, sick |-> 0]
Base == [tmpl |-> 1, size |-> 1, replicas |-> 3, offline |-> FALSE, force |-> FALSE]
One == [Base EXCEPT !.replicas = 1]

(* A second template before the first is rolled out. *)
TwoEdits ==
    {[first |-> Base, budget |-> None,
      edits |-> <<[Base EXCEPT !.tmpl = 2], [Base EXCEPT !.tmpl = 3]>>]}

(* Pods fail during a rolling update. *)
Failures ==
    {[first |-> Base, budget |-> [None EXCEPT !.fail = 1],
      edits |-> <<[Base EXCEPT !.tmpl = 2]>>],
     [first |-> One, budget |-> [None EXCEPT !.fail = 2],
      edits |-> <<[One EXCEPT !.tmpl = 2]>>]}

(* A template that does not work, with a Pod that fails, then one that     *)
(* works.  Template 9 is broken.                                           *)
BrokenTemplate ==
    {[first |-> Base, budget |-> [None EXCEPT !.fail = 1],
      edits |-> <<[Base EXCEPT !.tmpl = 9]>>],
     [first |-> Base, budget |-> None,
      edits |-> <<[Base EXCEPT !.tmpl = 9], [Base EXCEPT !.tmpl = 2]>>]}

(* Expansion of a cluster at rest, with errors and an autoresizer; with a  *)
(* new template; reduction.                                                *)
Resizing ==
    {[first |-> Base, budget |-> [None EXCEPT !.error = 2],
      edits |-> <<[Base EXCEPT !.size = 2]>>],
     [first |-> Base, budget |-> [None EXCEPT !.error = 1],
      edits |-> <<[Base EXCEPT !.size = 2, !.tmpl = 2]>>],
     [first |-> Base, budget |-> [None EXCEPT !.grow = 2],
      edits |-> <<[Base EXCEPT !.size = 2]>>],
     [first |-> [Base EXCEPT !.size = 2], budget |-> [None EXCEPT !.error = 1],
      edits |-> <<Base>>]}

(* force-rolling-update set, and removed during the update. *)
Forced ==
    {[first |-> One, budget |-> None,
      edits |-> <<[One EXCEPT !.tmpl = 2, !.force = TRUE]>>],
     [first |-> [One EXCEPT !.force = TRUE], budget |-> None,
      edits |-> <<[One EXCEPT !.tmpl = 2, !.force = TRUE], [One EXCEPT !.tmpl = 2]>>]}

(* More Pods and a new template; offline and back; an unhealthy cluster;   *)
(* a backup.                                                               *)
Others ==
    {[first |-> One, budget |-> [None EXCEPT !.error = 1],
      edits |-> <<[Base EXCEPT !.tmpl = 2]>>],
     [first |-> One, budget |-> None,
      edits |-> <<[One EXCEPT !.offline = TRUE], [One EXCEPT !.tmpl = 2]>>],
     [first |-> Base, budget |-> [None EXCEPT !.sick = 1], edits |-> <<[Base EXCEPT !.tmpl = 2]>>],
     [first |-> Base, budget |-> [None EXCEPT !.backup = 1, !.error = 1], edits |-> <<>>]}

AllScenarios ==
    TwoEdits \cup Failures \cup BrokenTemplate \cup Resizing \cup Forced \cup Others

(* The wanted size grows while a Pod is down. *)
ExpansionWhileDown ==
    {[first |-> Base, budget |-> [None EXCEPT !.fail = 1],
      edits |-> <<[Base EXCEPT !.size = 2]>>]}

=============================================================================
