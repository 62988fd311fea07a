------------------------------ MODULE MCBackup ------------------------------
(* Scenarios of module Backup: three backups. *)
EXTENDS Backup, TLC

Base ==
    [commit |-> 3, tick |-> 2, jobs |-> 3, rotate |-> 0, purge |-> 0, lose |-> 0,
     failover |-> 0, down |-> 0, error |-> 0, restore |-> 0,
     overlap |-> FALSE, lag |-> FALSE]

(* The source of the last backup is promoted, lags or is down; files are   *)
(* rotated and expire.                                                     *)
Sources ==
    {[Base EXCEPT !.commit = 2, !.failover = 1, !.rotate = 1, !.lag = TRUE],
     [Base EXCEPT !.failover = 1, !.rotate = 1, !.purge = 1, !.commit = 2],
     [Base EXCEPT !.down = 1, !.rotate = 1, !.commit = 2],
     [Base EXCEPT !.down = 3, !.jobs = 2, !.commit = 1, !.tick = 1]}

(* An instance is cloned. *)
Clones ==
    {[Base EXCEPT !.lose = 1, !.failover = 1, !.commit = 2],
     [Base EXCEPT !.lose = 2, !.jobs = 2, !.commit = 2]}

(* Jobs fail, and Jobs overlap. *)
Jobs ==
    {[Base EXCEPT !.error = 2, !.tick = 3],
     [Base EXCEPT !.overlap = TRUE, !.error = 1, !.tick = 3, !.commit = 2]}

(* A restoration, and a second Job if the first fails. *)
Restoring ==
    {[Base EXCEPT !.commit = 2, !.tick = 2, !.jobs = 2, !.restore = 2, !.error = 1]}

AllScenarios == Sources \cup Clones \cup Jobs \cup Restoring

Symmetry == Permutations(Slots)

=============================================================================
