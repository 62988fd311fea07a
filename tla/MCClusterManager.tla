--------------------------- MODULE MCClusterManager ---------------------------
(* ClusterManager with small constants.  Several scenarios are checked at  *)
(* once; each bounds what happens in its behaviours.                       *)
EXTENDS ClusterManager

Scenario(stopped, fails, request, delete, restart) ==
    [stopped |-> stopped, failing |-> fails,
     requests |-> request, deletes |-> delete, restarts |-> restart]

ManagerScenarios ==
    { (* clustering or reconciliation is stopped and started again *)
      Scenario(FALSE, {"pass", "status"}, 2, 0, 0),
      (* the controller takes over a stopped cluster *)
      Scenario(TRUE, Faults, 2, 0, 0),
      (* the controller is shut down, or dies, around a request *)
      Scenario(FALSE, {"pass", "status"}, 1, 0, 1),
      (* the MySQLCluster is deleted and created again *)
      Scenario(FALSE, {"resources", "status"}, 0, 1, 0) }

(* A stopped cluster is started and stopped again while its passes fail. *)
FailingScenarios == {Scenario(TRUE, {"pass"}, 2, 0, 0)}

=============================================================================
