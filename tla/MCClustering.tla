----------------------------- MODULE MCClustering -----------------------------
(* Clustering with small constants.  Several scenarios are checked at      *)
(* once: each is a start and a bound on every kind of event, and an event  *)
(* it does not name does not happen.                                       *)
EXTENDS Clustering, TLC

Scenario(start, bounds) ==
    [start |-> start, events |-> bounds @@ [e \in Events |-> 0]]

Replicating(bounds) == Scenario("replicating", bounds)

SafetyScenarios ==
    { (* an instance fails at any moment of a pass *)
      Replicating("midcrash" :> 1 @@ "write" :> 1),
      (* the controller loses an instance that goes on committing *)
      Replicating("cut" :> 1 @@ "write" :> 2),
      (* instances get transactions of their own, an instance fails *)
      Replicating("crash" :> 1 @@ "stray" :> 2),
      (* a request to switch, with a failure or an interrupted pass *)
      Replicating("crash" :> 1 @@ "demote" :> 1 @@ "write" :> 1),
      Replicating("demote" :> 1 @@ "abort" :> 1 @@ "write" :> 1),
      (* a Pod is deleted, as by a rolling update *)
      Replicating("delete" :> 1 @@ "write" :> 1),
      (* the primary is kept because a replica is behind *)
      Replicating("delete" :> 1 @@ "demote" :> 1 @@ "delay" :> 1),
      Replicating("demote" :> 1 @@ "delay" :> 1 @@ "write" :> 1),
      (* readiness is seen late *)
      Replicating("crash" :> 1 @@ "flaky" :> 1 @@ "write" :> 1),
      Replicating("demote" :> 1 @@ "flaky" :> 1 @@ "write" :> 1),
      (* a cluster that is restored loses an instance *)
      Scenario("restore", "crash" :> 1 @@ "write" :> 1) }

LiveScenarios ==
    { (* a failure, or a lost connection, and an interrupted pass *)
      Replicating("crash" :> 1 @@ "abort" :> 1 @@ "write" :> 1),
      Replicating("cut" :> 1 @@ "write" :> 1),
      (* a request to switch and an interrupted pass *)
      Replicating("demote" :> 1 @@ "abort" :> 1 @@ "write" :> 1),
      (* a second request that read the primary before the switch *)
      Replicating("demote" :> 1 @@ "late" :> 1),
      Replicating("crash" :> 1 @@ "late" :> 1),
      (* a Pod is deleted with its volume *)
      Replicating("delete" :> 1 @@ "wipe" :> 1),
      (* the cluster is taken offline and back *)
      Replicating("offline" :> 2),
      (* an errant transaction around a request to switch *)
      Replicating("stray" :> 1 @@ "demote" :> 1),
      (* an instance is made writable by hand *)
      Replicating("unlock" :> 1 @@ "write" :> 1),
      Replicating("unlock" :> 1 @@ "cut" :> 1),
      (* new instances are configured while one fails *)
      Scenario("fresh", "midcrash" :> 1 @@ "write" :> 1),
      (* the first clone fails; a switch of the intermediate primary *)
      Scenario("source", "demote" :> 1 @@ "clonefail" :> 1 @@ "external" :> 1),
      (* the cluster leaves its replication source *)
      Scenario("source", "promote" :> 1 @@ "external" :> 1 @@ "write" :> 1),
      (* an intermediate primary is made writable by hand *)
      Scenario("source", "unlock" :> 1),
      (* a restored cluster *)
      Scenario("restore", "crash" :> 1 @@ "demote" :> 1) }

(* One failure of an instance, which may stay down. *)
OutageScenarios == {Replicating("crash" :> 1 @@ "write" :> 1)}

-----------------------------------------------------------------------------
(* Scenarios in which the code departs from its documents *)

(* An instance restarts, then the controller loses another one. *)
ChainedScenarios ==
    {Replicating("midcrash" :> 1 @@ "cut" :> 1 @@ "write" :> 1)}

(* The primary fails after one of its replicas has restarted. *)
TwoCrashScenarios == {Replicating("crash" :> 2 @@ "write" :> 1)}

(* The cluster is taken offline. *)
OfflineScenarios == {Replicating("offline" :> 1)}

(* A Pod is deleted and one API call fails. *)
LabelScenarios == {Replicating("delete" :> 1 @@ "abort" :> 1)}

=============================================================================
