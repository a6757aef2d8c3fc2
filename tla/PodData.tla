------------------------------ MODULE PodData -------------------------------
(***************************************************************************)
(* The pods of a deployment as data: what PodListing takes from the filter *)
(* loops, and what OwnerFilter checks the loops against.                   *)
(*                                                                         *)
(* A definition marked "fault:" is a mutated form of the next one, kept to *)
(* show that a property can fail; no specification uses it.                *)
(***************************************************************************)
CONSTANTS
    ReplicaSets, Pods,
    Owned,     \* the ReplicaSets controlled by the deployment
    Owner      \* Owner[p]: the ReplicaSet that controls pod p

ASSUME OwnedAssumption == Owned \subseteq ReplicaSets
ASSUME OwnerAssumption == Owner \in [Pods -> ReplicaSets]

FilteredByList(replicaSets, pods) ==     \* fault: no IsControlledBy(deployment)
    {p \in pods : Owner[p] \in replicaSets}

\* The result of FilterDeploymentPodsByOwnerReference, without its order.
Filtered(replicaSets, pods) == {p \in pods : Owner[p] \in replicaSets \cap Owned}
=============================================================================
