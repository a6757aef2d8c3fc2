------------------------- MODULE MCDeploymentRestart ------------------------
(***************************************************************************)
(* Instances of DeploymentRestart for TLC: what a controller reports       *)
(* before the new pods run, after, while they start, and when it cannot    *)
(* create them, for one or two replicas.                                   *)
(***************************************************************************)
EXTENDS DeploymentRestart

Counted(n, ready, updated, conditions) ==
    [replicas |-> n, readyReplicas |-> ready, availableReplicas |-> ready,
     updatedReplicas |-> updated, conditions |-> conditions]

MCReports ==
    {Counted(1, 1, 0, {"Available"}),
     Counted(1, 1, 1, {"Available", "NewReplicaSetAvailable"}),
     Counted(2, 1, 1, {"Available"}),
     Counted(1, 1, 0, {"Available", "ReplicaFailure"})}
=============================================================================
