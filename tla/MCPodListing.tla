---------------------------- MODULE MCPodListing ----------------------------
(***************************************************************************)
(* PodListing for TLC: the deployment's two ReplicaSets (a rollout is      *)
(* under way), one of a deployment with an overlapping selector, and a pod *)
(* of each.                                                                *)
(***************************************************************************)
EXTENDS PodListing, TLC

CONSTANTS old, new, foreign, p1, p2, p3

MCOwner == p1 :> old @@ p2 :> new @@ p3 :> foreign
=============================================================================
