------------------------- MODULE MCClusterRegistry --------------------------
(***************************************************************************)
(* Instances of ClusterRegistry for TLC.  k1 and k2 reach the same cluster *)
(* until it is rebuilt under k2; bad does not parse; the local file has    *)
(* one cluster.                                                            *)
(***************************************************************************)
EXTENDS ClusterRegistry, TLC

CONSTANTS a, b, k1, k2, k3, bad, u1, u2

MCAnswers ==
    k1 :> {u1} @@ k2 :> {u1, u2} @@ k3 :> {u2} @@ bad :> {}

MCLocalInfos == a :> [id |-> u1, kubeconfig |-> k1]

RequestSymmetry == Permutations(Requests)
=============================================================================
