------------------------------- MODULE MCHcnmp ------------------------------
(***************************************************************************)
(* Instances of Hcnmp for TLC: k1 and k2 reach one cluster, k3 another,    *)
(* and the local file has one of two codes.                                *)
(***************************************************************************)
EXTENDS Hcnmp, TLC

CONSTANTS a, b, k1, k2, k3, u1, u2

MCAnswers == k1 :> {u1} @@ k2 :> {u1} @@ k3 :> {u2}

\* For the instance with one code.
TwoAnswers == k1 :> {u1} @@ k3 :> {u2}

MCLocalInfos == a :> [id |-> u1, kubeconfig |-> k1]

Ask(op, code, kubeconfig) == [op |-> op, code |-> code, kubeconfig |-> kubeconfig]

\* Every writer, and what makes them meet: one cluster under two codes, one
\* code with two clusters.
MCMenu ==
    {Ask("addCluster", b, k2), Ask("removeCluster", a, k1),
     Ask("updateCluster", a, k2), Ask("applyCluster", b, k3)}

\* The handler that creates the ConfigMap and changes an entry.
OneApply == {Ask("applyCluster", a, k3)}

Bounds(write, delete, close, error, fault, kill) ==
    [k \in OutsideEvents |->
        CASE k = "write" -> write [] k = "delete" -> delete
          [] k = "close" -> close [] k = "error" -> error
          [] k = "fault" -> fault [] k = "kill" -> kill]

Writes == Bounds(3, 1, 0, 0, 0, 1)
DeleteAndKill == Bounds(2, 1, 0, 0, 0, 1)

RequestSymmetry == Permutations(Requests)
=============================================================================
