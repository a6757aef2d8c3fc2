--------------------------- MODULE MCClusterProxy ---------------------------
(***************************************************************************)
(* Instances of ClusterProxy for TLC.                                      *)
(***************************************************************************)
EXTENDS ClusterProxy, TLC

CONSTANTS a, b, k1, k2, u1, u2

\* The cluster behind k2 may have been rebuilt in place of that behind k1.
MCAnswers == k1 :> {u1} @@ k2 :> {u1, u2}

MCLocalInfos == a :> [id |-> u1, kubeconfig |-> k1]

\* One cluster, known under two kubeconfigs.
OneAnswers == k1 :> {u1} @@ k2 :> {u1}

Bounds(write, delete, close, error, fault, kill) ==
    [k \in OutsideEvents |->
        CASE k = "write" -> write [] k = "delete" -> delete
          [] k = "close" -> close [] k = "error" -> error
          [] k = "fault" -> fault [] k = "kill" -> kill]

\* Every kind of trouble, on one replica.
Turbulence == Bounds(2, 1, 1, 1, 1, 1)

OneFault == Bounds(0, 0, 0, 0, 1, 0)
=============================================================================
