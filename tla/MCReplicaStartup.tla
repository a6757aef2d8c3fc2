-------------------------- MODULE MCReplicaStartup --------------------------
(***************************************************************************)
(* Instances of ReplicaStartup for TLC: the file has one of two codes, and *)
(* the cluster behind it may have been rebuilt under another kubeconfig.   *)
(***************************************************************************)
EXTENDS ReplicaStartup, TLC

CONSTANTS a, b, k1, k2, u1, u2

MCAnswers == k1 :> {u1} @@ k2 :> {u1, u2}

MCLocalInfos == a :> [id |-> u1, kubeconfig |-> k1]

Bounds(write, delete, fault, kill) ==
    [k \in OutsideEvents |->
        CASE k = "write" -> write [] k = "delete" -> delete
          [] k = "fault" -> fault [] k = "kill" -> kill]

Turbulence == Bounds(2, 1, 1, 2)
=============================================================================
