-------------------------------- MODULE Hcnmp -------------------------------
(***************************************************************************)
(* The system: the handlers of ClusterRegistry run in the replicas of      *)
(* ClusterProxy, are admitted by their replica's own cache, write the      *)
(* ConfigMap whose events the watchers follow, and die with their replica. *)
(*                                                                         *)
(* ClusterRegistry lets the cache answer anything, ClusterProxy lets the   *)
(* registry move by any legal write.  Here each has the other in place of  *)
(* its assumption.                                                         *)
(*                                                                         *)
(* A definition marked "fault:" is a mutated form of the next one, kept to *)
(* show that a property can fail; no specification uses it.                *)
(***************************************************************************)
EXTENDS ClusterProxy

CONSTANTS
    Requests,     \* the requests to /apis/cluster/v1
    Menu,         \* bound: what they may ask for
    MaxRevision,  \* out of reach: deletions are bounded by Budget here
    NoReplica     \* a request that runs nowhere, not yet or not any more

ASSUME MenuAssumption == Menu \subseteq Calls /\ NoReplica \notin Replicas

\* Revisions end below it: every deletion lets the ConfigMap be created once.
ASSUME MaxRevisionAssumption ==
    MaxRevision \in Nat /\ MaxRevision > Budget["write"] + 2 * Budget["delete"]

VARIABLES
    call, pc, copy, status,  \* those of ClusterRegistry; its cm is copy here
    at                       \* at[p]: the replica that p's handler runs in

R == INSTANCE ClusterRegistry WITH cm <- copy

handlers == <<call, pc, copy, status>>
systemVars == <<vars, handlers, at>>

SystemInit ==
    /\ Init
    /\ call = [p \in Requests |-> NoCall]
    /\ pc = [p \in Requests |-> "idle"]
    /\ copy = [p \in Requests |-> NoConfigMap]
    /\ status = [p \in Requests |-> 0]
    /\ at = [p \in Requests |-> NoReplica]

\* The server listens from the end of InitProxy on, whatever becomes of the
\* watcher.
Serving(r) == phase[r] \notin Booting \cup {"exited"}

Admit(p, r) ==
    /\ Serving(r)
    /\ \E c \in Menu : R!Arrive(p, c, c.code \in DOMAIN codeClusterClient[r])
    /\ at' = [at EXCEPT ![p] = r]
    /\ UNCHANGED <<phase, clusterWatch, channels, cm, idtmp, caches, spent>>

\* What a handler writes reaches the watchers of all replicas.
Handle(p) ==
    /\ at[p] # NoReplica
    /\ R!Handler(p)
    /\ IF configMap' = configMap
       THEN UNCHANGED <<clusterWatch, spent>>
       ELSE /\ Spend("write")
            /\ Broadcast(IF configMap = NoConfigMap THEN "ADDED" ELSE "MODIFIED",
                         configMap')
    /\ UNCHANGED <<phase, channels, cm, idtmp, caches, at>>

\* A process takes its requests with it.
RequestsDie ==
    at' = [p \in Requests |->
              IF \E r \in Replicas : at[p] = r /\ phase'[r] = "exited"
              THEN NoReplica ELSE at[p]]

Besides == RequestsDie /\ UNCHANGED handlers

Watcher(r) == Step(r) /\ Besides
Reboot(r) == Restart(r) /\ Besides

Trouble(r) ==
    /\ CloseWatch(r) \/ FailWatch(r) \/ ApiFault(r) \/ SyncFault(r) \/ Kill(r)
    /\ Besides

SystemNext ==
    \/ \E p \in Requests : Handle(p) \/ \E r \in Replicas : Admit(p, r)
    \/ \E r \in Replicas : Watcher(r) \/ Reboot(r) \/ Trouble(r)
    \/ OperatorDelete /\ Besides

SystemSpec == SystemInit /\ [][SystemNext]_systemVars

\* As in ClusterProxy; nothing is assumed of users and handlers.
SystemFairSpec ==
    /\ SystemSpec
    /\ \A r \in Replicas :
         WF_systemVars(Watcher(r)) /\ WF_systemVars(Reboot(r))
-----------------------------------------------------------------------------
(***************************************************************************)
(* Properties.                                                             *)
(***************************************************************************)
\* The handlers find in the caches, watchers and operators the surroundings
\* ClusterRegistry assumes, and so keep all it promises.
KeepsClusterRegistry == R!Spec

\* The watchers find in the handlers the writers ClusterProxy assumes: every
\* change of the ConfigMap, also by a handler that works on an old copy or
\* whose response is lost, is one legal change of one entry.
KeepsClusterProxy == Spec

\* A replica that is behind may refuse wrongly at its door; one that waits
\* with nothing undelivered does not: its 404 and 409 are the registry's own.
Quiet(r) ==
    /\ phase[r] = "select"
    /\ clusterWatch[r] = [open |-> TRUE, events |-> <<>>]
    /\ ~retryNew[r]
    /\ configMap # NoConfigMap

RefusalsAreFounded ==
    [][\A p \in Requests, r \in Replicas :
          pc[p] = "idle" /\ pc'[p] = "done" /\ at'[p] = r /\ Quiet(r) =>
              (status'[p] = 409 <=> call'[p].code \in DOMAIN Contents(configMap))
      ]_systemVars

\* Business requests never reach a cluster through the kubeconfig of a
\* request that was refused: what any cache holds came from the local file,
\* or from a request answered 200, or 500 when only its response was lost.
RefusedIsNeverServed ==
    \A r \in Replicas : \A c \in DOMAIN codeClusterClient[r] :
        LET k == codeClusterClient[r][c]
        IN  \/ c \in DOMAIN LocalInfos /\ LocalInfos[c].kubeconfig = k
            \/ \E p \in Requests :
                 /\ call[p] # NoCall
                 /\ call[p].code = c /\ call[p].kubeconfig = k
                 /\ call[p].op \in {"addCluster", "updateCluster", "applyCluster"}
                 /\ status[p] \in {200, 500}
=============================================================================
