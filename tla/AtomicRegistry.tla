--------------------------- MODULE AtomicRegistry ---------------------------
(***************************************************************************)
(* What the cluster registry promises its users, without resource          *)
(* versions, snapshots or replicas: a map from codes to clusters on which  *)
(* every request takes effect in one indivisible step.                     *)
(*                                                                         *)
(*  - A 200 means the request's effect is in the registry (or, for         *)
(*    updateCluster and applyCluster, that the entry already was as asked).*)
(*  - A write changes the entry of its own code and no other.              *)
(*  - A request may always be refused without effect, and the answer to a  *)
(*    write that took effect may be lost (the user then sees a 500).       *)
(*                                                                         *)
(* The operator's actions on the ConfigMap itself are part of the promise: *)
(* it may be deleted, and an absent one is filled from the local file.     *)
(***************************************************************************)
EXTENDS RegistryData

CONSTANT Requests   \* the HTTP requests of one run of the system

VARIABLES
    registry,   \* the registered clusters
    call,       \* call[p]: what request p asks for
    answer      \* answer[p]: its HTTP status, 0 while it is being served

vars == <<registry, call, answer>>

\* 500 stands for every status that is none of the other three.
Refusals == {404, 409, 500}

Init ==
    /\ registry \in {EmptyRegistry, LocalInfos}
    /\ call = [p \in Requests |-> NoCall]
    /\ answer = [p \in Requests |-> 0]

\* Request p arrives, and may be turned away at once.
Accept(p, c) ==
    /\ call[p] = NoCall
    /\ call' = [call EXCEPT ![p] = c]
    /\ \E s \in {0} \cup Refusals : answer' = [answer EXCEPT ![p] = s]
    /\ UNCHANGED registry

Serving(p) == call[p] \in Calls /\ answer[p] = 0

\* The registry after the write c with the cluster's UID uid.
Effect(c, uid) ==
    IF c.op = "removeCluster"
    THEN Drop(registry, c.code)
    ELSE Put(registry, c.code, [id |-> uid, kubeconfig |-> c.kubeconfig])

\* The write c is legal on the registry as it is at this instant.
Legal(c, uid) ==
    CASE c.op = "addCluster"    -> /\ c.code \notin DOMAIN registry
                                   /\ ~UidTaken(registry, uid)
      [] c.op = "removeCluster" -> c.code \in DOMAIN registry
      [] c.op = "updateCluster" -> /\ c.code \in DOMAIN registry
                                   /\ ~UidTaken(Drop(registry, c.code), uid)
      [] c.op = "applyCluster"  -> ~UidTaken(Drop(registry, c.code), uid)
      [] OTHER -> FALSE

Commit(p, uid) ==
    /\ Serving(p)
    /\ Legal(call[p], uid)
    /\ registry' = Effect(call[p], uid)
    /\ \E s \in {200, 500} : answer' = [answer EXCEPT ![p] = s]
    /\ UNCHANGED call

\* On this registry request c is answered 200 and writes nothing.
Settled(c, data) ==
    \/ c.op = "getClusters"
    \/ c.op = "getCluster" /\ c.code \in DOMAIN data
    \/ /\ c.op \in {"updateCluster", "applyCluster"}
       /\ c.code \in DOMAIN data
       /\ data[c.code].kubeconfig = c.kubeconfig

\* p is answered without a write of its own, or goes on being served.
Resolve(p, data) ==
    /\ Serving(p)
    /\ \/ \E s \in Refusals : answer' = [answer EXCEPT ![p] = s]
       \/ Settled(call[p], data) /\ answer' = [answer EXCEPT ![p] = 200]
       \/ UNCHANGED answer
    /\ UNCHANGED call

Reply(p) == Resolve(p, registry) /\ UNCHANGED registry

\* Serving p, the absent ConfigMap is created from the local file.
SeedFor(p) ==
    /\ registry = EmptyRegistry
    /\ registry' = LocalInfos
    /\ Resolve(p, LocalInfos)

Seed ==
    /\ registry = EmptyRegistry
    /\ registry' = LocalInfos
    /\ UNCHANGED <<call, answer>>

Wipe == registry' = EmptyRegistry /\ UNCHANGED <<call, answer>>

Next ==
    \/ \E p \in Requests, c \in Calls : Accept(p, c)
    \/ \E p \in Requests, uid \in Uids : Commit(p, uid)
    \/ \E p \in Requests : Reply(p) \/ SeedFor(p)
    \/ Seed
    \/ Wipe

Spec == Init /\ [][Next]_vars
=============================================================================
