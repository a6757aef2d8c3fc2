---------------------------- MODULE RegistryData ----------------------------
(***************************************************************************)
(* The data hcnmp keeps: the registry of Kubernetes clusters, stored in    *)
(* the binaryData of one ConfigMap, cluster code |-> ClusterInfo           *)
(* (pkg/apis/cluster/cluster.go).  A ClusterInfo is the UID of the         *)
(* cluster's kube-system namespace and the kubeconfig that reaches it.     *)
(* Its Code field always equals the key it is stored under, so it is left  *)
(* out here; a nil binaryData and an empty one are the same function.      *)
(***************************************************************************)
EXTENDS Naturals, Functions

CONSTANTS
    Codes,        \* cluster codes (aliases) users choose
    Kubeconfigs,  \* kubeconfig documents users send
    Uids,         \* UIDs of kube-system namespaces
    Answers,      \* Answers[k]: the UIDs the cluster reached through
                  \* kubeconfig k may report; {} when k does not parse
    LocalInfos,   \* contents of the --local-cluster-info file
    NoConfigMap,  \* the ConfigMap does not exist
    NoCall        \* a request that has not arrived yet

ClusterInfo == [id : Uids, kubeconfig : Kubeconfigs]

\* Every value binaryData can take: a partial function from codes.
Registries == UNION {[S -> ClusterInfo] : S \in SUBSET Codes}

EmptyRegistry == [c \in {} |-> c]

\* A ConfigMap object as the API server returns it.
ConfigMaps == [resourceVersion : Nat, binaryData : Registries]

\* The requests of /apis/cluster/v1, named after their handlers.
Operations ==
    {"addCluster", "removeCluster", "updateCluster", "applyCluster",
     "getCluster", "getClusters"}

Calls == [op : Operations, code : Codes, kubeconfig : Kubeconfigs]

ASSUME AnswersAssumption == Answers \in [Kubeconfigs -> SUBSET Uids]
ASSUME LocalInfosAssumption == LocalInfos \in Registries
ASSUME NoConfigMapAssumption == NoConfigMap \notin ConfigMaps \cup Registries
ASSUME NoCallAssumption == NoCall \notin Calls

\* cm.BinaryData[code] = data
Put(data, code, info) ==
    [c \in DOMAIN data \cup {code} |-> IF c = code THEN info ELSE data[c]]

\* delete(cm.BinaryData, code)
Drop(data, code) == Restrict(data, DOMAIN data \ {code})

\* The UID loop of add, update and apply: some entry already has this UID.
UidTaken(data, uid) == \E c \in DOMAIN data : data[c].id = uid

\* No cluster is registered twice.
DistinctUids(data) ==
    \A c, d \in DOMAIN data : data[c].id = data[d].id => c = d

\* Every stored UID is one the stored kubeconfig's cluster has reported.
UidsMatch(data) ==
    \A c \in DOMAIN data : data[c].id \in Answers[data[c].kubeconfig]

\* What a ConfigMap, possibly absent, holds.
Contents(cm) == IF cm = NoConfigMap THEN EmptyRegistry ELSE cm.binaryData
=============================================================================
