--------------------------- MODULE ReplicaStartup ---------------------------
(***************************************************************************)
(* How hcnmp replicas start (cmd/cmd.go): Validate makes sure that the     *)
(* namespace exists and brings the entries of the --local-cluster-info     *)
(* file into the ConfigMap, then InitProxy makes sure that there is one.   *)
(* Replicas start, die and start again next to replicas that already serve *)
(* requests.                                                               *)
(*                                                                         *)
(* Each call to the API server is one step.  The handlers' writes are      *)
(* those of AtomicRegistry.  What ClusterProxy does after InitProxy's call *)
(* of watchcm is not repeated here.                                        *)
(*                                                                         *)
(* A definition marked "fault:" is a mutated form of the next one, kept to *)
(* show that a property can fail; no specification uses it.                *)
(***************************************************************************)
EXTENDS RegistryData

CONSTANTS
    Replicas,   \* the hcnmp pods
    Budget      \* bound: how often each kind of outside event may happen

OutsideEvents == {"write", "delete", "fault", "kill"}

ASSUME BudgetAssumption == Budget \in [OutsideEvents -> Nat]

VARIABLES
    localFile,  \* is --local-cluster-info given (to all replicas alike)
    namespace,  \* does the namespace exist
    entries,    \* binaryData of the ConfigMap, or NoConfigMap
    phase,      \* phase[r]: the call r makes next, "running" or "exited"
    spent       \* how often each outside event has happened

vars == <<localFile, namespace, entries, phase, spent>>

Phases == {"getNamespace", "createNamespace", "get", "create", "apply",
           "bootGet", "bootCreate", "running", "exited"}

\* What the file contributes.
Local == IF localFile THEN LocalInfos ELSE EmptyRegistry

Present == IF entries = NoConfigMap THEN EmptyRegistry ELSE entries

Init ==
    /\ localFile \in BOOLEAN
    /\ namespace \in BOOLEAN
    /\ entries = NoConfigMap
    /\ phase = [r \in Replicas |-> "getNamespace"]
    /\ spent = [k \in OutsideEvents |-> 0]

Spend(k) ==
    /\ spent[k] < Budget[k]
    /\ spent' = [spent EXCEPT ![k] = @ + 1]

Goto(r, next) == phase' = [phase EXCEPT ![r] = next]
-----------------------------------------------------------------------------
(***************************************************************************)
(* Validate.                                                               *)
(***************************************************************************)
GetNamespaceInVain(r) ==     \* fault: NotFound is not told from success
    /\ phase[r] = "getNamespace"
    /\ Goto(r, "get")
    /\ UNCHANGED <<localFile, namespace, entries, spent>>

GetNamespace(r) ==
    /\ phase[r] = "getNamespace"
    /\ Goto(r, IF namespace THEN "get" ELSE "createNamespace")
    /\ UNCHANGED <<localFile, namespace, entries, spent>>

\* AlreadyExists ends the process.  With a file the ConfigMap is created at
\* once, without a look whether there is one.
CreateNamespace(r) ==
    /\ phase[r] = "createNamespace"
    /\ namespace' = TRUE
    /\ Goto(r, IF namespace THEN "exited"
               ELSE IF localFile THEN "create" ELSE "get")
    /\ UNCHANGED <<localFile, entries, spent>>

GetConfigMap(r) ==
    /\ phase[r] = "get"
    /\ Goto(r, IF ~localFile THEN "bootGet"
               ELSE IF entries = NoConfigMap THEN "create" ELSE "apply")
    /\ UNCHANGED <<localFile, namespace, entries, spent>>

\* utils.CreateConfigMapsFromLocal, in Validate and in watchcm; AlreadyExists
\* ends the process.
CreateConfigMap(r) ==
    /\ phase[r] \in {"create", "bootCreate"}
    /\ IF entries = NoConfigMap
       THEN /\ entries' = Local
            /\ Goto(r, IF phase[r] = "create" THEN "bootGet" ELSE "running")
       ELSE Goto(r, "exited") /\ UNCHANGED entries
    /\ UNCHANGED <<localFile, namespace, spent>>

\* An entry of the file that is stored with another value was changed by a
\* handler, which made the handlers' Update its field manager.
Changed == \E c \in DOMAIN Local : c \in DOMAIN Present /\ Present[c] # Local[c]

Merged ==
    [c \in DOMAIN Present \cup DOMAIN Local |->
        IF c \in DOMAIN Local THEN Local[c] ELSE Present[c]]

ApplyByForce(r) ==     \* fault: ApplyOptions with Force
    /\ phase[r] = "apply"
    /\ entries' = Merged
    /\ Goto(r, "bootGet")
    /\ UNCHANGED <<localFile, namespace, spent>>

ApplyByCreate(r) ==     \* fault: Create, where the ConfigMap exists
    /\ phase[r] = "apply"
    /\ IF entries = NoConfigMap
       THEN entries' = Local /\ Goto(r, "bootGet")
       ELSE Goto(r, "exited") /\ UNCHANGED entries
    /\ UNCHANGED <<localFile, namespace, spent>>

\* Server-side apply: a conflict with another field manager is an error, an
\* absent ConfigMap is created, entries that are not in the file are left.
Apply(r) ==
    /\ phase[r] = "apply"
    /\ IF Changed
       THEN Goto(r, "exited") /\ UNCHANGED entries
       ELSE Goto(r, "bootGet") /\ entries' = Merged
    /\ UNCHANGED <<localFile, namespace, spent>>

\* InitProxy, up to the end of watchcm.
BootGet(r) ==
    /\ phase[r] = "bootGet"
    /\ Goto(r, IF entries = NoConfigMap THEN "bootCreate" ELSE "running")
    /\ UNCHANGED <<localFile, namespace, entries, spent>>
-----------------------------------------------------------------------------
(***************************************************************************)
(* Everybody else.                                                         *)
(***************************************************************************)
HandlerWriteUnchecked ==     \* fault: no UID loop
    /\ Spend("write")
    /\ \E r \in Replicas : phase[r] = "running"
    /\ entries # NoConfigMap
    /\ \E c \in Codes, info \in ClusterInfo :
            info.id \in Answers[info.kubeconfig] /\ entries' = Put(entries, c, info)
    /\ UNCHANGED <<localFile, namespace, phase>>

\* A replica that runs accepts an add, an update or a removal.
HandlerWrite ==
    /\ Spend("write")
    /\ \E r \in Replicas : phase[r] = "running"
    /\ entries # NoConfigMap
    /\ \/ \E c \in DOMAIN entries : entries' = Drop(entries, c)
       \/ \E c \in Codes, info \in ClusterInfo :
            /\ info.id \in Answers[info.kubeconfig]
            /\ ~UidTaken(Drop(entries, c), info.id)
            /\ c \in DOMAIN entries => entries[c].kubeconfig # info.kubeconfig
            /\ entries' = Put(entries, c, info)
    /\ UNCHANGED <<localFile, namespace, phase>>

\* The watcher or a handler of a replica that runs creates the ConfigMap.
Rebuild ==
    /\ \E r \in Replicas : phase[r] = "running"
    /\ entries = NoConfigMap
    /\ entries' = Local
    /\ UNCHANGED <<localFile, namespace, phase, spent>>

OperatorDelete ==
    /\ Spend("delete")
    /\ entries # NoConfigMap
    /\ entries' = NoConfigMap
    /\ UNCHANGED <<localFile, namespace, phase>>

\* A call fails, or the file does not parse: CheckErr ends the process.
Fault(r) ==
    /\ Spend("fault")
    /\ phase[r] \notin {"running", "exited"}
    /\ Goto(r, "exited")
    /\ UNCHANGED <<localFile, namespace, entries>>

Kill(r) ==
    /\ Spend("kill")
    /\ phase[r] # "exited"
    /\ Goto(r, "exited")
    /\ UNCHANGED <<localFile, namespace, entries>>

Restart(r) ==
    /\ phase[r] = "exited"
    /\ Goto(r, "getNamespace")
    /\ UNCHANGED <<localFile, namespace, entries, spent>>

Startup(r) ==
    \/ GetNamespace(r) \/ CreateNamespace(r) \/ GetConfigMap(r)
    \/ CreateConfigMap(r) \/ Apply(r) \/ BootGet(r)

Next ==
    \/ HandlerWrite \/ Rebuild \/ OperatorDelete
    \/ \E r \in Replicas : Startup(r) \/ Fault(r) \/ Kill(r) \/ Restart(r)

Spec == Init /\ [][Next]_vars

\* Calls return, and the kubelet restarts what exits.
FairSpec ==
    Spec /\ \A r \in Replicas : WF_vars(Startup(r)) /\ WF_vars(Restart(r))
-----------------------------------------------------------------------------
(***************************************************************************)
(* Properties.                                                             *)
(***************************************************************************)
\* The type invariant, with what a replica knows when it makes its calls.
TypeOK ==
    /\ localFile \in BOOLEAN /\ namespace \in BOOLEAN
    /\ entries \in Registries \cup {NoConfigMap}
    /\ phase \in [Replicas -> Phases]
    /\ spent \in [OutsideEvents -> Nat]
    /\ entries # NoConfigMap => namespace
    /\ \A r \in Replicas :
         /\ phase[r] \in {"create", "apply"} => localFile
         /\ phase[r] \notin {"getNamespace", "createNamespace", "exited"} =>
                namespace

\* Whatever a starting replica does, and whenever it dies, it takes nothing
\* from the replicas that serve: no entry is changed or removed, in
\* particular none that a user changed since the file was written.
StartupKeepsEntries ==
    [][phase' # phase =>
          \A c \in DOMAIN Present :
              c \in DOMAIN Present' /\ Present'[c] = Present[c]]_vars

\* The replicas race to create namespace and ConfigMap, and the losers exit,
\* but all of them end up running, unless a user has changed an entry of the
\* file for good: then what restarts never starts again.
StartsUnlessChanged ==
    \A r \in Replicas : <>[](phase[r] = "running") \/ <>[]Changed

\* The handlers refuse to register a cluster twice, startup does not look at
\* UIDs: a cluster of the file that was removed, and registered under another
\* code since, comes back under its old one.  That is the only way to two
\* codes of one cluster.
DuplicatesComeFromTheFile ==
    \A c, d \in DOMAIN Present :
        c # d /\ Present[c].id = Present[d].id =>
            \E e \in {c, d} \cap DOMAIN Local : Present[e] = Local[e]
=============================================================================
