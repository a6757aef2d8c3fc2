------------------------ MODULE ReplicaStartupProofs ------------------------
(***************************************************************************)
(* Proofs about ReplicaStartup, for any set of replicas, any file and any  *)
(* bounds:                                                                 *)
(*                                                                         *)
(*   TypeCorrect          Spec => []TypeOK                                 *)
(*   OnlyTheFileDoubles   Spec => []DuplicatesComeFromTheFile              *)
(*   StartupTakesNothing  Spec => StartupKeepsEntries                      *)
(*                                                                         *)
(* TypeOK and DuplicatesComeFromTheFile are inductive together.            *)
(***************************************************************************)
EXTENDS ReplicaStartup, RegistryLemmas

\* What the file contributes is a registry.
LEMMA LocalType == Local \in Registries
  BY LocalInfosAssumption, EmptyRegistryType DEF Local

\* Server-side apply gives a registry.
LEMMA MergedType ==
    ASSUME TypeOK
    PROVE  Present \in Registries /\ Merged \in Registries
  <1>1. Present \in Registries
    BY EmptyRegistryType DEF Present, TypeOK
  <1>2. /\ DOMAIN Present \in SUBSET Codes
        /\ Present \in [DOMAIN Present -> ClusterInfo]
        /\ DOMAIN Local \in SUBSET Codes
        /\ Local \in [DOMAIN Local -> ClusterInfo]
    BY <1>1, LocalType, RegistryElim
  <1>3. Merged \in [DOMAIN Present \cup DOMAIN Local -> ClusterInfo]
    BY <1>2 DEF Merged
  <1>4. DOMAIN Present \cup DOMAIN Local \in SUBSET Codes
    BY <1>2
  <1> QED
    BY <1>1, <1>3, <1>4, RegistryIntro

\* A registry is not the absence of one.
LEMMA Stored ==
    ASSUME entries' \in Registries
    PROVE  Present' = entries'
  BY NoConfigMapAssumption DEF Present

\* What a handler writes is a registry.
LEMMA WriteType ==
    ASSUME TypeOK, HandlerWrite
    PROVE  entries \in Registries /\ entries' \in Registries
  <1>1. entries \in Registries
    BY DEF HandlerWrite, TypeOK
  <1>2. CASE \E c \in DOMAIN entries : entries' = Drop(entries, c)
    BY <1>1, <1>2, DropType
  <1>3. CASE \E c \in Codes, info \in ClusterInfo :
               entries' = Put(entries, c, info)
    BY <1>1, <1>3, PutType
  <1> QED
    BY <1>1, <1>2, <1>3 DEF HandlerWrite
-----------------------------------------------------------------------------
(***************************************************************************)
(* The type invariant.                                                     *)
(***************************************************************************)
\* What a replica knows when it makes its calls.
Knows(r) ==
    /\ phase[r] \in {"create", "apply"} => localFile
    /\ phase[r] \notin {"getNamespace", "createNamespace", "exited"} =>
          namespace

\* A step that moves r from one call to another keeps the types, if what it
\* writes is a registry and what it moves to is a call r may make.
LEMMA MoveType ==
    ASSUME TypeOK, NEW r \in Replicas, NEW next \in Phases, Goto(r, next),
           UNCHANGED localFile, namespace => namespace',
           namespace' \in BOOLEAN, entries' \in Registries \cup {NoConfigMap},
           entries' # NoConfigMap => namespace',
           spent' \in [OutsideEvents -> Nat],
           next \in {"create", "apply"} => localFile,
           next \notin {"getNamespace", "createNamespace", "exited"} =>
              namespace'
    PROVE  TypeOK'
  <1>1. /\ phase' \in [Replicas -> Phases] /\ phase'[r] = next
        /\ \A q \in Replicas \ {r} : phase'[q] = phase[q]
    BY DEF Goto, TypeOK
  <1>2. ASSUME NEW q \in Replicas
        PROVE  Knows(q)'
    <2>1. CASE q = r
      BY <1>1, <2>1 DEF Knows
    <2>2. CASE q # r
      BY <1>1, <2>2 DEF Knows, TypeOK
    <2> QED
      BY <2>1, <2>2
  <1> QED
    BY <1>1, <1>2 DEF TypeOK, Knows

\* The calls of a starting replica.
LEMMA StartupType ==
    ASSUME TypeOK, NEW r \in Replicas, Startup(r)
    PROVE  TypeOK'
  <1>1. /\ localFile \in BOOLEAN /\ namespace \in BOOLEAN
        /\ entries \in Registries \cup {NoConfigMap}
        /\ entries # NoConfigMap => namespace
        /\ spent \in [OutsideEvents -> Nat]
        /\ Knows(r)
    BY DEF TypeOK, Knows
  <1>2. CASE GetNamespace(r)
    <2>1. CASE namespace
      BY <1>1, <1>2, <2>1, MoveType DEF GetNamespace, Phases
    <2>2. CASE ~namespace
      BY <1>1, <1>2, <2>2, MoveType DEF GetNamespace, Phases
    <2> QED
      BY <2>1, <2>2
  <1>3. CASE CreateNamespace(r)
    <2> DEFINE next == IF namespace THEN "exited"
                       ELSE IF localFile THEN "create" ELSE "get"
    <2>1. next \in Phases /\ (next \in {"create", "apply"} => localFile)
      BY DEF Phases
    <2>2. Goto(r, next)
      BY <1>3 DEF CreateNamespace
    <2> HIDE DEF next
    <2> QED
      BY <1>1, <1>3, <2>1, <2>2, MoveType DEF CreateNamespace
  <1>4. CASE GetConfigMap(r)
    <2> DEFINE next == IF ~localFile THEN "bootGet"
                       ELSE IF entries = NoConfigMap THEN "create" ELSE "apply"
    <2>1. next \in Phases /\ (next \in {"create", "apply"} => localFile)
      BY DEF Phases
    <2>2. Goto(r, next) /\ namespace
      BY <1>1, <1>4 DEF GetConfigMap, Knows
    <2> HIDE DEF next
    <2> QED
      BY <1>1, <1>4, <2>1, <2>2, MoveType DEF GetConfigMap
  <1>5. CASE CreateConfigMap(r)
    <2>1. namespace
      BY <1>1, <1>5 DEF CreateConfigMap, Knows
    <2>2. \E next \in {"bootGet", "running", "exited"} : Goto(r, next)
      BY <1>5 DEF CreateConfigMap
    <2>3. entries' \in Registries \cup {NoConfigMap}
      BY <1>1, <1>5, LocalType DEF CreateConfigMap
    <2> QED
      BY <1>1, <1>5, <2>1, <2>2, <2>3, MoveType DEF CreateConfigMap, Phases
  <1>6. CASE Apply(r)
    <2>1. namespace
      BY <1>1, <1>6 DEF Apply, Knows
    <2>2. \E next \in {"bootGet", "exited"} : Goto(r, next)
      BY <1>6 DEF Apply
    <2>3. entries' \in Registries \cup {NoConfigMap}
      BY <1>1, <1>6, MergedType DEF Apply
    <2> QED
      BY <1>1, <1>6, <2>1, <2>2, <2>3, MoveType DEF Apply, Phases
  <1>7. CASE BootGet(r)
    <2>1. namespace
      BY <1>1, <1>7 DEF BootGet, Knows
    <2>2. \E next \in {"bootCreate", "running"} : Goto(r, next)
      BY <1>7 DEF BootGet
    <2> QED
      BY <1>1, <1>7, <2>1, <2>2, MoveType DEF BootGet, Phases
  <1> QED
    BY <1>2, <1>3, <1>4, <1>5, <1>6, <1>7 DEF Startup

\* What everybody else does.
LEMMA OthersType ==
    ASSUME TypeOK, HandlerWrite \/ Rebuild \/ OperatorDelete
    PROVE  TypeOK'
  <1>1. spent' \in [OutsideEvents -> Nat]
    BY DEF TypeOK, HandlerWrite, Rebuild, OperatorDelete, Spend
  <1>2. entries' \in Registries \cup {NoConfigMap}
    BY WriteType, LocalType DEF Rebuild, OperatorDelete
  <1>3. entries' # NoConfigMap => namespace
    BY DEF TypeOK, HandlerWrite, Rebuild, OperatorDelete
  <1>4. UNCHANGED <<localFile, namespace, phase>>
    BY DEF HandlerWrite, Rebuild, OperatorDelete
  <1> QED
    BY <1>1, <1>2, <1>3, <1>4 DEF TypeOK

\* A pod that dies, a call that fails, and the kubelet.
LEMMA RestartType ==
    ASSUME TypeOK, NEW r \in Replicas, Fault(r) \/ Kill(r) \/ Restart(r)
    PROVE  TypeOK'
  <1>1. spent' \in [OutsideEvents -> Nat]
    BY DEF TypeOK, Fault, Kill, Restart, Spend
  <1>2. \E next \in {"exited", "getNamespace"} : Goto(r, next)
    BY DEF Fault, Kill, Restart
  <1>3. UNCHANGED <<localFile, namespace, entries>>
    BY DEF Fault, Kill, Restart
  <1> QED
    BY <1>1, <1>2, <1>3, MoveType DEF TypeOK, Phases

\* Every step keeps the types.
LEMMA NextTypeOK == TypeOK /\ [Next]_vars => TypeOK'
  <1> SUFFICES ASSUME TypeOK, [Next]_vars
               PROVE  TypeOK'
    OBVIOUS
  <1>1. CASE UNCHANGED vars
    BY <1>1 DEF TypeOK, vars
  <1> QED
    BY <1>1, StartupType, OthersType, RestartType DEF Next

\* Every variable keeps its type, a ConfigMap is always in a namespace, and a
\* replica gets to its calls only when what they need is there.
THEOREM TypeCorrect == Spec => []TypeOK
  <1>1. Init => TypeOK
    BY DEF Init, TypeOK, Phases, OutsideEvents
  <1> QED
    BY <1>1, NextTypeOK, PTL DEF Spec
-----------------------------------------------------------------------------
(***************************************************************************)
(* Two codes of one cluster.                                               *)
(***************************************************************************)
\* The entries data has in common with the file account for its duplicates.
Explained(data) ==
    \A c, d \in DOMAIN data :
        c # d /\ data[c].id = data[d].id =>
            \E e \in {c, d} \cap DOMAIN Local : data[e] = Local[e]

\* What nobody has written to explains itself; so does the file.
LEMMA LocalExplained == Explained(EmptyRegistry) /\ Explained(Local)
  BY DEF Explained, EmptyRegistry

\* Deleting an entry, or storing one whose UID no other entry has, makes no
\* duplicate and takes no explanation away.
LEMMA WriteExplained ==
    ASSUME NEW data \in Registries, Explained(data), NEW c
    PROVE  /\ Explained(Drop(data, c))
           /\ \A info : ~UidTaken(Drop(data, c), info.id) =>
                Explained(Put(data, c, info))
  <1>1. Explained(Drop(data, c))
    BY DEF Explained, Drop, Restrict
  <1>2. ASSUME NEW info, ~UidTaken(Drop(data, c), info.id)
        PROVE  Explained(Put(data, c, info))
    <2> DEFINE new == Put(data, c, info)
    <2>1. /\ DOMAIN new = DOMAIN data \cup {c} /\ new[c] = info
          /\ \A d \in DOMAIN data \ {c} : new[d] = data[d]
      BY DEF Put
    <2>2. \A d \in DOMAIN data \ {c} : data[d].id # info.id
      BY <1>2 DEF UidTaken, Drop, Restrict
    <2> HIDE DEF new
    <2>3. Explained(new)
      BY <2>1, <2>2 DEF Explained
    <2> QED
      BY <2>3 DEF new
  <1> QED
    BY <1>1, <1>2

\* Applying the file over entries it does not conflict with makes duplicates
\* of its own entries only.
LEMMA ApplyExplained ==
    ASSUME Explained(Present), ~Changed
    PROVE  Explained(Merged)
  <1>1. /\ DOMAIN Merged = DOMAIN Present \cup DOMAIN Local
        /\ \A c \in DOMAIN Local : Merged[c] = Local[c]
        /\ \A c \in DOMAIN Present : Merged[c] = Present[c]
    BY DEF Merged, Changed
  <1> QED
    BY <1>1 DEF Explained

\* Every step leaves every duplicate explained by the file.
LEMMA NextExplained ==
    ASSUME TypeOK, [Next]_vars, Explained(Present)
    PROVE  Explained(Present)'
  <1>1. localFile' = localFile
    BY DEF Next, vars, HandlerWrite, Rebuild, OperatorDelete, Startup, Fault,
           Kill, Restart, GetNamespace, CreateNamespace, GetConfigMap,
           CreateConfigMap, Apply, BootGet
  <1>2. Local' = Local
    BY <1>1 DEF Local
  <1>3. SUFFICES Explained(Present')
    BY <1>2 DEF Explained
  <1>4. CASE UNCHANGED entries
    BY <1>4 DEF Present
  <1>5. CASE HandlerWrite
    <2>1. entries \in Registries /\ Present = entries
      BY <1>5, WriteType DEF HandlerWrite, Present
    <2>2. Present' = entries'
      BY <1>5, WriteType, Stored
    <2> QED
      BY <1>5, <2>1, <2>2, WriteExplained DEF HandlerWrite
  <1>6. CASE entries' = Local
    BY <1>6, LocalType, LocalExplained, Stored
  <1>7. CASE entries' = NoConfigMap
    BY <1>7, LocalExplained DEF Present
  <1>8. CASE ~Changed /\ entries' = Merged
    BY <1>8, MergedType, ApplyExplained, Stored
  <1> QED
    BY <1>4, <1>5, <1>6, <1>7, <1>8
    DEF Next, vars, Rebuild, OperatorDelete, Startup, Fault, Kill, Restart,
        GetNamespace, CreateNamespace, GetConfigMap, CreateConfigMap, Apply,
        BootGet

\* A cluster has two codes only when one of them is as in the file.
THEOREM OnlyTheFileDoubles == Spec => []DuplicatesComeFromTheFile
  <1>1. Init => Explained(Present)
    BY LocalExplained DEF Init, Present
  <1>2. TypeOK /\ Explained(Present) /\ [Next]_vars => Explained(Present)'
    BY NextExplained
  <1>3. Explained(Present) => DuplicatesComeFromTheFile
    BY DEF Explained, DuplicatesComeFromTheFile
  <1> QED
    BY <1>1, <1>2, <1>3, TypeCorrect, PTL DEF Spec

\* A step of a replica that starts, dies or starts again changes or removes no
\* entry of the ConfigMap.
THEOREM StartupTakesNothing == Spec => StartupKeepsEntries
  <1>1. ASSUME TypeOK, [Next]_vars, phase' # phase
        PROVE  \A c \in DOMAIN Present :
                   c \in DOMAIN Present' /\ Present'[c] = Present[c]
    <2>1. CASE UNCHANGED entries
      BY <2>1 DEF Present
    <2>2. CASE entries = NoConfigMap
      BY <2>2 DEF Present, EmptyRegistry
    <2>3. CASE ~Changed /\ entries' = Merged
      <3>1. Present' = Merged
        BY <1>1, <2>3, MergedType, Stored
      <3> QED
        BY <2>3, <3>1 DEF Changed, Merged
    <2> QED
      BY <1>1, <2>1, <2>2, <2>3
      DEF Next, vars, HandlerWrite, Rebuild, OperatorDelete, Startup, Fault,
          Kill, Restart, GetNamespace, CreateNamespace, GetConfigMap,
          CreateConfigMap, Apply, BootGet
  <1>2. TypeOK /\ [Next]_vars =>
          [phase' # phase =>
             \A c \in DOMAIN Present :
                 c \in DOMAIN Present' /\ Present'[c] = Present[c]]_vars
    BY <1>1
  <1> QED
    BY <1>2, TypeCorrect, PTL DEF Spec, StartupKeepsEntries
=============================================================================
