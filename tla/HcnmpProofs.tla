----------------------------- MODULE HcnmpProofs ----------------------------
(***************************************************************************)
(* Proofs about the system of Hcnmp, for any number of requests and        *)
(* replicas, any codes, kubeconfigs and UIDs and any bounds:               *)
(*                                                                         *)
(*   HandlersSurroundings     SystemSpec => KeepsClusterRegistry           *)
(*   WatchersSurroundings     SystemSpec => KeepsClusterProxy              *)
(*   HalvesKeepTheirPromises  what is proved of the halves holds here      *)
(*   DoorIsRight              SystemSpec => RefusalsAreFounded             *)
(*   RefusedNeverServed       SystemSpec => []RefusedIsNeverServed         *)
(*                                                                         *)
(* Each half assumes of its surroundings what the other does: a handler's  *)
(* write is legal because of the handlers' invariant (CommitIsWrite), and  *)
(* the revisions end below MaxRevision because of the watchers' budget     *)
(* (Bounded).  SystemInv is therefore both invariants at once, and every   *)
(* step is shown to be a step of both halves before it is asked what it    *)
(* preserves.                                                              *)
(***************************************************************************)
EXTENDS Hcnmp, ClusterProxyProofs

\* The handlers' module and what is proved of it.
H == INSTANCE ClusterRegistryProofs WITH cm <- copy
-----------------------------------------------------------------------------
(***************************************************************************)
(* One module in the other's terms.                                        *)
(***************************************************************************)
\* The data of the handlers and of the watchers are the same.
LEMMA SameData ==
    /\ H!ConfigMaps = ConfigMaps /\ H!Registries = Registries
    /\ H!ClusterInfo = ClusterInfo /\ H!Calls = Calls
    /\ H!EmptyRegistry = EmptyRegistry
    /\ \A o : H!Contents(o) = Contents(o)
    /\ \A d, c : H!Drop(d, c) = Drop(d, c)
    /\ \A d, c, i : H!Put(d, c, i) = Put(d, c, i)
    /\ \A d, u : H!UidTaken(d, u) <=> UidTaken(d, u)
  BY DEF H!ConfigMaps, ConfigMaps, H!Registries, Registries, H!ClusterInfo,
         ClusterInfo, H!Calls, Calls, H!Operations, Operations,
         H!EmptyRegistry, EmptyRegistry, H!Contents, Contents, H!Drop, Drop,
         H!Restrict, Restrict, H!Put, Put, H!UidTaken, UidTaken

\* What the handlers' module assumes of its constants.
LEMMA HandlersAssume ==
    /\ Answers \in [Kubeconfigs -> SUBSET Uids]
    /\ LocalInfos \in H!Registries
    /\ NoConfigMap \notin H!ConfigMaps \cup H!Registries
    /\ NoCall \notin H!Calls
    /\ MaxRevision \in Nat
  BY SameData, AnswersAssumption, LocalInfosAssumption, NoConfigMapAssumption,
     NoCallAssumption, MaxRevisionAssumption

\* The steps of a handler are the same in both instances of its module.
LEMMA SameLoaded ==
    ASSUME NEW p, NEW object
    PROVE  R!Loaded(p, object) <=> H!Loaded(p, object)
  BY DEF R!Loaded, H!Loaded, R!AddLoaded, H!AddLoaded, R!RemoveLoaded,
         H!RemoveLoaded, R!UpdateLoaded, H!UpdateLoaded, R!ApplyLoaded,
         H!ApplyLoaded, R!GetLoaded, H!GetLoaded, R!Known, H!Known,
         R!SameKubeconfig, H!SameKubeconfig, R!WithoutEntry, H!WithoutEntry,
         R!Drop, H!Drop, R!Restrict, H!Restrict, R!Answer, H!Answer,
         R!Continue, H!Continue

LEMMA SameHandler ==
    ASSUME NEW p
    PROVE  R!Handler(p) <=> H!Handler(p)
  <1>1. R!ReadConfigMap(p) <=> H!ReadConfigMap(p)
    BY SameLoaded
    DEF R!ReadConfigMap, H!ReadConfigMap, R!Answer, H!Answer, R!Continue,
        H!Continue, R!api, H!api
  <1>2. R!CreateConfigMap(p) <=> H!CreateConfigMap(p)
    BY SameLoaded
    DEF R!CreateConfigMap, H!CreateConfigMap, R!Answer, H!Answer, R!Create,
        H!Create, R!CreatedFromLocal, H!CreatedFromLocal, R!api, H!api
  <1>3. R!ProbeCluster(p) <=> H!ProbeCluster(p)
    BY DEF R!ProbeCluster, H!ProbeCluster, R!Answer, H!Answer, R!Continue,
           H!Continue, R!Conflicts, H!Conflicts, R!UidTaken, H!UidTaken,
           R!Put, H!Put, R!NewEntry, H!NewEntry, R!api, H!api
  <1>4. R!WriteConfigMap(p) <=> H!WriteConfigMap(p)
    BY DEF R!WriteConfigMap, H!WriteConfigMap, R!Answer, H!Answer,
           R!Current, H!Current, R!api, H!api
  <1>5. R!Fail(p) <=> H!Fail(p)
    BY DEF R!Fail, H!Fail, R!Answer, H!Answer, R!api, H!api
  <1> QED
    BY <1>1, <1>2, <1>3, <1>4, <1>5
    DEF R!Handler, H!Handler, R!AddCluster, H!AddCluster, R!RemoveCluster,
        H!RemoveCluster, R!UpdateCluster, H!UpdateCluster, R!ApplyCluster,
        H!ApplyCluster, R!GetCluster, H!GetCluster, R!GetClusters,
        H!GetClusters

LEMMA SameArrive ==
    ASSUME NEW p, NEW c, NEW hit
    PROVE  R!Arrive(p, c, hit) <=> H!Arrive(p, c, hit)
  BY DEF R!Arrive, H!Arrive, R!Admission, H!Admission

LEMMA SameSpec ==
    /\ R!Init <=> H!Init
    /\ R!Next <=> H!Next
    /\ R!vars = H!vars
  <1>1. (R!Init <=> H!Init) /\ R!vars = H!vars
    BY DEF R!Init, H!Init, R!vars, H!vars
  <1>2. R!Calls = H!Calls
    BY DEF R!Calls, H!Calls, R!Operations, H!Operations
  <1>3. /\ R!OperatorDelete <=> H!OperatorDelete
        /\ R!WatcherCreate <=> H!WatcherCreate
    BY DEF R!OperatorDelete, H!OperatorDelete, R!WatcherCreate,
           H!WatcherCreate, R!Create, H!Create, R!CreatedFromLocal,
           H!CreatedFromLocal
  <1> QED
    BY <1>1, <1>2, <1>3, SameHandler, SameArrive DEF R!Next, H!Next
-----------------------------------------------------------------------------
(***************************************************************************)
(* The invariant of the system.                                            *)
(***************************************************************************)
\* Every revision is paid for: a write by one unit of the budget, a deletion
\* and the creation that may follow it by another.
Bounded ==
    /\ \A k \in {"write", "delete"} : spent[k] <= Budget[k]
    /\ revision + (IF configMap = NoConfigMap THEN 1 ELSE 0)
         <= 2 + spent["write"] + 2 * spent["delete"]

\* A client's kubeconfig came from the local file, or from a request that
\* was not refused.
Given(code, kubeconfig) ==
    \/ code \in DOMAIN LocalInfos /\ LocalInfos[code].kubeconfig = kubeconfig
    \/ \E p \in Requests :
         /\ call[p] # NoCall
         /\ call[p].code = code /\ call[p].kubeconfig = kubeconfig
         /\ call[p].op \in {"addCluster", "updateCluster", "applyCluster"}
         /\ status[p] \in {200, 500}

Founded(object) ==
    \A c \in DOMAIN Clients(object) : Given(c, Clients(object)[c])

\* The versions a replica's cache is made of, now or later.
Versions(r) ==
    {cm[r], served[r]} \cup {Pending(r)[i].object : i \in 1 .. Len(Pending(r))}

AllFounded ==
    /\ Founded(configMap)
    /\ \A r \in Replicas : \A object \in Versions(r) : Founded(object)

SystemInv ==
    /\ H!IInv
    /\ IInv
    /\ at \in [Requests -> Replicas \cup {NoReplica}]
    /\ Bounded
-----------------------------------------------------------------------------
(***************************************************************************)
(* Each half keeps what the other assumes.                                 *)
(***************************************************************************)
\* A commit as the API server sees it.
LEMMA CommitStores ==
    ASSUME H!TypeOK, NEW p \in Requests, H!Commits(p)
    PROVE  /\ configMap' = [resourceVersion |-> revision + 1,
                            binaryData |-> copy[p].binaryData]
           /\ copy[p].binaryData \in Registries
           /\ configMap \in ConfigMaps /\ configMap' # configMap
  <1>1. copy[p] \in ConfigMaps
    BY SameData DEF H!Commits, H!TypeOK
  <1>2. configMap' = [resourceVersion |-> revision + 1,
                      binaryData |-> copy[p].binaryData]
    BY <1>1 DEF H!Commits, ConfigMaps
  <1>3. /\ configMap \in ConfigMaps /\ revision \in Nat
        /\ configMap.resourceVersion <= revision
    BY SameData DEF H!Commits, H!TypeOK
  <1>4. configMap' # configMap
    BY <1>2, <1>3 DEF ConfigMaps
  <1> QED
    BY <1>1, <1>2, <1>3, <1>4 DEF ConfigMaps

\* A commit is one legal change of one entry: what the watchers assume of a
\* handler's write.
LEMMA CommitIsWrite ==
    ASSUME H!TypeOK, H!CopiesAreCurrent, NEW p \in Requests,
           Handle(p), H!Commits(p), revision' = revision + 1
    PROVE  HandlerWrite
  <1> DEFINE data == configMap.binaryData
             code == call[p].code
             new == copy[p].binaryData
  <1>1. /\ configMap' = [resourceVersion |-> revision + 1, binaryData |-> new]
        /\ configMap \in ConfigMaps /\ configMap' # configMap
    BY CommitStores
  <1>2. configMap # NoConfigMap
    BY DEF H!Commits
  <1>3. /\ Spend("write") /\ Broadcast("MODIFIED", configMap')
        /\ UNCHANGED <<phase, channels, cm, idtmp, caches>>
    BY <1>1, <1>2 DEF Handle
  <1>4. Store("MODIFIED", new)
    BY <1>1, <1>3 DEF Store
  <1>5. data \in Registries /\ configMap'.binaryData = new
    BY <1>1 DEF ConfigMaps
  <1>6. /\ call[p] \in Calls
        /\ call[p].op \in {"addCluster", "removeCluster",
                          "updateCluster", "applyCluster"}
        /\ call[p].op = "addCluster" => code \notin DOMAIN data
        /\ call[p].op = "removeCluster" => code \in DOMAIN data
        /\ call[p].op \in {"updateCluster", "applyCluster"} /\ code \in DOMAIN data
             => data[code].kubeconfig # call[p].kubeconfig
        /\ IF call[p].op = "removeCluster"
           THEN new = Drop(data, code)
           ELSE \E uid \in Answers[call[p].kubeconfig] :
                  /\ ~UidTaken(Drop(data, code), uid)
                  /\ new = Put(Drop(data, code), code,
                               [id |-> uid, kubeconfig |-> call[p].kubeconfig])
    BY <1>5, HandlersAssume, SameData, H!CommitEffect
    DEF H!Known, H!SameKubeconfig, H!Rest, H!NewEntry
  <1>7. CASE call[p].op = "removeCluster"
    BY <1>2, <1>3, <1>4, <1>6, <1>7 DEF HandlerWrite
  <1>8. CASE call[p].op # "removeCluster"
    <2>1. PICK uid \in Answers[call[p].kubeconfig] :
            /\ ~UidTaken(Drop(data, code), uid)
            /\ new = Put(Drop(data, code), code,
                         [id |-> uid, kubeconfig |-> call[p].kubeconfig])
      BY <1>6, <1>8
    <2> DEFINE info == [id |-> uid, kubeconfig |-> call[p].kubeconfig]
    <2>2. code \in Codes /\ call[p].kubeconfig \in Kubeconfigs
      BY <1>6 DEF Calls
    <2>3. info \in ClusterInfo /\ info.id = uid
          /\ info.kubeconfig = call[p].kubeconfig
      BY <2>2, AnswersAssumption DEF ClusterInfo
    <2>4. new = Put(data, code, info)
      BY <1>5, <2>1, PutAfterDrop
    <2>5. code \in DOMAIN data => data[code].kubeconfig # info.kubeconfig
      BY <1>6, <1>8, <2>3
    <2> HIDE DEF info
    <2> QED
      BY <1>2, <1>3, <1>4, <2>1, <2>2, <2>3, <2>4, <2>5 DEF HandlerWrite, info
  <1> QED
    BY <1>7, <1>8

\* A handler's step, to the watchers: nothing, a creation or a legal write.
LEMMA HandleStep ==
    ASSUME H!TypeOK, H!CopiesAreCurrent, NEW p \in Requests, Handle(p)
    PROVE  UNCHANGED vars \/ HandlerCreate \/ HandlerWrite
  <1>1. H!Handler(p)
    BY SameHandler DEF Handle
  <1>2. CASE UNCHANGED H!api
    BY <1>2 DEF Handle, vars, channels, caches, H!api
  <1>3. CASE configMap = NoConfigMap /\ H!Create
    <2>1. configMap' = [resourceVersion |-> revision + 1, binaryData |-> LocalInfos]
          /\ revision' = revision + 1
      BY <1>3 DEF H!Create, H!CreatedFromLocal
    <2>2. configMap' # configMap
      <3>1. revision \in Nat
        BY DEF H!TypeOK
      <3>2. configMap' \in ConfigMaps
        BY <2>1, <3>1, LocalInfosAssumption DEF ConfigMaps
      <3> QED
        BY <1>3, <3>2, NoConfigMapAssumption
    <2>3. /\ Spend("write") /\ Broadcast("ADDED", configMap')
          /\ UNCHANGED <<phase, channels, cm, idtmp, caches>>
      BY <1>3, <2>2 DEF Handle
    <2> QED
      BY <1>3, <2>1, <2>3 DEF HandlerCreate, Store
  <1>4. CASE H!Commits(p) /\ revision' = revision + 1
    BY <1>4, CommitIsWrite
  <1> QED
    BY <1>1, <1>2, <1>3, <1>4, HandlersAssume, H!HandlerStores

\* A replica's step, to the handlers: nothing, or another's creation.
LEMMA ReplicaStep ==
    ASSUME NEW r \in Replicas, Own(r)
    PROVE  \/ UNCHANGED api
           \/ CreateConfigMap(r) /\ configMap = NoConfigMap /\ H!Create
  <1>1. CASE CreateConfigMap(r)
    BY <1>1 DEF CreateConfigMap, Store, H!Create, H!CreatedFromLocal
  <1>2. CASE ~CreateConfigMap(r)
    BY <1>2
    DEF Own, Step, GetConfigMap, Watch, ReceiveEvent, ReceiveClosed,
        ReceiveRetryNew, ProbeClusters, ClearCode, ClearId, StoreCode, StoreId,
        Restart, CloseWatch, FailWatch, ApiFault, SyncFault, Kill
  <1> QED
    BY <1>1, <1>2

\* The kinds of a system step.
LEMMA SystemCases ==
    ASSUME [SystemNext]_systemVars
    PROVE  \/ \E p \in Requests : Handle(p)
           \/ \E p \in Requests, r \in Replicas : Admit(p, r)
           \/ \E r \in Replicas : Own(r) /\ Besides
           \/ OperatorDelete /\ Besides
           \/ UNCHANGED systemVars
  BY DEF SystemNext, Watcher, Reboot, Trouble, Own

\* Every step of the system is a step of the watchers' module ...
LEMMA ProxyStep ==
    ASSUME H!TypeOK, H!CopiesAreCurrent, [SystemNext]_systemVars
    PROVE  [Next]_vars
  <1>1. ASSUME NEW p \in Requests, Handle(p)
        PROVE  [Next]_vars
    BY <1>1, HandleStep DEF Next
  <1>2. ASSUME NEW p \in Requests, NEW r \in Replicas, Admit(p, r)
        PROVE  UNCHANGED vars
    BY <1>2 DEF Admit, R!Arrive, vars, channels, caches
  <1>3. ASSUME NEW r \in Replicas, Own(r)
        PROVE  Next
    BY <1>3 DEF Own, Next
  <1> QED
    BY <1>1, <1>2, <1>3, SystemCases DEF Next, systemVars

\* ... and, for as long as the revisions are paid for, of the handlers'.
LEMMA RegistryStep ==
    ASSUME TypeOK, Bounded, [SystemNext]_systemVars
    PROVE  [H!Next]_(H!vars)
  <1>1. ASSUME NEW p \in Requests, Handle(p)
        PROVE  H!Next
    BY <1>1, SameHandler DEF Handle, H!Next
  <1>2. ASSUME NEW p \in Requests, NEW r \in Replicas, Admit(p, r)
        PROVE  H!Next
    <2>1. PICK c \in Menu : R!Arrive(p, c, c.code \in DOMAIN codeClusterClient[r])
      BY <1>2 DEF Admit
    <2> DEFINE found == c.code \in DOMAIN codeClusterClient[r]
    <2>2. found \in BOOLEAN /\ H!Arrive(p, c, found)
      <3>1. R!Arrive(p, c, found)
        BY <2>1
      <3> HIDE DEF found
      <3>2. H!Arrive(p, c, found)
        BY <3>1, SameArrive
      <3> QED
        BY <3>2 DEF found
    <2>3. c \in H!Calls
      BY MenuAssumption, SameData
    <2> QED
      BY <2>2, <2>3 DEF H!Next
  <1>3. ASSUME NEW r \in Replicas, Own(r), Besides
        PROVE  H!Next \/ UNCHANGED H!vars
    BY <1>3, ReplicaStep
    DEF Besides, handlers, H!vars, api, H!WatcherCreate, H!Next
  <1>4. CASE OperatorDelete /\ Besides
    <2>1. revision < MaxRevision
      <3>1. /\ spent["write"] \in Nat /\ spent["delete"] \in Nat
            /\ Budget["write"] \in Nat /\ Budget["delete"] \in Nat
            /\ revision \in Nat
        BY BudgetAssumption DEF TypeOK, OutsideEvents
      <3>2. /\ spent["delete"] + 1 <= Budget["delete"]
            /\ spent["write"] <= Budget["write"]
            /\ revision <= 2 + spent["write"] + 2 * spent["delete"]
        BY <1>4, <3>1 DEF OperatorDelete, Spend, Bounded
      <3> QED
        BY <3>1, <3>2, MaxRevisionAssumption
    <2>2. H!OperatorDelete
      BY <1>4, <2>1 DEF OperatorDelete, Besides, handlers, H!OperatorDelete
    <2> QED
      BY <2>2 DEF H!Next
  <1>5. CASE UNCHANGED systemVars
    BY <1>5 DEF systemVars, vars, handlers, H!vars
  <1> QED
    BY <1>1, <1>2, <1>3, <1>4, <1>5, SystemCases

\* What a step of the watchers' module does to the revision and the budget.
LEMMA BoundedStep ==
    ASSUME TypeOK, Bounded, [Next]_vars
    PROVE  Bounded'
  <1>1. /\ \A k \in OutsideEvents : spent[k] \in Nat /\ Budget[k] \in Nat
        /\ revision \in Nat
    BY BudgetAssumption DEF TypeOK
  <1>2. ASSUME NEW k \in OutsideEvents, Spend(k)
        PROVE  /\ spent'[k] = spent[k] + 1 /\ spent'[k] <= Budget[k]
               /\ \A j \in OutsideEvents \ {k} : spent'[j] = spent[j]
    BY <1>1, <1>2 DEF Spend, TypeOK
  <1>3. ASSUME UNCHANGED api,
               UNCHANGED spent \/ \E k \in OutsideEvents : Spend(k)
        PROVE  Bounded'
    <2>1. CASE UNCHANGED spent
      BY <1>3, <2>1 DEF Bounded, api
    <2>2. ASSUME NEW k \in OutsideEvents, Spend(k)
          PROVE  Bounded'
      <3>1. /\ spent["write"] <= spent'["write"]
            /\ spent["delete"] <= spent'["delete"]
            /\ spent'["write"] <= Budget["write"]
            /\ spent'["delete"] <= Budget["delete"]
            /\ spent'["write"] \in Nat /\ spent'["delete"] \in Nat
        BY <1>1, <1>2, <2>2 DEF Bounded, OutsideEvents
      <3> QED
        BY <1>1, <1>3, <3>1 DEF Bounded, api, OutsideEvents
    <2> QED
      BY <1>3, <2>1, <2>2
  <1>4. CASE HandlerWrite \/ HandlerCreate
    <2>1. /\ Spend("write") /\ revision' = revision + 1
          /\ configMap = NoConfigMap \/ configMap' # NoConfigMap
      <3>1. CASE HandlerWrite
        <4>1. PICK data \in Registries : Store("MODIFIED", data)
          BY <3>1, WriteStores
        <4> QED
          BY <3>1, <4>1, StoredType, NoConfigMapAssumption
          DEF HandlerWrite, Store
      <3> QED
        BY <1>4, <3>1 DEF HandlerCreate, Store
    <2> QED
      BY <1>1, <1>2, <2>1 DEF Bounded, OutsideEvents
  <1>5. CASE OperatorDelete
    <2>1. /\ spent'["delete"] = spent["delete"] + 1
          /\ spent'["delete"] <= Budget["delete"]
          /\ spent'["write"] = spent["write"]
          /\ configMap # NoConfigMap /\ revision' = revision + 1
      BY <1>2, <1>5 DEF OperatorDelete, OutsideEvents
    <2> QED
      BY <1>1, <2>1 DEF Bounded, OutsideEvents
  <1>6. ASSUME NEW r \in Replicas, Own(r)
        PROVE  Bounded'
    <2>1. CASE CreateConfigMap(r) /\ configMap = NoConfigMap /\ H!Create
      <3>1. /\ UNCHANGED spent /\ revision' = revision + 1
            /\ configMap' # NoConfigMap
        BY <2>1, StoredType, LocalInfosAssumption, NoConfigMapAssumption
        DEF CreateConfigMap, H!Create, H!CreatedFromLocal
      <3> QED
        BY <1>1, <2>1, <3>1 DEF Bounded, OutsideEvents
    <2>2. CASE UNCHANGED api
      <3>1. UNCHANGED spent \/ \E k \in OutsideEvents : Spend(k)
        BY <1>6
        DEF Own, Step, GetConfigMap, CreateConfigMap, Watch, ReceiveEvent,
            ReceiveClosed, ReceiveRetryNew, ProbeClusters, ClearCode, ClearId,
            StoreCode, StoreId, Restart, CloseWatch, FailWatch, ApiFault,
            SyncFault, Kill, OutsideEvents
      <3> QED
        BY <1>3, <2>2, <3>1
    <2> QED
      BY <1>6, <2>1, <2>2, ReplicaStep
  <1>7. CASE UNCHANGED vars
    BY <1>3, <1>7 DEF vars, api
  <1> QED
    BY <1>4, <1>5, <1>6, <1>7 DEF Next, Own

\* A request is at a replica or at none.
LEMMA AtStep ==
    ASSUME at \in [Requests -> Replicas \cup {NoReplica}], [SystemNext]_systemVars
    PROVE  at' \in [Requests -> Replicas \cup {NoReplica}]
  BY SystemCases DEF Handle, Admit, Besides, RequestsDie, systemVars

LEMMA InitSystemInv == SystemInit => SystemInv /\ H!Init
  <1> SUFFICES ASSUME SystemInit
               PROVE  SystemInv /\ H!Init
    OBVIOUS
  <1>1. H!Init
    BY DEF SystemInit, Init, H!Init
  <1>2. H!IInv
    BY <1>1, HandlersAssume, H!InitIInv
  <1>3. IInv
    BY InitIInv DEF SystemInit
  <1>4. Bounded
    BY BudgetAssumption DEF SystemInit, Init, Bounded, OutsideEvents
  <1> QED
    BY <1>1, <1>2, <1>3, <1>4 DEF SystemInit, SystemInv

\* Both halves take a step of their own, and both keep their invariants.
LEMMA NextSystemInv ==
    SystemInv /\ [SystemNext]_systemVars =>
        SystemInv' /\ [Next]_vars /\ [H!Next]_(H!vars)
  <1> SUFFICES ASSUME SystemInv, [SystemNext]_systemVars
               PROVE  SystemInv' /\ [Next]_vars /\ [H!Next]_(H!vars)
    OBVIOUS
  <1>1. H!TypeOK /\ H!CopiesAreCurrent /\ TypeOK
    BY DEF SystemInv, H!IInv, IInv
  <1>2. [Next]_vars /\ [H!Next]_(H!vars)
    BY <1>1, ProxyStep, RegistryStep DEF SystemInv
  <1>3. IInv' /\ Bounded'
    BY <1>1, <1>2, NextIInv, BoundedStep DEF SystemInv
  <1>4. H!IInv'
    BY <1>2, HandlersAssume, H!NextIInv DEF SystemInv
  <1>5. at' \in [Requests -> Replicas \cup {NoReplica}]
    BY AtStep DEF SystemInv
  <1> QED
    BY <1>2, <1>3, <1>4, <1>5 DEF SystemInv

THEOREM SystemInvariance == SystemSpec => []SystemInv
  BY InitSystemInv, NextSystemInv, PTL DEF SystemSpec

\* The handlers find in the caches, watchers and operators the surroundings
\* their own module assumes.
THEOREM HandlersSurroundings == SystemSpec => KeepsClusterRegistry
  <1>1. SystemInit => R!Init
    BY InitSystemInv, SameSpec
  <1>2. SystemInv /\ [SystemNext]_systemVars => [R!Next]_(R!vars)
    BY NextSystemInv, SameSpec DEF R!vars, H!vars
  <1> QED
    BY <1>1, <1>2, SystemInvariance, PTL
    DEF SystemSpec, KeepsClusterRegistry, R!Spec

\* The watchers find in the handlers the writers their own module assumes.
THEOREM WatchersSurroundings == SystemSpec => KeepsClusterProxy
  <1>1. SystemInit => Init
    BY DEF SystemInit
  <1>2. SystemInv /\ [SystemNext]_systemVars => [Next]_vars
    BY NextSystemInv
  <1> QED
    BY <1>1, <1>2, SystemInvariance, PTL DEF SystemSpec, KeepsClusterProxy, Spec

\* So what is proved of each half by itself holds of the system: the handlers
\* implement the atomic registry, and no cache mixes or goes back.
THEOREM HalvesKeepTheirPromises ==
    SystemSpec => /\ H!ImplementsAtomicRegistry
                  /\ [](H!UidsDistinct /\ H!UidsBelong)
                  /\ [](QuietMeansFresh /\ CacheIsOneSnapshot)
                  /\ ServedMonotone
  <1>1. SystemSpec => H!Spec
    BY InitSystemInv, NextSystemInv, SystemInvariance, PTL
    DEF SystemSpec, H!Spec
  <1>2. H!Spec => H!ImplementsAtomicRegistry
    BY HandlersAssume, H!RegistryIsAtomic
  <1>3. H!Spec => [](H!UidsDistinct /\ H!UidsBelong)
    <2>1. H!Spec => []H!UidsDistinct
      BY HandlersAssume, H!NoDuplicates
    <2>2. H!Spec => []H!UidsBelong
      BY HandlersAssume, H!NoMismatch
    <2> QED
      BY <2>1, <2>2, PTL
  <1> QED
    BY <1>1, <1>2, <1>3, WatchersSurroundings, QuietIsFresh, OneSnapshot,
       NeverGoesBack, PTL
    DEF KeepsClusterProxy
-----------------------------------------------------------------------------
(***************************************************************************)
(* Refusals at the door.                                                   *)
(***************************************************************************)
\* A replica whose watcher waits with nothing undelivered answers 409 to an
\* addCluster just when the code is registered, and 404 to the others just
\* when it is not.
THEOREM DoorIsRight == SystemSpec => RefusalsAreFounded
  <1>1. ASSUME SystemInv, [SystemNext]_systemVars,
               NEW p \in Requests, NEW r \in Replicas,
               pc[p] = "idle", pc'[p] = "done", at'[p] = r, Quiet(r)
        PROVE  status'[p] = 409 <=> call'[p].code \in DOMAIN Contents(configMap)
    <2>1. H!TypeOK /\ IInv /\ at \in [Requests -> Replicas \cup {NoReplica}]
      BY <1>1 DEF SystemInv, H!IInv
    <2>2. ASSUME NEW q \in Requests, Handle(q)
          PROVE  pc'[p] = pc[p]
      <3>1. H!Handler(q)
        BY <2>2, SameHandler DEF Handle
      <3>2. q # p
        BY <1>1, <2>1, <3>1, HandlersAssume, H!HandlerEffects
      <3> QED
        BY <2>1, <3>1, <3>2, HandlersAssume, H!HandlerLocal
    <2>3. ASSUME Besides \/ UNCHANGED systemVars
          PROVE  pc'[p] = pc[p]
      BY <2>3 DEF Besides, handlers, systemVars
    <2>4. PICK q \in Requests, s \in Replicas : Admit(q, s)
      BY <1>1, <2>2, <2>3, SystemCases
    <2>5. PICK c \in Menu : R!Arrive(q, c, c.code \in DOMAIN codeClusterClient[s])
      BY <2>4 DEF Admit
    <2>6. q = p
      BY <1>1, <2>1, <2>5 DEF R!Arrive, H!TypeOK
    <2>7. s = r
      BY <1>1, <2>1, <2>4, <2>6 DEF Admit
    <2>8. /\ call'[p] = c
          /\ status'[p] = R!Admission(c.op, c.code \in DOMAIN codeClusterClient[r])
          /\ status'[p] # 0
      BY <1>1, <2>1, <2>5, <2>6, <2>7 DEF R!Arrive, H!TypeOK
    <2>9. DOMAIN codeClusterClient[r] = DOMAIN Contents(configMap)
      BY <1>1, <2>1, FreshHolds DEF Quiet, QuietMeansFresh, Clients
    <2> QED
      BY <2>8, <2>9 DEF R!Admission
  <1>2. SystemInv /\ [SystemNext]_systemVars =>
          [\A p \in Requests, r \in Replicas :
             pc[p] = "idle" /\ pc'[p] = "done" /\ at'[p] = r /\ Quiet(r) =>
               (status'[p] = 409 <=> call'[p].code \in DOMAIN Contents(configMap))
          ]_systemVars
    BY <1>1
  <1> QED
    BY <1>2, SystemInvariance, PTL DEF SystemSpec, RefusalsAreFounded
-----------------------------------------------------------------------------
(***************************************************************************)
(* Where the served kubeconfigs come from.                                 *)
(***************************************************************************)
\* A replica comes by no version of the ConfigMap but the current one.
LEMMA VersionsStep ==
    ASSUME TypeOK, [Next]_vars, NEW r \in Replicas, NEW object \in Versions(r)'
    PROVE  object \in Versions(r) \cup {configMap, configMap', NoConfigMap}
  <1>1. clusterWatch[r] \in Watches /\ Pending(r) \in Seq(Events)
    BY TypeParts DEF Watches, Pending
  <1>2. CASE object \in {cm'[r], served'[r]}
    <2>1. CASE Held(r) \/ Thinks(r) \/ Exited(r) \/ Failed(r) \/ UNCHANGED <<cm, caches>>
      BY <1>2, <2>1 DEF Held, Thinks, Exited, Failed, caches, Versions
    <2>2. CASE CreateConfigMap(r) \/ ApiFault(r) \/ Kill(r)
      BY <2>1, <2>2, CreateView, ApiErrorView, ExitView DEF ApiFault, Kill
    <2>3. CASE Watch(r) \/ CloseWatch(r) \/ FailWatch(r)
      BY <2>1, <2>3 DEF Watch, CloseWatch, FailWatch
    <2>4. CASE ReceiveEvent(r)
      <3>1. Pending(r) # <<>> /\ served' = served
            /\ cm'[r] \in {cm[r], Pending(r)[1].object}
        BY <1>1, <2>4 DEF ReceiveEvent, TypeOK, Pending, caches
      <3>2. 1 \in 1 .. Len(Pending(r))
        BY <1>1, <3>1
      <3> QED
        BY <1>2, <3>1, <3>2 DEF Versions
    <2>5. CASE StoreId(r)
      BY <1>2, <2>5 DEF StoreId, TypeOK, Versions
    <2> QED
      BY <2>1, <2>2, <2>3, <2>4, <2>5, Views, ThinksCases DEF Own, Step
  <1>3. CASE \E i \in 1 .. Len(Pending(r)') : object = Pending(r)'[i].object
    <2>1. PICK i \in 1 .. Len(Pending(r)') : object = Pending(r)'[i].object
      BY <1>3
    <2>2. CASE Pending(r)' = Pending(r)
      BY <2>1, <2>2 DEF Versions
    <2>3. CASE World(r)
      <3>1. ASSUME NEW event, Arrives(r, event),
                   event.object \in {configMap', NoConfigMap}
            PROVE  object \in Versions(r) \cup {configMap, configMap', NoConfigMap}
        <4>1. CASE clusterWatch'[r] = clusterWatch[r]
          BY <2>2, <4>1 DEF Pending
        <4>2. CASE Pending(r)' = Append(Pending(r), event)
          BY <1>1, <2>1, <3>1, <4>2 DEF Versions
        <4> QED
          BY <3>1, <4>1, <4>2 DEF Arrives, Pending
      <3>2. CASE Still(r)
        BY <2>2, <3>2 DEF Still, Pending
      <3>3. CASE Stored(r) \/ Deleted(r)
        BY <3>1, <3>3 DEF Stored, Deleted
      <3> QED
        BY <2>3, <3>2, <3>3 DEF World
    <2>4. CASE Thinks(r) \/ Failed(r)
      BY <2>2, <2>4 DEF Thinks, Failed, Pending
    <2>5. CASE Exited(r)
      <3>1. Pending(r)' = <<>>
        BY <2>5 DEF Exited, NoWatch, Pending
      <3> QED
        BY <2>1, <3>1
    <2>6. CASE CreateConfigMap(r) \/ ApiFault(r) \/ Kill(r)
      BY <2>3, <2>4, <2>5, <2>6, CreateView, ApiErrorView, ExitView
      DEF ApiFault, Kill
    <2>7. CASE Watch(r)
      <3>1. Pending(r)' \in {<<>>, <<[type |-> "ADDED", object |-> configMap]>>}
        BY <2>7 DEF Watch, NewWatch, TypeOK, Pending
      <3> QED
        BY <2>1, <3>1
    <2>8. CASE CloseWatch(r)
      <3>1. PICK n \in 0 .. Len(Pending(r)) :
              Pending(r)' = SubSeq(Pending(r), 1, n)
        BY <2>8 DEF CloseWatch, TypeOK, Pending
      <3> QED
        BY <1>1, <2>1, <3>1 DEF Versions
    <2>9. CASE FailWatch(r)
      <3>1. Pending(r)' =
              Append(Pending(r), [type |-> "ERROR", object |-> NoConfigMap])
        BY <2>9 DEF FailWatch, TypeOK, Pending
      <3> QED
        BY <1>1, <2>1, <3>1 DEF Versions
    <2>10. CASE ReceiveEvent(r)
      <3>1. Pending(r) # <<>> /\ Pending(r)' = Tail(Pending(r))
        BY <2>10 DEF ReceiveEvent, TypeOK, Pending
      <3> QED
        BY <1>1, <2>1, <3>1 DEF Versions
    <2>11. CASE StoreId(r)
      BY <2>2, <2>11 DEF StoreId, Pending
    <2> QED
      BY <2>3, <2>4, <2>6, <2>7, <2>8, <2>9, <2>10, <2>11, Views, ThinksCases
      DEF Own, Step
  <1> QED
    BY <1>2, <1>3 DEF Versions

\* Once a request was not refused, what it gave stays given.
LEMMA GivenStays ==
    ASSUME H!TypeOK, [H!Next]_(H!vars), NEW code, NEW kubeconfig,
           Given(code, kubeconfig)
    PROVE  Given(code, kubeconfig)'
  <1>1. CASE code \in DOMAIN LocalInfos /\ LocalInfos[code].kubeconfig = kubeconfig
    BY <1>1 DEF Given
  <1>2. ASSUME NEW p \in Requests,
               call[p] # NoCall,
               call[p].code = code, call[p].kubeconfig = kubeconfig,
               call[p].op \in {"addCluster", "updateCluster", "applyCluster"},
               status[p] \in {200, 500}
        PROVE  Given(code, kubeconfig)'
    <2>1. pc[p] = "done"
      BY <1>2 DEF H!TypeOK
    <2>2. call'[p] = call[p] /\ status'[p] = status[p]
      BY <2>1, HandlersAssume, H!AnswerStays
    <2> QED
      BY <1>2, <2>2 DEF Given
  <1> QED
    BY <1>1, <1>2 DEF Given

LEMMA FoundedStays ==
    ASSUME H!TypeOK, [H!Next]_(H!vars), NEW object, Founded(object)
    PROVE  Founded(object)'
  BY GivenStays DEF Founded

\* No ConfigMap, nothing to found; the local file founds itself.
LEMMA FoundedBases ==
    /\ Founded(NoConfigMap)
    /\ \A rev : [resourceVersion |-> rev, binaryData |-> LocalInfos] # NoConfigMap
         => Founded([resourceVersion |-> rev, binaryData |-> LocalInfos])
  BY DEF Founded, Clients, Contents, EmptyRegistry, Given

\* What a commit stores is founded: an entry that stays was so before, and
\* the new one was given by the request that is now answered 200 or 500.
LEMMA CommitFounded ==
    ASSUME H!TypeOK, H!CopiesAreCurrent, [H!Next]_(H!vars), Founded(configMap),
           NEW p \in Requests, H!Commits(p),
           NEW s \in {200, 500}, H!Answer(p, s)
    PROVE  Founded(configMap)'
  <1>1. PICK old, new, asked :
          /\ old = configMap.binaryData /\ new = copy[p].binaryData
          /\ asked = call[p]
    OBVIOUS
  <1>2. configMap' = [resourceVersion |-> revision + 1, binaryData |-> new]
    BY <1>1, CommitStores
  <1>3. /\ configMap # NoConfigMap /\ configMap' # NoConfigMap
        /\ asked \in Calls
        /\ asked.op \in {"addCluster", "removeCluster",
                         "updateCluster", "applyCluster"}
        /\ IF asked.op = "removeCluster"
           THEN new = Drop(old, asked.code)
           ELSE \E uid \in Answers[asked.kubeconfig] :
                  new = Put(Drop(old, asked.code), asked.code,
                            [id |-> uid, kubeconfig |-> asked.kubeconfig])
    BY <1>1, <1>2, HandlersAssume, SameData, H!CommitEffect
    DEF H!Rest, H!NewEntry, H!Commits
  <1>4. Contents(configMap) = old /\ Contents(configMap)' = new
    BY <1>1, <1>2, <1>3 DEF Contents
  <1>5. \A c \in DOMAIN old : Given(c, old[c].kubeconfig)'
    <2>1. \A c \in DOMAIN old : Given(c, old[c].kubeconfig)
      BY <1>4 DEF Founded, Clients
    <2> QED
      BY <2>1, GivenStays
  <1>6. asked.op # "removeCluster" => Given(asked.code, asked.kubeconfig)'
    <2>1. call'[p] = asked /\ status'[p] = s
      BY <1>1 DEF H!Answer, H!TypeOK
    <2>2. asked # NoCall
      BY <1>3, NoCallAssumption
    <2> QED
      BY <1>3, <2>1, <2>2 DEF Given
  <1>7. ASSUME NEW c \in DOMAIN new
        PROVE  Given(c, new[c].kubeconfig)'
    <2>1. new = Drop(old, asked.code) => c \in DOMAIN old /\ new[c] = old[c]
      BY DEF Drop, Restrict
    <2>2. ASSUME NEW info, new = Put(Drop(old, asked.code), asked.code, info)
          PROVE  \/ c \in DOMAIN old /\ new[c] = old[c]
                 \/ c = asked.code /\ new[c] = info
      BY <2>2 DEF Put, Drop, Restrict
    <2>3. \/ c \in DOMAIN old /\ new[c] = old[c]
          \/ /\ c = asked.code /\ new[c].kubeconfig = asked.kubeconfig
             /\ asked.op # "removeCluster"
      <3>1. CASE asked.op = "removeCluster"
        BY <1>3, <2>1, <3>1
      <3>2. CASE asked.op # "removeCluster"
        <4>1. PICK uid \in Answers[asked.kubeconfig] :
                new = Put(Drop(old, asked.code), asked.code,
                          [id |-> uid, kubeconfig |-> asked.kubeconfig])
          BY <1>3, <3>2
        <4>2. \/ c \in DOMAIN old /\ new[c] = old[c]
              \/ /\ c = asked.code
                 /\ new[c] = [id |-> uid, kubeconfig |-> asked.kubeconfig]
          BY <2>2, <4>1
        <4> QED
          BY <3>2, <4>2
      <3> QED
        BY <3>1, <3>2
    <2> QED
      BY <1>5, <1>6, <2>3
  <1>8. \A c \in DOMAIN Clients(configMap)' :
          Clients(configMap)'[c] = new[c].kubeconfig /\ c \in DOMAIN new
    BY <1>4 DEF Clients
  <1> QED
    BY <1>7, <1>8 DEF Founded

\* Every version of the ConfigMap is founded.
LEMMA ConfigMapFounded ==
    ASSUME SystemInv, [SystemNext]_systemVars, Founded(configMap)
    PROVE  Founded(configMap)'
  <1>1. /\ H!TypeOK /\ H!CopiesAreCurrent /\ [H!Next]_(H!vars)
    BY NextSystemInv DEF SystemInv, H!IInv
  <1>2. CASE configMap' = configMap
    <2>1. \A object : Founded(object) => Founded(object)'
      BY <1>1, FoundedStays
    <2> QED
      BY <1>2, <2>1 DEF Founded
  <1>3. CASE configMap' = NoConfigMap
    BY <1>3, FoundedBases DEF Founded, Given, Clients, Contents, EmptyRegistry
  <1>4. CASE configMap' = [resourceVersion |-> revision + 1, binaryData |-> LocalInfos]
    BY <1>4 DEF Founded, Given, Clients, Contents, EmptyRegistry
  <1>5. ASSUME NEW p \in Requests, H!Handler(p)
        PROVE  Founded(configMap)'
    BY <1>1, <1>2, <1>4, <1>5, HandlersAssume, H!HandlerStores, CommitFounded
    DEF H!api, H!Create, H!CreatedFromLocal
  <1> QED
    BY <1>1, <1>2, <1>3, <1>4, <1>5
    DEF H!Next, H!vars, H!Arrive, H!OperatorDelete, H!WatcherCreate, H!Create,
        H!CreatedFromLocal

LEMMA InitFounded == SystemInit => AllFounded
  <1> SUFFICES ASSUME SystemInit
               PROVE  AllFounded
    OBVIOUS
  <1>1. Founded(configMap)
    BY DEF SystemInit, Init, Founded, Given, Clients, Contents, EmptyRegistry
  <1>2. ASSUME NEW r \in Replicas, NEW object \in Versions(r)
        PROVE  Founded(object)
    <2>1. object = NoConfigMap
      BY DEF SystemInit, Init, Versions, Pending, NoWatch
    <2> QED
      BY <2>1, FoundedBases
  <1> QED
    BY <1>1, <1>2 DEF AllFounded

LEMMA NextFounded ==
    SystemInv /\ AllFounded /\ [SystemNext]_systemVars => AllFounded'
  <1> SUFFICES ASSUME SystemInv, AllFounded, [SystemNext]_systemVars
               PROVE  AllFounded'
    OBVIOUS
  <1>1. /\ H!TypeOK /\ TypeOK /\ [H!Next]_(H!vars) /\ [Next]_vars
    BY NextSystemInv DEF SystemInv, H!IInv, IInv
  <1>2. Founded(configMap)'
    BY ConfigMapFounded DEF AllFounded
  <1>3. ASSUME NEW r \in Replicas, NEW object \in Versions(r)'
        PROVE  Founded(object)'
    <2>1. CASE object = configMap'
      BY <1>2, <2>1 DEF Founded
    <2>2. CASE object \in Versions(r) \cup {configMap, NoConfigMap}
      BY <1>1, <2>2, FoundedBases, FoundedStays DEF AllFounded
    <2> QED
      BY <1>1, <2>1, <2>2, VersionsStep
  <1> QED
    BY <1>2, <1>3 DEF AllFounded

\* No business request ever goes out with the kubeconfig of a request that
\* was refused: what a cache holds came from the local file, or from an add,
\* update or apply that was answered 200, or 500 with its response lost.
THEOREM RefusedNeverServed == SystemSpec => []RefusedIsNeverServed
  <1>1. ASSUME SystemInv, AllFounded, NEW r \in Replicas,
               NEW c \in DOMAIN codeClusterClient[r]
        PROVE  Given(c, codeClusterClient[r][c])
    <2>1. CacheIsOneSnapshot
      BY <1>1, SnapshotHolds DEF SystemInv
    <2>2. PICK object \in {served[r], cm[r]} :
            PartOf(codeClusterClient[r], Clients(object))
      BY <2>1 DEF CacheIsOneSnapshot
    <2>3. Founded(object)
      BY <1>1 DEF AllFounded, Versions
    <2> QED
      BY <2>2, <2>3 DEF Founded, PartOf
  <1>2. SystemInv /\ AllFounded => RefusedIsNeverServed
    BY <1>1 DEF RefusedIsNeverServed, Given
  <1> QED
    BY <1>2, InitFounded, NextFounded, InitSystemInv, SystemInvariance, PTL
    DEF SystemSpec
=============================================================================
