------------------------- MODULE ClusterProxyProofs -------------------------
(***************************************************************************)
(* Proofs about ClusterProxy, for any codes, kubeconfigs and UIDs, any set *)
(* of replicas and any bounds:                                             *)
(*                                                                         *)
(*   TypeCorrect          Spec => []TypeOK                                 *)
(*   RetryNeverReceived   Spec => []RetryIsDead                            *)
(*   OneSnapshot          Spec => []CacheIsOneSnapshot                     *)
(*   QuietIsFresh         Spec => []QuietMeansFresh                        *)
(*   NeverGoesBack        Spec => ServedMonotone                           *)
(*   StopsExplained       Spec => []StopsAreExplained, when the            *)
(*                        kubeconfigs of the local file parse              *)
(*                                                                         *)
(* The inductive invariant IInv speaks of one replica at a time: Line, the *)
(* order of the versions it serves, works on and has yet to receive;       *)
(* Fresh, that an open watch leads to the ConfigMap as it is; Snapshot,    *)
(* how far the swap of the cache is; and DeadRetry.  StopsInv, on top of   *)
(* it, accounts for the troubles each replica has met or will meet.        *)
(*                                                                         *)
(* The argument has three layers.  Facts about sequences of events, which  *)
(* mention no state (LineAppend, TroubleTail, ...); "views", that say what *)
(* a step is to one replica r, whoever takes it (World, Held, Own, ...);   *)
(* and for each part of the invariant the lemma that every step keeps it.  *)
(***************************************************************************)
EXTENDS ClusterProxy, RegistryLemmas, SequenceTheorems

\* What r's watch has not delivered yet.
Pending(r) == clusterWatch[r].events

-----------------------------------------------------------------------------
(***************************************************************************)
(* The inductive invariant.                                                *)
(***************************************************************************)
\* Of two versions of the ConfigMap, x is not the newer.
Before(x, y) ==
    x # NoConfigMap /\ y # NoConfigMap =>
        x = y \/ x.resourceVersion < y.resourceVersion

\* x is a version the ConfigMap has had, when it is now at revision rev.
Past(x, now, rev) ==
    /\ x # NoConfigMap => x.resourceVersion <= rev
    /\ Before(x, now)

AllPast(events, now, rev) ==
    \A i \in 1 .. Len(events) : Past(events[i].object, now, rev)

AllAfter(x, events) == \A i \in 1 .. Len(events) : Before(x, events[i].object)

InOrder(events) ==
    \A i, j \in 1 .. Len(events) :
        i < j => Before(events[i].object, events[j].object)

\* The version a replica serves, the one it works on, and those still to be
\* delivered come in the order in which the ConfigMap had them.
InLine(old, current, events, now, rev) ==
    /\ Past(now, now, rev) /\ Past(old, now, rev) /\ Past(current, now, rev)
    /\ AllPast(events, now, rev)
    /\ old # NoConfigMap => current # NoConfigMap
    /\ Before(old, current)
    /\ AllAfter(old, events) /\ AllAfter(current, events)
    /\ InOrder(events)

\* The line of replica r.
Line(r) == InLine(served[r], cm[r], Pending(r), configMap, revision)

\* An open watch leads to the ConfigMap as it is.
Fresh(r) ==
    clusterWatch[r].open /\ configMap # NoConfigMap =>
        IF Pending(r) # <<>>
        THEN Pending(r)[Len(Pending(r))].object = configMap
        ELSE /\ phase[r] \in Swapping \cup {"sync"} => cm[r] = configMap
             /\ phase[r] = "select" /\ ~retryNew[r] => served[r] = configMap

\* How far the swap of codeClusterClient is.
Snapshot(r) ==
    /\ phase[r] \notin Swapping =>
         codeClusterClient[r] = Clients(served[r])
    /\ phase[r] = "clearCode" =>
         PartOf(codeClusterClient[r], Clients(served[r]))
    /\ phase[r] = "clearId" => codeClusterClient[r] = NoClients
    /\ phase[r] = "storeCode" => PartOf(codeClusterClient[r], Clients(cm[r]))
    /\ phase[r] = "storeId" => codeClusterClient[r] = Clients(cm[r])
    /\ phase[r] \in Swapping \cup {"sync"} => cm[r] # NoConfigMap
    /\ phase[r] \in Booting \cup {"exited"} =>
         /\ clusterWatch[r] = NoWatch /\ ~retryNew[r]
         /\ cm[r] = NoConfigMap /\ served[r] = NoConfigMap
-----------------------------------------------------------------------------
(***************************************************************************)
(* The type invariant.                                                     *)
(***************************************************************************)
Objects == ConfigMaps \cup {NoConfigMap}
Watches == [open : BOOLEAN, events : Seq(Events)]

\* What an object in the API server is stored with.
LEMMA StoredType ==
    ASSUME TypeOK, NEW data \in Registries
    PROVE  [resourceVersion |-> revision + 1, binaryData |-> data] \in ConfigMaps
  BY DEF TypeOK, ConfigMaps

\* An event goes to the end of every open watch.
LEMMA BroadcastType ==
    ASSUME TypeOK, NEW type, NEW object, Broadcast(type, object),
           [type |-> type, object |-> object] \in Events
    PROVE  clusterWatch' \in [Replicas -> Watches]
  <1> DEFINE event == [type |-> type, object |-> object]
  <1>1. ASSUME NEW r \in Replicas
        PROVE  [clusterWatch[r] EXCEPT !.events = Append(@, event)] \in Watches
    <2>1. clusterWatch[r] \in Watches
      BY DEF TypeOK, Watches
    <2>2. Append(clusterWatch[r].events, event) \in Seq(Events)
      BY <2>1 DEF Watches
    <2> QED
      BY <2>1, <2>2 DEF Watches
  <1> QED
    BY <1>1 DEF Broadcast, TypeOK, Watches

\* A write with a registry as its data keeps the API server's part of the type.
LEMMA StoreType ==
    ASSUME TypeOK, NEW type \in {"ADDED", "MODIFIED"}, NEW data \in Registries,
           Store(type, data)
    PROVE  /\ configMap' \in Objects
           /\ revision' \in Nat
           /\ clusterWatch' \in [Replicas -> Watches]
  <1> DEFINE object == [resourceVersion |-> revision + 1, binaryData |-> data]
  <1>1. object \in ConfigMaps
    BY StoredType
  <1>2. [type |-> type, object |-> object] \in Events
    BY <1>1 DEF Events
  <1>3. configMap' = object /\ revision' = revision + 1 /\ Broadcast(type, object)
    BY DEF Store
  <1>4. clusterWatch' \in [Replicas -> Watches]
    BY <1>2, <1>3, BroadcastType
  <1> QED
    BY <1>1, <1>3, <1>4 DEF TypeOK, Objects

\* What the API server sends or keeps is of the right type.
WorldType ==
    /\ configMap' \in Objects
    /\ revision' \in Nat
    /\ clusterWatch' \in [Replicas -> Watches]
    /\ spent' \in [OutsideEvents -> Nat]

\* Counting an outside event keeps the counters natural numbers.
LEMMA SpendType ==
    ASSUME TypeOK, NEW k \in OutsideEvents, Spend(k)
    PROVE  spent' \in [OutsideEvents -> Nat]
  BY DEF Spend, TypeOK

\* The data of an Update is a registry.
LEMMA WriteStores ==
    ASSUME TypeOK, HandlerWrite
    PROVE  \E data \in Registries : Store("MODIFIED", data)
  <1>1. configMap.binaryData \in Registries
    BY DEF HandlerWrite, TypeOK, ConfigMaps
  <1> DEFINE data == configMap.binaryData
  <1>2. CASE \E c \in DOMAIN data : Store("MODIFIED", Drop(data, c))
    BY <1>1, <1>2, DropType
  <1>3. CASE \E c \in Codes, info \in ClusterInfo :
               Store("MODIFIED", Put(data, c, info))
    BY <1>1, <1>3, PutType
  <1> QED
    BY <1>2, <1>3 DEF HandlerWrite

\* Type correctness of what the handlers and the operator do.
LEMMA OutsideType ==
    ASSUME TypeOK, HandlerWrite \/ HandlerCreate \/ OperatorDelete
    PROVE  WorldType
  <1>1. CASE HandlerWrite
    <2>1. spent' \in [OutsideEvents -> Nat]
      BY <1>1, SpendType DEF HandlerWrite, OutsideEvents
    <2> QED
      BY <1>1, <2>1, WriteStores, StoreType DEF WorldType
  <1>2. CASE HandlerCreate
    <2>1. spent' \in [OutsideEvents -> Nat]
      BY <1>2, SpendType DEF HandlerCreate, OutsideEvents
    <2> QED
      BY <1>2, <2>1, LocalInfosAssumption, StoreType
      DEF WorldType, HandlerCreate
  <1>3. CASE OperatorDelete
    <2>1. spent' \in [OutsideEvents -> Nat]
      BY <1>3, SpendType DEF OperatorDelete, OutsideEvents
    <2>2. [type |-> "DELETED", object |-> NoConfigMap] \in Events
      BY DEF Events
    <2> QED
      BY <1>3, <2>1, <2>2, BroadcastType
      DEF OperatorDelete, WorldType, Objects, TypeOK
  <1> QED
    BY <1>1, <1>2, <1>3

\* What a replica remembers is of the right type.
LocalType ==
    /\ phase' \in [Replicas -> Phases]
    /\ retryNew' \in [Replicas -> BOOLEAN]
    /\ retrySync' \in [Replicas -> BOOLEAN]
    /\ cm' \in [Replicas -> Objects]
    /\ idtmp' \in [Replicas -> ClientMaps(Uids)]
    /\ codeClusterClient' \in [Replicas -> ClientMaps(Codes)]
    /\ idClusterClient' \in [Replicas -> ClientMaps(Uids)]
    /\ served' \in [Replicas -> Objects]

\* TypeOK is the world's part and the replicas' part, and says of the values
\* that the invariant is about what the lemmas on them ask.
LEMMA TypeParts ==
    /\ TypeOK' <=> WorldType /\ LocalType
    /\ TypeOK => /\ configMap \in Objects
                 /\ clusterWatch \in [Replicas -> Watches]
                 /\ cm \in [Replicas -> Objects]
                 /\ served \in [Replicas -> Objects]
  BY DEF TypeOK, WorldType, LocalType, Objects, Watches

\* A step that touches nothing of the API server keeps the world's part.
LEMMA KeptWorldType ==
    ASSUME TypeOK, UNCHANGED <<api, clusterWatch, spent>>
    PROVE  WorldType
  BY DEF TypeOK, WorldType, Objects, Watches, api

\* A step that touches nothing of the replicas keeps their part.
LEMMA KeptLocalType ==
    ASSUME TypeOK, UNCHANGED <<phase, channels, cm, idtmp, caches>>
    PROVE  LocalType
  BY DEF TypeOK, LocalType, Objects, channels, caches

\* A step moves the goroutine on, and may put or take a token.
Moves(r) ==
    /\ \E next \in Phases : Goto(r, next)
    /\ retryNew' \in [Replicas -> BOOLEAN]
    /\ retrySync' \in [Replicas -> BOOLEAN]

\* A goroutine that only moves on keeps the replicas' part.
LEMMA MovedType ==
    ASSUME TypeOK, NEW r \in Replicas, Moves(r), UNCHANGED <<cm, idtmp, caches>>
    PROVE  LocalType
  BY DEF TypeOK, Moves, Goto, LocalType, Objects, caches

\* No client at all is a map of any type.
LEMMA NoClientsType ==
    ASSUME NEW keys
    PROVE  NoClients \in ClientMaps(keys)
  <1>1. NoClients \in [{} -> Kubeconfigs]
    BY DEF NoClients
  <1> QED
    BY <1>1 DEF ClientMaps

\* The watch of a process that has not begun one.
LEMMA NoWatchType == NoWatch \in Watches
  BY DEF NoWatch, Watches

\* Type correctness of the end of a process.
LEMMA ExitType ==
    ASSUME TypeOK, NEW r \in Replicas, Exit(r),
           UNCHANGED api, spent' \in [OutsideEvents -> Nat]
    PROVE  WorldType /\ LocalType
  <1>1. WorldType
    BY NoWatchType, TypeParts DEF TypeOK, Exit, WorldType, api
  <1>2. LocalType
    BY NoClientsType, TypeParts
    DEF TypeOK, Exit, Goto, Phases, Booting, LocalType, Objects
  <1> QED
    BY <1>1, <1>2

\* A send on either channel moves the goroutine on.
LEMMA SendMoves ==
    ASSUME TypeOK, NEW r \in Replicas, NEW next \in Phases,
           SendRetryNew(r, next) \/ SendRetrySync(r, next)
    PROVE  Moves(r)
  <1>1. "blocked" \in Phases
    BY DEF Phases
  <1> QED
    BY <1>1 DEF TypeOK, SendRetryNew, SendRetrySync, Moves

\* So does finding the ConfigMap.
LEMMA FoundMoves ==
    ASSUME TypeOK, NEW r \in Replicas, Found(r)
    PROVE  Moves(r)
  <1>1. {"bootWatch", "select", "renewWatch"} \subseteq Phases
    BY DEF Phases, Booting, Renewing
  <1>2. CASE phase[r] \in Rebuilding /\ SendRetryNew(r, "select")
    BY <1>1, <1>2, SendMoves
  <1>3. CASE UNCHANGED channels /\ (Goto(r, "bootWatch") \/ Goto(r, "renewWatch"))
    BY <1>1, <1>3 DEF TypeOK, Moves, channels
  <1> QED
    BY <1>2, <1>3 DEF Found

\* Type correctness of a call to the API server that ends in an error.
LEMMA ApiErrorType ==
    ASSUME TypeOK, NEW r \in Replicas, ApiError(r), UNCHANGED api,
           spent' \in [OutsideEvents -> Nat]
    PROVE  WorldType /\ LocalType
  <1>1. CASE Exit(r)
    BY <1>1, ExitType
  <1>2. CASE SendRetryNew(r, "returned") /\ UNCHANGED <<clusterWatch, cm, idtmp, caches>>
    <2>1. Moves(r)
      BY <1>2, SendMoves DEF Phases
    <2>2. WorldType
      BY <1>2, TypeParts DEF TypeOK, WorldType, api
    <2> QED
      BY <1>2, <2>1, <2>2, MovedType
  <1> QED
    BY <1>1, <1>2 DEF ApiError
-----------------------------------------------------------------------------
\* The steps that change nothing but the phase and the channels.
LEMMA PureMovesType ==
    ASSUME TypeOK, NEW r \in Replicas,
           \/ GetConfigMap(r) \/ ReceiveClosed(r) \/ ReceiveRetryNew(r)
           \/ SyncFault(r) \/ Restart(r)
    PROVE  WorldType /\ LocalType
  <1>1. /\ \A p \in DOMAIN CreatePhase : CreatePhase[p] \in Phases
        /\ {"renewGet", "returned", "bootGet"} \subseteq Phases
    BY DEF CreatePhase, Phases, Booting, Rebuilding, Renewing
  <1>2. UNCHANGED <<api, clusterWatch, cm, idtmp, caches>>
    BY DEF GetConfigMap, ReceiveClosed, ReceiveRetryNew, SyncFault, Restart
  <1>3. Moves(r)
    <2>1. CASE GetConfigMap(r)
      <3>1. CASE Found(r)
        BY <3>1, FoundMoves
      <3>2. CASE Goto(r, CreatePhase[phase[r]]) /\ UNCHANGED channels
        BY <1>1, <2>1, <3>2 DEF TypeOK, GetConfigMap, Moves, channels
      <3> QED
        BY <2>1, <3>1, <3>2 DEF GetConfigMap
    <2>2. CASE ReceiveClosed(r) \/ ReceiveRetryNew(r) \/ Restart(r)
      BY <1>1, <2>2
      DEF TypeOK, ReceiveClosed, ReceiveRetryNew, Restart, Moves, channels
    <2>3. CASE SyncFault(r)
      BY <1>1, <2>3, SendMoves DEF SyncFault
    <2> QED
      BY <2>1, <2>2, <2>3
  <1>4. spent' \in [OutsideEvents -> Nat]
    <2>1. CASE SyncFault(r)
      BY <2>1, SpendType DEF TypeOK, SyncFault, OutsideEvents
    <2>2. CASE UNCHANGED spent
      BY <2>2 DEF TypeOK
    <2> QED
      BY <2>1, <2>2 DEF GetConfigMap, ReceiveClosed, ReceiveRetryNew, Restart
  <1>5. WorldType
    BY <1>2, <1>4, TypeParts DEF TypeOK, WorldType, api
  <1> QED
    BY <1>2, <1>3, <1>5, MovedType

\* Type correctness of the Create of the ConfigMap.
LEMMA CreateType ==
    ASSUME TypeOK, NEW r \in Replicas, CreateConfigMap(r)
    PROVE  WorldType /\ LocalType
  <1>1. CASE ApiError(r) /\ UNCHANGED api
    BY <1>1, ApiErrorType DEF CreateConfigMap, TypeOK
  <1>2. CASE Store("ADDED", LocalInfos) /\ Found(r) /\ UNCHANGED <<cm, idtmp, caches>>
    <2>1. WorldType
      BY <1>2, StoreType, LocalInfosAssumption
      DEF CreateConfigMap, WorldType, TypeOK
    <2> QED
      BY <1>2, <2>1, FoundMoves, MovedType
  <1> QED
    BY <1>1, <1>2 DEF CreateConfigMap

\* Type correctness of a failing call, and of a pod that dies.
LEMMA ApiFaultType ==
    ASSUME TypeOK, NEW r \in Replicas, ApiFault(r) \/ Kill(r)
    PROVE  WorldType /\ LocalType
  <1>1. spent' \in [OutsideEvents -> Nat]
    BY SpendType DEF ApiFault, Kill, OutsideEvents
  <1> QED
    BY <1>1, ApiErrorType, ExitType DEF ApiFault, Kill

\* What is left of a watch's events, and what a new watch begins with.
LEMMA RemainingType ==
    ASSUME NEW w \in Watches
    PROVE  /\ \A n \in 0 .. Len(w.events) :
                [open |-> FALSE, events |-> SubSeq(w.events, 1, n)] \in Watches
           /\ [open |-> FALSE,
               events |-> Append(w.events, [type |-> "ERROR",
                                            object |-> NoConfigMap])] \in Watches
           /\ w.events # <<>> =>
                /\ Head(w.events) \in Events
                /\ [w EXCEPT !.events = Tail(@)] \in Watches
  <1>1. w.events \in Seq(Events) /\ w.open \in BOOLEAN
    BY DEF Watches
  <1>2. \A n \in 0 .. Len(w.events) : SubSeq(w.events, 1, n) \in Seq(Events)
    BY <1>1
  <1>3. Append(w.events, [type |-> "ERROR", object |-> NoConfigMap]) \in Seq(Events)
    BY <1>1 DEF Events
  <1>4. w.events # <<>> =>
          Head(w.events) \in Events /\ Tail(w.events) \in Seq(Events)
    BY <1>1, HeadTailProperties
  <1>5. w.events # <<>> => [w EXCEPT !.events = Tail(@)] \in Watches
    BY <1>4 DEF Watches
  <1> QED
    BY <1>2, <1>3, <1>4, <1>5 DEF Watches

\* A new watch delivers the ConfigMap as it is, if there is one.
LEMMA NewWatchType ==
    ASSUME TypeOK, NEW r
    PROVE  NewWatch(r) \in Watches
  <1>1. CASE configMap = NoConfigMap
    BY <1>1 DEF NewWatch, Watches
  <1>2. CASE configMap \in ConfigMaps
    <2>1. [type |-> "ADDED", object |-> configMap] \in Events
      BY <1>2 DEF Events
    <2>2. NewWatch(r) = [open |-> TRUE, events |->
                           <<[type |-> "ADDED", object |-> configMap]>>]
      BY <1>2, NoConfigMapAssumption DEF NewWatch
    <2> QED
      BY <2>1, <2>2 DEF Watches
  <1> QED
    BY <1>1, <1>2 DEF TypeOK

\* Type correctness of the steps that open and end a watch.
LEMMA WatchType ==
    ASSUME TypeOK, NEW r \in Replicas,
           Watch(r) \/ CloseWatch(r) \/ FailWatch(r)
    PROVE  WorldType /\ LocalType
  <1>1. clusterWatch[r] \in Watches
    BY TypeParts
  <1>2. CASE Watch(r)
    <2>1. clusterWatch' \in [Replicas -> Watches]
      BY <1>2, NewWatchType, TypeParts DEF Watch
    <2>2. WorldType
      BY <1>2, <2>1 DEF Watch, TypeOK, WorldType, Objects, api
    <2>3. Moves(r)
      BY <1>2 DEF Watch, TypeOK, Moves, Phases, channels
    <2> QED
      BY <1>2, <2>2, <2>3, MovedType DEF Watch
  <1>3. CASE CloseWatch(r)
    <2>1. clusterWatch' \in [Replicas -> Watches]
      BY <1>1, <1>3, RemainingType, TypeParts DEF CloseWatch
    <2>2. WorldType
      BY <1>3, <2>1, SpendType
      DEF CloseWatch, TypeOK, WorldType, Objects, api, OutsideEvents
    <2> QED
      BY <1>3, <2>2, KeptLocalType DEF CloseWatch
  <1>4. CASE FailWatch(r)
    <2>1. clusterWatch' \in [Replicas -> Watches]
      BY <1>1, <1>4, RemainingType, TypeParts DEF FailWatch
    <2>2. WorldType
      BY <1>4, <2>1, SpendType
      DEF FailWatch, TypeOK, WorldType, Objects, api, OutsideEvents
    <2> QED
      BY <1>4, <2>2, KeptLocalType DEF FailWatch
  <1> QED
    BY <1>2, <1>3, <1>4

\* Type correctness of the receipt of an event: its object, when it is not a
\* DELETED or ERROR one, is a ConfigMap.
LEMMA ReceiveType ==
    ASSUME TypeOK, NEW r \in Replicas, ReceiveEvent(r)
    PROVE  WorldType /\ LocalType
  <1> DEFINE event == Head(clusterWatch[r].events)
  <1>1. /\ event \in Events
        /\ [clusterWatch[r] EXCEPT !.events = Tail(@)] \in Watches
    BY RemainingType, TypeParts DEF ReceiveEvent
  <1>2. clusterWatch' \in [Replicas -> Watches]
    BY <1>1, TypeParts DEF ReceiveEvent
  <1>3. event.object \in Objects
    BY <1>1 DEF Events, Objects
  <1>4. cm' \in [Replicas -> Objects]
    BY <1>3, TypeParts DEF ReceiveEvent
  <1>5. phase' \in [Replicas -> Phases]
    BY DEF ReceiveEvent, Goto, TypeOK, Phases, Rebuilding
  <1> QED
    BY <1>2, <1>4, <1>5, TypeParts
    DEF ReceiveEvent, WorldType, LocalType, TypeOK, api, channels, caches

\* Deleting and storing a client keep a map of clients one.
LEMMA DropClient ==
    ASSUME NEW keys, NEW f \in ClientMaps(keys), NEW k
    PROVE  Drop(f, k) \in ClientMaps(keys)
  <1>1. PICK S \in SUBSET keys : f \in [S -> Kubeconfigs]
    BY DEF ClientMaps
  <1>2. Drop(f, k) \in [S \ {k} -> Kubeconfigs]
    BY <1>1 DEF Drop, Restrict
  <1> QED
    BY <1>1, <1>2 DEF ClientMaps

\* Storing a client under a key gives a map of clients.
LEMMA PutClient ==
    ASSUME NEW keys, NEW f \in ClientMaps(keys), NEW k \in keys,
           NEW client \in Kubeconfigs
    PROVE  Put(f, k, client) \in ClientMaps(keys)
  <1>1. PICK S \in SUBSET keys : f \in [S -> Kubeconfigs]
    BY DEF ClientMaps
  <1>2. Put(f, k, client) \in [S \cup {k} -> Kubeconfigs]
    BY <1>1 DEF Put
  <1>3. S \cup {k} \in SUBSET keys
    BY <1>1
  <1> QED
    BY <1>2, <1>3 DEF ClientMaps

\* codetmp has a client for every code of the ConfigMap.
LEMMA ClientsType ==
    ASSUME NEW object \in Objects
    PROVE  /\ DOMAIN Clients(object) \in SUBSET Codes
           /\ Clients(object) \in [DOMAIN Clients(object) -> Kubeconfigs]
           /\ Clients(object) \in ClientMaps(Codes)
  <1>1. Contents(object) \in Registries
    BY EmptyRegistryType DEF Contents, Objects, ConfigMaps
  <1>2. /\ DOMAIN Contents(object) \in SUBSET Codes
        /\ Contents(object) \in [DOMAIN Contents(object) -> ClusterInfo]
    BY <1>1, RegistryElim
  <1>3. Clients(object) \in [DOMAIN Contents(object) -> Kubeconfigs]
    BY <1>2 DEF Clients, ClusterInfo
  <1> QED
    BY <1>2, <1>3 DEF ClientMaps

\* Type correctness of the probing of the clusters and of the swap.
LEMMA SwapType ==
    ASSUME TypeOK, NEW r \in Replicas,
           \/ ProbeClusters(r) \/ ClearCode(r) \/ ClearId(r)
           \/ StoreCode(r) \/ StoreId(r)
    PROVE  WorldType /\ LocalType
  <1>1. WorldType
    BY KeptWorldType
    DEF ProbeClusters, ClearCode, ClearId, StoreCode, StoreId
  <1>2. phase' \in [Replicas -> Phases]
    BY DEF ProbeClusters, ClearCode, ClearId, StoreCode, StoreId, Goto,
           TypeOK, Phases, Swapping
  <1>3. idtmp' \in [Replicas -> ClientMaps(Uids)]
    <2>1. CASE ProbeClusters(r)
      <3>1. PICK m \in IdMaps(Clients(cm[r])) :
              idtmp' = [idtmp EXCEPT ![r] = m]
        BY <2>1 DEF ProbeClusters
      <3>2. m \in ClientMaps(Uids)
        BY DEF IdMaps, ClientMaps
      <3> QED
        BY <3>1, <3>2 DEF TypeOK
    <2> QED
      BY <2>1 DEF ClearCode, ClearId, StoreCode, StoreId, TypeOK
  <1>4. codeClusterClient' \in [Replicas -> ClientMaps(Codes)]
    <2>1. codeClusterClient[r] \in ClientMaps(Codes)
      BY DEF TypeOK
    <2>2. CASE UNCHANGED codeClusterClient
      BY <2>2 DEF TypeOK
    <2>3. ASSUME NEW c,
                 codeClusterClient' =
                     [codeClusterClient EXCEPT ![r] = Drop(@, c)]
          PROVE  codeClusterClient' \in [Replicas -> ClientMaps(Codes)]
      BY <2>1, <2>3, DropClient DEF TypeOK
    <2>4. ASSUME NEW c \in DOMAIN Clients(cm[r]),
                 codeClusterClient' =
                     [codeClusterClient EXCEPT ![r] = Put(@, c, Clients(cm[r])[c])]
          PROVE  codeClusterClient' \in [Replicas -> ClientMaps(Codes)]
      <3>1. c \in Codes /\ Clients(cm[r])[c] \in Kubeconfigs
        BY ClientsType, TypeParts
      <3>2. Put(codeClusterClient[r], c, Clients(cm[r])[c]) \in ClientMaps(Codes)
        BY <2>1, <3>1, PutClient
      <3> QED
        BY <2>4, <3>2 DEF TypeOK
    <2>5. CASE ClearCode(r)
      BY <2>2, <2>3, <2>5 DEF ClearCode
    <2>6. CASE StoreCode(r)
      BY <2>2, <2>4, <2>6 DEF StoreCode
    <2>7. CASE ProbeClusters(r) \/ ClearId(r) \/ StoreId(r)
      <3>1. UNCHANGED codeClusterClient
        BY <2>7 DEF ProbeClusters, ClearId, StoreId, caches
      <3> QED
        BY <2>2, <3>1
    <2> QED
      BY <2>5, <2>6, <2>7
  <1>5. idClusterClient' \in [Replicas -> ClientMaps(Uids)]
    <2>1. CASE ClearId(r)
      <3>1. NoClients \in ClientMaps(Uids)
        BY NoClientsType
      <3> QED
        BY <2>1, <3>1 DEF ClearId, TypeOK
    <2>2. CASE StoreId(r)
      BY <2>2 DEF StoreId, TypeOK
    <2> QED
      BY <2>1, <2>2 DEF ProbeClusters, ClearCode, StoreCode, TypeOK, caches
  <1>6. served' \in [Replicas -> Objects]
    BY TypeParts
    DEF ProbeClusters, ClearCode, ClearId, StoreCode, StoreId, caches
  <1> QED
    BY <1>1, <1>2, <1>3, <1>4, <1>5, <1>6, TypeParts
    DEF ProbeClusters, ClearCode, ClearId, StoreCode, StoreId, LocalType,
        TypeOK, channels

\* Every step keeps the types.
LEMMA NextTypeOK == TypeOK /\ [Next]_vars => TypeOK'
  <1> SUFFICES ASSUME TypeOK, [Next]_vars
               PROVE  WorldType /\ LocalType
    BY TypeParts
  <1>1. CASE HandlerWrite \/ HandlerCreate \/ OperatorDelete
    BY <1>1, OutsideType, KeptLocalType
    DEF HandlerWrite, HandlerCreate, OperatorDelete
  <1>2. ASSUME NEW r \in Replicas,
               \/ Step(r) \/ Restart(r)
               \/ CloseWatch(r) \/ FailWatch(r)
               \/ ApiFault(r) \/ SyncFault(r) \/ Kill(r)
        PROVE  WorldType /\ LocalType
    BY <1>2, PureMovesType, CreateType, ApiFaultType, WatchType, ReceiveType,
       SwapType
    DEF Step
  <1>3. CASE UNCHANGED vars
    BY <1>3, KeptWorldType, KeptLocalType DEF vars, api, channels, caches
  <1> QED
    BY <1>1, <1>2, <1>3 DEF Next

\* The initial state has them.
LEMMA InitTypeOK == Init => TypeOK
  <1> SUFFICES ASSUME Init PROVE TypeOK
    OBVIOUS
  <1>1. configMap \in Objects /\ revision \in Nat
    BY LocalInfosAssumption DEF Init, ConfigMaps, Objects
  <1>2. clusterWatch \in [Replicas -> Watches]
    BY NoWatchType DEF Init
  <1>3. /\ idtmp \in [Replicas -> ClientMaps(Uids)]
        /\ codeClusterClient \in [Replicas -> ClientMaps(Codes)]
        /\ idClusterClient \in [Replicas -> ClientMaps(Uids)]
    BY NoClientsType DEF Init
  <1>4. "bootGet" \in Phases
    BY DEF Phases, Booting
  <1> QED
    BY <1>1, <1>2, <1>3, <1>4 DEF Init, TypeOK, Objects, Watches

\* The state is always of the right types.
THEOREM TypeCorrect == Spec => []TypeOK
  BY InitTypeOK, NextTypeOK, PTL DEF Spec
-----------------------------------------------------------------------------
(***************************************************************************)
(* A step as one replica sees it.                                          *)
(***************************************************************************)
Still(r) == UNCHANGED <<api, clusterWatch[r]>>

\* event goes to r's watch if that is open.
Arrives(r, event) ==
    clusterWatch'[r] =
        IF clusterWatch[r].open
        THEN [open |-> clusterWatch[r].open,
              events |-> Append(Pending(r), event)]
        ELSE clusterWatch[r]

\* Every stored kubeconfig parses and reaches a cluster.
Parses(data) == \A c \in DOMAIN data : Answers[data[c].kubeconfig] # {}

LocalParses == Parses(LocalInfos)

\* The API server stores a newer version, and r's watch delivers it.
Stored(r) ==
    \E type \in {"ADDED", "MODIFIED"}, object \in ConfigMaps :
        /\ object.resourceVersion = revision + 1
        /\ LocalParses /\ Parses(Contents(configMap)) =>
               Parses(object.binaryData)
        /\ configMap' = object
        /\ revision' = revision + 1
        /\ Arrives(r, [type |-> type, object |-> object])

\* The ConfigMap is deleted, and r's watch tells.
Deleted(r) ==
    /\ configMap' = NoConfigMap
    /\ revision' = revision + 1
    /\ Arrives(r, [type |-> "DELETED", object |-> NoConfigMap])
    /\ spent'["delete"] = spent["delete"] + 1

\* What the API server and r's watch may do in a step that is not r's own.
World(r) ==
    /\ Still(r) \/ Stored(r) \/ Deleted(r)
    /\ \A k \in OutsideEvents : spent[k] <= spent'[k]

\* What r remembers stays.
Held(r) ==
    /\ phase'[r] = phase[r]
    /\ retryNew'[r] = retryNew[r] /\ retrySync'[r] = retrySync[r]
    /\ cm'[r] = cm[r]
    /\ codeClusterClient'[r] = codeClusterClient[r]
    /\ served'[r] = served[r]

Outside == HandlerWrite \/ HandlerCreate \/ OperatorDelete

\* The steps that are r's own.
Own(r) ==
    \/ Step(r) \/ Restart(r)
    \/ CloseWatch(r) \/ FailWatch(r)
    \/ ApiFault(r) \/ SyncFault(r) \/ Kill(r)

\* What replacing the events of a watch gives.
LEMMA WatchFields ==
    ASSUME NEW w \in Watches, NEW left
    PROVE  [w EXCEPT !.events = left] = [open |-> w.open, events |-> left]
  BY DEF Watches

\* Each open watch gets the event, at its end; a closed one does not.
LEMMA BroadcastArrives ==
    ASSUME TypeOK, NEW type, NEW object, NEW r \in Replicas,
           Broadcast(type, object)
    PROVE  Arrives(r, [type |-> type, object |-> object])
  <1> DEFINE event == [type |-> type, object |-> object]
  <1>1. clusterWatch[r] \in Watches
    BY TypeParts
  <1>2. [clusterWatch[r] EXCEPT !.events = Append(@, event)] =
          [open |-> clusterWatch[r].open, events |-> Append(Pending(r), event)]
    BY <1>1, WatchFields DEF Pending
  <1>3. clusterWatch'[r] =
          IF clusterWatch[r].open
          THEN [clusterWatch[r] EXCEPT !.events = Append(@, event)]
          ELSE clusterWatch[r]
    BY DEF Broadcast
  <1> QED
    BY <1>2, <1>3 DEF Arrives

\* Counting an event never lowers a count.
LEMMA SpendCounts ==
    ASSUME TypeOK, NEW k \in OutsideEvents, Spend(k)
    PROVE  /\ spent'[k] = spent[k] + 1
           /\ \A j \in OutsideEvents : spent[j] <= spent'[j]
  BY DEF Spend, TypeOK

\* A step that counts nothing lets no counter fall.
LEMMA UnspentCounts ==
    ASSUME TypeOK, UNCHANGED spent
    PROVE  \A j \in OutsideEvents : spent[j] <= spent'[j]
  BY DEF TypeOK

\* A write as replica r sees it: a newer ConfigMap, and an event that has it.
LEMMA StoreStored ==
    ASSUME TypeOK, NEW r \in Replicas, NEW type \in {"ADDED", "MODIFIED"},
           NEW data \in Registries, Store(type, data),
           LocalParses /\ Parses(Contents(configMap)) => Parses(data)
    PROVE  Stored(r)
  <1> DEFINE object == [resourceVersion |-> revision + 1, binaryData |-> data]
  <1>1. object \in ConfigMaps
    BY StoredType
  <1>2. Arrives(r, [type |-> type, object |-> object])
    BY BroadcastArrives DEF Store
  <1> QED
    BY <1>1, <1>2 DEF Stored, Store

\* What an Update stores has kubeconfigs that parse if the registry had.
LEMMA PutParses ==
    ASSUME NEW data \in Registries, Parses(data), NEW code, NEW info,
           info.id \in Answers[info.kubeconfig]
    PROVE  Parses(Put(data, code, info))
  <1> DEFINE new == Put(data, code, info)
  <1> SUFFICES ASSUME NEW c \in DOMAIN new
               PROVE  Answers[new[c].kubeconfig] # {}
    BY DEF Parses
  <1>1. CASE c = code
    BY <1>1 DEF Put
  <1>2. CASE c # code
    BY <1>2 DEF Put, Parses
  <1> QED
    BY <1>1, <1>2

\* An Update stores kubeconfigs that parse if those it found did.
LEMMA WriteParses ==
    ASSUME TypeOK, HandlerWrite
    PROVE  \E data \in Registries :
              /\ Store("MODIFIED", data)
              /\ Parses(Contents(configMap)) => Parses(data)
  <1> DEFINE data == configMap.binaryData
  <1>1. data \in Registries /\ Contents(configMap) = data
    BY DEF HandlerWrite, TypeOK, ConfigMaps, Contents
  <1>2. ASSUME NEW c, Store("MODIFIED", Drop(data, c))
        PROVE  /\ Drop(data, c) \in Registries
               /\ Parses(data) => Parses(Drop(data, c))
    BY <1>1, DropType DEF Parses, Drop, Restrict
  <1>3. ASSUME NEW c \in Codes, NEW info \in ClusterInfo,
               info.id \in Answers[info.kubeconfig]
        PROVE  /\ Put(data, c, info) \in Registries
               /\ Parses(data) => Parses(Put(data, c, info))
    BY <1>1, <1>3, PutType, PutParses
  <1>4. \/ \E c \in DOMAIN data : Store("MODIFIED", Drop(data, c))
        \/ \E c \in Codes, info \in ClusterInfo :
             /\ info.id \in Answers[info.kubeconfig]
             /\ Store("MODIFIED", Put(data, c, info))
    BY DEF HandlerWrite
  <1>5. CASE \E c \in DOMAIN data : Store("MODIFIED", Drop(data, c))
    BY <1>1, <1>2, <1>5
  <1>6. CASE \E c \in Codes, info \in ClusterInfo :
               /\ info.id \in Answers[info.kubeconfig]
               /\ Store("MODIFIED", Put(data, c, info))
    BY <1>1, <1>3, <1>6
  <1> QED
    BY <1>4, <1>5, <1>6

\* What the handlers and the operator do is World(r), and nothing of r's own.
LEMMA OutsideView ==
    ASSUME TypeOK, Outside, NEW r \in Replicas
    PROVE  World(r) /\ Held(r)
  <1>1. Held(r)
    BY DEF Outside, HandlerWrite, HandlerCreate, OperatorDelete, Held,
           channels, caches
  <1>2. CASE HandlerWrite
    <2>1. PICK data \in Registries :
            /\ Store("MODIFIED", data)
            /\ Parses(Contents(configMap)) => Parses(data)
      BY <1>2, WriteParses
    <2>2. Stored(r)
      BY <2>1, StoreStored
    <2>3. \A j \in OutsideEvents : spent[j] <= spent'[j]
      BY <1>2, SpendCounts DEF HandlerWrite, OutsideEvents
    <2> QED
      BY <1>1, <2>2, <2>3 DEF World
  <1>3. CASE HandlerCreate
    <2>1. Stored(r)
      BY <1>3, StoreStored, LocalInfosAssumption DEF HandlerCreate, LocalParses
    <2>2. \A j \in OutsideEvents : spent[j] <= spent'[j]
      BY <1>3, SpendCounts DEF HandlerCreate, OutsideEvents
    <2> QED
      BY <1>1, <2>1, <2>2 DEF World
  <1>4. CASE OperatorDelete
    <2>1. /\ spent'["delete"] = spent["delete"] + 1
          /\ \A j \in OutsideEvents : spent[j] <= spent'[j]
      BY <1>4, SpendCounts DEF OperatorDelete, OutsideEvents
    <2>2. Arrives(r, [type |-> "DELETED", object |-> NoConfigMap])
      BY <1>4, BroadcastArrives DEF OperatorDelete
    <2>3. configMap' = NoConfigMap /\ revision' = revision + 1
      BY <1>4 DEF OperatorDelete
    <2> QED
      BY <1>1, <2>1, <2>2, <2>3 DEF Deleted, World
  <1> QED
    BY <1>1, <1>2, <1>3, <1>4 DEF Outside

\* A token, an exit or a move of q touches nothing of r's.
LEMMA OtherMoves ==
    ASSUME TypeOK, NEW r \in Replicas, NEW q \in Replicas \ {r}
    PROVE  /\ Found(q) /\ UNCHANGED <<cm, idtmp, caches>> => Held(r)
           /\ ApiError(q) => Held(r) /\ clusterWatch'[r] = clusterWatch[r]
           /\ Exit(q) => Held(r) /\ clusterWatch'[r] = clusterWatch[r]
  <1>1. ASSUME NEW next,
               \/ Goto(q, next) /\ UNCHANGED channels
               \/ SendRetryNew(q, next) \/ SendRetrySync(q, next)
        PROVE  /\ phase'[r] = phase[r]
               /\ retryNew'[r] = retryNew[r] /\ retrySync'[r] = retrySync[r]
    BY <1>1 DEF TypeOK, Goto, SendRetryNew, SendRetrySync, channels
  <1>2. ASSUME Exit(q)
        PROVE  Held(r) /\ clusterWatch'[r] = clusterWatch[r]
    BY <1>2 DEF TypeOK, Exit, Goto, Held
  <1>3. ASSUME Found(q), UNCHANGED <<cm, idtmp, caches>>
        PROVE  Held(r)
    BY <1>1, <1>3 DEF Found, Held, caches
  <1>4. ASSUME ApiError(q)
        PROVE  Held(r) /\ clusterWatch'[r] = clusterWatch[r]
    BY <1>1, <1>2, <1>4 DEF ApiError, Held, caches
  <1> QED
    BY <1>2, <1>3, <1>4

\* A step that leaves the API server and r's watch alone is a quiet World(r).
LEMMA QuietWorld ==
    ASSUME TypeOK, NEW r \in Replicas, UNCHANGED api,
           clusterWatch'[r] = clusterWatch[r],
           UNCHANGED spent \/ \E k \in OutsideEvents : Spend(k)
    PROVE  World(r)
  BY SpendCounts, UnspentCounts DEF World, Still

\* What another replica does is World(r) as well, and nothing of r's own.
LEMMA OtherView ==
    ASSUME TypeOK, NEW r \in Replicas, NEW q \in Replicas \ {r}, Own(q)
    PROVE  World(r) /\ Held(r)
  <1>1. ASSUME CreateConfigMap(q)
        PROVE  World(r) /\ Held(r)
    <2>1. CASE ApiError(q) /\ UNCHANGED api
      BY <1>1, <2>1, OtherMoves, QuietWorld DEF CreateConfigMap
    <2>2. CASE Store("ADDED", LocalInfos) /\ Found(q) /\ UNCHANGED <<cm, idtmp, caches>>
      <3>1. Stored(r)
        BY <2>2, StoreStored, LocalInfosAssumption DEF LocalParses
      <3>2. \A k \in OutsideEvents : spent[k] <= spent'[k]
        BY <1>1, UnspentCounts DEF CreateConfigMap
      <3> QED
        BY <2>2, <3>1, <3>2, OtherMoves DEF World
    <2> QED
      BY <1>1, <2>1, <2>2 DEF CreateConfigMap
  <1>2. CASE GetConfigMap(q)
    <2>1. Held(r)
      BY <1>2, OtherMoves DEF GetConfigMap, TypeOK, Goto, Held, channels, caches
    <2>2. World(r)
      BY <1>2, QuietWorld DEF GetConfigMap
    <2> QED
      BY <2>1, <2>2
  <1>3. CASE ApiFault(q) \/ Kill(q)
    <2>1. \E k \in OutsideEvents : Spend(k)
      BY <1>3 DEF ApiFault, Kill, OutsideEvents
    <2> QED
      BY <1>3, <2>1, OtherMoves, QuietWorld DEF ApiFault, Kill
  <1>4. CASE Watch(q) \/ CloseWatch(q) \/ FailWatch(q)
    <2>1. Held(r)
      BY <1>4 DEF Watch, CloseWatch, FailWatch, TypeOK, Goto, Held, channels, caches
    <2>2. clusterWatch'[r] = clusterWatch[r]
      BY <1>4 DEF Watch, CloseWatch, FailWatch, TypeOK
    <2>3. UNCHANGED spent \/ \E k \in OutsideEvents : Spend(k)
      BY <1>4 DEF Watch, CloseWatch, FailWatch, OutsideEvents
    <2> QED
      BY <1>4, <2>1, <2>2, <2>3, QuietWorld DEF Watch, CloseWatch, FailWatch
  <1>5. CASE ReceiveEvent(q)
    <2>1. Held(r)
      BY <1>5 DEF ReceiveEvent, TypeOK, Goto, Held, channels, caches
    <2>2. clusterWatch'[r] = clusterWatch[r]
      BY <1>5 DEF ReceiveEvent, TypeOK
    <2> QED
      BY <1>5, <2>1, <2>2, QuietWorld DEF ReceiveEvent
  <1>6. CASE ReceiveClosed(q) \/ ReceiveRetryNew(q) \/ Restart(q)
    <2>1. Held(r)
      BY <1>6
      DEF ReceiveClosed, ReceiveRetryNew, Restart, TypeOK, Goto, Held,
          channels, caches
    <2> QED
      BY <1>6, <2>1, QuietWorld DEF ReceiveClosed, ReceiveRetryNew, Restart
  <1>7. CASE SyncFault(q)
    <2>1. Held(r)
      BY <1>7
      DEF SyncFault, SendRetryNew, SendRetrySync, TypeOK, Goto, Held, caches
    <2>2. UNCHANGED spent \/ \E k \in OutsideEvents : Spend(k)
      BY <1>7 DEF SyncFault, OutsideEvents
    <2> QED
      BY <1>7, <2>1, <2>2, QuietWorld DEF SyncFault
  <1>8. CASE \/ ProbeClusters(q) \/ ClearCode(q) \/ ClearId(q)
             \/ StoreCode(q) \/ StoreId(q)
    <2>1. Held(r)
      BY <1>8
      DEF ProbeClusters, ClearCode, ClearId, StoreCode, StoreId, TypeOK, Goto,
          Held, channels, caches
    <2> QED
      BY <1>8, <2>1, QuietWorld
      DEF ProbeClusters, ClearCode, ClearId, StoreCode, StoreId
  <1> QED
    BY <1>1, <1>2, <1>3, <1>4, <1>5, <1>6, <1>7, <1>8 DEF Own, Step

\* Whatever step is taken, r takes it, or stays and sees the world move.
LEMMA Views ==
    ASSUME TypeOK, [Next]_vars, NEW r \in Replicas
    PROVE  Own(r) \/ (World(r) /\ Held(r))
  <1>1. CASE Outside
    BY <1>1, OutsideView
  <1>2. CASE \E q \in Replicas : Own(q)
    BY <1>2, OtherView
  <1>3. CASE UNCHANGED vars
    BY <1>3, QuietWorld DEF vars, api, channels, caches, Held
  <1> QED
    BY <1>1, <1>2, <1>3 DEF Next, Outside, Own
-----------------------------------------------------------------------------
(***************************************************************************)
(* Versions in the order the ConfigMap had them: what the order survives.  *)
(***************************************************************************)
\* A version newer than all, or a deletion, at the end of the line.
LEMMA LineAppend ==
    ASSUME NEW old \in Objects, NEW current \in Objects,
           NEW events \in Seq(Events), NEW now \in Objects, NEW rev \in Nat,
           InLine(old, current, events, now, rev),
           NEW event \in Events,
           event.object # NoConfigMap => event.object.resourceVersion = rev + 1
    PROVE  /\ InLine(old, current, events, event.object, rev + 1)
           /\ InLine(old, current, Append(events, event), event.object, rev + 1)
  <1> DEFINE next == event.object
             longer == Append(events, event)
  <1>1. next \in Objects
    BY DEF Events, Objects
  <1>2. \A x \in Objects : x # NoConfigMap => x.resourceVersion \in Nat
    BY DEF Objects, ConfigMaps
  <1>3. \A x \in Objects : Past(x, now, rev) =>
          Before(x, next) /\ Past(x, next, rev + 1)
    BY <1>1, <1>2 DEF Past, Before
  <1>4. \A i \in 1 .. Len(events) : events[i] \in Events /\ events[i].object \in Objects
    BY DEF Events, Objects
  <1>5. /\ Len(longer) = Len(events) + 1
        /\ \A i \in 1 .. Len(events) : longer[i] = events[i]
        /\ longer[Len(events) + 1] = event
    BY AppendProperties
  <1>6. Past(next, next, rev + 1)
    BY <1>1, <1>2 DEF Past, Before
  <1>7. AllPast(events, next, rev + 1) /\ AllPast(longer, next, rev + 1)
    BY <1>3, <1>4, <1>5, <1>6 DEF InLine, AllPast
  <1>8. AllAfter(old, longer) /\ AllAfter(current, longer)
    BY <1>3, <1>5 DEF InLine, AllAfter
  <1>9. InOrder(longer)
    BY <1>3, <1>4, <1>5 DEF InLine, AllPast, InOrder
  <1> QED
    BY <1>3, <1>6, <1>7, <1>8, <1>9 DEF InLine

\* The first event is taken, as the version to work on or for nothing.
LEMMA LineTail ==
    ASSUME NEW old \in Objects, NEW current \in Objects,
           NEW events \in Seq(Events), NEW now \in Objects, NEW rev \in Nat,
           InLine(old, current, events, now, rev), events # <<>>
    PROVE  /\ InLine(old, current, Tail(events), now, rev)
           /\ Head(events).object # NoConfigMap =>
                InLine(old, Head(events).object, Tail(events), now, rev)
  <1> DEFINE rest == Tail(events)
             first == Head(events).object
  <1>1. /\ Len(events) \in Nat /\ Len(events) > 0
        /\ first = events[1].object
        /\ Len(rest) = Len(events) - 1
        /\ \A i \in 1 .. Len(rest) : rest[i] = events[i + 1]
    BY HeadTailProperties, LenProperties
  <1>2. AllPast(rest, now, rev) /\ Past(first, now, rev)
    BY <1>1 DEF InLine, AllPast
  <1>3. /\ AllAfter(old, rest) /\ AllAfter(current, rest)
        /\ Before(old, first)
    BY <1>1 DEF InLine, AllAfter
  <1>4. InOrder(rest) /\ AllAfter(first, rest)
    BY <1>1 DEF InLine, InOrder, AllAfter
  <1> QED
    BY <1>2, <1>3, <1>4 DEF InLine

\* The end of the line is lost, or a failed watch announced there.
LEMMA LineCut ==
    ASSUME NEW old \in Objects, NEW current \in Objects,
           NEW events \in Seq(Events), NEW now \in Objects, NEW rev \in Nat,
           InLine(old, current, events, now, rev)
    PROVE  /\ \A n \in 0 .. Len(events) :
                InLine(old, current, SubSeq(events, 1, n), now, rev)
           /\ InLine(old, current,
                     Append(events, [type |-> "ERROR", object |-> NoConfigMap]),
                     now, rev)
  <1>1. ASSUME NEW n \in 0 .. Len(events)
        PROVE  InLine(old, current, SubSeq(events, 1, n), now, rev)
    <2> DEFINE begin == SubSeq(events, 1, n)
    <2>1. /\ Len(begin) = n /\ n \in Nat /\ n <= Len(events)
          /\ \A i \in 1 .. n : begin[i] = events[i]
      BY LenProperties
    <2> QED
      BY <2>1 DEF InLine, AllPast, AllAfter, InOrder
  <1>2. InLine(old, current,
               Append(events, [type |-> "ERROR", object |-> NoConfigMap]), now, rev)
    <2> DEFINE event == [type |-> "ERROR", object |-> NoConfigMap]
               longer == Append(events, event)
    <2>1. /\ Len(longer) = Len(events) + 1
          /\ \A i \in 1 .. Len(events) : longer[i] = events[i]
          /\ longer[Len(events) + 1].object = NoConfigMap
      BY DEF Events
    <2>2. \A x : Before(x, NoConfigMap) /\ Past(NoConfigMap, now, rev)
      BY DEF Before, Past
    <2> QED
      BY <2>1, <2>2 DEF InLine, AllPast, AllAfter, InOrder
  <1> QED
    BY <1>1, <1>2

\* A swap that is complete serves the version worked on; a new watch begins
\* with the ConfigMap; a replica that starts remembers nothing.
LEMMA LineRestarts ==
    ASSUME NEW old \in Objects, NEW current \in Objects,
           NEW events \in Seq(Events), NEW now \in Objects, NEW rev \in Nat,
           InLine(old, current, events, now, rev)
    PROVE  /\ InLine(current, current, events, now, rev)
           /\ InLine(old, current, <<>>, now, rev)
           /\ InLine(old, current, <<[type |-> "ADDED", object |-> now]>>, now, rev)
           /\ InLine(NoConfigMap, NoConfigMap, <<>>, now, rev)
  <1>1. InLine(current, current, events, now, rev)
    BY DEF InLine, Before
  <1>2. InLine(old, current, <<>>, now, rev)
    BY DEF InLine, AllPast, AllAfter, InOrder
  <1>3. InLine(old, current, <<[type |-> "ADDED", object |-> now]>>, now, rev)
    <2> DEFINE single == <<[type |-> "ADDED", object |-> now]>>
    <2>1. Len(single) = 1 /\ single[1].object = now
      OBVIOUS
    <2>2. Past(now, now, rev) /\ Before(old, now) /\ Before(current, now)
      BY DEF InLine, Past, Before
    <2> QED
      BY <2>1, <2>2 DEF InLine, AllPast, AllAfter, InOrder
  <1>4. InLine(NoConfigMap, NoConfigMap, <<>>, now, rev)
    BY DEF InLine, Past, Before, AllPast, AllAfter, InOrder
  <1> QED
    BY <1>1, <1>2, <1>3, <1>4

\* What the world does keeps the line in order.
LEMMA LineWorld ==
    ASSUME TypeOK, NEW r \in Replicas, Line(r),
           World(r), cm'[r] = cm[r], served'[r] = served[r]
    PROVE  Line(r)'
  <1>1. /\ clusterWatch[r] \in Watches /\ Pending(r) \in Seq(Events)
        /\ served[r] \in Objects /\ cm[r] \in Objects /\ configMap \in Objects
        /\ revision \in Nat
    BY TypeParts DEF Watches, Pending, TypeOK
  <1>2. ASSUME NEW event \in Events, Arrives(r, event)
        PROVE  Pending(r)' \in {Pending(r), Append(Pending(r), event)}
    BY <1>2 DEF Arrives, Pending
  <1>3. CASE Still(r)
    BY <1>3 DEF Still, api, Line, Pending
  <1>4. CASE Stored(r)
    <2>1. PICK type \in {"ADDED", "MODIFIED"}, object \in ConfigMaps :
            /\ object.resourceVersion = revision + 1
            /\ configMap' = object /\ revision' = revision + 1
            /\ Arrives(r, [type |-> type, object |-> object])
      BY <1>4 DEF Stored
    <2> DEFINE event == [type |-> type, object |-> object]
    <2>2. event \in Events /\ event.object = object
      BY DEF Events
    <2>3. Pending(r)' \in {Pending(r), Append(Pending(r), event)}
      BY <1>2, <2>1, <2>2
    <2>4. /\ InLine(served[r], cm[r], Pending(r), event.object, revision + 1)
          /\ InLine(served[r], cm[r], Append(Pending(r), event), event.object,
                    revision + 1)
      BY <1>1, <2>1, <2>2, LineAppend DEF Line
    <2> QED
      BY <2>1, <2>2, <2>3, <2>4 DEF Line
  <1>5. CASE Deleted(r)
    <2> DEFINE event == [type |-> "DELETED", object |-> NoConfigMap]
    <2>1. event \in Events /\ event.object = NoConfigMap
      BY DEF Events
    <2>2. Pending(r)' \in {Pending(r), Append(Pending(r), event)}
      BY <1>2, <1>5, <2>1 DEF Deleted
    <2>3. /\ InLine(served[r], cm[r], Pending(r), event.object, revision + 1)
          /\ InLine(served[r], cm[r], Append(Pending(r), event), event.object,
                    revision + 1)
      BY <1>1, <2>1, LineAppend DEF Line
    <2> QED
      BY <1>5, <2>1, <2>2, <2>3 DEF Line, Deleted
  <1> QED
    BY <1>3, <1>4, <1>5 DEF World

\* Steps of r that leave the world, its queue and its versions alone.
Thinks(r) ==
    UNCHANGED <<api, clusterWatch[r], cm[r], served[r]>>

\* The steps of r that leave the API server and r's watch alone.
LEMMA ThinksCases ==
    ASSUME TypeOK, NEW r \in Replicas,
           \/ GetConfigMap(r) \/ ReceiveClosed(r) \/ ReceiveRetryNew(r)
           \/ SyncFault(r) \/ Restart(r)
           \/ ProbeClusters(r) \/ ClearCode(r) \/ ClearId(r) \/ StoreCode(r)
    PROVE  Thinks(r)
  BY DEF GetConfigMap, ReceiveClosed, ReceiveRetryNew, SyncFault, Restart,
         ProbeClusters, ClearCode, ClearId, StoreCode, Thinks, caches

\* How the calls of r end, as far as the order of versions goes.
Exited(r) ==
    /\ UNCHANGED api
    /\ phase'[r] = "exited" /\ clusterWatch'[r] = NoWatch
    /\ ~retryNew'[r] /\ ~retrySync'[r]
    /\ cm'[r] = NoConfigMap /\ served'[r] = NoConfigMap
    /\ codeClusterClient'[r] = NoClients

Failed(r) ==
    /\ UNCHANGED api
    /\ phase[r] \in Renewing
    /\ retryNew'[r]
    /\ phase'[r] = IF retryNew[r] THEN "blocked" ELSE "returned"
    /\ retrySync'[r] = retrySync[r]
    /\ UNCHANGED <<clusterWatch, cm, caches>>

\* The pointwise effect of the end of r's process.
LEMMA ExitView ==
    ASSUME TypeOK, NEW r \in Replicas, Exit(r), UNCHANGED api
    PROVE  Exited(r)
  BY DEF TypeOK, Exit, Goto, Exited

\* After an error r's process has ended, or its goroutine has left a token.
LEMMA ApiErrorView ==
    ASSUME TypeOK, NEW r \in Replicas, ApiError(r), UNCHANGED api
    PROVE  Exited(r) \/ Failed(r)
  <1>1. CASE phase[r] \in Booting \cup Rebuilding /\ Exit(r)
    BY <1>1, ExitView
  <1>2. CASE /\ phase[r] \in Renewing
             /\ SendRetryNew(r, "returned")
             /\ UNCHANGED <<clusterWatch, cm, idtmp, caches>>
    BY <1>2 DEF TypeOK, SendRetryNew, Goto, Failed
  <1> QED
    BY <1>1, <1>2 DEF ApiError

\* Create stores the local file when there is no ConfigMap, and fails when
\* there is one.
LEMMA CreateView ==
    ASSUME TypeOK, NEW r \in Replicas, CreateConfigMap(r)
    PROVE  \/ /\ configMap = NoConfigMap /\ configMap' # NoConfigMap
              /\ Stored(r) /\ World(r) /\ Found(r)
              /\ UNCHANGED <<cm, idtmp, caches, spent>>
           \/ /\ configMap # NoConfigMap
              /\ Exited(r) \/ (Failed(r) /\ phase[r] = "renewCreate")
              /\ UNCHANGED spent
  <1>1. CASE configMap # NoConfigMap /\ ApiError(r) /\ UNCHANGED api
    BY <1>1, ApiErrorView DEF CreateConfigMap, Failed, Renewing
  <1>2. CASE /\ configMap = NoConfigMap
             /\ Store("ADDED", LocalInfos)
             /\ Found(r)
             /\ UNCHANGED <<cm, idtmp, caches>>
    <2>1. Stored(r)
      BY <1>2, StoreStored, LocalInfosAssumption DEF LocalParses
    <2>2. World(r)
      BY <2>1, UnspentCounts DEF CreateConfigMap, World
    <2>3. configMap' # NoConfigMap
      BY <2>1, NoConfigMapAssumption DEF Stored
    <2> QED
      BY <1>2, <2>1, <2>2, <2>3 DEF CreateConfigMap
  <1> QED
    BY <1>1, <1>2 DEF CreateConfigMap

\* Every step keeps the order in which versions reach a replica.
LEMMA LineStep ==
    ASSUME TypeOK, [Next]_vars, NEW r \in Replicas, Line(r)
    PROVE  Line(r)'
  <1>1. /\ clusterWatch[r] \in Watches /\ Pending(r) \in Seq(Events)
        /\ served[r] \in Objects /\ cm[r] \in Objects /\ configMap \in Objects
        /\ revision \in Nat
    BY TypeParts DEF Watches, Pending, TypeOK
  <1>2. CASE World(r) /\ Held(r)
    BY <1>2, LineWorld DEF Held
  <1>3. CASE Thinks(r)
    BY <1>3 DEF Thinks, api, Line, Pending
  <1>4. CASE Exited(r)
    <2>1. Pending(r)' = <<>>
      BY <1>4 DEF Exited, Pending, NoWatch
    <2>2. InLine(NoConfigMap, NoConfigMap, <<>>, configMap, revision)
      BY <1>1, LineRestarts DEF Line
    <2> QED
      BY <1>4, <2>1, <2>2 DEF Exited, api, Line
  <1>5. CASE Failed(r)
    BY <1>5 DEF Failed, api, caches, Line, Pending
  <1>6. CASE CreateConfigMap(r)
    <2>1. CASE World(r) /\ UNCHANGED <<cm, caches>>
      BY <2>1, LineWorld DEF caches
    <2> QED
      BY <1>4, <1>5, <1>6, <2>1, CreateView
  <1>7. CASE ApiFault(r) \/ Kill(r)
    BY <1>4, <1>5, <1>7, ApiErrorView, ExitView DEF ApiFault, Kill
  <1>8. CASE Watch(r)
    <2>1. /\ Pending(r)' = NewWatch(r).events
          /\ UNCHANGED <<configMap, revision, cm, served>>
      BY <1>8 DEF Watch, TypeOK, Pending, api, caches
    <2>2. NewWatch(r).events \in
            {<<>>, <<[type |-> "ADDED", object |-> configMap]>>}
      BY DEF NewWatch
    <2> QED
      BY <1>1, <2>1, <2>2, LineRestarts DEF Line
  <1>9. CASE CloseWatch(r)
    <2>1. PICK n \in 0 .. Len(Pending(r)) :
            Pending(r)' = SubSeq(Pending(r), 1, n)
      BY <1>9 DEF CloseWatch, TypeOK, Pending
    <2> QED
      BY <1>1, <1>9, <2>1, LineCut DEF CloseWatch, api, caches, Line
  <1>10. CASE FailWatch(r)
    <2>1. Pending(r)' =
            Append(Pending(r), [type |-> "ERROR", object |-> NoConfigMap])
      BY <1>10 DEF FailWatch, TypeOK, Pending
    <2> QED
      BY <1>1, <1>10, <2>1, LineCut DEF FailWatch, api, caches, Line
  <1>11. CASE ReceiveEvent(r)
    <2>1. /\ Pending(r) # <<>> /\ Pending(r)' = Tail(Pending(r))
          /\ UNCHANGED <<configMap, revision, served>>
      BY <1>11 DEF ReceiveEvent, TypeOK, Pending, api, caches
    <2>2. Head(Pending(r)) \in Events
      BY <1>1, <2>1, HeadTailProperties
    <2>3. CASE cm'[r] = cm[r]
      BY <1>1, <2>1, <2>3, LineTail DEF Line
    <2>4. CASE /\ Head(Pending(r)).type \notin {"DELETED", "ERROR"}
               /\ cm' = [cm EXCEPT ![r] = Head(Pending(r)).object]
      <3>1. Head(Pending(r)).object # NoConfigMap
        BY <2>2, <2>4, NoConfigMapAssumption DEF Events
      <3>2. cm'[r] = Head(Pending(r)).object
        BY <2>4 DEF TypeOK
      <3> QED
        BY <1>1, <2>1, <3>1, <3>2, LineTail DEF Line
    <2> QED
      BY <1>11, <2>3, <2>4 DEF ReceiveEvent, Pending
  <1>12. CASE StoreId(r)
    <2>1. /\ served'[r] = cm[r]
          /\ UNCHANGED <<configMap, revision, clusterWatch, cm>>
      BY <1>12 DEF StoreId, TypeOK, api
    <2> QED
      BY <1>1, <2>1, LineRestarts DEF Line, Pending
  <1> QED
    BY <1>2, <1>3, <1>6, <1>7, <1>8, <1>9, <1>10, <1>11, <1>12, Views,
       ThinksCases
    DEF Own, Step
-----------------------------------------------------------------------------
(***************************************************************************)
(* The steps between the receipt of an event and the next select.          *)
(***************************************************************************)
\* How watchcm and newClustersAndWatch go on.
FoundBy(r) ==
    /\ retrySync'[r] = retrySync[r]
    /\ \/ /\ phase[r] \in Booting /\ phase'[r] = "bootWatch"
          /\ retryNew'[r] = retryNew[r]
       \/ /\ phase[r] \in Rebuilding
          /\ retryNew'[r]
          /\ phase'[r] = IF retryNew[r] THEN "blocked" ELSE "select"
       \/ /\ phase[r] \in Renewing /\ phase'[r] = "renewWatch"
          /\ retryNew'[r] = retryNew[r]

\* The pointwise effect of finding the ConfigMap.
LEMMA FoundView ==
    ASSUME TypeOK, NEW r \in Replicas, Found(r)
    PROVE  FoundBy(r)
  BY DEF TypeOK, Found, SendRetryNew, Goto, channels, FoundBy

\* The pointwise effect of Get: found, or on to Create.
LEMMA GetView ==
    ASSUME TypeOK, NEW r \in Replicas, GetConfigMap(r)
    PROVE  \/ configMap # NoConfigMap /\ FoundBy(r)
           \/ /\ configMap = NoConfigMap
              /\ retryNew'[r] = retryNew[r] /\ retrySync'[r] = retrySync[r]
              /\ \/ phase[r] = "bootGet" /\ phase'[r] = "bootCreate"
                 \/ phase[r] = "rebuildGet" /\ phase'[r] = "rebuildCreate"
                 \/ phase[r] = "renewGet" /\ phase'[r] = "renewCreate"
  BY FoundView DEF TypeOK, GetConfigMap, CreatePhase, Goto, channels

\* A failed synchronisation leaves a token in one of the channels.
LEMMA SyncFaultView ==
    ASSUME TypeOK, NEW r \in Replicas, SyncFault(r)
    PROVE  /\ phase[r] = "sync"
           /\ \/ /\ retryNew'[r] = retryNew[r] /\ retrySync'[r]
                 /\ phase'[r] = IF retrySync[r] THEN "blocked" ELSE "returned"
              \/ /\ retrySync'[r] = retrySync[r] /\ retryNew'[r]
                 /\ phase'[r] = IF retryNew[r] THEN "blocked" ELSE "returned"
  BY DEF TypeOK, SyncFault, SendRetryNew, SendRetrySync, Goto

\* Without its first event a queue ends as before, or is empty.
LEMMA TailLast ==
    ASSUME NEW events \in Seq(Events), events # <<>>
    PROVE  \/ /\ Tail(events) # <<>>
              /\ Tail(events)[Len(Tail(events))] = events[Len(events)]
           \/ Tail(events) = <<>> /\ Head(events) = events[Len(events)]
  <1> DEFINE n == Len(events)
  <1>1. /\ n \in Nat /\ n > 0 /\ Head(events) = events[1]
        /\ Tail(events) \in Seq(Events) /\ Len(Tail(events)) = n - 1
        /\ \A i \in 1 .. n - 1 : Tail(events)[i] = events[i + 1]
    BY HeadTailProperties, LenProperties
  <1>2. CASE n = 1
    <2>1. Len(Tail(events)) = 0
      BY <1>1, <1>2
    <2>2. Tail(events) = <<>>
      BY <1>1, <2>1, EmptySeq
    <2> QED
      BY <1>1, <1>2, <2>2
  <1>3. CASE n > 1
    <2>1. n - 1 \in 1 .. n - 1 /\ (n - 1) + 1 = n
      BY <1>1, <1>3
    <2>2. Tail(events)[n - 1] = events[n]
      BY <1>1, <2>1
    <2>3. Len(Tail(events)) # 0
      BY <1>1, <1>3
    <2>4. Tail(events) # <<>>
      BY <2>3, EmptySeq, Zenon
    <2> QED
      BY <1>1, <2>2, <2>4
  <1> QED
    BY <1>1, <1>2, <1>3

\* Every step keeps an open watch leading to the ConfigMap as it is.
LEMMA FreshStep ==
    ASSUME TypeOK, [Next]_vars, NEW r \in Replicas, Fresh(r)
    PROVE  Fresh(r)'
  <1>1. /\ clusterWatch[r] \in Watches /\ Pending(r) \in Seq(Events)
        /\ phase[r] \in Phases
    BY TypeParts DEF Watches, Pending, TypeOK
  <1> USE DEF Pending
  <1>2. CASE Stored(r)
    <2>1. PICK type \in {"ADDED", "MODIFIED"}, object \in ConfigMaps :
            /\ configMap' = object
            /\ Arrives(r, [type |-> type, object |-> object])
      BY <1>2 DEF Stored
    <2> DEFINE event == [type |-> type, object |-> object]
    <2>2. CASE ~clusterWatch[r].open
      BY <2>1, <2>2 DEF Arrives, Fresh
    <2>3. CASE clusterWatch[r].open
      <3>1. Pending(r)' = Append(Pending(r), event)
        BY <2>1, <2>3 DEF Arrives
      <3>2. /\ Len(Append(Pending(r), event)) = Len(Pending(r)) + 1
            /\ Append(Pending(r), event)[Len(Pending(r)) + 1] = event
            /\ Append(Pending(r), event) # <<>>
        BY <1>1
      <3> QED
        BY <2>1, <3>1, <3>2 DEF Fresh
    <2> QED
      BY <2>2, <2>3
  <1>3. CASE World(r) /\ Held(r)
    <2>1. CASE Still(r)
      BY <1>3, <2>1 DEF Still, Held, api, Fresh
    <2>2. CASE Deleted(r)
      BY <2>2 DEF Deleted, Fresh
    <2> QED
      BY <1>2, <1>3, <2>1, <2>2 DEF World
  <1>4. CASE Exited(r)
    BY <1>4 DEF Exited, NoWatch, Fresh
  <1>5. CASE Failed(r)
    BY <1>5 DEF Failed, api, Swapping, Fresh
  <1>6. CASE GetConfigMap(r)
    <2>1. phase'[r] \notin Swapping \cup {"sync"}
      BY <1>6, GetView DEF FoundBy, Swapping
    <2>2. ~(phase'[r] = "select" /\ ~retryNew'[r])
      BY <1>6, GetView DEF FoundBy
    <2> QED
      BY <1>6, <2>1, <2>2 DEF GetConfigMap, api, Fresh
  <1>7. CASE CreateConfigMap(r)
    BY <1>2, <1>4, <1>5, <1>7, CreateView
  <1>8. CASE ApiFault(r) \/ Kill(r)
    BY <1>4, <1>5, <1>8, ApiErrorView, ExitView DEF ApiFault, Kill
  <1>9. CASE Watch(r)
    <2>1. clusterWatch'[r] = NewWatch(r) /\ configMap' = configMap
      BY <1>9 DEF Watch, TypeOK, api
    <2>2. CASE configMap = NoConfigMap
      BY <2>1, <2>2 DEF Fresh
    <2>3. CASE configMap # NoConfigMap
      <3>1. Pending(r)' = <<[type |-> "ADDED", object |-> configMap]>>
        BY <2>1, <2>3 DEF NewWatch
      <3> QED
        BY <2>1, <3>1 DEF Fresh
    <2> QED
      BY <2>2, <2>3
  <1>10. CASE CloseWatch(r) \/ FailWatch(r)
    BY <1>10 DEF CloseWatch, FailWatch, TypeOK, Fresh
  <1>11. CASE ReceiveEvent(r)
    <2> DEFINE event == Head(Pending(r))
               rest == Tail(Pending(r))
    <2>1. Pending(r) # <<>> /\ Pending(r)' = rest
      BY <1>1, <1>11 DEF ReceiveEvent, TypeOK, Watches
    <2>2. clusterWatch'[r].open = clusterWatch[r].open /\ configMap' = configMap
      BY <1>1, <1>11 DEF ReceiveEvent, TypeOK, Watches, api
    <2> SUFFICES ASSUME clusterWatch[r].open, configMap # NoConfigMap
                 PROVE  Fresh(r)'
      BY <2>2 DEF Fresh
    <2>3. Pending(r)[Len(Pending(r))].object = configMap
      BY <2>1 DEF Fresh
    <2>4. CASE rest # <<>> /\ rest[Len(rest)] = Pending(r)[Len(Pending(r))]
      BY <2>1, <2>2, <2>3, <2>4 DEF Fresh
    <2>5. CASE rest = <<>> /\ event = Pending(r)[Len(Pending(r))]
      <3>1. event.object = configMap
        BY <2>3, <2>5
      <3>2. event.type \notin {"DELETED", "ERROR"}
        BY <1>1, <2>1, <3>1, HeadTailProperties DEF Events
      <3>3. phase'[r] = "sync" /\ cm'[r] = configMap
        BY <1>11, <3>1, <3>2 DEF ReceiveEvent, Goto, TypeOK
      <3> QED
        BY <2>1, <2>2, <2>5, <3>3 DEF Fresh
    <2> QED
      BY <1>1, <2>1, <2>4, <2>5, TailLast
  <1>12. CASE ReceiveClosed(r) \/ ReceiveRetryNew(r) \/ Restart(r)
    <2>1. phase'[r] \in {"renewGet", "bootGet"}
      BY <1>12 DEF ReceiveClosed, ReceiveRetryNew, Restart, Goto, TypeOK
    <2> QED
      BY <1>12, <2>1
      DEF ReceiveClosed, ReceiveRetryNew, Restart, Swapping, api, Fresh
  <1>13. CASE SyncFault(r)
    <2>1. phase'[r] \in {"returned", "blocked"}
      BY <1>13, SyncFaultView
    <2> QED
      BY <1>13, <2>1 DEF SyncFault, Swapping, api, Fresh
  <1>14. CASE ProbeClusters(r) \/ ClearCode(r) \/ ClearId(r) \/ StoreCode(r)
    <2>1. phase[r] \in Swapping \cup {"sync"} /\ phase'[r] \in Swapping
      BY <1>14
      DEF ProbeClusters, ClearCode, ClearId, StoreCode, Goto, Swapping, TypeOK
    <2>2. UNCHANGED <<configMap, clusterWatch, cm>>
      BY <1>14 DEF ProbeClusters, ClearCode, ClearId, StoreCode, api
    <2> QED
      BY <2>1, <2>2 DEF Swapping, Fresh
  <1>15. CASE StoreId(r)
    <2>1. /\ phase[r] = "storeId" /\ phase'[r] = "select" /\ served'[r] = cm[r]
          /\ UNCHANGED <<configMap, clusterWatch, cm>>
      BY <1>15 DEF StoreId, Goto, TypeOK, api
    <2> QED
      BY <2>1 DEF Swapping, Fresh
  <1> QED
    BY <1>3, <1>6, <1>7, <1>8, <1>9, <1>10, <1>11, <1>12, <1>13, <1>14, <1>15,
       Views
    DEF Own, Step
-----------------------------------------------------------------------------
(***************************************************************************)
(* The swap of codeClusterClient.                                          *)
(***************************************************************************)
\* Deleting entries one by one, and storing those of a snapshot one by one,
\* keep the cache a part of one snapshot; a part without a gap is all of it.
LEMMA PartOfFacts ==
    ASSUME NEW f \in ClientMaps(Codes), NEW g \in ClientMaps(Codes)
    PROVE  /\ PartOf(g, g) /\ PartOf(NoClients, g)
           /\ PartOf(f, g) => \A k : PartOf(Drop(f, k), g)
           /\ PartOf(f, g) => \A k \in DOMAIN g : PartOf(Put(f, k, g[k]), g)
           /\ PartOf(f, g) /\ DOMAIN g \ DOMAIN f = {} => f = g
  <1>1. PICK S \in SUBSET Codes, T \in SUBSET Codes :
          f \in [S -> Kubeconfigs] /\ g \in [T -> Kubeconfigs]
    BY DEF ClientMaps
  <1>2. PartOf(g, g) /\ PartOf(NoClients, g)
    BY DEF PartOf, NoClients
  <1>3. ASSUME PartOf(f, g), NEW k
        PROVE  PartOf(Drop(f, k), g)
    BY <1>1, <1>3 DEF PartOf, Drop, Restrict
  <1>4. ASSUME PartOf(f, g), NEW k \in DOMAIN g
        PROVE  PartOf(Put(f, k, g[k]), g)
    BY <1>1, <1>4 DEF PartOf, Put
  <1>5. ASSUME PartOf(f, g), DOMAIN g \ DOMAIN f = {}
        PROVE  f = g
    BY <1>1, <1>5 DEF PartOf
  <1> QED
    BY <1>2, <1>3, <1>4, <1>5

\* No ConfigMap, no clients.
LEMMA NoConfigMapNoClients == Clients(NoConfigMap) = NoClients
  BY DEF Clients, Contents, EmptyRegistry, NoClients

\* Nothing r remembers is touched but its phase and its tokens.
Remembers(r) ==
    /\ cm'[r] = cm[r] /\ served'[r] = served[r]
    /\ codeClusterClient'[r] = codeClusterClient[r]

\* A step between phases outside the swap.
LEMMA SnapshotOutside ==
    ASSUME NEW r \in Replicas, Snapshot(r), Remembers(r),
           phase[r] \notin Swapping, phase'[r] \notin Swapping \cup {"sync"},
           phase'[r] \notin Booting \cup {"exited"}
    PROVE  Snapshot(r)'
  BY DEF Snapshot, Remembers, Swapping

\* A step of a replica that starts.
LEMMA SnapshotBooting ==
    ASSUME NEW r \in Replicas, Snapshot(r), Remembers(r),
           phase[r] \in Booting \cup {"exited"}, phase'[r] \in Booting,
           clusterWatch'[r] = clusterWatch[r], retryNew'[r] = retryNew[r]
    PROVE  Snapshot(r)'
  BY DEF Snapshot, Remembers, Swapping, Booting

\* A process that has ended serves nothing.
LEMMA SnapshotExit ==
    ASSUME NEW r \in Replicas, Exited(r)
    PROVE  Snapshot(r)'
  BY NoConfigMapNoClients DEF Snapshot, Exited, Swapping, Booting

\* Found ends no swap and begins none.
LEMMA SnapshotFound ==
    ASSUME NEW r \in Replicas, Snapshot(r), Remembers(r), FoundBy(r),
           Still(r) \/ \E event \in Events : Arrives(r, event)
    PROVE  Snapshot(r)'
  <1>1. CASE phase[r] \in Booting
    <2>1. clusterWatch'[r] = clusterWatch[r]
      <3>1. ~clusterWatch[r].open
        BY <1>1 DEF Snapshot, NoWatch
      <3> QED
        BY <3>1 DEF Still, Arrives
    <2>2. phase'[r] \in Booting /\ retryNew'[r] = retryNew[r]
      BY <1>1 DEF FoundBy, Booting, Rebuilding, Renewing
    <2> QED
      BY <1>1, <2>1, <2>2, SnapshotBooting
  <1>2. CASE phase[r] \in Rebuilding \cup Renewing
    <2>1. /\ phase[r] \notin Swapping
          /\ phase'[r] \in {"blocked", "select", "renewWatch"}
      BY <1>2 DEF FoundBy, Booting, Rebuilding, Renewing, Swapping
    <2> QED
      BY <2>1, SnapshotOutside DEF Swapping, Booting
  <1> QED
    BY <1>1, <1>2 DEF FoundBy

\* Every step keeps the cache a part of one snapshot, at every point of the
\* swap.
LEMMA SnapshotStep ==
    ASSUME TypeOK, [Next]_vars, NEW r \in Replicas, Snapshot(r)
    PROVE  Snapshot(r)'
  <1>1. /\ Clients(cm[r]) \in ClientMaps(Codes)
        /\ Clients(served[r]) \in ClientMaps(Codes)
        /\ codeClusterClient[r] \in ClientMaps(Codes)
        /\ clusterWatch[r] \in Watches
    BY ClientsType, TypeParts DEF TypeOK
  <1>2. CASE World(r) /\ Held(r)
    <2>1. CASE phase[r] \in Booting \cup {"exited"}
      <3>1. clusterWatch'[r] = clusterWatch[r]
        <4>1. ~clusterWatch[r].open
          BY <2>1 DEF Snapshot, NoWatch
        <4> QED
          BY <1>2, <4>1 DEF World, Still, Stored, Deleted, Arrives
      <3> QED
        BY <1>2, <3>1 DEF Held, Snapshot
    <2>2. CASE phase[r] \notin Booting \cup {"exited"}
      BY <1>2, <2>2 DEF Held, Snapshot
    <2> QED
      BY <2>1, <2>2
  <1>3. CASE Exited(r)
    BY <1>3, SnapshotExit
  <1>4. CASE Failed(r)
    <2>1. /\ Remembers(r) /\ phase[r] \notin Swapping
          /\ phase'[r] \in {"blocked", "returned"}
      BY <1>4 DEF Failed, Remembers, Renewing, Swapping, caches
    <2> QED
      BY <2>1, SnapshotOutside DEF Swapping, Booting
  <1>5. CASE GetConfigMap(r)
    <2>1. Remembers(r) /\ Still(r)
      BY <1>5 DEF GetConfigMap, Remembers, Still, caches
    <2>2. CASE FoundBy(r)
      BY <2>1, <2>2, SnapshotFound
    <2>3. CASE phase[r] = "bootGet" /\ phase'[r] = "bootCreate"
               /\ retryNew'[r] = retryNew[r]
      BY <2>1, <2>3, SnapshotBooting DEF Still, Booting
    <2>4. CASE /\ phase[r] \in {"rebuildGet", "renewGet"}
               /\ phase'[r] \in {"rebuildCreate", "renewCreate"}
      BY <2>1, <2>4, SnapshotOutside DEF Swapping, Booting
    <2> QED
      BY <1>5, <2>2, <2>3, <2>4, GetView
  <1>6. CASE CreateConfigMap(r)
    <2>1. CASE Stored(r) /\ Found(r) /\ UNCHANGED <<cm, caches>>
      <3>1. PICK type \in {"ADDED", "MODIFIED"}, object \in ConfigMaps :
              Arrives(r, [type |-> type, object |-> object])
        BY <2>1 DEF Stored
      <3>2. [type |-> type, object |-> object] \in Events
        BY DEF Events
      <3>3. Remembers(r)
        BY <2>1 DEF Remembers, caches
      <3> QED
        BY <2>1, <3>1, <3>2, <3>3, FoundView, SnapshotFound
    <2> QED
      BY <1>3, <1>4, <1>6, <2>1, CreateView
  <1>7. CASE ApiFault(r) \/ Kill(r)
    BY <1>3, <1>4, <1>7, ApiErrorView, ExitView DEF ApiFault, Kill
  <1>8. CASE Watch(r) \/ CloseWatch(r) \/ FailWatch(r)
    <2>1. Remembers(r)
      BY <1>8 DEF Watch, CloseWatch, FailWatch, Remembers, caches
    <2>2. CASE Watch(r)
      <3>1. phase[r] \in {"bootWatch", "renewWatch"} /\ phase'[r] = "select"
        BY <2>2 DEF Watch, Goto, TypeOK
      <3> QED
        BY <2>1, <3>1, SnapshotOutside DEF Swapping, Booting
    <2>3. CASE CloseWatch(r) \/ FailWatch(r)
      <3>1. clusterWatch[r].open /\ phase' = phase
        BY <2>3 DEF CloseWatch, FailWatch
      <3>2. phase[r] \notin Booting \cup {"exited"}
        BY <3>1 DEF Snapshot, NoWatch
      <3> QED
        BY <2>1, <3>1, <3>2 DEF Snapshot, Remembers
    <2> QED
      BY <1>8, <2>2, <2>3
  <1>9. CASE ReceiveEvent(r)
    <2>1. /\ phase[r] = "select" /\ phase'[r] \in {"rebuildGet", "sync"}
          /\ served'[r] = served[r]
          /\ codeClusterClient'[r] = codeClusterClient[r]
      BY <1>9 DEF ReceiveEvent, Goto, TypeOK, caches
    <2>2. phase'[r] = "sync" => cm'[r] # NoConfigMap
      <3>1. Head(Pending(r)) \in Events
        BY <1>1, <1>9, HeadTailProperties DEF ReceiveEvent, Watches, Pending
      <3>2. Head(Pending(r)).type \notin {"DELETED", "ERROR"} =>
              Head(Pending(r)).object # NoConfigMap
        BY <3>1, NoConfigMapAssumption DEF Events
      <3> QED
        BY <1>9, <3>2 DEF ReceiveEvent, Goto, TypeOK, Pending
    <2> QED
      BY <2>1, <2>2 DEF Snapshot, Swapping, Booting
  <1>10. CASE ReceiveClosed(r) \/ ReceiveRetryNew(r)
    <2>1. /\ Remembers(r) /\ phase[r] = "select" /\ phase'[r] = "renewGet"
      BY <1>10 DEF ReceiveClosed, ReceiveRetryNew, Goto, TypeOK, Remembers, caches
    <2> QED
      BY <2>1, SnapshotOutside DEF Swapping, Booting
  <1>11. CASE Restart(r)
    <2>1. /\ Remembers(r) /\ phase[r] = "exited" /\ phase'[r] = "bootGet"
          /\ clusterWatch' = clusterWatch /\ retryNew' = retryNew
      BY <1>11 DEF Restart, Goto, TypeOK, Remembers, caches, channels
    <2> QED
      BY <2>1, SnapshotBooting DEF Booting
  <1>12. CASE SyncFault(r)
    <2>1. /\ Remembers(r) /\ phase[r] = "sync"
          /\ phase'[r] \in {"returned", "blocked"}
      BY <1>12, SyncFaultView DEF SyncFault, Remembers, caches
    <2> QED
      BY <2>1, SnapshotOutside DEF Swapping, Booting
  <1>13. CASE ProbeClusters(r)
    <2>1. Remembers(r) /\ phase[r] = "sync" /\ phase'[r] = "clearCode"
      BY <1>13 DEF ProbeClusters, Goto, TypeOK, Remembers, caches
    <2> QED
      BY <1>1, <2>1, PartOfFacts DEF Snapshot, Remembers, Swapping, Booting
  <1>14. CASE ClearCode(r) \/ ClearId(r) \/ StoreCode(r) \/ StoreId(r)
    <2>1. cm'[r] = cm[r] /\ (~StoreId(r) => served'[r] = served[r])
      BY <1>14 DEF ClearCode, ClearId, StoreCode, StoreId, caches
    <2>2. CASE ClearCode(r)
      <3>1. phase[r] = "clearCode" /\ served'[r] = served[r]
        BY <2>2 DEF ClearCode
      <3>2. CASE codeClusterClient[r] = NoClients
        <4>1. phase'[r] = "clearId" /\ codeClusterClient'[r] = NoClients
          BY <2>2, <3>2 DEF ClearCode, Goto, TypeOK
        <4> QED
          BY <2>1, <3>1, <4>1 DEF Snapshot, Swapping, Booting
      <3>3. CASE codeClusterClient[r] # NoClients
        <4>1. PICK c : /\ codeClusterClient'[r] = Drop(codeClusterClient[r], c)
                       /\ phase'[r] = phase[r]
          BY <2>2, <3>3 DEF ClearCode, TypeOK
        <4> QED
          BY <1>1, <2>1, <3>1, <4>1, PartOfFacts
          DEF Snapshot, Swapping, Booting
      <3> QED
        BY <3>2, <3>3
    <2>3. CASE ClearId(r)
      <3>1. /\ phase[r] = "clearId" /\ phase'[r] = "storeCode"
            /\ codeClusterClient'[r] = codeClusterClient[r]
        BY <2>3 DEF ClearId, Goto, TypeOK
      <3> QED
        BY <1>1, <2>1, <3>1, PartOfFacts DEF Snapshot, Swapping, Booting
    <2>4. CASE StoreCode(r)
      <3> DEFINE left == DOMAIN Clients(cm[r]) \ DOMAIN codeClusterClient[r]
      <3>1. phase[r] = "storeCode"
        BY <2>4 DEF StoreCode
      <3>2. CASE left = {}
        <4>1. phase'[r] = "storeId" /\ codeClusterClient'[r] = codeClusterClient[r]
          BY <2>4, <3>2 DEF StoreCode, Goto, TypeOK
        <4>2. codeClusterClient[r] = Clients(cm[r])
          BY <1>1, <3>1, <3>2, PartOfFacts DEF Snapshot
        <4> QED
          BY <2>1, <3>1, <4>1, <4>2 DEF Snapshot, Swapping, Booting
      <3>3. CASE left # {}
        <4>1. PICK c \in left :
                /\ codeClusterClient'[r] =
                     Put(codeClusterClient[r], c, Clients(cm[r])[c])
                /\ phase'[r] = phase[r]
          BY <2>4, <3>3 DEF StoreCode, TypeOK
        <4>2. PartOf(codeClusterClient'[r], Clients(cm[r]))
          BY <1>1, <3>1, <4>1, PartOfFacts DEF Snapshot
        <4> QED
          BY <2>1, <3>1, <4>1, <4>2 DEF Snapshot, Swapping, Booting
      <3> QED
        BY <3>2, <3>3
    <2>5. CASE StoreId(r)
      <3>1. /\ phase[r] = "storeId" /\ phase'[r] = "select"
            /\ served'[r] = cm[r]
            /\ codeClusterClient'[r] = codeClusterClient[r]
        BY <2>5 DEF StoreId, Goto, TypeOK
      <3> QED
        BY <2>1, <3>1 DEF Snapshot, Swapping, Booting
    <2> QED
      BY <1>14, <2>2, <2>3, <2>4, <2>5
  <1> QED
    BY <1>2, <1>5, <1>6, <1>7, <1>8, <1>9, <1>10, <1>11, <1>12, <1>13, <1>14,
       Views
    DEF Own, Step
-----------------------------------------------------------------------------
(***************************************************************************)
(* The channel retrySync.                                                  *)
(***************************************************************************)
DeadRetry(r) == retrySync[r] => phase[r] = "returned"

\* Who sends a token to retrySync returns, and nothing runs after it.
LEMMA DeadRetryStep ==
    ASSUME TypeOK, [Next]_vars, NEW r \in Replicas, DeadRetry(r)
    PROVE  DeadRetry(r)'
  <1>1. CASE World(r) /\ Held(r)
    BY <1>1 DEF Held, DeadRetry
  <1>2. CASE Exited(r)
    BY <1>2 DEF Exited, DeadRetry
  <1>3. CASE Failed(r)
    BY <1>3 DEF Failed, Renewing, DeadRetry
  <1>4. CASE GetConfigMap(r)
    <2>1. phase[r] # "returned" /\ retrySync'[r] = retrySync[r]
      BY <1>4, GetView DEF FoundBy, Booting, Rebuilding, Renewing
    <2> QED
      BY <2>1 DEF DeadRetry
  <1>5. CASE CreateConfigMap(r)
    <2>1. CASE Found(r)
      <3>1. phase[r] # "returned" /\ retrySync'[r] = retrySync[r]
        BY <2>1, FoundView DEF FoundBy, Booting, Rebuilding, Renewing
      <3> QED
        BY <3>1 DEF DeadRetry
    <2> QED
      BY <1>2, <1>3, <1>5, <2>1, CreateView
  <1>6. CASE ApiFault(r) \/ Kill(r)
    BY <1>2, <1>3, <1>6, ApiErrorView, ExitView DEF ApiFault, Kill
  <1>7. CASE CloseWatch(r) \/ FailWatch(r)
    BY <1>7 DEF CloseWatch, FailWatch, channels, DeadRetry
  <1>8. CASE SyncFault(r)
    BY <1>8, SyncFaultView DEF DeadRetry
  <1>9. CASE \/ Watch(r) \/ ReceiveEvent(r) \/ ReceiveClosed(r)
             \/ ReceiveRetryNew(r) \/ ProbeClusters(r) \/ ClearCode(r)
             \/ ClearId(r) \/ StoreCode(r) \/ StoreId(r) \/ Restart(r)
    <2>1. phase[r] # "returned" /\ retrySync' = retrySync
      BY <1>9
      DEF Watch, ReceiveEvent, ReceiveClosed, ReceiveRetryNew, ProbeClusters,
          ClearCode, ClearId, StoreCode, StoreId, Restart, channels
    <2> QED
      BY <2>1 DEF DeadRetry
  <1> QED
    BY <1>1, <1>4, <1>5, <1>6, <1>7, <1>8, <1>9, Views DEF Own, Step
-----------------------------------------------------------------------------
(***************************************************************************)
(* The invariant and what follows from it.                                 *)
(***************************************************************************)
IInv ==
    /\ TypeOK
    /\ \A r \in Replicas : Line(r) /\ Fresh(r) /\ Snapshot(r) /\ DeadRetry(r)

\* The invariant holds in the initial states.
LEMMA InitIInv == Init => IInv
  <1> SUFFICES ASSUME Init, NEW r \in Replicas
               PROVE  Line(r) /\ Fresh(r) /\ Snapshot(r) /\ DeadRetry(r)
    BY InitTypeOK DEF IInv
  <1>1. /\ Pending(r) = <<>> /\ clusterWatch[r] = NoWatch
        /\ served[r] = NoConfigMap /\ cm[r] = NoConfigMap
        /\ phase[r] = "bootGet" /\ ~retryNew[r] /\ ~retrySync[r]
        /\ codeClusterClient[r] = NoClients
    BY DEF Init, Pending, NoWatch
  <1>2. configMap # NoConfigMap => configMap.resourceVersion = 1
    BY DEF Init
  <1>3. Line(r)
    BY <1>1, <1>2
    DEF Init, Line, InLine, Past, Before, AllPast, AllAfter, InOrder
  <1>4. Fresh(r)
    BY <1>1 DEF Fresh, NoWatch
  <1>5. Snapshot(r)
    BY <1>1, NoConfigMapNoClients DEF Snapshot, Swapping, Booting
  <1> QED
    BY <1>1, <1>3, <1>4, <1>5 DEF DeadRetry

\* Every step keeps it.
LEMMA NextIInv == IInv /\ [Next]_vars => IInv'
  BY NextTypeOK, LineStep, FreshStep, SnapshotStep, DeadRetryStep DEF IInv

\* The inductive invariant holds in every behaviour.
THEOREM Invariance == Spec => []IInv
  BY InitIInv, NextIInv, PTL DEF Spec

\* The goroutine never waits on retrySync: a token is put there only by one
\* that returns (watchConfig's case <-retrySync cannot be taken).
THEOREM RetryNeverReceived == Spec => []RetryIsDead
  <1>1. IInv => RetryIsDead
    BY DEF IInv, DeadRetry, RetryIsDead
  <1> QED
    BY <1>1, Invariance, PTL

\* A part of a version in the invariant's terms is one in the property's.
LEMMA SnapshotHolds == IInv => CacheIsOneSnapshot
  <1> SUFFICES ASSUME IInv, NEW r \in Replicas
               PROVE  /\ \/ PartOf(codeClusterClient[r], Clients(served[r]))
                         \/ PartOf(codeClusterClient[r], Clients(cm[r]))
                      /\ phase[r] \notin Swapping =>
                           codeClusterClient[r] = Clients(served[r])
    BY DEF CacheIsOneSnapshot
  <1>1. /\ Snapshot(r)
        /\ Clients(served[r]) \in ClientMaps(Codes)
        /\ Clients(cm[r]) \in ClientMaps(Codes)
    BY ClientsType, TypeParts DEF IInv
  <1> QED
    BY <1>1, PartOfFacts DEF Snapshot, Swapping

\* At every instant a replica serves a part of one version of the registry,
\* and all of it outside syncCodeClusterClient's swap.
THEOREM OneSnapshot == Spec => []CacheIsOneSnapshot
  BY SnapshotHolds, Invariance, PTL

\* What an empty open watch leads to is what the replica serves.
LEMMA FreshHolds == IInv => QuietMeansFresh
  <1> SUFFICES ASSUME IInv, NEW r \in Replicas,
                      phase[r] = "select", ~retryNew[r],
                      configMap # NoConfigMap,
                      clusterWatch[r] = [open |-> TRUE, events |-> <<>>]
               PROVE  codeClusterClient[r] = Clients(configMap)
    BY DEF QuietMeansFresh
  <1>1. clusterWatch[r].open /\ Pending(r) = <<>>
    BY DEF Pending
  <1>2. served[r] = configMap
    BY <1>1 DEF IInv, Fresh
  <1> QED
    BY <1>2 DEF IInv, Snapshot, Swapping

\* A watcher that waits on an open watch with nothing undelivered and no
\* renewal due has exactly the clients of the ConfigMap.
THEOREM QuietIsFresh == Spec => []QuietMeansFresh
  BY FreshHolds, Invariance, PTL

\* A replica never goes back to an older version of the registry, short of a
\* restart, whatever watches it lost and whatever they had left over.
THEOREM NeverGoesBack == Spec => ServedMonotone
  <1>1. ASSUME IInv, [Next]_vars, NEW r \in Replicas,
               served'[r] # served[r], phase'[r] # "exited"
        PROVE  \/ served[r] = NoConfigMap
               \/ served[r].resourceVersion < served'[r].resourceVersion
    <2>1. TypeOK /\ Line(r)
      BY <1>1 DEF IInv
    <2>2. ~Held(r) /\ ~Thinks(r) /\ ~Exited(r) /\ ~Failed(r)
      BY <1>1 DEF Held, Thinks, Exited, Failed, caches
    <2>3. ~CreateConfigMap(r) /\ ~ApiFault(r) /\ ~Kill(r)
      BY <1>1, <2>1, <2>2, CreateView, ApiErrorView, ExitView
      DEF ApiFault, Kill, caches
    <2>4. ~Watch(r) /\ ~CloseWatch(r) /\ ~FailWatch(r) /\ ~ReceiveEvent(r)
      BY <1>1 DEF Watch, CloseWatch, FailWatch, ReceiveEvent, caches
    <2>5. ~ClearId(r)
      BY <1>1 DEF ClearId
    <2>6. StoreId(r)
      BY <1>1, <2>1, <2>2, <2>3, <2>4, <2>5, Views, ThinksCases DEF Own, Step
    <2>7. served'[r] = cm[r]
      BY <2>1, <2>6 DEF StoreId, TypeOK
    <2> QED
      BY <1>1, <2>1, <2>7 DEF Line, InLine, Before
  <1>2. IInv /\ [Next]_vars =>
          [\A r \in Replicas :
             served'[r] # served[r] /\ phase'[r] # "exited" =>
               \/ served[r] = NoConfigMap
               \/ served[r].resourceVersion < served'[r].resourceVersion]_vars
    BY <1>1
  <1> QED
    BY <1>2, Invariance, PTL DEF Spec, ServedMonotone
-----------------------------------------------------------------------------
(***************************************************************************)
(* What stops a watcher.                                                   *)
(***************************************************************************)
IsTrouble(event) == event.type \in {"DELETED", "ERROR"}

SomeTrouble(events) == \E i \in 1 .. Len(events) : IsTrouble(events[i])

TwoTroubles(events) ==
    \E i, j \in 1 .. Len(events) :
        i < j /\ IsTrouble(events[i]) /\ IsTrouble(events[j])

Deletions == spent["delete"]
Failures == spent["fault"] + spent["delete"]
Troubles == spent["delete"] + spent["error"] + spent["fault"]

\* A trouble that r has received and not yet dealt with.
InHand(r) ==
    \/ phase[r] \in Rebuilding
    \/ phase[r] \in Renewing /\ clusterWatch[r] # NoWatch

\* Where there is a trouble, one has happened.
OneTrouble(r) == retryNew[r] \/ InHand(r) \/ SomeTrouble(Pending(r))

\* Where there are two, or where a renewal is due once more, two have.
ManyTroubles(r) ==
    \/ TwoTroubles(Pending(r))
    \/ InHand(r) /\ SomeTrouble(Pending(r))
    \/ retryNew[r] /\ SomeTrouble(Pending(r))
    \/ retryNew[r] /\ phase[r] \in Rebuilding \cup {"renewCreate"}
    \/ retryNew[r] /\ configMap = NoConfigMap
    \/ phase[r] = "blocked"

\* Past its start, r misses the ConfigMap only after a deletion.
Missed(r) ==
    \/ /\ phase[r] \notin {"bootGet", "bootCreate", "exited"}
       /\ configMap = NoConfigMap
    \/ phase[r] = "renewCreate"

\* The outside events that account for r's state.
Counted(r) ==
    /\ OneTrouble(r) => Troubles >= 1
    /\ ManyTroubles(r) => Troubles >= 2
    /\ Missed(r) => Deletions >= 1
    /\ phase[r] = "returned" => Failures >= 1

\* Every version in r's reach has kubeconfigs that parse.
Answerable(r) ==
    /\ Parses(Contents(configMap)) /\ Parses(Contents(cm[r]))
    /\ \A i \in 1 .. Len(Pending(r)) : Parses(Contents(Pending(r)[i].object))
-----------------------------------------------------------------------------
\* Some UID answers for each client, so probing them all can succeed.
LEMMA SomeIdMap ==
    ASSUME NEW clients \in ClientMaps(Codes),
           \A c \in DOMAIN clients : Answers[clients[c]] # {}
    PROVE  IdMaps(clients) # {}
  <1> DEFINE uid == [c \in DOMAIN clients |->
                       CHOOSE u \in Answers[clients[c]] : TRUE]
             from(u) == CHOOSE c \in DOMAIN clients : uid[c] = u
             m == [u \in Range(uid) |-> clients[from(u)]]
  <1>1. PICK S \in SUBSET Codes : clients \in [S -> Kubeconfigs]
    BY DEF ClientMaps
  <1>2. \A c \in DOMAIN clients :
          uid[c] \in Answers[clients[c]] /\ uid[c] \in Uids
    BY <1>1, AnswersAssumption
  <1>3. uid \in [DOMAIN clients -> Uids] /\ Range(uid) \in SUBSET Uids
    BY <1>2 DEF Range
  <1>4. \A u \in Range(uid) : from(u) \in DOMAIN clients /\ uid[from(u)] = u
    BY DEF Range
  <1>5. m \in [Range(uid) -> Kubeconfigs]
    BY <1>1, <1>4
  <1>6. \A c \in DOMAIN clients :
          \E d \in DOMAIN clients : uid[d] = uid[c] /\ m[uid[c]] = clients[d]
    <2> SUFFICES ASSUME NEW c \in DOMAIN clients
                 PROVE  \E d \in DOMAIN clients :
                           uid[d] = uid[c] /\ m[uid[c]] = clients[d]
      OBVIOUS
    <2>1. uid[c] \in Range(uid)
      BY DEF Range
    <2>2. m[uid[c]] = clients[from(uid[c])]
      BY <2>1
    <2> QED
      BY <1>4, <2>1, <2>2
  <1>7. m \in IdMaps(clients)
    <2>1. m \in UNION {[T -> Kubeconfigs] : T \in SUBSET Uids}
      BY <1>3, <1>5
    <2>2. DOMAIN m = Range(uid)
      OBVIOUS
    <2> HIDE DEF uid, m
    <2> QED
      BY <1>2, <1>3, <1>6, <2>1, <2>2 DEF IdMaps
  <1> QED
    BY <1>7

\* When every kubeconfig parses, a synchronisation fails only by a fault.
LEMMA SyncCanSucceed ==
    ASSUME TypeOK, NEW r \in Replicas, Parses(Contents(cm[r]))
    PROVE  IdMaps(Clients(cm[r])) # {}
  <1>1. cm[r] \in Objects
    BY TypeParts
  <1>2. Clients(cm[r]) \in ClientMaps(Codes)
    BY <1>1, ClientsType
  <1>3. \A c \in DOMAIN Clients(cm[r]) : Answers[Clients(cm[r])[c]] # {}
    BY DEF Clients, Parses
  <1> QED
    BY <1>2, <1>3, SomeIdMap

\* What the end of a queue, its start and its loss say of the troubles in it.
LEMMA TroubleAppend ==
    ASSUME NEW events \in Seq(Events), NEW event \in Events
    PROVE  /\ SomeTrouble(Append(events, event)) =>
                SomeTrouble(events) \/ IsTrouble(event)
           /\ TwoTroubles(Append(events, event)) =>
                TwoTroubles(events) \/ (SomeTrouble(events) /\ IsTrouble(event))
           /\ TwoTroubles(events) => SomeTrouble(events)
  <1>1. /\ Len(events) \in Nat /\ Len(Append(events, event)) = Len(events) + 1
        /\ \A i \in 1 .. Len(events) : Append(events, event)[i] = events[i]
        /\ Append(events, event)[Len(events) + 1] = event
    BY LenProperties, AppendProperties
  <1> QED
    BY <1>1 DEF SomeTrouble, TwoTroubles

\* What receiving the first event does to the troubles not yet delivered.
LEMMA TroubleTail ==
    ASSUME NEW events \in Seq(Events), events # <<>>
    PROVE  /\ SomeTrouble(Tail(events)) => SomeTrouble(events)
           /\ TwoTroubles(Tail(events)) => TwoTroubles(events)
           /\ IsTrouble(Head(events)) => SomeTrouble(events)
           /\ IsTrouble(Head(events)) /\ SomeTrouble(Tail(events)) =>
                TwoTroubles(events)
  <1>1. /\ Len(events) \in Nat /\ Len(events) > 0 /\ Head(events) = events[1]
        /\ Len(Tail(events)) = Len(events) - 1
        /\ \A i \in 1 .. Len(Tail(events)) : Tail(events)[i] = events[i + 1]
    BY HeadTailProperties, LenProperties
  <1>2. \A i \in 1 .. Len(Tail(events)) : i + 1 \in 1 .. Len(events) /\ 1 < i + 1
    BY <1>1
  <1>3. 1 \in 1 .. Len(events)
    BY <1>1
  <1> QED
    BY <1>1, <1>2, <1>3 DEF SomeTrouble, TwoTroubles

\* Losing undelivered events brings no trouble.
LEMMA TroubleCut ==
    ASSUME NEW events \in Seq(Events), NEW n \in 0 .. Len(events)
    PROVE  /\ SomeTrouble(SubSeq(events, 1, n)) => SomeTrouble(events)
           /\ TwoTroubles(SubSeq(events, 1, n)) => TwoTroubles(events)
  <1>1. /\ Len(events) \in Nat /\ n \in Nat /\ n <= Len(events)
        /\ Len(SubSeq(events, 1, n)) = n
        /\ \A i \in 1 .. n : SubSeq(events, 1, n)[i] = events[i]
    BY LenProperties
  <1> QED
    BY <1>1 DEF SomeTrouble, TwoTroubles

\* A new watch holds no trouble.
LEMMA NoTroubleYet ==
    /\ ~SomeTrouble(<<>>) /\ ~TwoTroubles(<<>>)
    /\ \A object : LET single == <<[type |-> "ADDED", object |-> object]>>
                   IN  ~SomeTrouble(single) /\ ~TwoTroubles(single)
  BY DEF SomeTrouble, TwoTroubles, IsTrouble

\* The counts grow.
Grows ==
    /\ Deletions \in Nat /\ Failures \in Nat /\ Troubles \in Nat
    /\ Deletions' \in Nat /\ Failures' \in Nat /\ Troubles' \in Nat
    /\ Deletions <= Deletions' /\ Failures <= Failures' /\ Troubles <= Troubles'
    /\ Deletions <= Troubles

\* The sums grow with the counters.
LEMMA CountsGrow ==
    ASSUME TypeOK, TypeOK', \A k \in OutsideEvents : spent[k] <= spent'[k]
    PROVE  Grows
  <1>1. \A k \in OutsideEvents : spent[k] \in Nat /\ spent'[k] \in Nat
    BY DEF TypeOK
  <1>2. {"delete", "error", "fault"} \subseteq OutsideEvents
    BY DEF OutsideEvents
  <1> QED
    BY <1>1, <1>2 DEF Grows, Deletions, Failures, Troubles

\* A counted event is counted in the sums it belongs to.
LEMMA SpendGrows ==
    ASSUME TypeOK, TypeOK', NEW k \in OutsideEvents, Spend(k)
    PROVE  /\ Grows
           /\ k \in {"delete", "error", "fault"} => Troubles + 1 <= Troubles'
           /\ k = "fault" => Failures + 1 <= Failures'
  <1>1. Grows
    BY SpendCounts, CountsGrow
  <1>2. \A j \in OutsideEvents : spent[j] \in Nat /\ spent'[j] \in Nat
    BY DEF TypeOK
  <1>3. {"delete", "error", "fault"} \subseteq OutsideEvents
    BY DEF OutsideEvents
  <1>4. /\ spent'[k] = spent[k] + 1
        /\ \A j \in OutsideEvents : spent[j] <= spent'[j]
    BY SpendCounts
  <1>5. k \in {"delete", "error", "fault"} => Troubles + 1 <= Troubles'
    BY <1>2, <1>3, <1>4 DEF Troubles
  <1>6. k = "fault" => Failures + 1 <= Failures'
    BY <1>2, <1>3, <1>4 DEF Failures
  <1> QED
    BY <1>1, <1>5, <1>6
-----------------------------------------------------------------------------
(***************************************************************************)
(* Every version in a replica's reach parses if the local file does.       *)
(***************************************************************************)
LEMMA AnswerableWorld ==
    ASSUME TypeOK, LocalParses, NEW r \in Replicas, Answerable(r),
           World(r), cm'[r] = cm[r]
    PROVE  Answerable(r)'
  <1>1. clusterWatch[r] \in Watches /\ Pending(r) \in Seq(Events)
    BY TypeParts DEF Watches, Pending
  <1>2. Parses(Contents(NoConfigMap))
    BY DEF Parses, Contents, EmptyRegistry
  <1>3. ASSUME NEW event \in Events, Arrives(r, event),
               Parses(Contents(event.object))
        PROVE  \A i \in 1 .. Len(Pending(r)') :
                  Parses(Contents(Pending(r)'[i].object))
    <2>1. Pending(r)' \in {Pending(r), Append(Pending(r), event)}
      BY <1>3 DEF Arrives, Pending
    <2>2. /\ Len(Append(Pending(r), event)) = Len(Pending(r)) + 1
          /\ \A i \in 1 .. Len(Pending(r)) :
               Append(Pending(r), event)[i] = Pending(r)[i]
          /\ Append(Pending(r), event)[Len(Pending(r)) + 1] = event
          /\ Len(Pending(r)) \in Nat
      BY <1>1, AppendProperties, LenProperties
    <2>3. \A i \in 1 .. Len(Append(Pending(r), event)) :
             Parses(Contents(Append(Pending(r), event)[i].object))
      BY <1>3, <2>2 DEF Answerable
    <2> QED
      BY <2>1, <2>3 DEF Answerable
  <1>4. CASE Still(r)
    BY <1>4 DEF Still, api, Answerable, Pending
  <1>5. CASE Stored(r)
    <2>1. PICK type \in {"ADDED", "MODIFIED"}, object \in ConfigMaps :
            /\ LocalParses /\ Parses(Contents(configMap)) =>
                   Parses(object.binaryData)
            /\ configMap' = object
            /\ Arrives(r, [type |-> type, object |-> object])
      BY <1>5 DEF Stored
    <2>2. [type |-> type, object |-> object] \in Events
      BY DEF Events
    <2>3. Parses(Contents(object))
      BY <2>1, NoConfigMapAssumption DEF Answerable, Contents
    <2>4. \A i \in 1 .. Len(Pending(r)') :
            Parses(Contents(Pending(r)'[i].object))
      BY <1>3, <2>1, <2>2, <2>3
    <2> QED
      BY <2>1, <2>3, <2>4 DEF Answerable
  <1>6. CASE Deleted(r)
    <2>1. [type |-> "DELETED", object |-> NoConfigMap] \in Events
      BY DEF Events
    <2>2. \A i \in 1 .. Len(Pending(r)') :
            Parses(Contents(Pending(r)'[i].object))
      BY <1>2, <1>3, <1>6, <2>1 DEF Deleted
    <2> QED
      BY <1>2, <1>6, <2>2 DEF Deleted, Answerable
  <1> QED
    BY <1>4, <1>5, <1>6 DEF World

\* Every step keeps the versions in a replica's reach parseable.
LEMMA AnswerableStep ==
    ASSUME TypeOK, LocalParses, [Next]_vars, NEW r \in Replicas, Answerable(r)
    PROVE  Answerable(r)'
  <1>1. clusterWatch[r] \in Watches /\ Pending(r) \in Seq(Events)
    BY TypeParts DEF Watches, Pending
  <1>2. Parses(Contents(NoConfigMap))
    BY DEF Parses, Contents, EmptyRegistry
  <1>3. CASE World(r) /\ Held(r)
    BY <1>3, AnswerableWorld DEF Held
  <1>4. CASE Thinks(r)
    BY <1>4 DEF Thinks, api, Answerable, Pending
  <1>5. CASE Exited(r)
    BY <1>2, <1>5 DEF Exited, NoWatch, api, Answerable, Pending
  <1>6. CASE Failed(r)
    BY <1>6 DEF Failed, api, Answerable, Pending
  <1>7. CASE CreateConfigMap(r)
    BY <1>5, <1>6, <1>7, CreateView, AnswerableWorld
  <1>8. CASE ApiFault(r) \/ Kill(r)
    BY <1>5, <1>6, <1>8, ApiErrorView, ExitView DEF ApiFault, Kill
  <1>9. CASE Watch(r)
    <2>1. /\ Pending(r)' = NewWatch(r).events
          /\ UNCHANGED <<configMap, cm>>
      BY <1>9 DEF Watch, TypeOK, Pending, api
    <2>2. NewWatch(r).events \in
            {<<>>, <<[type |-> "ADDED", object |-> configMap]>>}
      BY DEF NewWatch
    <2>3. \A i \in 1 .. Len(Pending(r)') : Pending(r)'[i].object = configMap
      BY <2>1, <2>2
    <2> QED
      BY <2>1, <2>3 DEF Answerable
  <1>10. CASE CloseWatch(r)
    <2>1. PICK n \in 0 .. Len(Pending(r)) :
            Pending(r)' = SubSeq(Pending(r), 1, n)
      BY <1>10 DEF CloseWatch, TypeOK, Pending
    <2>2. /\ Len(SubSeq(Pending(r), 1, n)) = n /\ n <= Len(Pending(r))
          /\ \A i \in 1 .. n : SubSeq(Pending(r), 1, n)[i] = Pending(r)[i]
          /\ n \in Nat /\ Len(Pending(r)) \in Nat
      BY <1>1, LenProperties
    <2>3. UNCHANGED <<configMap, cm>>
      BY <1>10 DEF CloseWatch, api
    <2> QED
      BY <2>1, <2>2, <2>3 DEF Answerable
  <1>11. CASE FailWatch(r)
    <2> DEFINE event == [type |-> "ERROR", object |-> NoConfigMap]
    <2>1. Pending(r)' = Append(Pending(r), event) /\ UNCHANGED <<configMap, cm>>
      BY <1>11 DEF FailWatch, TypeOK, Pending, api
    <2>2. event \in Events
      BY DEF Events
    <2>3. /\ Len(Append(Pending(r), event)) = Len(Pending(r)) + 1
          /\ \A i \in 1 .. Len(Pending(r)) :
               Append(Pending(r), event)[i] = Pending(r)[i]
          /\ Append(Pending(r), event)[Len(Pending(r)) + 1].object = NoConfigMap
          /\ Len(Pending(r)) \in Nat
      BY <1>1, <2>2, AppendProperties, LenProperties
    <2> QED
      BY <1>2, <2>1, <2>3 DEF Answerable
  <1>12. CASE ReceiveEvent(r)
    <2>1. /\ Pending(r) # <<>> /\ Pending(r)' = Tail(Pending(r))
          /\ cm'[r] \in {cm[r], Head(Pending(r)).object}
          /\ configMap' = configMap
      BY <1>12 DEF ReceiveEvent, TypeOK, Pending, api
    <2>2. /\ Len(Pending(r)) \in Nat /\ Len(Pending(r)) > 0
          /\ Head(Pending(r)) = Pending(r)[1]
          /\ Len(Tail(Pending(r))) = Len(Pending(r)) - 1
          /\ \A i \in 1 .. Len(Tail(Pending(r))) :
               Tail(Pending(r))[i] = Pending(r)[i + 1]
      BY <1>1, <2>1, HeadTailProperties, LenProperties
    <2>3. /\ Parses(Contents(Head(Pending(r)).object))
          /\ \A i \in 1 .. Len(Tail(Pending(r))) :
               Parses(Contents(Tail(Pending(r))[i].object))
      BY <2>2 DEF Answerable
    <2> QED
      BY <2>1, <2>3 DEF Answerable
  <1>13. CASE StoreId(r)
    BY <1>13 DEF StoreId, api, Answerable, Pending
  <1> QED
    BY <1>3, <1>4, <1>7, <1>8, <1>9, <1>10, <1>11, <1>12, <1>13, Views,
       ThinksCases
    DEF Own, Step
-----------------------------------------------------------------------------
(***************************************************************************)
(* A watcher stops only after the troubles that Counted says.              *)
(***************************************************************************)
\* A step after which r has no more troubles than before.
LEMMA NoNewTrouble ==
    ASSUME NEW r \in Replicas, Counted(r), Grows,
           OneTrouble(r)' => OneTrouble(r),
           ManyTroubles(r)' => ManyTroubles(r),
           Missed(r)' => Missed(r),
           phase'[r] # "returned" \/ phase[r] = "returned"
    PROVE  Counted(r)'
  BY DEF Counted, Grows

\* A step that is a trouble.
LEMMA NewTrouble ==
    ASSUME NEW r \in Replicas, Counted(r), Grows, Troubles + 1 <= Troubles',
           ManyTroubles(r)' => OneTrouble(r) \/ Missed(r),
           Missed(r)' => Missed(r) \/ Deletions' >= 1,
           phase'[r] = "returned" => phase[r] = "returned" \/ Failures' >= 1
    PROVE  Counted(r)'
  BY DEF Counted, Grows

\* What the world does brings as much trouble as it counts.
LEMMA CountedWorld ==
    ASSUME TypeOK, TypeOK', NEW r \in Replicas, Counted(r), World(r), Held(r)
    PROVE  Counted(r)'
  <1>1. clusterWatch[r] \in Watches /\ Pending(r) \in Seq(Events) /\ Grows
    BY TypeParts, CountsGrow DEF Watches, Pending, World
  <1>2. clusterWatch[r] = NoWatch => clusterWatch'[r] = NoWatch
    <2>1. clusterWatch[r] = NoWatch => ~clusterWatch[r].open
      BY DEF NoWatch
    <2> QED
      BY <2>1 DEF World, Still, Stored, Deleted, Arrives
  <1>3. CASE Still(r)
    BY <1>1, <1>3, NoNewTrouble
    DEF Still, api, Held, OneTrouble, ManyTroubles, Missed, InHand, Pending
  <1>4. InHand(r)' => InHand(r)
    BY <1>2 DEF Held, InHand
  <1>5. CASE Stored(r)
    <2>1. PICK type \in {"ADDED", "MODIFIED"}, object \in ConfigMaps :
            configMap' = object /\ Arrives(r, [type |-> type, object |-> object])
      BY <1>5 DEF Stored
    <2> DEFINE event == [type |-> type, object |-> object]
    <2>2. event \in Events /\ ~IsTrouble(event)
      BY DEF Events, IsTrouble
    <2>3. Pending(r)' \in {Pending(r), Append(Pending(r), event)}
      BY <2>1 DEF Arrives, Pending
    <2>4. /\ SomeTrouble(Pending(r)') => SomeTrouble(Pending(r))
          /\ TwoTroubles(Pending(r)') => TwoTroubles(Pending(r))
      BY <1>1, <2>2, <2>3, TroubleAppend
    <2>5. configMap' # NoConfigMap
      BY <2>1, NoConfigMapAssumption
    <2> QED
      BY <1>1, <1>4, <2>4, <2>5, NoNewTrouble
      DEF Held, OneTrouble, ManyTroubles, Missed
  <1>6. CASE Deleted(r)
    <2> DEFINE event == [type |-> "DELETED", object |-> NoConfigMap]
    <2>1. event \in Events
      BY DEF Events
    <2>2. Pending(r)' \in {Pending(r), Append(Pending(r), event)}
      BY <1>6 DEF Deleted, Arrives, Pending
    <2>3. TwoTroubles(Pending(r)') => SomeTrouble(Pending(r))
      BY <1>1, <2>1, <2>2, TroubleAppend
    <2>4. Troubles + 1 <= Troubles' /\ Deletions' >= 1
      <3>1. \A k \in {"delete", "error", "fault"} :
              spent[k] \in Nat /\ spent'[k] \in Nat /\ spent[k] <= spent'[k]
        BY DEF World, TypeOK, OutsideEvents
      <3> QED
        BY <1>6, <3>1 DEF Deleted, Troubles, Deletions
    <2>5. ManyTroubles(r)' => OneTrouble(r) \/ ManyTroubles(r)
      BY <1>4, <2>3 DEF Held, OneTrouble, ManyTroubles
    <2>6. phase'[r] = phase[r]
      BY DEF Held
    <2> QED
      BY <1>1, <2>4, <2>5, <2>6 DEF Counted, Grows
  <1> QED
    BY <1>3, <1>5, <1>6 DEF World

\* Found settles what is in hand, and leaves a token where watchcm built the
\* ConfigMap again.
LEMMA CountedFound ==
    ASSUME NEW r \in Replicas, Counted(r), Grows, FoundBy(r),
           configMap' # NoConfigMap,
           SomeTrouble(Pending(r)') => SomeTrouble(Pending(r)),
           TwoTroubles(Pending(r)') => TwoTroubles(Pending(r)),
           clusterWatch'[r] # NoWatch => clusterWatch[r] # NoWatch
    PROVE  Counted(r)'
  <1>1. CASE phase[r] \in Booting
    <2>1. phase'[r] = "bootWatch" /\ retryNew'[r] = retryNew[r]
      BY <1>1 DEF FoundBy, Booting, Rebuilding, Renewing
    <2> QED
      BY <2>1, NoNewTrouble
      DEF OneTrouble, ManyTroubles, Missed, InHand, Rebuilding, Renewing
  <1>2. CASE phase[r] \in Rebuilding
    <2>1. phase'[r] \in {"select", "blocked"} /\ retryNew'[r]
          /\ (phase'[r] = "blocked" => retryNew[r])
      BY <1>2 DEF FoundBy, Booting, Rebuilding, Renewing
    <2>2. OneTrouble(r)
      BY <1>2 DEF OneTrouble, InHand
    <2>3. ManyTroubles(r)' => ManyTroubles(r)
      BY <1>2, <2>1 DEF ManyTroubles, InHand, Rebuilding, Renewing
    <2>4. ~Missed(r)' /\ phase'[r] # "returned"
      BY <2>1 DEF Missed
    <2> QED
      BY <2>2, <2>3, <2>4, NoNewTrouble
  <1>3. CASE phase[r] \in Renewing
    <2>1. phase'[r] = "renewWatch" /\ retryNew'[r] = retryNew[r]
      BY <1>3 DEF FoundBy, Booting, Rebuilding, Renewing
    <2> QED
      BY <1>3, <2>1, NoNewTrouble
      DEF OneTrouble, ManyTroubles, Missed, InHand, Rebuilding
  <1> QED
    BY <1>1, <1>2, <1>3 DEF FoundBy

\* newClustersAndWatch fails by a fault, or because a ConfigMap that was
\* deleted has been created by another.
LEMMA CountedFailed ==
    ASSUME TypeOK, TypeOK', NEW r \in Replicas, Counted(r), Failed(r),
           \/ Spend("fault")
           \/ UNCHANGED spent /\ configMap # NoConfigMap /\ phase[r] = "renewCreate"
    PROVE  Counted(r)'
  <1>1. /\ phase[r] \in Renewing /\ retryNew'[r]
        /\ phase'[r] = IF retryNew[r] THEN "blocked" ELSE "returned"
        /\ clusterWatch' = clusterWatch /\ configMap' = configMap
        /\ Pending(r)' = Pending(r)
    BY DEF Failed, api, Pending
  <1>2. clusterWatch[r] \in Watches /\ Pending(r) \in Seq(Events)
    BY TypeParts DEF Watches, Pending
  <1>3. /\ TwoTroubles(Pending(r)) => SomeTrouble(Pending(r))
        /\ SomeTrouble(Pending(r)) => clusterWatch[r] # NoWatch
    BY <1>2, NoTroubleYet DEF SomeTrouble, TwoTroubles, NoWatch, Pending
  <1>4. ~InHand(r)' /\ phase'[r] \notin Rebuilding \cup {"renewCreate"}
    BY <1>1 DEF InHand, Rebuilding, Renewing
  <1>5. CASE Spend("fault")
    <2>1. Grows /\ Troubles + 1 <= Troubles' /\ Failures + 1 <= Failures'
      BY <1>5, SpendGrows DEF OutsideEvents
    <2>2. ManyTroubles(r)' => OneTrouble(r) \/ Missed(r)
      BY <1>1, <1>3, <1>4 DEF ManyTroubles, OneTrouble, Missed, Renewing
    <2>3. Missed(r)' => Missed(r)
      BY <1>1 DEF Missed, Renewing
    <2>4. Failures' >= 1
      BY <2>1 DEF Grows
    <2> QED
      BY <2>1, <2>2, <2>3, <2>4, NewTrouble
  <1>6. CASE UNCHANGED spent /\ configMap # NoConfigMap /\ phase[r] = "renewCreate"
    <2>1. Grows
      BY <1>6, UnspentCounts, CountsGrow
    <2>2. Deletions >= 1 /\ Failures >= 1
      <3>1. Deletions >= 1
        BY <1>6 DEF Counted, Missed
      <3>2. spent["fault"] \in Nat /\ spent["delete"] \in Nat
        BY DEF TypeOK, OutsideEvents
      <3> QED
        BY <3>1, <3>2 DEF Deletions, Failures
    <2>3. ManyTroubles(r)' => ManyTroubles(r)
      BY <1>1, <1>3, <1>4, <1>6 DEF ManyTroubles, InHand, Renewing
    <2> QED
      BY <2>1, <2>2, <2>3 DEF Counted, Grows
  <1> QED
    BY <1>5, <1>6

\* Every step keeps the account of what has stopped, or may stop, a watcher.
LEMMA CountedStep ==
    ASSUME TypeOK, TypeOK', LocalParses, [Next]_vars, NEW r \in Replicas,
           Counted(r), Answerable(r), DeadRetry(r), Snapshot(r)
    PROVE  Counted(r)'
  <1>1. /\ clusterWatch[r] \in Watches /\ Pending(r) \in Seq(Events)
        /\ (TwoTroubles(Pending(r)) => SomeTrouble(Pending(r)))
    BY TypeParts DEF Watches, Pending, SomeTrouble, TwoTroubles
  <1>2. UNCHANGED spent => Grows
    BY UnspentCounts, CountsGrow
  <1>3. CASE World(r) /\ Held(r)
    BY <1>3, CountedWorld
  <1>4. CASE Exited(r) /\ Grows
    <2>1. Pending(r)' = <<>>
      BY <1>4 DEF Exited, NoWatch, Pending
    <2>2. ~OneTrouble(r)' /\ ~ManyTroubles(r)' /\ ~Missed(r)'
      BY <1>4, <2>1, NoTroubleYet
      DEF Exited, OneTrouble, ManyTroubles, Missed, InHand, Rebuilding, Renewing
    <2> QED
      BY <1>4, <2>2, NoNewTrouble DEF Exited
  <1>5. CASE GetConfigMap(r)
    <2>1. /\ Pending(r)' = Pending(r) /\ clusterWatch'[r] = clusterWatch[r]
          /\ configMap' = configMap /\ Grows
      BY <1>2, <1>5 DEF GetConfigMap, api, Pending
    <2>2. CASE configMap # NoConfigMap /\ FoundBy(r)
      BY <2>1, <2>2, CountedFound
    <2>3. CASE /\ configMap = NoConfigMap /\ retryNew'[r] = retryNew[r]
               /\ \/ phase[r] = "bootGet" /\ phase'[r] = "bootCreate"
                  \/ phase[r] = "rebuildGet" /\ phase'[r] = "rebuildCreate"
                  \/ phase[r] = "renewGet" /\ phase'[r] = "renewCreate"
      BY <2>1, <2>3, NoNewTrouble
      DEF OneTrouble, ManyTroubles, Missed, InHand, Rebuilding, Renewing
    <2> QED
      BY <1>5, <2>2, <2>3, GetView
  <1>6. CASE CreateConfigMap(r)
    <2>1. CASE /\ configMap' # NoConfigMap /\ Stored(r) /\ Found(r)
               /\ UNCHANGED spent
      <3>1. PICK type \in {"ADDED", "MODIFIED"}, object \in ConfigMaps :
              Arrives(r, [type |-> type, object |-> object])
        BY <2>1 DEF Stored
      <3> DEFINE event == [type |-> type, object |-> object]
      <3>2. event \in Events /\ ~IsTrouble(event)
        BY DEF Events, IsTrouble
      <3>3. Pending(r)' \in {Pending(r), Append(Pending(r), event)}
        BY <3>1 DEF Arrives, Pending
      <3>4. /\ SomeTrouble(Pending(r)') => SomeTrouble(Pending(r))
            /\ TwoTroubles(Pending(r)') => TwoTroubles(Pending(r))
        BY <1>1, <3>2, <3>3, TroubleAppend
      <3>5. clusterWatch'[r] # NoWatch => clusterWatch[r] # NoWatch
        <4>1. clusterWatch[r] = NoWatch => ~clusterWatch[r].open
          BY DEF NoWatch
        <4> QED
          BY <3>1, <4>1 DEF Arrives
      <3> QED
        BY <1>2, <2>1, <3>4, <3>5, FoundView, CountedFound
    <2> QED
      BY <1>2, <1>4, <1>6, <2>1, CreateView, CountedFailed
  <1>7. CASE ApiFault(r) \/ Kill(r)
    <2>1. Grows
      BY <1>7, SpendGrows DEF ApiFault, Kill, OutsideEvents
    <2> QED
      BY <1>4, <1>7, <2>1, ApiErrorView, ExitView, CountedFailed
      DEF ApiFault, Kill
  <1>8. CASE Watch(r)
    <2>1. /\ phase[r] \in {"bootWatch", "renewWatch"} /\ phase'[r] = "select"
          /\ retryNew'[r] = retryNew[r] /\ configMap' = configMap /\ Grows
          /\ Pending(r)' = NewWatch(r).events
      BY <1>2, <1>8 DEF Watch, Goto, TypeOK, channels, api, Pending
    <2>2. NewWatch(r).events \in
            {<<>>, <<[type |-> "ADDED", object |-> configMap]>>}
      BY DEF NewWatch
    <2>3. ~SomeTrouble(Pending(r)') /\ ~TwoTroubles(Pending(r)')
      BY <2>1, <2>2, NoTroubleYet
    <2> QED
      BY <2>1, <2>3, NoNewTrouble
      DEF OneTrouble, ManyTroubles, Missed, InHand, Rebuilding, Renewing
  <1>9. CASE CloseWatch(r)
    <2>1. PICK n \in 0 .. Len(Pending(r)) :
            Pending(r)' = SubSeq(Pending(r), 1, n)
      BY <1>9 DEF CloseWatch, TypeOK, Pending
    <2>2. /\ SomeTrouble(Pending(r)') => SomeTrouble(Pending(r))
          /\ TwoTroubles(Pending(r)') => TwoTroubles(Pending(r))
      BY <1>1, <2>1, TroubleCut
    <2>3. /\ phase' = phase /\ retryNew' = retryNew /\ configMap' = configMap
          /\ clusterWatch[r] # NoWatch /\ Grows
      BY <1>9, SpendGrows
      DEF CloseWatch, channels, api, NoWatch, OutsideEvents
    <2> QED
      BY <2>2, <2>3, NoNewTrouble
      DEF OneTrouble, ManyTroubles, Missed, InHand
  <1>10. CASE FailWatch(r)
    <2> DEFINE event == [type |-> "ERROR", object |-> NoConfigMap]
    <2>1. Pending(r)' = Append(Pending(r), event) /\ event \in Events
      BY <1>10 DEF FailWatch, TypeOK, Pending, Events
    <2>2. TwoTroubles(Pending(r)') => SomeTrouble(Pending(r))
      BY <1>1, <2>1, TroubleAppend
    <2>3. /\ phase' = phase /\ retryNew' = retryNew /\ configMap' = configMap
          /\ clusterWatch[r] # NoWatch
      BY <1>10 DEF FailWatch, channels, api, NoWatch
    <2>4. Grows /\ Troubles + 1 <= Troubles'
      BY <1>10, SpendGrows DEF FailWatch, OutsideEvents
    <2>5. ManyTroubles(r)' => OneTrouble(r) \/ ManyTroubles(r)
      BY <2>2, <2>3 DEF OneTrouble, ManyTroubles, InHand
    <2>6. Missed(r)' => Missed(r)
      BY <2>3 DEF Missed
    <2> QED
      BY <2>3, <2>4, <2>5, <2>6 DEF Counted, Grows
  <1>11. CASE ReceiveEvent(r)
    <2> DEFINE event == Head(Pending(r))
    <2>1. /\ phase[r] = "select" /\ Pending(r) # <<>>
          /\ Pending(r)' = Tail(Pending(r))
          /\ retryNew'[r] = retryNew[r] /\ configMap' = configMap /\ Grows
      BY <1>2, <1>11 DEF ReceiveEvent, TypeOK, Pending, channels, api
    <2>2. /\ phase'[r] \in {"rebuildGet", "sync"}
          /\ phase'[r] = "rebuildGet" => IsTrouble(event)
      BY <1>11 DEF ReceiveEvent, Goto, TypeOK, Pending, IsTrouble
    <2>3. /\ SomeTrouble(Pending(r)') => SomeTrouble(Pending(r))
          /\ TwoTroubles(Pending(r)') => TwoTroubles(Pending(r))
          /\ IsTrouble(event) => SomeTrouble(Pending(r))
          /\ IsTrouble(event) /\ SomeTrouble(Pending(r)') =>
               TwoTroubles(Pending(r))
      BY <1>1, <2>1, TroubleTail
    <2>4. OneTrouble(r)' => OneTrouble(r)
      BY <2>1, <2>2, <2>3 DEF OneTrouble, InHand, Rebuilding, Renewing
    <2>5. ManyTroubles(r)' => ManyTroubles(r)
      BY <2>1, <2>2, <2>3 DEF ManyTroubles, InHand, Rebuilding, Renewing
    <2>6. (Missed(r)' => Missed(r)) /\ phase'[r] # "returned"
      BY <2>1, <2>2 DEF Missed
    <2> QED
      BY <2>1, <2>4, <2>5, <2>6, NoNewTrouble
  <1>12. CASE ReceiveClosed(r)
    <2>1. /\ phase[r] = "select" /\ phase'[r] = "renewGet"
          /\ retryNew' = retryNew /\ configMap' = configMap /\ Grows
          /\ clusterWatch' = clusterWatch /\ Pending(r)' = Pending(r)
      BY <1>2, <1>12 DEF ReceiveClosed, Goto, TypeOK, Pending, channels, api
    <2>2. clusterWatch[r] = NoWatch
      <3>1. /\ clusterWatch[r].open = FALSE /\ clusterWatch[r].events = <<>>
        BY <1>1, <1>12 DEF ReceiveClosed, Watches
      <3> QED
        BY <1>1, <3>1 DEF Watches, NoWatch
    <2> QED
      BY <2>1, <2>2, NoNewTrouble
      DEF OneTrouble, ManyTroubles, Missed, InHand, Rebuilding, Renewing
  <1>13. CASE ReceiveRetryNew(r)
    <2>1. /\ phase[r] = "select" /\ phase'[r] = "renewGet"
          /\ retryNew[r] /\ ~retryNew'[r] /\ configMap' = configMap /\ Grows
          /\ clusterWatch' = clusterWatch /\ Pending(r)' = Pending(r)
      BY <1>2, <1>13 DEF ReceiveRetryNew, Goto, TypeOK, Pending, api
    <2> QED
      BY <2>1, NoNewTrouble
      DEF OneTrouble, ManyTroubles, Missed, InHand, Rebuilding, Renewing
  <1>14. CASE SyncFault(r)
    <2>1. Spend("fault")
      BY <1>14, SyncCanSucceed DEF SyncFault, Answerable
    <2>2. Grows /\ Troubles + 1 <= Troubles' /\ Failures + 1 <= Failures'
      BY <2>1, SpendGrows DEF OutsideEvents
    <2>3. /\ phase[r] = "sync" /\ phase'[r] \in {"returned", "blocked"}
          /\ phase'[r] = "blocked" => retryNew[r]
          /\ configMap' = configMap /\ Pending(r)' = Pending(r)
      BY <1>14, SyncFaultView DEF SyncFault, DeadRetry, Pending, api
    <2>4. ManyTroubles(r)' => OneTrouble(r) \/ Missed(r)
      BY <1>1, <2>3
      DEF ManyTroubles, OneTrouble, Missed, InHand, Rebuilding, Renewing
    <2>5. (Missed(r)' => Missed(r)) /\ Failures' >= 1
      BY <2>2, <2>3 DEF Missed, Grows
    <2> QED
      BY <2>2, <2>4, <2>5, NewTrouble
  <1>15. CASE \/ ProbeClusters(r) \/ ClearCode(r) \/ ClearId(r)
              \/ StoreCode(r) \/ StoreId(r)
    <2>1. /\ phase[r] \in Swapping \cup {"sync"}
          /\ phase'[r] \in Swapping \cup {"select"}
      BY <1>15
      DEF ProbeClusters, ClearCode, ClearId, StoreCode, StoreId, Goto, TypeOK,
          Swapping
    <2>2. /\ retryNew' = retryNew /\ configMap' = configMap /\ Grows
          /\ Pending(r)' = Pending(r)
      BY <1>2, <1>15
      DEF ProbeClusters, ClearCode, ClearId, StoreCode, StoreId, Pending,
          channels, api
    <2> QED
      BY <2>1, <2>2, NoNewTrouble
      DEF OneTrouble, ManyTroubles, Missed, InHand, Swapping, Rebuilding, Renewing
  <1>16. CASE Restart(r)
    <2>1. /\ phase[r] = "exited" /\ phase'[r] = "bootGet"
          /\ retryNew' = retryNew /\ Pending(r)' = Pending(r) /\ Grows
          /\ configMap' = configMap
      BY <1>2, <1>16 DEF Restart, Goto, TypeOK, Pending, channels, api
    <2> QED
      BY <2>1, NoNewTrouble
      DEF OneTrouble, ManyTroubles, Missed, InHand, Rebuilding, Renewing
  <1> QED
    BY <1>3, <1>5, <1>6, <1>7, <1>8, <1>9, <1>10, <1>11, <1>12, <1>13, <1>14,
       <1>15, <1>16, Views
    DEF Own, Step

\* The invariant of the replicas' troubles.
StopsInv == \A r \in Replicas : Counted(r) /\ Answerable(r)

\* The account is right in the initial states.
LEMMA InitStopsInv == LocalParses /\ Init => StopsInv
  <1> SUFFICES ASSUME LocalParses, Init, NEW r \in Replicas
               PROVE  Counted(r) /\ Answerable(r)
    BY DEF StopsInv
  <1>1. /\ Pending(r) = <<>> /\ clusterWatch[r] = NoWatch
        /\ cm[r] = NoConfigMap /\ phase[r] = "bootGet" /\ ~retryNew[r]
    BY DEF Init, Pending, NoWatch
  <1>2. Counted(r)
    BY <1>1, NoTroubleYet
    DEF Counted, OneTrouble, ManyTroubles, Missed, InHand, Rebuilding, Renewing
  <1>3. /\ Parses(Contents(NoConfigMap))
        /\ Parses(Contents([resourceVersion |-> 1, binaryData |-> LocalInfos]))
    <2>1. [resourceVersion |-> 1, binaryData |-> LocalInfos] # NoConfigMap
      BY LocalInfosAssumption, NoConfigMapAssumption DEF ConfigMaps
    <2> QED
      BY <2>1 DEF Parses, LocalParses, Contents, EmptyRegistry
  <1>4. Answerable(r)
    BY <1>1, <1>3 DEF Init, Answerable
  <1> QED
    BY <1>2, <1>4

\* Every step keeps it.
LEMMA NextStopsInv ==
    LocalParses /\ IInv /\ StopsInv /\ [Next]_vars => StopsInv'
  <1> SUFFICES ASSUME LocalParses, IInv, StopsInv, [Next]_vars,
                      NEW r \in Replicas
               PROVE  (Counted(r) /\ Answerable(r))'
    BY DEF StopsInv
  <1>1. /\ TypeOK /\ TypeOK' /\ DeadRetry(r) /\ Snapshot(r)
        /\ Counted(r) /\ Answerable(r)
    BY NextTypeOK DEF IInv, StopsInv
  <1> QED
    BY <1>1, AnswerableStep, CountedStep

\* One trouble never blocks the watcher; it returns only after a call that
\* failed or a deletion. The kubeconfigs of the local file must parse: with
\* one that does not, no synchronisation ever succeeds.
THEOREM StopsExplained ==
    ASSUME LocalParses
    PROVE  Spec => []StopsAreExplained
  <1>1. Init => StopsInv
    BY InitStopsInv
  <1>2. IInv /\ StopsInv /\ [Next]_vars => StopsInv'
    BY NextStopsInv
  <1>3. TypeOK /\ StopsInv => StopsAreExplained
    <2> SUFFICES ASSUME TypeOK, StopsInv, NEW r \in Replicas
                 PROVE  /\ phase[r] = "blocked" =>
                           spent["delete"] + spent["error"] + spent["fault"] > 1
                        /\ phase[r] = "returned" =>
                             spent["fault"] + spent["delete"] > 0
      BY DEF StopsAreExplained
    <2>1. \A k \in {"delete", "error", "fault"} : spent[k] \in Nat
      BY DEF TypeOK, OutsideEvents
    <2> QED
      BY <2>1 DEF StopsInv, Counted, ManyTroubles, Troubles, Failures
  <1>4. IInv => TypeOK
    BY DEF IInv
  <1> QED
    BY <1>1, <1>2, <1>3, <1>4, Invariance, PTL DEF Spec
=============================================================================
