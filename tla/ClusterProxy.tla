---------------------------- MODULE ClusterProxy ----------------------------
(***************************************************************************)
(* The client cache of every hcnmp replica (pkg/zone/proxy): two sync.Maps *)
(* of cluster clients that one goroutine, watchConfig, keeps in step with  *)
(* the ConfigMap by watching it.                                           *)
(*                                                                         *)
(* Each call to the API server is one step.  So is each Delete and Store   *)
(* on codeClusterClient, whose readers (every business handler) run        *)
(* between them.  idClusterClient has no reader in the program, so each of *)
(* its two loops is one step.  The mutex of syncCodeClusterClient is local *)
(* to the call and excludes nobody.                                        *)
(*                                                                         *)
(* The registry moves by the writes AtomicRegistry allows, which is what   *)
(* ClusterRegistry implements.  A client is named by its kubeconfig.       *)
(*                                                                         *)
(* A definition marked "fault:" is a mutated form of the next one, kept to *)
(* show that a property can fail; no specification uses it.                *)
(***************************************************************************)
EXTENDS RegistryData, Sequences

CONSTANTS
    Replicas,   \* the hcnmp pods
    Budget      \* bound: how often each kind of outside event may happen

OutsideEvents == {"write", "delete", "close", "error", "fault", "kill"}

ASSUME BudgetAssumption == Budget \in [OutsideEvents -> Nat]

VARIABLES
    configMap,   \* the ConfigMap in the API server, or NoConfigMap
    revision,    \* the API server's latest revision
    phase,       \* phase[r]: where InitProxy or watchConfig of r is
    clusterWatch,\* clusterWatch[r]: is the watch open, its undelivered events
    retryNew,    \* retryNew[r], retrySync[r]: does the channel of capacity
    retrySync,   \* one hold a token
    cm,          \* cm[r]: the ConfigMap syncCodeClusterClient works on
    idtmp,       \* idtmp[r]: its clients by probed UID
    codeClusterClient,
    idClusterClient,
    served,      \* history: the ConfigMap whose clients r last installed
    spent        \* how often each outside event has happened

api == <<configMap, revision>>
channels == <<retryNew, retrySync>>
caches == <<codeClusterClient, idClusterClient, served>>
vars == <<configMap, revision, phase, clusterWatch, retryNew, retrySync,
          cm, idtmp, codeClusterClient, idClusterClient, served, spent>>

Booting    == {"bootGet", "bootCreate", "bootWatch"}       \* InitProxy
Rebuilding == {"rebuildGet", "rebuildCreate"}              \* watchcm
Renewing   == {"renewGet", "renewCreate", "renewWatch"}    \* newClustersAndWatch
Swapping   == {"clearCode", "clearId", "storeCode", "storeId"}
Phases == Booting \cup Rebuilding \cup Renewing \cup Swapping \cup
          {"select", "sync", "returned", "blocked", "exited"}

\* codetmp: the client of every code.
Clients(object) ==
    [c \in DOMAIN Contents(object) |-> Contents(object)[c].kubeconfig]

NoClients == [x \in {} |-> x]
NoWatch == [open |-> FALSE, events |-> <<>>]

Init ==
    /\ configMap \in {NoConfigMap,
                      [resourceVersion |-> 1, binaryData |-> LocalInfos]}
    /\ revision = 1
    /\ phase = [r \in Replicas |-> "bootGet"]
    /\ clusterWatch = [r \in Replicas |-> NoWatch]
    /\ retryNew = [r \in Replicas |-> FALSE]
    /\ retrySync = [r \in Replicas |-> FALSE]
    /\ cm = [r \in Replicas |-> NoConfigMap]
    /\ idtmp = [r \in Replicas |-> NoClients]
    /\ codeClusterClient = [r \in Replicas |-> NoClients]
    /\ idClusterClient = [r \in Replicas |-> NoClients]
    /\ served = [r \in Replicas |-> NoConfigMap]
    /\ spent = [k \in OutsideEvents |-> 0]

Spend(k) ==
    /\ spent[k] < Budget[k]
    /\ spent' = [spent EXCEPT ![k] = @ + 1]
-----------------------------------------------------------------------------
(***************************************************************************)
(* The API server.  A write reaches every open watch as an event.          *)
(***************************************************************************)
Broadcast(type, object) ==
    clusterWatch' = [r \in Replicas |->
        IF clusterWatch[r].open
        THEN [clusterWatch[r] EXCEPT
                 !.events = Append(@, [type |-> type, object |-> object])]
        ELSE clusterWatch[r]]

Store(type, data) ==
    LET object == [resourceVersion |-> revision + 1, binaryData |-> data]
    IN  /\ configMap' = object
        /\ revision' = revision + 1
        /\ Broadcast(type, object)

NewWatchOfNil(r) ==     \* fault: an absent object is delivered as an event
    [open |-> TRUE, events |-> <<[type |-> "ADDED", object |-> configMap]>>]
NewWatchFromNow(r) == [open |-> TRUE, events |-> <<>>]     \* fault: no first event
NewWatchAmongOld(r) ==     \* fault: the old watch goes on feeding the loop
    [open |-> TRUE,
     events |-> IF configMap = NoConfigMap
                THEN clusterWatch[r].events
                ELSE <<[type |-> "ADDED", object |-> configMap]>>
                       \o clusterWatch[r].events]

\* Watch without a resourceVersion begins with the object as it is now.
NewWatch(r) ==
    [open |-> TRUE,
     events |-> IF configMap = NoConfigMap
                THEN <<>>
                ELSE <<[type |-> "ADDED", object |-> configMap]>>]

\* An accepted Update of a handler: one entry deleted, added or replaced.
HandlerWrite ==
    /\ Spend("write")
    /\ configMap # NoConfigMap
    /\ LET data == configMap.binaryData
       IN  \/ \E c \in DOMAIN data : Store("MODIFIED", Drop(data, c))
           \/ \E c \in Codes, info \in ClusterInfo :
                /\ info.id \in Answers[info.kubeconfig]
                /\ ~UidTaken(Drop(data, c), info.id)
                /\ c \in DOMAIN data => data[c].kubeconfig # info.kubeconfig
                /\ Store("MODIFIED", Put(data, c, info))
    /\ UNCHANGED <<phase, channels, cm, idtmp, caches>>

HandlerCreate ==
    /\ Spend("write")
    /\ configMap = NoConfigMap
    /\ Store("ADDED", LocalInfos)
    /\ UNCHANGED <<phase, channels, cm, idtmp, caches>>

OperatorDelete ==
    /\ Spend("delete")
    /\ configMap # NoConfigMap
    /\ configMap' = NoConfigMap
    /\ revision' = revision + 1
    /\ Broadcast("DELETED", NoConfigMap)
    /\ UNCHANGED <<phase, channels, cm, idtmp, caches>>

\* The API server ends the watch, or the connection breaks; what was not yet
\* delivered may be lost.
CloseWatch(r) ==
    /\ Spend("close")
    /\ clusterWatch[r].open
    /\ \E n \in 0 .. Len(clusterWatch[r].events) :
         clusterWatch' = [clusterWatch EXCEPT ![r] =
             [open |-> FALSE, events |-> SubSeq(@.events, 1, n)]]
    /\ UNCHANGED <<api, phase, channels, cm, idtmp, caches>>

\* The watch fails: one last event, of type ERROR, and it is closed.
FailWatch(r) ==
    /\ Spend("error")
    /\ clusterWatch[r].open
    /\ clusterWatch' = [clusterWatch EXCEPT ![r] =
           [open |-> FALSE,
            events |-> Append(@.events,
                              [type |-> "ERROR", object |-> NoConfigMap])]]
    /\ UNCHANGED <<api, phase, channels, cm, idtmp, caches>>
-----------------------------------------------------------------------------
(***************************************************************************)
(* How the steps of a replica end.                                         *)
(***************************************************************************)
Goto(r, next) == phase' = [phase EXCEPT ![r] = next]

\* The process ends, and with it everything the replica remembers.
Exit(r) ==
    /\ Goto(r, "exited")
    /\ clusterWatch' = [clusterWatch EXCEPT ![r] = NoWatch]
    /\ retryNew' = [retryNew EXCEPT ![r] = FALSE]
    /\ retrySync' = [retrySync EXCEPT ![r] = FALSE]
    /\ cm' = [cm EXCEPT ![r] = NoConfigMap]
    /\ idtmp' = [idtmp EXCEPT ![r] = NoClients]
    /\ codeClusterClient' = [codeClusterClient EXCEPT ![r] = NoClients]
    /\ idClusterClient' = [idClusterClient EXCEPT ![r] = NoClients]
    /\ served' = [served EXCEPT ![r] = NoConfigMap]

SendRetryNewUnbuffered(r, next) ==     \* fault: a channel without capacity
    /\ Goto(r, "blocked")
    /\ UNCHANGED channels

\* retryNew <- struct{}{}: with a token already in the channel the goroutine
\* waits for a receiver, and the only receiver is itself.
SendRetryNew(r, next) ==
    /\ retryNew' = [retryNew EXCEPT ![r] = TRUE]
    /\ Goto(r, IF retryNew[r] THEN "blocked" ELSE next)
    /\ UNCHANGED retrySync

SendRetrySyncAndGoOn(r, next) ==     \* fault: no return after the send
    /\ retrySync' = [retrySync EXCEPT ![r] = TRUE]
    /\ Goto(r, "select")
    /\ UNCHANGED retryNew

\* retrySync <- struct{}{}
SendRetrySync(r, next) ==
    /\ retrySync' = [retrySync EXCEPT ![r] = TRUE]
    /\ Goto(r, IF retrySync[r] THEN "blocked" ELSE next)
    /\ UNCHANGED retryNew

\* The ConfigMap is there: watchcm and newClustersAndWatch go on.
Found(r) ==
    \/ phase[r] \in Booting /\ Goto(r, "bootWatch") /\ UNCHANGED channels
    \/ phase[r] \in Rebuilding /\ SendRetryNew(r, "select")
    \/ phase[r] \in Renewing /\ Goto(r, "renewWatch") /\ UNCHANGED channels

\* Their calls to the API server end in an error.  In watchcm the poll ends
\* with it and utilruntime.Must panics; InitProxy returns it to main; after
\* newClustersAndWatch the goroutine leaves a token and returns.
ApiError(r) ==
    \/ phase[r] \in Booting \cup Rebuilding /\ Exit(r)
    \/ /\ phase[r] \in Renewing
       /\ SendRetryNew(r, "returned")
       /\ UNCHANGED <<clusterWatch, cm, idtmp, caches>>
-----------------------------------------------------------------------------
(***************************************************************************)
(* InitProxy, watchcm, newClustersAndWatch.                                *)
(***************************************************************************)
CreatePhase == [bootGet    |-> "bootCreate",
                rebuildGet |-> "rebuildCreate",
                renewGet   |-> "renewCreate"]

GetConfigMap(r) ==
    /\ phase[r] \in DOMAIN CreatePhase
    /\ \/ configMap # NoConfigMap /\ Found(r)
       \/ /\ configMap = NoConfigMap
          /\ Goto(r, CreatePhase[phase[r]])
          /\ UNCHANGED channels
    /\ UNCHANGED <<api, clusterWatch, cm, idtmp, caches, spent>>

CreateConfigMapOver(r) ==     \* fault: writes over what another one created
    /\ phase[r] \in {"bootCreate", "rebuildCreate", "renewCreate"}
    /\ Store("ADDED", LocalInfos)
    /\ Found(r)
    /\ UNCHANGED <<cm, idtmp, caches, spent>>

\* Create fails with AlreadyExists when another replica, or a handler, was
\* faster.
CreateConfigMap(r) ==
    /\ phase[r] \in {"bootCreate", "rebuildCreate", "renewCreate"}
    /\ \/ /\ configMap = NoConfigMap
          /\ Store("ADDED", LocalInfos)
          /\ Found(r)
          /\ UNCHANGED <<cm, idtmp, caches>>
       \/ configMap # NoConfigMap /\ ApiError(r) /\ UNCHANGED api
    /\ UNCHANGED spent

\* The watch that clusterWatch held before is never stopped, but nothing
\* reads its events any more.
Watch(r) ==
    /\ phase[r] \in {"bootWatch", "renewWatch"}
    /\ clusterWatch' = [clusterWatch EXCEPT ![r] = NewWatch(r)]
    /\ Goto(r, "select")
    /\ UNCHANGED <<api, channels, cm, idtmp, caches, spent>>

ApiFault(r) ==
    /\ Spend("fault")
    /\ ApiError(r)
    /\ UNCHANGED api
-----------------------------------------------------------------------------
(***************************************************************************)
(* watchConfig: the select.  There is no action for its case <-retrySync:  *)
(* a token is put there only by a goroutine that then returns (RetryIsDead *)
(* below).                                                                 *)
(***************************************************************************)
ReceiveEvent(r) ==
    /\ phase[r] = "select"
    /\ clusterWatch[r].events # <<>>
    /\ LET event == Head(clusterWatch[r].events)
       IN  IF event.type \in {"DELETED", "ERROR"}
           THEN Goto(r, "rebuildGet") /\ UNCHANGED cm
           ELSE Goto(r, "sync") /\ cm' = [cm EXCEPT ![r] = event.object]
    /\ clusterWatch' = [clusterWatch EXCEPT ![r].events = Tail(@)]
    /\ UNCHANGED <<api, channels, idtmp, caches, spent>>

ReceiveClosedInVain(r) ==     \* fault: !ok is not treated
    /\ phase[r] = "select"
    /\ ~clusterWatch[r].open /\ clusterWatch[r].events = <<>>
    /\ UNCHANGED vars

ReceiveClosed(r) ==
    /\ phase[r] = "select"
    /\ ~clusterWatch[r].open /\ clusterWatch[r].events = <<>>
    /\ Goto(r, "renewGet")
    /\ UNCHANGED <<api, clusterWatch, channels, cm, idtmp, caches, spent>>

ReceiveRetryNew(r) ==
    /\ phase[r] = "select"
    /\ retryNew[r]
    /\ retryNew' = [retryNew EXCEPT ![r] = FALSE]
    /\ Goto(r, "renewGet")
    /\ UNCHANGED <<api, clusterWatch, retrySync, cm, idtmp, caches, spent>>
-----------------------------------------------------------------------------
(***************************************************************************)
(* syncCodeClusterClient.                                                  *)
(***************************************************************************)
\* The maps by UID that probing every client may give: of two clients that
\* report one UID, the one that range visits last stays.
IdMaps(clients) ==
    {m \in UNION {[S -> Kubeconfigs] : S \in SUBSET Uids} :
        \E uid \in [DOMAIN clients -> Uids] :
            /\ \A c \in DOMAIN clients : uid[c] \in Answers[clients[c]]
            /\ DOMAIN m = Range(uid)
            /\ \A c \in DOMAIN clients :
                  \E d \in DOMAIN clients :
                      uid[d] = uid[c] /\ m[uid[c]] = clients[d]}

ProbeClusters(r) ==
    /\ phase[r] = "sync"
    /\ \E m \in IdMaps(Clients(cm[r])) : idtmp' = [idtmp EXCEPT ![r] = m]
    /\ Goto(r, "clearCode")
    /\ UNCHANGED <<api, clusterWatch, channels, cm, caches, spent>>

\* A cluster does not answer, or the event's object does not convert.  When
\* a kubeconfig of the local file does not parse, nothing else can happen.
SyncFault(r) ==
    /\ phase[r] = "sync"
    /\ IF IdMaps(Clients(cm[r])) = {} THEN UNCHANGED spent ELSE Spend("fault")
    /\ SendRetrySync(r, "returned") \/ SendRetryNew(r, "returned")
    /\ UNCHANGED <<api, clusterWatch, cm, idtmp, caches>>

ClearCodeNot(r) ==     \* fault: stores over the old entries
    /\ phase[r] = "clearCode"
    /\ Goto(r, "clearId")
    /\ UNCHANGED <<api, clusterWatch, channels, cm, idtmp, caches, spent>>

ClearCode(r) ==
    /\ phase[r] = "clearCode"
    /\ IF codeClusterClient[r] = NoClients
       THEN Goto(r, "clearId") /\ UNCHANGED codeClusterClient
       ELSE /\ \E c \in DOMAIN codeClusterClient[r] :
                 codeClusterClient' =
                     [codeClusterClient EXCEPT ![r] = Drop(@, c)]
            /\ UNCHANGED phase
    /\ UNCHANGED <<api, clusterWatch, channels, cm, idtmp, idClusterClient,
                   served, spent>>

ClearId(r) ==
    /\ phase[r] = "clearId"
    /\ idClusterClient' = [idClusterClient EXCEPT ![r] = NoClients]
    /\ Goto(r, "storeCode")
    /\ UNCHANGED <<api, clusterWatch, channels, cm, idtmp, codeClusterClient,
                   served, spent>>

StoreCode(r) ==
    /\ phase[r] = "storeCode"
    /\ LET codetmp == Clients(cm[r])
           left == DOMAIN codetmp \ DOMAIN codeClusterClient[r]
       IN  IF left = {}
           THEN Goto(r, "storeId") /\ UNCHANGED codeClusterClient
           ELSE /\ \E c \in left :
                     codeClusterClient' =
                         [codeClusterClient EXCEPT ![r] = Put(@, c, codetmp[c])]
                /\ UNCHANGED phase
    /\ UNCHANGED <<api, clusterWatch, channels, cm, idtmp, idClusterClient,
                   served, spent>>

StoreId(r) ==
    /\ phase[r] = "storeId"
    /\ idClusterClient' = [idClusterClient EXCEPT ![r] = idtmp[r]]
    /\ served' = [served EXCEPT ![r] = cm[r]]
    /\ Goto(r, "select")
    /\ UNCHANGED <<api, clusterWatch, channels, cm, idtmp, codeClusterClient,
                   spent>>
-----------------------------------------------------------------------------
Step(r) ==
    \/ GetConfigMap(r) \/ CreateConfigMap(r) \/ Watch(r)
    \/ ReceiveEvent(r) \/ ReceiveClosed(r) \/ ReceiveRetryNew(r)
    \/ ProbeClusters(r)
    \/ ClearCode(r) \/ ClearId(r) \/ StoreCode(r) \/ StoreId(r)

\* The pod dies, and the kubelet starts it again.
Kill(r) ==
    /\ Spend("kill")
    /\ phase[r] # "exited"
    /\ Exit(r)
    /\ UNCHANGED api

Restart(r) ==
    /\ phase[r] = "exited"
    /\ Goto(r, "bootGet")
    /\ UNCHANGED <<api, clusterWatch, channels, cm, idtmp, caches, spent>>

Next ==
    \/ HandlerWrite \/ HandlerCreate \/ OperatorDelete
    \/ \E r \in Replicas :
         \/ Step(r) \/ Restart(r)
         \/ CloseWatch(r) \/ FailWatch(r)
         \/ ApiFault(r) \/ SyncFault(r) \/ Kill(r)

Spec == Init /\ [][Next]_vars

\* The goroutine is scheduled, its calls return, and the kubelet restarts
\* what exits.  Nothing is assumed of writers, operators or failures.
FairSpec ==
    Spec /\ \A r \in Replicas : WF_vars(Step(r)) /\ WF_vars(Restart(r))
-----------------------------------------------------------------------------
(***************************************************************************)
(* Properties.                                                             *)
(***************************************************************************)
Events ==
    [type : {"ADDED", "MODIFIED"}, object : ConfigMaps] \cup
    [type : {"DELETED", "ERROR"}, object : {NoConfigMap}]

ClientMaps(keys) == UNION {[S -> Kubeconfigs] : S \in SUBSET keys}

\* The type invariant.
TypeOK ==
    /\ configMap \in ConfigMaps \cup {NoConfigMap}
    /\ revision \in Nat
    /\ phase \in [Replicas -> Phases]
    /\ clusterWatch \in [Replicas -> [open : BOOLEAN, events : Seq(Events)]]
    /\ retryNew \in [Replicas -> BOOLEAN]
    /\ retrySync \in [Replicas -> BOOLEAN]
    /\ cm \in [Replicas -> ConfigMaps \cup {NoConfigMap}]
    /\ idtmp \in [Replicas -> ClientMaps(Uids)]
    /\ codeClusterClient \in [Replicas -> ClientMaps(Codes)]
    /\ idClusterClient \in [Replicas -> ClientMaps(Uids)]
    /\ served \in [Replicas -> ConfigMaps \cup {NoConfigMap}]
    /\ spent \in [OutsideEvents -> Nat]

PartOf(f, g) == \A x \in DOMAIN f : x \in DOMAIN g /\ f[x] = g[x]

\* A replica whose watcher waits on an open watch, with nothing undelivered
\* and no renewal due, has exactly the clients of the ConfigMap, whatever
\* deletions, closed watches and rebuilds lie behind it.
QuietMeansFresh ==
    \A r \in Replicas :
        /\ phase[r] = "select"
        /\ clusterWatch[r] = [open |-> TRUE, events |-> <<>>]
        /\ ~retryNew[r]
        /\ configMap # NoConfigMap
        => codeClusterClient[r] = Clients(configMap)

\* A request never finds the clients of two versions of the registry side by
\* side: at each instant the cache is a part of one version, and outside the
\* swap it is all of it, also after a synchronisation that failed.
CacheIsOneSnapshot ==
    \A r \in Replicas :
        /\ \/ PartOf(codeClusterClient[r], Clients(served[r]))
           \/ PartOf(codeClusterClient[r], Clients(cm[r]))
        /\ phase[r] \notin Swapping =>
             codeClusterClient[r] = Clients(served[r])

\* A replica never goes back to an older version of the registry, short of a
\* restart: not after a lost watch, nor with events of the old one left over.
ServedMonotone ==
    [][\A r \in Replicas :
          served'[r] # served[r] /\ phase'[r] # "exited" =>
            \/ served[r] = NoConfigMap
            \/ served[r].resourceVersion < served'[r].resourceVersion]_vars

\* No goroutine is left to receive a token of retrySync: whoever sends one
\* returns.  The select's case for it can therefore never be taken.
RetryIsDead ==
    \A r \in Replicas : retrySync[r] => phase[r] = "returned"

\* Every replica's cache ends up as the registry, and stays so.
Converges ==
    \A r \in Replicas :
        <>[](configMap # NoConfigMap =>
               codeClusterClient[r] = Clients(configMap))

\* The same with every kind of trouble: what keeps a cache from it for good is
\* a call that failed, whose goroutine returns, or a watcher that waits for
\* itself, and nothing else.
ConvergesUnlessStopped ==
    \A r \in Replicas :
        \/ <>[](configMap # NoConfigMap =>
                  codeClusterClient[r] = Clients(configMap))
        \/ <>[](phase[r] \in {"returned", "blocked"})

\* One trouble never blocks the watcher: it waits for itself only after two of
\* a deletion, a failed watch and a failed call.  It returns only after a call
\* that failed, or met a ConfigMap that was deleted and built again.
StopsAreExplained ==
    \A r \in Replicas :
        /\ phase[r] = "blocked" =>
               spent["delete"] + spent["error"] + spent["fault"] > 1
        /\ phase[r] = "returned" => spent["fault"] + spent["delete"] > 0
=============================================================================
