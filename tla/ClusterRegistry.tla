--------------------------- MODULE ClusterRegistry --------------------------
(***************************************************************************)
(* The handlers of /apis/cluster/v1 (pkg/server/handlers/clusters), run    *)
(* concurrently, by any number of hcnmp replicas, against one ConfigMap.   *)
(*                                                                         *)
(* A handler is a read-modify-write of the whole ConfigMap: it looks the   *)
(* code up in its replica's client cache, reads the ConfigMap (creating it *)
(* when absent), changes the copy it read, asks the new cluster for its    *)
(* UID, and sends the copy back; the API server accepts it only if the     *)
(* resourceVersion read is still the current one.  Each call to the API    *)
(* server or to a cluster is one action, with the local computation that   *)
(* follows it up to the next call.                                         *)
(*                                                                         *)
(* The client cache belongs to ClusterProxy.  Here its answer is arbitrary *)
(* (the hit argument of Arrive), so what holds of this module holds        *)
(* whatever the caches contain and however stale they are.                 *)
(*                                                                         *)
(* A definition marked "fault:" is a mutated form of the next one, kept to *)
(* show that a property can fail; no specification uses it.                *)
(***************************************************************************)
EXTENDS RegistryData

CONSTANTS
    Requests,     \* the HTTP requests of one run of the system
    MaxRevision   \* bound: the operator deletes the ConfigMap below this
                  \* revision only

ASSUME MaxRevisionAssumption == MaxRevision \in Nat

VARIABLES
    configMap,  \* the ConfigMap in the API server, or NoConfigMap
    revision,   \* the API server's latest revision
    call,       \* call[p]: what request p asks for, NoCall before it arrives
    pc,         \* pc[p]: the API call p's handler makes next
    cm,         \* cm[p]: the handler's copy of the ConfigMap, changed in place
    status      \* status[p]: p's HTTP answer, 0 before it

api == <<configMap, revision>>
vars == <<configMap, revision, call, pc, cm, status>>

Phases == {"idle", "read", "create", "probe", "write", "done"}

\* 500 stands for every status that is none of 200, 404 and 409.
Statuses == {0, 200, 404, 409, 500}

Init ==
    /\ configMap \in {NoConfigMap,
                      [resourceVersion |-> 1, binaryData |-> LocalInfos]}
    /\ revision = 1
    /\ call = [p \in Requests |-> NoCall]
    /\ pc = [p \in Requests |-> "idle"]
    /\ cm = [p \in Requests |-> NoConfigMap]
    /\ status = [p \in Requests |-> 0]
-----------------------------------------------------------------------------
(***************************************************************************)
(* The two ways a step of request p ends.                                  *)
(***************************************************************************)

AnswerSilently(p, s) ==     \* fault: returns without a response
    /\ pc' = [pc EXCEPT ![p] = "done"]
    /\ UNCHANGED <<call, cm, status>>

Answer(p, s) ==
    /\ pc' = [pc EXCEPT ![p] = "done"]
    /\ status' = [status EXCEPT ![p] = s]
    /\ UNCHANGED <<call, cm>>

Continue(p, step, copy) ==
    /\ pc' = [pc EXCEPT ![p] = step]
    /\ cm' = [cm EXCEPT ![p] = copy]
    /\ UNCHANGED <<call, status>>

(***************************************************************************)
(* What each handler does with the ConfigMap it has read or created.       *)
(***************************************************************************)
Known(p, copy) == call[p].code \in DOMAIN copy.binaryData

\* "no change in preprocessed cluster information"
SameKubeconfig(p, copy) ==
    /\ Known(p, copy)
    /\ copy.binaryData[call[p].code].kubeconfig = call[p].kubeconfig

WithoutAnyEntry(p, copy) ==     \* fault: a fresh map instead of delete
    [copy EXCEPT !.binaryData = EmptyRegistry]

WithoutEntry(p, copy) == [copy EXCEPT !.binaryData = Drop(@, call[p].code)]

AddLoaded(p, copy) ==
    IF Known(p, copy) THEN Answer(p, 409) ELSE Continue(p, "probe", copy)

RemoveLoaded(p, copy) ==
    IF Known(p, copy) THEN Continue(p, "write", WithoutEntry(p, copy))
                      ELSE Answer(p, 404)

ApplyLoaded(p, copy) ==
    IF SameKubeconfig(p, copy)
    THEN Answer(p, 200)
    ELSE Continue(p, "probe", WithoutEntry(p, copy))

UpdateLoaded(p, copy) ==
    IF Known(p, copy) THEN ApplyLoaded(p, copy) ELSE Answer(p, 404)

GetLoaded(p, copy) == Answer(p, IF Known(p, copy) THEN 200 ELSE 404)

Loaded(p, copy) ==
    CASE call[p].op = "addCluster"    -> AddLoaded(p, copy)
      [] call[p].op = "removeCluster" -> RemoveLoaded(p, copy)
      [] call[p].op = "updateCluster" -> UpdateLoaded(p, copy)
      [] call[p].op = "applyCluster"  -> ApplyLoaded(p, copy)
      [] call[p].op = "getCluster"    -> GetLoaded(p, copy)
      [] call[p].op = "getClusters"   -> Answer(p, 200)
-----------------------------------------------------------------------------
(***************************************************************************)
(* The calls the handlers are built from.                                  *)
(***************************************************************************)
\* A call fails without effect, or a body does not parse: HandleError.
Fail(p) ==
    /\ pc[p] \in {"read", "create", "probe", "write"}
    /\ Answer(p, 500)
    /\ UNCHANGED api

\* add and apply go on to create an absent ConfigMap; for the others
\* HandleError passes on the 404 of the API server's NotFound.
ReadConfigMap(p) ==
    /\ pc[p] = "read"
    /\ IF configMap # NoConfigMap
       THEN Loaded(p, configMap)
       ELSE IF call[p].op \in {"addCluster", "applyCluster"}
            THEN Continue(p, "create", NoConfigMap)
            ELSE Answer(p, 404)
    /\ UNCHANGED api

\* utils.CreateConfigMapsFromLocal as the API server stores it: revisions
\* are counted over the whole store, never restarted for a new object.
CreatedFromLocal ==
    [resourceVersion |-> revision + 1, binaryData |-> LocalInfos]

Create ==
    /\ configMap' = CreatedFromLocal
    /\ revision' = revision + 1

\* AlreadyExists is a 409.  The last disjunct is a Create whose response is
\* lost: it took effect, and the handler sees an error.
CreateConfigMap(p) ==
    /\ pc[p] = "create"
    /\ \/ configMap # NoConfigMap /\ Answer(p, 409) /\ UNCHANGED api
       \/ configMap = NoConfigMap /\ Create /\ Loaded(p, CreatedFromLocal)
       \/ configMap = NoConfigMap /\ Create /\ Answer(p, 500)

ConflictsNever(p, uid) == FALSE     \* fault: no UID loop

\* The cluster behind the kubeconfig reports the UID of its kube-system
\* namespace; no entry but the one being replaced may have it.
Conflicts(p, uid) == UidTaken(cm[p].binaryData, uid)

EntryOfHub(p, uid) ==     \* fault: asks h.client, not the new client
    [id |-> CHOOSE u \in Uids : TRUE, kubeconfig |-> call[p].kubeconfig]

NewEntry(p, uid) == [id |-> uid, kubeconfig |-> call[p].kubeconfig]

ProbeCluster(p) ==
    /\ pc[p] = "probe"
    /\ \E uid \in Answers[call[p].kubeconfig] :
         IF Conflicts(p, uid)
         THEN Answer(p, 409)
         ELSE Continue(p, "write", [cm[p] EXCEPT
                     !.binaryData = Put(@, call[p].code, NewEntry(p, uid))])
    /\ UNCHANGED api

CurrentAlways(copy) == TRUE     \* fault: an Update without resourceVersion

\* The API server's optimistic concurrency check of an Update.
Current(copy) == configMap.resourceVersion = copy.resourceVersion

WriteConfigMapTwice(p) ==     \* fault: a retry after a lost response
    /\ pc[p] = "write"
    /\ \/ configMap = NoConfigMap /\ Answer(p, 404) /\ UNCHANGED api
       \/ /\ configMap # NoConfigMap /\ ~Current(cm[p])
          /\ Answer(p, 409)
          /\ UNCHANGED api
       \/ /\ configMap # NoConfigMap /\ Current(cm[p])
          /\ configMap' = [cm[p] EXCEPT !.resourceVersion = revision + 1]
          /\ revision' = revision + 1
          /\ \E s \in {200, 409} : Answer(p, s)

\* NotFound and Conflict keep their statuses; a committed Update is answered
\* 200, or its response is lost and the handler sees an error.
WriteConfigMap(p) ==
    /\ pc[p] = "write"
    /\ \/ configMap = NoConfigMap /\ Answer(p, 404) /\ UNCHANGED api
       \/ /\ configMap # NoConfigMap /\ ~Current(cm[p])
          /\ Answer(p, 409)
          /\ UNCHANGED api
       \/ /\ configMap # NoConfigMap /\ Current(cm[p])
          /\ configMap' = [cm[p] EXCEPT !.resourceVersion = revision + 1]
          /\ revision' = revision + 1
          /\ \E s \in {200, 500} : Answer(p, s)
-----------------------------------------------------------------------------
(***************************************************************************)
(* The handlers.  Arrive is a request's way into its handler, up to and    *)
(* including proxy.GetClusterPorxyClientFromCode; hit is what that found.  *)
(***************************************************************************)
Admission(op, hit) ==
    CASE op = "addCluster" /\ hit -> 409
      [] op \in {"removeCluster", "updateCluster", "getCluster"} /\ ~hit -> 404
      [] OTHER -> 0

Arrive(p, c, hit) ==
    /\ pc[p] = "idle"
    /\ call' = [call EXCEPT ![p] = c]
    /\ status' = [status EXCEPT ![p] = Admission(c.op, hit)]
    /\ pc' = [pc EXCEPT ![p] =
                 IF Admission(c.op, hit) = 0 THEN "read" ELSE "done"]
    /\ UNCHANGED <<configMap, revision, cm>>

AddCluster(p) ==
    /\ pc[p] # "idle" /\ call[p].op = "addCluster"
    /\ \/ ReadConfigMap(p) \/ CreateConfigMap(p)
       \/ ProbeCluster(p) \/ WriteConfigMap(p) \/ Fail(p)

RemoveCluster(p) ==
    /\ pc[p] # "idle" /\ call[p].op = "removeCluster"
    /\ ReadConfigMap(p) \/ WriteConfigMap(p) \/ Fail(p)

UpdateCluster(p) ==
    /\ pc[p] # "idle" /\ call[p].op = "updateCluster"
    /\ \/ ReadConfigMap(p)
       \/ ProbeCluster(p) \/ WriteConfigMap(p) \/ Fail(p)

ApplyCluster(p) ==
    /\ pc[p] # "idle" /\ call[p].op = "applyCluster"
    /\ \/ ReadConfigMap(p) \/ CreateConfigMap(p)
       \/ ProbeCluster(p) \/ WriteConfigMap(p) \/ Fail(p)

GetCluster(p) ==
    /\ pc[p] # "idle" /\ call[p].op = "getCluster"
    /\ ReadConfigMap(p) \/ Fail(p)

GetClusters(p) ==
    /\ pc[p] # "idle" /\ call[p].op = "getClusters"
    /\ ReadConfigMap(p) \/ Fail(p)

Handler(p) ==
    \/ AddCluster(p) \/ RemoveCluster(p) \/ UpdateCluster(p)
    \/ ApplyCluster(p) \/ GetCluster(p) \/ GetClusters(p)

\* The operator deletes the ConfigMap with kubectl.
OperatorDelete ==
    /\ configMap # NoConfigMap
    /\ revision < MaxRevision
    /\ configMap' = NoConfigMap
    /\ revision' = revision + 1
    /\ UNCHANGED <<call, pc, cm, status>>

\* A replica's watcher, or a starting replica, rebuilds the ConfigMap.
WatcherCreate ==
    /\ configMap = NoConfigMap
    /\ Create
    /\ UNCHANGED <<call, pc, cm, status>>

Next ==
    \/ \E p \in Requests, c \in Calls, hit \in BOOLEAN : Arrive(p, c, hit)
    \/ \E p \in Requests : Handler(p)
    \/ OperatorDelete
    \/ WatcherCreate

Spec == Init /\ [][Next]_vars
-----------------------------------------------------------------------------
(***************************************************************************)
(* Properties.                                                             *)
(***************************************************************************)
\* The type invariant, with how far a handler has to be to hold what it holds.
TypeOK ==
    /\ configMap \in ConfigMaps \cup {NoConfigMap}
    /\ revision \in Nat
    /\ call \in [Requests -> Calls \cup {NoCall}]
    /\ pc \in [Requests -> Phases]
    /\ cm \in [Requests -> ConfigMaps \cup {NoConfigMap}]
    /\ status \in [Requests -> Statuses]
    /\ \A p \in Requests :
         /\ pc[p] = "idle" <=> call[p] = NoCall
         /\ pc[p] = "done" <=> status[p] # 0
         /\ pc[p] = "create" => call[p].op \in {"addCluster", "applyCluster"}
         /\ pc[p] \in {"probe", "write"} =>
              /\ cm[p] # NoConfigMap
              /\ cm[p].resourceVersion <= revision
              /\ call[p].op \notin {"getCluster", "getClusters"}
         /\ pc[p] = "probe" => call[p].op # "removeCluster"
    /\ configMap # NoConfigMap => configMap.resourceVersion <= revision

\* No two codes ever name the same cluster, however adds, updates and
\* applies of the same cluster under different codes race: each checks the
\* UIDs on its own copy, and only the version check at the write makes the
\* check count.  The local file is taken as it is.
UidsDistinct == DistinctUids(LocalInfos) => DistinctUids(Contents(configMap))

\* A stored UID is one that the kubeconfig stored next to it has reported,
\* though the two come from different calls and an update replaces both.
UidsBelong == UidsMatch(LocalInfos) => UidsMatch(Contents(configMap))

\* A handler that is about to write over the version it read, and whose
\* version check will therefore succeed, writes exactly its own request on
\* the contents as they are now: nobody else's entry is lost or revived, the
\* request is legal at this instant and changes something, and the UID was
\* checked against every other entry of these contents.  It holds even if the ConfigMap was deleted
\* and built again in between.
Overwrites(p) ==
    /\ pc[p] \in {"probe", "write"}
    /\ configMap # NoConfigMap
    /\ Current(cm[p])

Rest(p) == Drop(configMap.binaryData, call[p].code)

IsItsWrite(p) ==
    /\ call[p].op = "addCluster" => ~Known(p, configMap)
    /\ call[p].op \in {"removeCluster", "updateCluster"} => Known(p, configMap)
    /\ call[p].op \in {"updateCluster", "applyCluster"} =>
         ~SameKubeconfig(p, configMap)
    /\ IF pc[p] = "probe" \/ call[p].op = "removeCluster"
       THEN cm[p].binaryData = Rest(p)
       ELSE \E uid \in Answers[call[p].kubeconfig] :
              /\ ~UidTaken(Rest(p), uid)
              /\ cm[p].binaryData = Put(Rest(p), call[p].code, NewEntry(p, uid))

CopiesAreCurrent == \A p \in Requests : Overwrites(p) => IsItsWrite(p)

\* The handlers keep the promise of AtomicRegistry: every request takes
\* effect at one instant or not at all, no write undoes another's, and a 200
\* is never answered to a request without effect.
Promise == INSTANCE AtomicRegistry WITH
               registry <- Contents(configMap), answer <- status

ImplementsAtomicRegistry == Promise!Spec
=============================================================================
