----------------------- MODULE ClusterRegistryProofs ------------------------
(***************************************************************************)
(* Proofs about ClusterRegistry, for any codes, kubeconfigs, UIDs and any  *)
(* number of concurrent requests and replicas:                             *)
(*                                                                         *)
(*   TypeCorrect        Spec => []TypeOK                                   *)
(*   WritesAreCurrent   Spec => []CopiesAreCurrent                         *)
(*   NoDuplicates       Spec => []UidsDistinct                             *)
(*   NoMismatch         Spec => []UidsBelong                               *)
(*   RegistryIsAtomic   Spec => ImplementsAtomicRegistry                   *)
(*                                                                         *)
(* The inductive invariant is the conjunction of the first four.           *)
(***************************************************************************)
EXTENDS ClusterRegistry, RegistryLemmas

IInv == TypeOK /\ CopiesAreCurrent /\ UidsDistinct /\ UidsBelong
-----------------------------------------------------------------------------
(***************************************************************************)
(* What a handler's step can be, whatever its request.                     *)
(***************************************************************************)
\* The operators of RegistryData are those of AtomicRegistry.
LEMMA SameOperators ==
    ASSUME NEW d, NEW c, NEW i, NEW u
    PROVE  /\ Promise!Drop(d, c) = Drop(d, c)
           /\ Promise!Put(d, c, i) = Put(d, c, i)
           /\ Promise!UidTaken(d, u) = UidTaken(d, u)
           /\ Promise!EmptyRegistry = EmptyRegistry
           /\ Promise!Calls = Calls
  BY DEF Promise!Drop, Drop, Promise!Put, Put, Promise!UidTaken, UidTaken,
         Promise!Restrict, Restrict, Promise!EmptyRegistry, EmptyRegistry,
         Promise!Calls, Calls, Promise!Operations, Operations

\* What the handlers do with the ConfigMap they have loaded.
LEMMA LoadedCases ==
    ASSUME NEW p \in Requests, NEW copy, call[p].op \in Operations,
           Loaded(p, copy)
    PROVE  \/ \E s \in {404, 409} : Answer(p, s)
           \/ /\ Answer(p, 200)
              /\ Promise!Settled(call[p], copy.binaryData)
           \/ /\ call[p].op = "addCluster" /\ ~Known(p, copy)
              /\ Continue(p, "probe", copy)
           \/ /\ call[p].op = "removeCluster" /\ Known(p, copy)
              /\ Continue(p, "write", WithoutEntry(p, copy))
           \/ /\ call[p].op \in {"updateCluster", "applyCluster"}
              /\ call[p].op = "updateCluster" => Known(p, copy)
              /\ ~SameKubeconfig(p, copy)
              /\ Continue(p, "probe", WithoutEntry(p, copy))
  <1>1. CASE call[p].op = "addCluster"
    BY <1>1 DEF Loaded, AddLoaded
  <1>2. CASE call[p].op = "removeCluster"
    BY <1>2 DEF Loaded, RemoveLoaded
  <1>3. CASE call[p].op = "updateCluster"
    <2>1. Loaded(p, copy) <=> UpdateLoaded(p, copy)
      BY <1>3 DEF Loaded
    <2> QED
      BY <1>3, <2>1 DEF UpdateLoaded, ApplyLoaded, SameKubeconfig, Known,
                        Promise!Settled
  <1>4. CASE call[p].op = "applyCluster"
    <2>1. Loaded(p, copy) <=> ApplyLoaded(p, copy)
      BY <1>4 DEF Loaded
    <2> QED
      BY <1>4, <2>1 DEF ApplyLoaded, SameKubeconfig, Known, Promise!Settled
  <1>5. CASE call[p].op = "getCluster"
    BY <1>5 DEF Loaded, GetLoaded, Known, Promise!Settled
  <1>6. CASE call[p].op = "getClusters"
    BY <1>6 DEF Loaded, Promise!Settled
  <1> QED
    BY <1>1, <1>2, <1>3, <1>4, <1>5, <1>6 DEF Operations

\* Once entered, a handler takes one of five kinds of step.
LEMMA HandlerCases ==
    ASSUME NEW p \in Requests, Handler(p)
    PROVE  \/ ReadConfigMap(p) \/ CreateConfigMap(p)
           \/ ProbeCluster(p) \/ WriteConfigMap(p) \/ Fail(p)
  BY DEF Handler, AddCluster, RemoveCluster, UpdateCluster, ApplyCluster,
         GetCluster, GetClusters

\* How a step may change the API server: not at all, by deleting the
\* ConfigMap, or by storing a registry under a new revision.
Stores(data) ==
    /\ configMap' = [resourceVersion |-> revision + 1, binaryData |-> data]
    /\ revision' = revision + 1

ApiStep ==
    \/ UNCHANGED api
    \/ configMap' = NoConfigMap /\ revision' = revision + 1
    \/ \E data \in Registries : Stores(data)

LEMMA ApiTypes ==
    ASSUME TypeOK, ApiStep
    PROVE  /\ configMap' \in ConfigMaps \cup {NoConfigMap}
           /\ revision' \in Nat
           /\ revision <= revision'
           /\ configMap' # NoConfigMap =>
                configMap'.resourceVersion <= revision'
  <1>1. CASE UNCHANGED api
    BY <1>1 DEF api, TypeOK
  <1>2. CASE configMap' = NoConfigMap /\ revision' = revision + 1
    BY <1>2 DEF TypeOK
  <1>3. ASSUME NEW data \in Registries, Stores(data)
        PROVE  /\ configMap' \in ConfigMaps
               /\ revision' = revision + 1
               /\ configMap'.resourceVersion = revision'
    BY <1>3 DEF Stores, ConfigMaps, TypeOK
  <1> QED
    BY <1>1, <1>2, <1>3 DEF ApiStep, TypeOK

\* The API server's part of every action is such a step.
LEMMA ApiSteps ==
    ASSUME TypeOK, Next
    PROVE  ApiStep
  <1>1. LocalInfos \in Registries
    BY LocalInfosAssumption
  <1>2. Create => ApiStep
    BY <1>1 DEF Create, CreatedFromLocal, ApiStep, Stores
  <1>3. ASSUME NEW p \in Requests, Handler(p)
        PROVE  ApiStep
    <2>1. CASE ReadConfigMap(p) \/ ProbeCluster(p) \/ Fail(p)
      BY <2>1 DEF ReadConfigMap, ProbeCluster, Fail, ApiStep
    <2>2. CASE CreateConfigMap(p)
      BY <1>2, <2>2 DEF CreateConfigMap, ApiStep
    <2>3. CASE WriteConfigMap(p)
      <3>1. cm[p] \in ConfigMaps
        BY <2>3 DEF WriteConfigMap, TypeOK
      <3>2. CASE UNCHANGED api
        BY <3>2 DEF ApiStep
      <3>3. CASE /\ configMap' = [cm[p] EXCEPT !.resourceVersion = revision + 1]
                 /\ revision' = revision + 1
        <4>1. Stores(cm[p].binaryData) /\ cm[p].binaryData \in Registries
          BY <3>1, <3>3 DEF Stores, ConfigMaps
        <4> QED
          BY <4>1 DEF ApiStep
      <3> QED
        BY <2>3, <3>2, <3>3 DEF WriteConfigMap
    <2> QED
      BY <1>3, <2>1, <2>2, <2>3, HandlerCases
  <1>4. CASE \E p \in Requests, c \in Calls, hit \in BOOLEAN : Arrive(p, c, hit)
    BY <1>4 DEF Arrive, ApiStep, api
  <1>5. CASE OperatorDelete
    BY <1>5 DEF OperatorDelete, ApiStep
  <1>6. CASE WatcherCreate
    BY <1>2, <1>6 DEF WatcherCreate
  <1> QED
    BY <1>3, <1>4, <1>5, <1>6 DEF Next
-----------------------------------------------------------------------------
(***************************************************************************)
(* The type invariant.                                                     *)
(***************************************************************************)
\* What the handler of p does with its own variables, in four cases.
LEMMA HandlerEffects ==
    ASSUME TypeOK, NEW p \in Requests, Handler(p)
    PROVE  /\ pc[p] \in {"read", "create", "probe", "write"}
           /\ \/ \E s \in {200, 404, 409, 500} : Answer(p, s)
              \/ /\ pc[p] = "read" /\ UNCHANGED api
                 /\ call[p].op \in {"addCluster", "applyCluster"}
                 /\ Continue(p, "create", NoConfigMap)
              \/ /\ pc[p] \in {"read", "create"}
                 /\ configMap' \in ConfigMaps /\ Loaded(p, configMap')
              \/ ProbeCluster(p)
  <1>1. CASE ReadConfigMap(p)
    BY <1>1 DEF ReadConfigMap, TypeOK, api
  <1>2. CASE CreateConfigMap(p)
    <2>1. CreatedFromLocal \in ConfigMaps
      BY LocalInfosAssumption DEF CreatedFromLocal, ConfigMaps, TypeOK
    <2> QED
      BY <1>2, <2>1 DEF CreateConfigMap, Create
  <1>3. CASE ProbeCluster(p)
    BY <1>3 DEF ProbeCluster
  <1>4. CASE WriteConfigMap(p)
    BY <1>4 DEF WriteConfigMap
  <1>5. CASE Fail(p)
    BY <1>5 DEF Fail
  <1> QED
    BY <1>1, <1>2, <1>3, <1>4, <1>5, HandlerCases

\* A handler's step leaves the other requests alone.
LEMMA HandlerLocal ==
    ASSUME TypeOK, NEW p \in Requests, Handler(p),
           NEW q \in Requests, q # p
    PROVE  /\ call'[q] = call[q] /\ pc'[q] = pc[q] /\ cm'[q] = cm[q]
           /\ status'[q] = status[q]
  <1>1. ASSUME NEW s, Answer(p, s)
        PROVE  /\ call'[q] = call[q] /\ pc'[q] = pc[q] /\ cm'[q] = cm[q]
               /\ status'[q] = status[q]
    BY <1>1 DEF Answer, TypeOK
  <1>2. ASSUME NEW step, NEW copy, Continue(p, step, copy)
        PROVE  /\ call'[q] = call[q] /\ pc'[q] = pc[q] /\ cm'[q] = cm[q]
               /\ status'[q] = status[q]
    BY <1>2 DEF Continue, TypeOK
  <1>3. CASE pc[p] \in {"read", "create"} /\ Loaded(p, configMap')
    <2>1. call[p].op \in Operations
      BY <1>3 DEF TypeOK, Calls
    <2> QED
      BY <1>1, <1>2, <1>3, <2>1, LoadedCases
  <1>4. CASE ProbeCluster(p)
    <2>1. \/ Answer(p, 409)
          \/ \E copy : Continue(p, "write", copy)
      BY <1>4 DEF ProbeCluster
    <2> QED
      BY <1>1, <1>2, <2>1
  <1> QED
    BY <1>1, <1>2, <1>3, <1>4, HandlerEffects

\* Once a request has arrived, an answer keeps the types ...
LEMMA AnswerTypes ==
    ASSUME TypeOK, ApiStep, NEW p \in Requests, pc[p] # "idle",
           NEW s \in {200, 404, 409, 500}, Answer(p, s)
    PROVE  TypeOK'
  <1>1. /\ configMap' \in ConfigMaps \cup {NoConfigMap}
        /\ revision \in Nat /\ revision' \in Nat
        /\ revision <= revision'
        /\ configMap' # NoConfigMap => configMap'.resourceVersion <= revision'
    BY ApiTypes DEF TypeOK
  <1>2. ASSUME NEW q \in Requests, cm[q] \in ConfigMaps,
               cm[q].resourceVersion <= revision
        PROVE  cm[q].resourceVersion <= revision'
    BY <1>1, <1>2 DEF ConfigMaps
  <1> QED
    BY <1>1, <1>2 DEF Answer, TypeOK, Phases, Statuses

\* ... and so does going on with a copy fit for the phase.
LEMMA ContinueTypes ==
    ASSUME TypeOK, ApiStep, NEW p \in Requests,
           pc[p] \in {"read", "create", "probe"},
           NEW step, NEW copy, Continue(p, step, copy),
           \/ /\ step = "create" /\ copy = NoConfigMap
              /\ call[p].op \in {"addCluster", "applyCluster"}
           \/ /\ step \in {"probe", "write"} /\ copy \in ConfigMaps
              /\ copy.resourceVersion <= revision'
              /\ call[p].op \notin {"getCluster", "getClusters"}
              /\ step = "probe" => call[p].op # "removeCluster"
    PROVE  TypeOK'
  <1>1. /\ configMap' \in ConfigMaps \cup {NoConfigMap}
        /\ revision \in Nat /\ revision' \in Nat
        /\ revision <= revision'
        /\ configMap' # NoConfigMap => configMap'.resourceVersion <= revision'
    BY ApiTypes DEF TypeOK
  <1>2. ASSUME NEW q \in Requests, cm[q] \in ConfigMaps,
               cm[q].resourceVersion <= revision
        PROVE  cm[q].resourceVersion <= revision'
    BY <1>1, <1>2 DEF ConfigMaps
  <1>3. copy \in ConfigMaps => copy # NoConfigMap
    BY NoConfigMapAssumption
  <1> QED
    BY <1>1, <1>2, <1>3 DEF Continue, TypeOK, Phases, Statuses

\* What a handler sends back after a probe that found no conflict.
Probed(p, uid) ==
    [cm[p] EXCEPT !.binaryData = Put(@, call[p].code, NewEntry(p, uid))]

LEMMA ProbedTypes ==
    ASSUME TypeOK, NEW p \in Requests, pc[p] = "probe",
           NEW uid \in Answers[call[p].kubeconfig]
    PROVE  /\ cm[p] \in ConfigMaps
           /\ NewEntry(p, uid) \in ClusterInfo
           /\ Probed(p, uid) \in ConfigMaps
           /\ Probed(p, uid).resourceVersion = cm[p].resourceVersion
           /\ Probed(p, uid).binaryData
                = Put(cm[p].binaryData, call[p].code, NewEntry(p, uid))
  <1>1. cm[p] \in ConfigMaps
    BY DEF TypeOK
  <1>2. call[p].code \in Codes /\ call[p].kubeconfig \in Kubeconfigs
    BY DEF TypeOK, Calls
  <1>3. NewEntry(p, uid) \in ClusterInfo
    BY <1>2, AnswersAssumption DEF NewEntry, ClusterInfo
  <1>4. cm[p].binaryData \in Registries
    BY <1>1 DEF ConfigMaps
  <1>5. Put(cm[p].binaryData, call[p].code, NewEntry(p, uid)) \in Registries
    BY <1>2, <1>3, <1>4, PutType
  <1>6. DOMAIN cm[p] = {"resourceVersion", "binaryData"}
    BY <1>1 DEF ConfigMaps
  <1> QED
    BY <1>1, <1>3, <1>5, <1>6 DEF Probed, ConfigMaps

LEMMA TypeStep == TypeOK /\ [Next]_vars => TypeOK'
  <1> SUFFICES ASSUME TypeOK, [Next]_vars
               PROVE  TypeOK'
    OBVIOUS
  <1>1. CASE UNCHANGED vars
    BY <1>1 DEF vars, TypeOK
  <1>2. ASSUME Next
        PROVE  TypeOK'
    <2>1. ApiStep
      BY <1>2, ApiSteps
    <2>2. ASSUME NEW p \in Requests, Handler(p)
          PROVE  TypeOK'
      <3>1. pc[p] \in {"read", "create", "probe", "write"}
        BY <2>2, HandlerEffects
      <3>2. call[p] \in Calls
        BY <3>1 DEF TypeOK
      <3>3. CASE \E s \in {200, 404, 409, 500} : Answer(p, s)
        BY <2>1, <3>1, <3>3, AnswerTypes
      <3>4. CASE /\ pc[p] = "read" /\ UNCHANGED api
                 /\ call[p].op \in {"addCluster", "applyCluster"}
                 /\ Continue(p, "create", NoConfigMap)
        BY <2>1, <3>4, ContinueTypes
      <3>5. CASE /\ pc[p] \in {"read", "create"}
                 /\ configMap' \in ConfigMaps /\ Loaded(p, configMap')
        <4>1. configMap'.resourceVersion <= revision'
          BY <2>1, <3>5, ApiTypes, NoConfigMapAssumption
        <4>2. /\ WithoutEntry(p, configMap') \in ConfigMaps
              /\ WithoutEntry(p, configMap').resourceVersion
                   = configMap'.resourceVersion
          BY <3>5, DropType DEF WithoutEntry, ConfigMaps
        <4>3. call[p].op \in Operations
          BY <3>2 DEF Calls
        <4>4. CASE \E s \in {200, 404, 409} : Answer(p, s)
          BY <2>1, <3>1, <4>4, AnswerTypes
        <4>5. CASE call[p].op = "addCluster" /\ Continue(p, "probe", configMap')
          BY <2>1, <3>5, <4>1, <4>5, ContinueTypes
        <4>6. CASE /\ call[p].op = "removeCluster"
                   /\ Continue(p, "write", WithoutEntry(p, configMap'))
          BY <2>1, <3>5, <4>1, <4>2, <4>6, ContinueTypes
        <4>7. CASE /\ call[p].op \in {"updateCluster", "applyCluster"}
                   /\ Continue(p, "probe", WithoutEntry(p, configMap'))
          BY <2>1, <3>5, <4>1, <4>2, <4>7, ContinueTypes
        <4> HIDE DEF WithoutEntry
        <4> QED
          BY <3>5, <4>3, <4>4, <4>5, <4>6, <4>7, LoadedCases
      <3>6. CASE ProbeCluster(p)
        <4>1. PICK uid \in Answers[call[p].kubeconfig] :
                \/ Answer(p, 409)
                \/ Continue(p, "write", Probed(p, uid))
          BY <3>6 DEF ProbeCluster, Probed
        <4>2. /\ Probed(p, uid) \in ConfigMaps
              /\ Probed(p, uid).resourceVersion = cm[p].resourceVersion
          BY <3>2, <3>6, ProbedTypes DEF ProbeCluster
        <4>3. /\ pc[p] = "probe" /\ revision' = revision
              /\ cm[p].resourceVersion <= revision
              /\ call[p].op \notin {"getCluster", "getClusters"}
          BY <3>6 DEF ProbeCluster, TypeOK, api
        <4> QED
          BY <2>1, <3>1, <4>1, <4>2, <4>3, AnswerTypes, ContinueTypes
      <3> QED
        BY <2>2, <3>3, <3>4, <3>5, <3>6, HandlerEffects
    <2>3. ASSUME NEW p \in Requests, NEW c \in Calls, NEW hit \in BOOLEAN,
                 Arrive(p, c, hit)
          PROVE  TypeOK'
      BY <2>3, NoCallAssumption DEF Arrive, Admission, TypeOK, Phases, Statuses
    <2>4. CASE OperatorDelete \/ WatcherCreate
      <3>1. \A q \in Requests :
              cm[q] \in ConfigMaps /\ cm[q].resourceVersion <= revision
              => cm[q].resourceVersion <= revision'
        BY <2>1, ApiTypes DEF ConfigMaps, TypeOK
      <3> QED
        BY <2>1, <2>4, <3>1, ApiTypes DEF OperatorDelete, WatcherCreate, TypeOK
    <2> QED
      BY <1>2, <2>2, <2>3, <2>4 DEF Next
  <1> QED
    BY <1>1, <1>2
-----------------------------------------------------------------------------
(***************************************************************************)
(* Copies: a new revision outdates every copy held elsewhere, and the      *)
(* handler's own steps keep its copy what it is about to write.            *)
(***************************************************************************)
\* A request that does not move keeps its copy in order, whoever moves.
LEMMA BystanderStep ==
    ASSUME TypeOK, ApiStep, CopiesAreCurrent, NEW q \in Requests,
           call'[q] = call[q], pc'[q] = pc[q], cm'[q] = cm[q],
           Overwrites(q)'
    PROVE  IsItsWrite(q)'
  <1>1. cm[q] \in ConfigMaps /\ cm[q].resourceVersion <= revision
    BY DEF Overwrites, TypeOK
  <1>2. UNCHANGED api
    <2>1. configMap' # NoConfigMap
          /\ configMap'.resourceVersion = cm[q].resourceVersion
      BY DEF Overwrites, Current
    <2>2. \A data : ~Stores(data)
      BY <1>1, <2>1 DEF Stores, ConfigMaps, TypeOK
    <2> QED
      BY <2>1, <2>2 DEF ApiStep
  <1>3. Overwrites(q)
    BY <1>2 DEF Overwrites, Current, api
  <1>4. IsItsWrite(q)
    BY <1>3 DEF CopiesAreCurrent
  <1> QED
    BY <1>2, <1>4 DEF IsItsWrite, SameKubeconfig, Known, Rest, NewEntry, api

\* The request that moves has just loaded its copy ...
LEMMA LoadedStep ==
    ASSUME NEW p \in Requests, call[p].op \in Operations, UNCHANGED call,
           pc \in [Requests -> Phases], cm \in [Requests -> ConfigMaps \cup {NoConfigMap}],
           configMap' \in ConfigMaps, Loaded(p, configMap'), Overwrites(p)'
    PROVE  IsItsWrite(p)'
  <1>1. pc'[p] \in {"probe", "write"}
    BY DEF Overwrites
  <1>2. ~\E s \in {200, 404, 409} : Answer(p, s)
    BY <1>1 DEF Answer
  <1>3. configMap'.binaryData \in Registries
    BY DEF ConfigMaps
  <1>4. /\ Rest(p)' = Drop(configMap'.binaryData, call[p].code)
        /\ WithoutEntry(p, configMap').binaryData = Rest(p)'
        /\ Known(p, configMap)' <=> Known(p, configMap')
        /\ SameKubeconfig(p, configMap)' <=> SameKubeconfig(p, configMap')
    BY DEF Rest, WithoutEntry, Known, SameKubeconfig, ConfigMaps
  <1>5. CASE /\ call[p].op = "addCluster" /\ ~Known(p, configMap')
             /\ Continue(p, "probe", configMap')
    <2>1. cm'[p] = configMap' /\ pc'[p] = "probe"
      BY <1>5 DEF Continue
    <2>2. configMap'.binaryData = Rest(p)'
      BY <1>3, <1>4, <1>5, DropAbsent DEF Known
    <2> QED
      BY <1>4, <1>5, <2>1, <2>2 DEF IsItsWrite
  <1>6. CASE /\ call[p].op = "removeCluster" /\ Known(p, configMap')
             /\ Continue(p, "write", WithoutEntry(p, configMap'))
    <2>1. cm'[p] = WithoutEntry(p, configMap')
      BY <1>6 DEF Continue
    <2> QED
      BY <1>4, <1>6, <2>1 DEF IsItsWrite
  <1>7. CASE /\ call[p].op \in {"updateCluster", "applyCluster"}
             /\ call[p].op = "updateCluster" => Known(p, configMap')
             /\ ~SameKubeconfig(p, configMap')
             /\ Continue(p, "probe", WithoutEntry(p, configMap'))
    <2>1. cm'[p] = WithoutEntry(p, configMap') /\ pc'[p] = "probe"
      BY <1>7 DEF Continue
    <2> QED
      BY <1>4, <1>7, <2>1 DEF IsItsWrite
  <1> QED
    BY <1>2, <1>5, <1>6, <1>7, LoadedCases

\* ... or has checked the UID against the copy it loaded.
LEMMA ProbedStep ==
    ASSUME TypeOK, CopiesAreCurrent, NEW p \in Requests, ProbeCluster(p),
           Overwrites(p)'
    PROVE  IsItsWrite(p)'
  <1>1. pc[p] = "probe" /\ UNCHANGED <<configMap, revision, call>>
    BY DEF ProbeCluster, Answer, Continue, api
  <1>2. PICK uid \in Answers[call[p].kubeconfig] :
          /\ ~Conflicts(p, uid)
          /\ Continue(p, "write", Probed(p, uid))
    BY DEF ProbeCluster, Probed, Overwrites, Answer, TypeOK
  <1>3. /\ Probed(p, uid).resourceVersion = cm[p].resourceVersion
        /\ Probed(p, uid).binaryData
             = Put(cm[p].binaryData, call[p].code, NewEntry(p, uid))
    BY <1>1, ProbedTypes
  <1>4. cm'[p] = Probed(p, uid) /\ pc'[p] = "write"
    BY <1>2 DEF Continue, TypeOK
  <1>5. Overwrites(p)
    BY <1>1, <1>3, <1>4 DEF Overwrites, Current
  <1>6. IsItsWrite(p) /\ cm[p].binaryData = Rest(p)
    BY <1>1, <1>5 DEF CopiesAreCurrent, IsItsWrite
  <1>7. call[p].op # "removeCluster"
    BY <1>1 DEF TypeOK
  <1>8. /\ ~UidTaken(Rest(p), uid)
        /\ cm'[p].binaryData = Put(Rest(p), call[p].code, NewEntry(p, uid))
    BY <1>2, <1>3, <1>4, <1>6 DEF Conflicts
  <1>9. /\ Rest(p)' = Rest(p) /\ NewEntry(p, uid)' = NewEntry(p, uid)
        /\ Known(p, configMap)' <=> Known(p, configMap)
        /\ SameKubeconfig(p, configMap)' <=> SameKubeconfig(p, configMap)
    BY <1>1 DEF Rest, NewEntry, Known, SameKubeconfig
  <1> QED
    BY <1>1, <1>4, <1>6, <1>7, <1>8, <1>9 DEF IsItsWrite

LEMMA CopiesStep ==
    TypeOK /\ CopiesAreCurrent /\ [Next]_vars => CopiesAreCurrent'
  <1> SUFFICES ASSUME TypeOK, CopiesAreCurrent, [Next]_vars,
                      NEW q \in Requests, Overwrites(q)'
               PROVE  IsItsWrite(q)'
    BY DEF CopiesAreCurrent
  <1>1. CASE UNCHANGED vars
    <2>1. ApiStep
      BY <1>1 DEF vars, ApiStep, api
    <2> QED
      BY <1>1, <2>1, BystanderStep DEF vars
  <1>2. ASSUME Next
        PROVE  IsItsWrite(q)'
    <2>1. ApiStep
      BY <1>2, ApiSteps
    <2>2. CASE UNCHANGED <<call, pc, cm>>
      BY <2>1, <2>2, BystanderStep
    <2>3. ASSUME NEW p \in Requests, Handler(p)
          PROVE  IsItsWrite(q)'
      <3>1. CASE q = p
        <4>1. pc'[p] \in {"probe", "write"}
          BY <3>1 DEF Overwrites
        <4>2. ~\E s \in {200, 404, 409, 500} : Answer(p, s)
          BY <4>1 DEF Answer, TypeOK
        <4>3. ~Continue(p, "create", NoConfigMap)
          BY <4>1 DEF Continue, TypeOK
        <4>4. CASE /\ pc[p] \in {"read", "create"}
                   /\ configMap' \in ConfigMaps /\ Loaded(p, configMap')
          <5>1. call[p].op \in Operations
            BY <4>4 DEF TypeOK, Calls
          <5>2. UNCHANGED call
            BY <4>4, <5>1, LoadedCases DEF Answer, Continue
          <5> QED
            BY <3>1, <4>4, <5>1, <5>2, LoadedStep DEF TypeOK
        <4>5. CASE ProbeCluster(p)
          BY <3>1, <4>5, ProbedStep
        <4> QED
          BY <2>3, <4>2, <4>3, <4>4, <4>5, HandlerEffects
      <3>2. CASE q # p
        BY <2>1, <2>3, <3>2, BystanderStep, HandlerLocal
      <3> QED
        BY <3>1, <3>2
    <2>4. ASSUME NEW p \in Requests, NEW c \in Calls, NEW hit \in BOOLEAN,
                 Arrive(p, c, hit)
          PROVE  IsItsWrite(q)'
      <3>1. CASE q = p
        BY <2>4, <3>1 DEF Arrive, Overwrites, TypeOK
      <3>2. CASE q # p
        <4>1. call'[q] = call[q] /\ pc'[q] = pc[q] /\ cm'[q] = cm[q]
          BY <2>4, <3>2 DEF Arrive, TypeOK
        <4> QED
          BY <2>1, <4>1, BystanderStep
      <3> QED
        BY <3>1, <3>2
    <2> QED
      BY <1>2, <2>2, <2>3, <2>4 DEF Next, OperatorDelete, WatcherCreate
  <1> QED
    BY <1>1, <1>2
-----------------------------------------------------------------------------
(***************************************************************************)
(* What reaches the store.                                                 *)
(***************************************************************************)
\* An Update that passes the version check.
Commits(p) ==
    /\ pc[p] = "write" /\ configMap # NoConfigMap /\ Current(cm[p])
    /\ configMap' = [cm[p] EXCEPT !.resourceVersion = revision + 1]

\* It stores one legal request on the contents of this instant.
LEMMA CommitEffect ==
    ASSUME TypeOK, CopiesAreCurrent, NEW p \in Requests, Commits(p)
    PROVE  /\ configMap' # NoConfigMap /\ configMap \in ConfigMaps
           /\ call[p] \in Calls
           /\ call[p].op \in {"addCluster", "removeCluster",
                             "updateCluster", "applyCluster"}
           /\ call[p].op = "addCluster" => ~Known(p, configMap)
           /\ call[p].op \in {"removeCluster", "updateCluster"} =>
                Known(p, configMap)
           /\ call[p].op \in {"updateCluster", "applyCluster"} =>
                ~SameKubeconfig(p, configMap)
           /\ IF call[p].op = "removeCluster"
              THEN configMap'.binaryData = Rest(p)
              ELSE \E uid \in Answers[call[p].kubeconfig] :
                     /\ ~UidTaken(Rest(p), uid)
                     /\ configMap'.binaryData
                          = Put(Rest(p), call[p].code, NewEntry(p, uid))
  <1>1. IsItsWrite(p)
    BY DEF Commits, Overwrites, CopiesAreCurrent
  <1>2. cm[p] \in ConfigMaps /\ configMap \in ConfigMaps /\ call[p] \in Calls
    BY DEF Commits, TypeOK
  <1>3. configMap' \in ConfigMaps /\ configMap'.binaryData = cm[p].binaryData
    BY <1>2 DEF Commits, ConfigMaps, TypeOK
  <1>4. call[p].op \notin {"getCluster", "getClusters"}
    BY DEF Commits, TypeOK
  <1>5. pc[p] # "probe"
    BY DEF Commits
  <1> QED
    BY <1>1, <1>2, <1>3, <1>4, <1>5, NoConfigMapAssumption
    DEF IsItsWrite, Calls, Operations

\* An answer is final: the request keeps it and is not handled again.
LEMMA AnswerStays ==
    ASSUME TypeOK, [Next]_vars, NEW q \in Requests, pc[q] = "done"
    PROVE  call'[q] = call[q] /\ status'[q] = status[q]
  <1>1. ASSUME NEW p \in Requests, Handler(p)
        PROVE  call'[q] = call[q] /\ status'[q] = status[q]
    <2>1. p # q
      BY <1>1, HandlerEffects
    <2> QED
      BY <1>1, <2>1, HandlerLocal
  <1>2. ASSUME NEW p \in Requests, NEW c \in Calls, NEW hit \in BOOLEAN,
               Arrive(p, c, hit)
        PROVE  call'[q] = call[q] /\ status'[q] = status[q]
    BY <1>2 DEF Arrive, TypeOK
  <1> QED
    BY <1>1, <1>2 DEF Next, OperatorDelete, WatcherCreate, vars

\* A handler leaves the API server alone, creates the ConfigMap, or commits.
LEMMA HandlerStores ==
    ASSUME NEW p \in Requests, Handler(p)
    PROVE  \/ UNCHANGED api
           \/ configMap = NoConfigMap /\ Create
           \/ /\ Commits(p) /\ revision' = revision + 1
              /\ \E s \in {200, 500} : Answer(p, s)
  BY HandlerCases DEF ReadConfigMap, CreateConfigMap, ProbeCluster,
     WriteConfigMap, Fail, Commits

\* Nothing else changes the contents but the operator and the local file.
LEMMA StoreCases ==
    ASSUME TypeOK, Next
    PROVE  \/ configMap' = configMap
           \/ configMap' = NoConfigMap
           \/ configMap = NoConfigMap /\ configMap' = CreatedFromLocal
           \/ \E p \in Requests : Commits(p)
  <1>1. ASSUME NEW p \in Requests, Handler(p)
        PROVE  \/ configMap' = configMap
               \/ configMap = NoConfigMap /\ configMap' = CreatedFromLocal
               \/ Commits(p)
    BY <1>1, HandlerStores DEF Create, api
  <1> QED
    BY <1>1 DEF Next, Arrive, OperatorDelete, WatcherCreate, Create

LEMMA CreatedContents ==
    ASSUME TypeOK
    PROVE  Contents(CreatedFromLocal) = LocalInfos
  <1>1. CreatedFromLocal \in ConfigMaps
    BY LocalInfosAssumption DEF CreatedFromLocal, ConfigMaps, TypeOK
  <1> QED
    BY <1>1, NoConfigMapAssumption DEF Contents, CreatedFromLocal

LEMMA EmptyIsFine == DistinctUids(EmptyRegistry) /\ UidsMatch(EmptyRegistry)
  BY DEF DistinctUids, UidsMatch, EmptyRegistry

LEMMA UidsStep ==
    TypeOK /\ CopiesAreCurrent /\ UidsDistinct /\ UidsBelong /\ [Next]_vars
    => UidsDistinct' /\ UidsBelong'
  <1> SUFFICES ASSUME TypeOK, CopiesAreCurrent, UidsDistinct, UidsBelong,
                      [Next]_vars
               PROVE  UidsDistinct' /\ UidsBelong'
    OBVIOUS
  <1>1. CASE configMap' = configMap
    BY <1>1 DEF UidsDistinct, UidsBelong, Contents
  <1>2. CASE configMap' = NoConfigMap
    BY <1>2, EmptyIsFine DEF UidsDistinct, UidsBelong, Contents
  <1>3. CASE configMap' = CreatedFromLocal
    <2>1. Contents(configMap)' = LocalInfos
      BY <1>3, CreatedContents DEF Contents
    <2> QED
      BY <2>1 DEF UidsDistinct, UidsBelong
  <1>4. ASSUME NEW p \in Requests, Commits(p)
        PROVE  UidsDistinct' /\ UidsBelong'
    <2> DEFINE data == configMap.binaryData
               code == call[p].code
    <2>1. /\ configMap # NoConfigMap /\ configMap' # NoConfigMap
          /\ configMap \in ConfigMaps /\ call[p] \in Calls
      BY <1>4, CommitEffect DEF Commits
    <2>2. /\ Contents(configMap) = data
          /\ Contents(configMap)' = configMap'.binaryData
          /\ data \in Registries
      BY <2>1 DEF Contents, ConfigMaps
    <2>3. /\ Rest(p) = Drop(data, code) /\ Rest(p) \in Registries
          /\ DistinctUids(data) => DistinctUids(Rest(p))
          /\ UidsMatch(data) => UidsMatch(Rest(p))
      BY <2>2, DropType, DropKeeps DEF Rest
    <2>4. CASE configMap'.binaryData = Rest(p)
      BY <2>2, <2>3, <2>4 DEF UidsDistinct, UidsBelong
    <2>5. ASSUME NEW uid \in Answers[call[p].kubeconfig],
                 ~UidTaken(Rest(p), uid),
                 configMap'.binaryData = Put(Rest(p), code, NewEntry(p, uid))
          PROVE  UidsDistinct' /\ UidsBelong'
      <3>1. /\ NewEntry(p, uid) \in ClusterInfo
            /\ NewEntry(p, uid).id = uid
            /\ NewEntry(p, uid).kubeconfig = call[p].kubeconfig
        BY <2>1, AnswersAssumption DEF NewEntry, ClusterInfo, Calls
      <3>2. code \notin DOMAIN Rest(p)
        BY <2>3 DEF Drop, Restrict
      <3>3. DistinctUids(Rest(p)) => DistinctUids(configMap'.binaryData)
        BY <2>3, <2>5, <3>1, <3>2, PutDistinct
      <3>4. UidsMatch(Rest(p)) => UidsMatch(configMap'.binaryData)
        BY <2>3, <2>5, <3>1, PutMatches
      <3> QED
        BY <2>2, <2>3, <3>3, <3>4 DEF UidsDistinct, UidsBelong
    <2> QED
      BY <1>4, <2>4, <2>5, CommitEffect
  <1> QED
    BY <1>1, <1>2, <1>3, <1>4, StoreCases DEF vars
-----------------------------------------------------------------------------
(***************************************************************************)
(* The inductive invariant, and what follows from it.                      *)
(***************************************************************************)
LEMMA InitIInv == Init => IInv
  <1> SUFFICES ASSUME Init
               PROVE  IInv
    OBVIOUS
  <1> DEFINE first == [resourceVersion |-> 1, binaryData |-> LocalInfos]
  <1>1. /\ first \in ConfigMaps /\ first # NoConfigMap
        /\ first.resourceVersion = 1
    BY LocalInfosAssumption, NoConfigMapAssumption DEF ConfigMaps
  <1>2. configMap \in {NoConfigMap, first}
    BY DEF Init
  <1>3. TypeOK
    BY <1>1, <1>2, NoCallAssumption DEF Init, TypeOK, Phases, Statuses
  <1>4. CopiesAreCurrent
    BY DEF Init, CopiesAreCurrent, Overwrites
  <1>5. Contents(configMap) \in {EmptyRegistry, LocalInfos}
    BY <1>1, <1>2 DEF Contents
  <1> QED
    BY <1>3, <1>4, <1>5, EmptyIsFine DEF IInv, UidsDistinct, UidsBelong

LEMMA NextIInv == IInv /\ [Next]_vars => IInv'
  BY TypeStep, CopiesStep, UidsStep DEF IInv

THEOREM Invariance == Spec => []IInv
  BY InitIInv, NextIInv, PTL DEF Spec

\* Every value the handlers and the API server ever hold has its type.
THEOREM TypeCorrect == Spec => []TypeOK
  <1>1. IInv => TypeOK
    BY DEF IInv
  <1> QED
    BY <1>1, Invariance, PTL

\* A handler whose Update will be accepted writes its own legal request on
\* the current contents (addCluster, removeCluster, updateCluster and
\* applyCluster, however many run at once).
THEOREM WritesAreCurrent == Spec => []CopiesAreCurrent
  <1>1. IInv => CopiesAreCurrent
    BY DEF IInv
  <1> QED
    BY <1>1, Invariance, PTL

\* No cluster is ever registered under two codes.
THEOREM NoDuplicates == Spec => []UidsDistinct
  <1>1. IInv => UidsDistinct
    BY DEF IInv
  <1> QED
    BY <1>1, Invariance, PTL

\* No stored UID ever belongs to another cluster than the stored kubeconfig.
THEOREM NoMismatch == Spec => []UidsBelong
  <1>1. IInv => UidsBelong
    BY DEF IInv
  <1> QED
    BY <1>1, Invariance, PTL
-----------------------------------------------------------------------------
(***************************************************************************)
(* The handlers implement AtomicRegistry: the accepted Update is the       *)
(* instant at which a write takes effect, the read of the ConfigMap the    *)
(* instant of every other 200, and the rest stutters or refuses.           *)
(***************************************************************************)
\* A handler that answers without a write of its own resolves its request.
LEMMA Resolves ==
    ASSUME TypeOK, NEW p \in Requests, Handler(p), NEW data,
           \/ \E s \in {404, 409, 500} : Answer(p, s)
           \/ Answer(p, 200) /\ Promise!Settled(call[p], data)
           \/ \E step, copy : Continue(p, step, copy)
    PROVE  Promise!Resolve(p, data)
  <1>1. pc[p] \in {"read", "create", "probe", "write"}
    BY HandlerEffects
  <1>2. Promise!Serving(p)
    BY <1>1, SameOperators DEF Promise!Serving, TypeOK
  <1> QED
    BY <1>2 DEF Promise!Resolve, Promise!Refusals, Answer, Continue

LEMMA LoadedResolves ==
    ASSUME TypeOK, NEW p \in Requests, Handler(p), NEW copy, Loaded(p, copy)
    PROVE  Promise!Resolve(p, copy.binaryData)
  <1>1. call[p].op \in Operations
    BY HandlerEffects DEF TypeOK, Calls
  <1> QED
    BY <1>1, LoadedCases, Resolves

\* The accepted Update is the abstract Commit.
LEMMA CommitStep ==
    ASSUME TypeOK, CopiesAreCurrent, NEW p \in Requests, Commits(p),
           NEW s \in {200, 500}, Answer(p, s)
    PROVE  \E uid \in Uids : Promise!Commit(p, uid)
  <1> DEFINE data == configMap.binaryData
             code == call[p].code
             c == call[p]
  <1>1. /\ configMap # NoConfigMap /\ configMap' # NoConfigMap
        /\ configMap \in ConfigMaps /\ call[p] \in Calls
    BY CommitEffect DEF Commits
  <1>2. /\ Contents(configMap) = data
        /\ Contents(configMap)' = configMap'.binaryData
        /\ data \in Registries /\ Rest(p) = Drop(data, code)
    BY <1>1 DEF Contents, ConfigMaps, Rest
  <1>3. Promise!Serving(p)
    BY <1>1, SameOperators DEF Promise!Serving, Commits, TypeOK
  <1>4. UNCHANGED call
        /\ \E t \in {200, 500} : status' = [status EXCEPT ![p] = t]
    BY DEF Answer
  <1>5. CASE c.op = "removeCluster"
    <2>1. code \in DOMAIN data /\ configMap'.binaryData = Drop(data, code)
      BY <1>2, <1>5, CommitEffect DEF Known
    <2>2. PICK uid \in Uids : uid = data[code].id
      BY <1>2, <2>1, RegistryElim DEF ClusterInfo
    <2>3. Promise!Legal(c, uid)
      BY <1>2, <1>5, <2>1 DEF Promise!Legal
    <2>4. Contents(configMap)' = Promise!Effect(c, uid)
      BY <1>2, <1>5, <2>1, SameOperators DEF Promise!Effect
    <2> QED
      BY <1>3, <1>4, <2>3, <2>4 DEF Promise!Commit
  <1>6. CASE c.op # "removeCluster"
    <2>1. PICK uid \in Answers[c.kubeconfig] :
            /\ ~UidTaken(Rest(p), uid)
            /\ configMap'.binaryData = Put(Rest(p), code, NewEntry(p, uid))
      BY <1>6, CommitEffect
    <2>2. uid \in Uids
      BY <1>1, AnswersAssumption DEF Calls
    <2>3. Contents(configMap)' = Put(data, code, NewEntry(p, uid))
      BY <1>2, <2>1, PutAfterDrop
    <2>4. Contents(configMap)' = Promise!Effect(c, uid)
      BY <1>2, <1>6, <2>3, SameOperators DEF Promise!Effect, NewEntry
    <2>5. Promise!Legal(c, uid)
      <3>1. CASE c.op = "addCluster"
        <4>1. code \notin DOMAIN data
          BY <3>1, CommitEffect DEF Known
        <4>2. Rest(p) = data
          BY <1>2, <4>1, DropAbsent
        <4> QED
          BY <1>2, <2>1, <3>1, <4>1, <4>2, SameOperators DEF Promise!Legal
      <3>2. CASE c.op = "updateCluster"
        <4>1. code \in DOMAIN data
          BY <3>2, CommitEffect DEF Known
        <4> QED
          BY <1>2, <2>1, <3>2, <4>1, SameOperators DEF Promise!Legal
      <3>3. CASE c.op = "applyCluster"
        BY <1>2, <2>1, <3>3, SameOperators DEF Promise!Legal
      <3> QED
        BY <1>6, <3>1, <3>2, <3>3, CommitEffect
    <2> QED
      BY <1>3, <1>4, <2>2, <2>4, <2>5 DEF Promise!Commit
  <1> QED
    BY <1>5, <1>6

LEMMA HandlerStep ==
    ASSUME TypeOK, CopiesAreCurrent, NEW p \in Requests, Handler(p)
    PROVE  \/ Promise!Reply(p)
           \/ Promise!SeedFor(p)
           \/ \E uid \in Uids : Promise!Commit(p, uid)
  <1>1. \A copy \in ConfigMaps : Contents(copy) = copy.binaryData
    BY NoConfigMapAssumption DEF Contents
  <1>2. ASSUME UNCHANGED api, Promise!Resolve(p, Contents(configMap))
        PROVE  Promise!Reply(p)
    BY <1>2 DEF Promise!Reply, api
  <1>3. CASE ReadConfigMap(p)
    <2>1. CASE configMap # NoConfigMap
      BY <1>1, <1>2, <1>3, <2>1, LoadedResolves DEF ReadConfigMap, TypeOK
    <2>2. CASE configMap = NoConfigMap
      BY <1>2, <1>3, <2>2, Resolves DEF ReadConfigMap
    <2> QED
      BY <2>1, <2>2
  <1>4. CASE CreateConfigMap(p)
    <2>1. CASE UNCHANGED api /\ Answer(p, 409)
      BY <1>2, <2>1, Resolves
    <2>2. ASSUME configMap = NoConfigMap, Create,
                 Promise!Resolve(p, LocalInfos)
          PROVE  Promise!SeedFor(p)
      <3>1. Contents(configMap) = EmptyRegistry
        BY <2>2 DEF Contents
      <3>2. Contents(configMap)' = LocalInfos
        BY <2>2, CreatedContents DEF Create, Contents
      <3> QED
        BY <2>2, <3>1, <3>2, SameOperators DEF Promise!SeedFor
    <2>3. CASE configMap = NoConfigMap /\ Create /\ Loaded(p, CreatedFromLocal)
      BY <2>2, <2>3, LoadedResolves DEF CreatedFromLocal
    <2>4. CASE configMap = NoConfigMap /\ Create /\ Answer(p, 500)
      BY <2>2, <2>4, Resolves
    <2> QED
      BY <1>4, <2>1, <2>2, <2>3, <2>4 DEF CreateConfigMap
  <1>5. CASE ProbeCluster(p)
    <2>1. UNCHANGED api
      BY <1>5 DEF ProbeCluster
    <2>2. \/ Answer(p, 409)
          \/ \E copy : Continue(p, "write", copy)
      BY <1>5 DEF ProbeCluster
    <2> QED
      BY <1>2, <2>1, <2>2, Resolves
  <1>6. CASE WriteConfigMap(p)
    <2>1. CASE UNCHANGED api /\ (Answer(p, 404) \/ Answer(p, 409))
      BY <1>2, <2>1, Resolves
    <2>2. CASE Commits(p) /\ \E s \in {200, 500} : Answer(p, s)
      BY <2>2, CommitStep
    <2> QED
      BY <1>6, <2>1, <2>2 DEF WriteConfigMap, Commits
  <1>7. CASE Fail(p)
    BY <1>2, <1>7, Resolves DEF Fail
  <1> QED
    BY <1>3, <1>4, <1>5, <1>6, <1>7, HandlerCases

LEMMA RefinementStep ==
    TypeOK /\ CopiesAreCurrent /\ [Next]_vars => [Promise!Next]_(Promise!vars)
  <1> SUFFICES ASSUME TypeOK, CopiesAreCurrent, [Next]_vars
               PROVE  Promise!Next \/ UNCHANGED Promise!vars
    OBVIOUS
  <1>1. CASE UNCHANGED vars
    BY <1>1 DEF vars, Promise!vars, Contents
  <1>2. ASSUME NEW p \in Requests, Handler(p)
        PROVE  Promise!Next
    BY <1>2, HandlerStep DEF Promise!Next
  <1>3. ASSUME NEW p \in Requests, NEW c \in Calls, NEW hit \in BOOLEAN,
               Arrive(p, c, hit)
        PROVE  Promise!Next
    <2>1. Admission(c.op, hit) \in {0} \cup Promise!Refusals
      BY DEF Admission, Promise!Refusals
    <2>2. call[p] = NoCall
      BY <1>3 DEF Arrive, TypeOK
    <2>3. Promise!Accept(p, c)
      BY <1>3, <2>1, <2>2 DEF Arrive, Promise!Accept, Contents
    <2> QED
      BY <2>3, SameOperators DEF Promise!Next
  <1>4. CASE OperatorDelete
    BY <1>4, SameOperators
    DEF OperatorDelete, Promise!Next, Promise!Wipe, Contents
  <1>5. CASE WatcherCreate
    BY <1>5, CreatedContents, SameOperators
    DEF WatcherCreate, Create, Promise!Next, Promise!Seed, Contents
  <1> QED
    BY <1>1, <1>2, <1>3, <1>4, <1>5 DEF Next

LEMMA RefinementInit == Init => Promise!Init
  <1> SUFFICES ASSUME Init
               PROVE  Promise!Init
    OBVIOUS
  <1>1. [resourceVersion |-> 1, binaryData |-> LocalInfos] # NoConfigMap
    BY LocalInfosAssumption, NoConfigMapAssumption DEF ConfigMaps
  <1>2. Contents(configMap) \in {EmptyRegistry, LocalInfos}
    BY <1>1 DEF Init, Contents
  <1> QED
    BY <1>2, SameOperators DEF Init, Promise!Init

\* The handlers, with their snapshots, version checks, races and lost
\* responses, implement the registry on which every request is atomic.
THEOREM RegistryIsAtomic == Spec => ImplementsAtomicRegistry
  <1>1. IInv /\ [Next]_vars => [Promise!Next]_(Promise!vars)
    BY RefinementStep DEF IInv
  <1> QED
    BY <1>1, RefinementInit, Invariance, PTL
    DEF Spec, ImplementsAtomicRegistry, Promise!Spec
=============================================================================
