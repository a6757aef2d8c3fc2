# hcnmp in TLA+

hcnmp is an HTTP service that manages many Kubernetes clusters from one *hub*
cluster. Several replicas run in the hub. The clusters they manage are
registered in one ConfigMap of the hub; every replica keeps a client for each
registered cluster in memory and refreshes that cache by watching the
ConfigMap. This directory specifies the parts of it that keep state or run
concurrently and checks them with TLC; what the checks show of small instances,
short of liveness, TLAPS proves for all.

Paths below are relative to the repository's `src/`.

## The system

| Component | State | Operations | Speaks to |
|---|---|---|---|
| **Cluster registry handlers** (`pkg/server/handlers/clusters`) | none of their own: the ConfigMap, by read-modify-write | add, remove, update, apply, get one, get all | the hub's API server, the cluster being registered, the cache (admission) |
| **ConfigMap creation** (`pkg/utils/utils.go`) | none | build the ConfigMap from `--local-cluster-info` | called by handlers, watcher, startup |
| **Client cache and watcher** (`pkg/zone/proxy`) | two `sync.Map`s, the open watch, two retry channels of capacity one | `InitProxy`, the `watchConfig` goroutine (watch, rebuild, renew, synchronise) | the hub's API server, every registered cluster |
| **Pods of a deployment** (`handlers/server/deployment.go`, `pkg/utils/deployment.go`, `helper.go`) | locals of one request, shared by two goroutines | list ReplicaSets and pods in parallel, filter by owner | one managed cluster |
| **Deployment restart** (`handlers/server/deployment.go`, `pkg/utils/status.go`, `controller_status.go`) | locals of one request | relabel, then watch until ready | one managed cluster |
| **Replica startup** (`cmd/cmd.go`) | none | create namespace and ConfigMap, or apply the local file to it; start the cache, then the server | the hub's API server |
| **Request pipeline** (`pkg/server/server.go`, `middleware/`, `handlers/server/proxy.go`) | Prometheus counters | log, recover, count, authenticate, dispatch | every handler |
| **Node and pod handlers** (`handlers/server/node.go`, `pod.go`) | none | one API call and a conversion each | one managed cluster |
| **Client construction and configuration** (`zone/clientset`, `apis/config`, `utils/configmap.go`) | none | build clients, parse kubeconfigs | - |

How they interact. A handler of `/apis/cluster/v1` asks its replica's cache
whether a code is known, then works on the ConfigMap only. Its write becomes a
watch event at every replica, whose goroutine asks *every* registered cluster
for its UID and then replaces the whole cache. A business handler (nodes,
pods, deployments) finds its client in the cache, by code, at any moment of
that replacement. The ConfigMap may also be created by a watcher or a starting
replica, and deleted by an operator.

What is hard about it:

* *Concurrency over the ConfigMap.* Handlers write back a whole copy they read
  before a remote call. Only the API server's version check stands between
  them; the check for duplicate UIDs is made on the copy.
* *Lost answers and failures.* Any call may fail, and a write may take effect
  although its caller sees an error.
* *The watcher's life.* Watches end, fail and lose events; the ConfigMap is
  deleted and rebuilt, by several replicas at once; one failed probe ends a
  synchronisation; tokens are sent to channels that only the sender reads.
* *Readers during a swap.* The cache is emptied and refilled entry by entry.
* *A data race.* Two goroutines assign to one `err`.
* *In-place removal* from a slice being iterated over.
* *Events of the past.* A restart watches a deployment that others restart,
  scale, delete and create at the same time.
* *Starts beside running replicas.* Each applies the local file to a registry
  that users have changed since.
* *Order of registration.* What a request passes through, and what a panic
  skips, depends on the order of a few calls.

The properties that make each part correct:

* registry: it behaves as a map on which requests are atomic; no cluster is
  registered twice; the stored UID belongs to the stored kubeconfig;
* cache: it shows one version of the registry at a time, never an older one
  than before, and in the end the current one; the watcher never stops;
* pods: an answer lists exactly the deployment's pods, errors are neither lost
  nor invented, the request ends;
* restart: 200 means that the new pods run; startup: what starts next to a
  running system leaves its registry correct; pipeline: one response per
  request, counted once.

`PROJECT.json` lists 36 hazards at their lines, with the properties that cover
each, or why none does yet.

## The modules

| Module | What it is |
|---|---|
| `RegistryData` | the registry as data: codes, ClusterInfo, ConfigMap objects, and the few operators on them |
| `AtomicRegistry` | the promise: a registry on which each request takes effect at one instant or not at all |
| `ClusterRegistry` | the six handlers, any number of requests, any number of replicas |
| `ClusterProxy` | the caches and watchers of the replicas |
| `PodData` | ReplicaSets and pods, and what the filter is to return |
| `PodListing` | `listPodOfDeployment` and the two goroutines of `ListDeploymentPods` |
| `OwnerFilter` | the two filter loops under it |
| `DeploymentRestart` | `restartDeployment`, the status rule, and the users and the controller around it |
| `ReplicaStartup` | how replicas start: namespace, ConfigMap, local file |
| `RequestPipeline` | middleware, panics, counting, authentication, and the small handlers |
| `Hcnmp` | the composition of `ClusterRegistry` and `ClusterProxy` |
| `ClusterRegistryProofs`, `ClusterProxyProofs`, `DeploymentRestartProofs`, `ReplicaStartupProofs`, `RequestPipelineProofs`, `HcnmpProofs` | what TLAPS proves about the module of that name |
| `PodListingProofs` | the same for `PodListing` and `OwnerFilter` |
| `RegistryLemmas` | facts about the operators of `RegistryData` that several of these need |
| `MC*` | instances for TLC |

`ClusterRegistry` and `ClusterProxy` meet at the ConfigMap and at the cache.
Each takes the other by its interface: `ClusterRegistry` lets the cache answer
anything (`hit` in `Arrive`), so its properties hold with every cache, however
stale; `ClusterProxy` lets the registry move by exactly the writes that
`AtomicRegistry` allows, which `ClusterRegistry` is proved to implement.
`Hcnmp` puts them together and closes the circle: run with each other they
still behave as each specification says (theorems `HandlersSurroundings`,
`WatchersSurroundings`).
`PodListing` answers with `Filtered` of `PodData`, and the loops of
`OwnerFilter` return it (theorem `FilterIsRight`).

Operators marked `fault:` are mutated forms of the definition below them, the
kind of slip this code invites (a dropped guard, a missing return, a stale
index). No specification uses them; with one put in place of the original, TLC
finds the property that `PROJECT.json` names with it violated. Every checked
property has one.

### ClusterRegistry

One action per call the code makes to the API server or to a cluster, with the
local computation up to the next call. A handler's `pc` is the call it makes
next: `read` (Get), `create`, `probe` (Get of `kube-system` at the new
cluster), `write` (Update). `cm` is the ConfigMap object the handler holds and
edits.

| Code | Definition |
|---|---|
| `GetClusterPorxyClientFromCode` and the early returns on it | `Arrive`, `Admission` |
| `ConfigMaps.Get` and what follows | `ReadConfigMap`, `Loaded` and one `...Loaded` per handler |
| `CreateConfigMapsFromLocal` | `CreateConfigMap`, `CreatedFromLocal` |
| the UID request and the loop over the entries | `ProbeCluster`, `Conflicts`, `NewEntry` |
| `ConfigMaps.Update` | `WriteConfigMap`, `Current` |
| `servererror.HandleError` | `Answer`, `Fail` |

`updateCluster` and `applyCluster` differ in what they do with an unknown code
and an absent ConfigMap, and in nothing else. A 500 stands for every status
other than 200, 404 and 409. A ClusterInfo has no `Code` here, as it equals
its key everywhere. The kubeconfig is a value whose only attribute is which
UIDs the cluster behind it may report: none when it does not parse, several
when the cluster is rebuilt behind it.

### ClusterProxy

A replica is one goroutine, so one `phase`: the call to the API server it
makes next, the `select`, or a place inside `syncCodeClusterClient`. `InitProxy`
runs the same calls before the goroutine starts (`boot...`), `watchcm` on a
`Deleted` or `Error` event (`rebuild...`), `newClustersAndWatch` when the watch
is closed or a `retryNew` token is received (`renew...`). They differ in how
they fail: `watchcm` panics through `utilruntime.Must` and `InitProxy` returns
its error to `main`, so the process ends; `newClustersAndWatch` returns its
error, and the goroutine leaves a token and returns. `Found`
and `ApiError` say which.

Each `Delete` and `Store` on `codeClusterClient` is a step, because business
requests read the map between them. `idClusterClient` has no reader, so each
of its loops is one step. A send on a full channel is the phase `blocked`,
since the only receiver is the sender. The case `<-retrySync` has no action:
`RetryIsDead` shows that a token is never there when the `select` runs.

The API server appends to an event queue per open watch. Closing a watch loses
any suffix of it; a new watch starts with the object as it is (a list-watch
without a resourceVersion). `served` is a history variable. Events of the
outside world are counted against `Budget`, one bound per kind: `write`,
`delete`, `close`, `error` (a watch that fails), `fault` (a call or probe that
fails) and `kill` (a pod that dies).

### PodListing and OwnerFilter

`PodListing` follows both goroutines through List, the assignment of `err`, the
test and the send. The two goroutines' accesses to `err` are a data race, so
every outcome a build can produce is allowed: the interface value is written
word by word in either order, and each use reads the memory again or keeps the
value just assigned. That the metadata client returns a nil list with an error
and the typed client an empty one is client-go's behaviour; the panic on a nil
list becomes a 500 in gin's Recovery.

`OwnerFilter` has one step per iteration of the two loops of
`FilterDeploymentPodsByOwnerReference` and `FilterPodsByControllerRef`,
including the removal from `allPods` (`podList` here) under the index.
`ReturnsTheOwnedPods` fixes the result by its elements and their order, which
together leave one sequence; the prover cannot open `SelectSeq`, with which one
would write that sequence down.

### DeploymentRestart

The API server is the sequence of the deployment's watch events: the object of
the n-th has resourceVersion n, so that a watch from a version, the current
object and the version check of an Update are all read off one variable. Users
create, scale and delete the deployment; the controller reports any of
`Reports` on the latest object (a conflict refuses it on an older one).

| Code | Definition |
|---|---|
| `GetClusterPorxyClientFromCode`, `Deployments.Get` | `Lookup`, `Get` |
| the label, `Deployments.Update`, the test of the resourceVersion | `Update`, `Restarted`, `Accepts` |
| `op.ResourceVersion`, `Deployments.Watch` | `Watch`, `FirstSeen` |
| the loop over `wch.ResultChan()` | `ReceiveEvent`, `WatchEnds` |
| `DeploymentsEventStatusFromRuntime`, `deploymentStatus` | `EventReady`, `Ready` |

An event of type ERROR carries a metav1.Status, which does not convert to a
Deployment: the loop continues, and the channel is closed next, so it is a
`WatchEnds`. A deployment deleted and created anew during the watch is accepted
as the restarted one; `ReadyIsNotStale` says so by asking for equal UIDs.

### ReplicaStartup

`phase[r]` is the call replica `r` makes next. The ConfigMap is its entries
only: startup never sends a version back. Server-side apply without force fails
when an entry of the file has another value and another field manager. Whoever
changed an entry with Update became its manager, and the file is the same at
every start, so an entry has another value exactly when a handler changed it
(`Changed`); entries that are equal are owned by both. Handlers write as
`AtomicRegistry` says. A replica is `running` when `InitProxy` has left
`watchcm`; `ClusterProxy` goes on from there.

### RequestPipeline

A route has the middleware that was in use when it was registered (`Chain`);
`at[q]` is how deep request `q` is in it. A handler's calls to a cluster end in
one of four ways (`Outcomes`). `proxyCluster` does not return after an error,
so it writes two bodies when the API server sent one. `podNetConnectServer`
tries `curl`, then `nc` or `ping`. The sizes and durations that
`PromMiddleware` observes with the count are left out.

### Hcnmp

`EXTENDS ClusterProxy` and an instance of `ClusterRegistry` over the same
ConfigMap. `Admit` is `Arrive` with the replica's own map in place of `hit`;
`Handle` is a handler's step, its write broadcast to all watches; all steps of
`ClusterProxy` but its two stand-ins for handlers (`HandlerWrite`,
`HandlerCreate`) are kept. `at[p]` is the replica a request runs in: when that
exits, the request stops between two calls and is never answered
(`RequestsDie`).

## What is checked

| Run | Shows | States |
|---|---|---|
| `registry` | `UidsDistinct`, `UidsBelong`, `CopiesAreCurrent`, refinement of `AtomicRegistry` | 288,225 |
| `proxy` | one replica under every kind of trouble: `QuietMeansFresh`, `CacheIsOneSnapshot`, `RetryIsDead`, `StopsAreExplained`, `ServedMonotone`, `ConvergesUnlessStopped` | 1,414,334 |
| `proxy_fault` | the watcher that stops for good (see the findings) | - |
| `pods` | `NoAnswerWithoutReplicaSets`, `NamedPodsAreExact`, `ErrorsAreReal`, `NothingIsLeftRunning` | 5,059 |
| `pods_lost` | the lost error (see the findings) | - |
| `owner_filter` | `ReturnsTheOwnedPods`, `NoPodLostOrDoubled`, `Terminates` | 52,633 |
| `restart` | `ReadyIsNotStale`, `DeletionIsNotSuccess`, `UpdateKeepsTheRest`, `RequestEnds` | 1,639,692 |
| `restart_old_pods` | what a 200 does not say (see the findings) | - |
| `startup` | `DuplicatesComeFromTheFile`, `StartupKeepsEntries`, `StartsUnlessChanged` | 20,327 |
| `pipeline` | `CountersMatch`, `UnauthorizedCallsNothing`, `ConnectTellsTheTruth`, `OneBody`, `EveryRequestEnds` | 80,089 |
| `system` | `KeepsClusterRegistry`, `KeepsClusterProxy`: the composition implements both; `RefusalsAreFounded`, `RefusedIsNeverServed` | 813,374 |
| `system_converges` | two caches converge with a real handler writing and creating, a deletion, a race to rebuild and a killed pod | 801,779 |

A module with a `TypeOK` has it checked in the run of its name.

### Bounds

* `registry`: two requests of every operation, code and kubeconfig. Two is
  where interference begins; the theorems lift it to any number. Two codes and
  two UIDs suffice for an entry to be overwritten, revived or doubled; of the
  four kubeconfigs two reach the same cluster, one reaches a cluster that may
  have been rebuilt, one does not parse. `MaxRevision = 3` stops only the
  operator's deletions, so that a ConfigMap is deleted and rebuilt under a
  handler's copy. Requests are symmetric.
* `proxy`: one replica, as the properties speak of one and replicas meet only
  in the ConfigMap; two codes, so that an old and a new entry exist at once,
  two kubeconfigs whose clusters may report the same UID, two writes and one
  event of each other kind.
* `owner_filter`: every order of every list of at most five pods and three
  ReplicaSets, one of them foreign; five pods let matches be adjacent, first,
  last and split between two ReplicaSets.
* `restart`: two requests, so that the event of one is stale for the other; two
  times, so that they may also coincide; five versions before users and
  controller stop, enough to create, report, restart twice, scale or delete,
  and report on a deployment created anew.
* `startup`: two replicas race; two writes, one deletion, one failed call and
  two kills let a local entry be removed, its cluster registered under the
  other code and the file applied again.
* `pipeline`: two requests share the counter; every route, right and outcome.
* `system`: one replica, two symmetric requests out of `Menu`, which has every
  writer, one cluster under two codes and one code with two kubeconfigs; three
  writes, a deletion, a kill. `MaxRevision` is out of reach: `Budget` bounds
  writes and deletions, and `MaxRevisionAssumption` of `Hcnmp` asks that this
  keeps the revision below it. (The operator of `ClusterRegistry` deletes below
  `MaxRevision` only, that of `ClusterProxy` while `Budget` lasts: with the
  former out of reach, the first may do all that the second does.)
* `system_converges`: two replicas that race to create the ConfigMap at the
  start and again after its deletion; one request that creates it too, or
  changes its entry; two writes and a kill at any step. One code with two
  kubeconfigs is enough to tell an old cache from a new one; two codes, which
  make a swap visible half done, are in `proxy`. No watch closes in this run
  and no call fails: a failed call stops the watcher (`proxy_fault`), and so
  does a renewal that meets AlreadyExists. `proxy` has all of these, and says
  with `ConvergesUnlessStopped` and `StopsAreExplained` what they cost.

### Fairness

`ClusterProxy!FairSpec`: weak fairness of each replica's own steps (the
goroutine is scheduled, calls return) and of the restart of an exited
container, which the kubelet does. `PodListing!FairSpec`: weak fairness of the
handler and of each goroutine. `OwnerFilter`: weak fairness of the loop.
`DeploymentRestart!FairSpec`: weak fairness of each handler, which includes the
end of the watch, as the API server keeps to the TimeoutSeconds the handler
asks for; none of controller or users. `ReplicaStartup!FairSpec`: of each
replica's startup and restart. `RequestPipeline!FairSpec`: of each request's
goroutine. `Hcnmp!SystemFairSpec`: as `ClusterProxy!FairSpec`; none of
handlers, whose requests may hang for ever. No
fairness is assumed of users, operators, closed watches or failures; `Budget`
makes them finitely many, and then "ends up as the registry" is what
`Converges` says. The `select` may choose among ready cases; nothing requires
it to be fair between them, as each leads to a renewal.

`ClusterRegistry` has no liveness property: each handler is a straight line of
calls, and that it answers is only that calls return.

### Findings

Three statements of the repository that the code does not keep; each has a run
that ends in a counterexample.

1. *One cluster that does not answer once stops the cache for good*
   (`proxy_fault`, `pkg/zone/proxy/proxy.go:106`). The goroutine that sends to
   `retrySync` returns, so nobody is left to receive. README.md:39 promises
   consistency among the replicas.
2. *The error of a failed pod listing may be lost* (`pods_lost`,
   `pkg/utils/deployment.go:58`), and the answer is 200 with no pods.
3. *A restart is reported done before a new pod runs* (`restart_old_pods`,
   `pkg/utils/controller_status.go:123`): `updatedReplicas` is not compared. The
   controller's first report on the changed template, made when it has scaled
   the new ReplicaSet but counted only the old pods, has the new
   observedGeneration, the full number of available pods and Available.

Further behaviour that a reader may not expect. Here the properties draw the
line around it, and hold:

* *A replica that loses the race to create the ConfigMap panics*
  (`proxy.go:65`), where the comment says "Rebuild until successful". With a
  kubelet to restart it, it recovers (`Converges`, `StartsUnlessChanged`).
* *Registered clusters disappear during every synchronisation*
  (`proxy.go:180`): the map is cleared before it is filled, and the mutex is
  local to the call. `CacheIsOneSnapshot` says that this is all: what is found
  is of one version.
* *A cache that is behind refuses wrongly* (`clusters.go:42`): a handler asks
  its replica's cache, not the ConfigMap, whether a code is known.
  `RefusalsAreFounded` and `QuietMeansFresh` say only when this cannot happen:
  while the watcher waits on an open watch with nothing undelivered; how long it
  may last is `Converges`.
* *Two troubles in a row block the watcher* (`proxy.go:96`): a deletion, a
  failed watch or a failed call each leave a token, and the channel has room
  for one. `StopsAreExplained`: one alone never does.
* *A removed cluster of the local file comes back* (`cmd/cmd.go:153`) at the
  next start of any replica, also when it has been registered under another
  code since: then it is registered twice, which the handlers refuse.
  `DuplicatesComeFromTheFile`: there is no other way to two codes of one
  cluster. `UidsDistinct` of `ClusterRegistry` (theorem `NoDuplicates`) is about
  the handlers, the watchers and the operator's deletions; it does not hold of
  a system whose replicas restart with a local file.
* *A user who changes an entry of the local file keeps replicas from starting*
  (`cmd/cmd.go:153`): the apply conflicts. `StartsUnlessChanged`: nothing else
  does.
* *Errors of a proxied cluster have two bodies*
  (`handlers/server/proxy.go:62`). `OneBody`: no other response has.

## What is proved

Every safety invariant and every action property that a passing run checks is a
theorem too, for every set of requests, replicas, codes, kubeconfigs, UIDs,
pods, sizes and times, every local file and every bound.

| Module | Theorem | Statement |
|---|---|---|
| `ClusterRegistryProofs` | `TypeCorrect` | `Spec => []TypeOK` |
| | `WritesAreCurrent` | `Spec => []CopiesAreCurrent` |
| | `NoDuplicates` | `Spec => []UidsDistinct` |
| | `NoMismatch` | `Spec => []UidsBelong` |
| | `RegistryIsAtomic` | `Spec => ImplementsAtomicRegistry` |
| `ClusterProxyProofs` | `TypeCorrect` | `Spec => []TypeOK` |
| | `RetryNeverReceived` | `Spec => []RetryIsDead` |
| | `OneSnapshot` | `Spec => []CacheIsOneSnapshot` |
| | `QuietIsFresh` | `Spec => []QuietMeansFresh` |
| | `NeverGoesBack` | `Spec => ServedMonotone` |
| | `StopsExplained` | `Spec => []StopsAreExplained`, assuming `LocalParses` |
| `HcnmpProofs` | `HandlersSurroundings` | `SystemSpec => KeepsClusterRegistry` |
| | `WatchersSurroundings` | `SystemSpec => KeepsClusterProxy` |
| | `HalvesKeepTheirPromises` | what is proved of the halves holds of `SystemSpec` |
| | `DoorIsRight` | `SystemSpec => RefusalsAreFounded` |
| | `RefusedNeverServed` | `SystemSpec => []RefusedIsNeverServed` |
| `PodListingProofs` | `TypeCorrect` | `Spec => []TypeOK` |
| | `NilListPanics` | `Spec => []NoAnswerWithoutReplicaSets` |
| | `ExactOrEmpty` | `Spec => []NamedPodsAreExact` |
| | `NoErrorIsInvented` | `Spec => []ErrorsAreReal` |
| | `PodsStayOnce` | `FilterSpec => []NoPodLostOrDoubled` |
| | `FilterIsRight` | `FilterSpec => []ReturnsTheOwnedPods` |
| `DeploymentRestartProofs` | `TypeCorrect` | `Spec => []TypeOK` |
| | `NeverStale` | `Spec => []ReadyIsNotStale` |
| | `DeletionNeverCounts` | `Spec => []DeletionIsNotSuccess` |
| | `OnlyTheLabelChanges` | `Spec => UpdateKeepsTheRest` |
| `ReplicaStartupProofs` | `TypeCorrect` | `Spec => []TypeOK` |
| | `OnlyTheFileDoubles` | `Spec => []DuplicatesComeFromTheFile` |
| | `StartupTakesNothing` | `Spec => StartupKeepsEntries` |
| `RequestPipelineProofs` | `TypeCorrect` | `Spec => []TypeOK` |
| | `CountersTell` | `Spec => []CountersMatch` |
| | `NothingUnasked` | `Spec => []UnauthorizedCallsNothing` |
| | `ConnectIsTrue` | `Spec => []ConnectTellsTheTruth` |
| | `AtMostOneBody` | `Spec => []OneBody` |

### The arguments

Most of these properties are not inductive. Each module's invariant was checked
by TLC on the instance of its run before it was proved.

*Registry.* A handler checks UIDs on its copy, long before it writes. What
makes the check count is that the version is compared at the write. So the
strengthening is about the copies: `CopiesAreCurrent` says that a copy whose
version is still the current one is the current contents with the handler's own
change and no other, that this changes something, and that the UID in it was
checked against all other entries of these contents. It is inductive together
with `TypeOK` (which bounds every copy's version by the API server's revision,
so that a version once passed never comes back, not even after the ConfigMap
was deleted and built again). From it follow the two UID invariants and, step
by step, the refinement: the write with a current version is the atomic
request, every other step is a refusal, an operator's action or a stutter.

*Cache.* `IInv` speaks of one replica at a time. `Line`: what it serves, what
it works on, the undelivered events and the ConfigMap are in the order of their
versions, across lost watches, deletions and new watches; this is
`ServedMonotone`. `Fresh`: the last undelivered event of an open watch is the
ConfigMap as it is, and if there is none, the version being worked on; this is
`QuietMeansFresh`. `Snapshot`: how far the swap is, by phase; this is
`CacheIsOneSnapshot`. A step is described once as the replica sees it (another
replica's step, an event appended, its own call), and each part is kept by each
of these views. `StopsAreExplained` needs an account: every token, every
blocked send and every stopped goroutine is paid for by outside events that
`spent` has counted (`Counted`), and every kubeconfig in reach parses
(`Answerable`), so that a probe can succeed.

*System.* Each half assumes of its surroundings what the other does, so neither
refinement can be proved first. `SystemInv` is both halves' invariants at once
with `Bounded`: every revision is paid for by the budget, which keeps the
registry's own bound out of reach. A handler's write is one legal change of one
entry because of the registry's invariant; the watchers' writes and the
operator's are those `ClusterRegistry` allows because of the cache's. Then
every step is a step of both halves, and `HalvesKeepTheirPromises` carries over
what was proved of each. `RefusedIsNeverServed` follows from `AllFounded`:
every version a replica holds or has still to receive has only kubeconfigs of
the local file or of requests that were not refused.

*Pods.* Whatever words of `err` the race mixes, they come from the two
goroutines' own errors: without a failure there is only nil to read, to test and
to send (`Clean`), and with one, the list that came with it is nil or empty
(`Outcomes`). So a lost error leads to a panic or to an empty answer, never to
a wrong one.

*Filter loops.* `Places` says for each listed pod whether it is unmatched, found
or returned, by the indices; `Orders` that each of the three lists keeps the
order of the listing. Strict order rules out duplicates, so both properties
follow. No recursion is needed, since no definition here has any.

*Restart.* `Log` is what any history of a deployment obeys, whoever wrote it:
versions and generations count upwards, a deletion repeats the last object
under a new version. `Knows` is what a request may conclude from it, from its
Get to its answer: the version it watches from was not ready, and all it was
shown until then was passed over for a reason.

*Startup.* The property is inductive with `TypeOK`, because a handler never
registers a UID that is taken and an apply that would change an entry
conflicts.

*Pipeline.* `Sound` says what holds of one request at each place down the
chain, in the handler and up again; `Tallied` that the counter is the number of
requests that are past the counting middleware. The requests that have arrived
are finitely many at any time, so `Requests` may be infinite.

### The assumptions

They are the named ones of the modules: the local file is a registry; the
values for "none" (`NoConfigMap`, `NoCall`, `NoRoute`, `NoReplica`) are no other
values; `Answers` maps kubeconfigs to sets of UIDs; `Owner` and `Owned` speak
of the pods and ReplicaSets there are; what `RestartAssumption` says of sizes
and times; bounds are numbers; and `MaxRevision` of `Hcnmp` is above what
`Budget` can lead to (see Bounds). TLC evaluates them in the runs. Beyond them:

* the two UID theorems ask in their statement that the local file itself has the
  property, as the program takes that file as it is;
* `StopsExplained` assumes `LocalParses`, that some cluster answers for each
  kubeconfig of the local file. Without it the first synchronisation fails
  without any outside event, and the property is false.

### Only model-checked

Liveness: `Converges`, `ConvergesUnlessStopped`, `NothingIsLeftRunning`,
`Terminates`, `RequestEnds`, `StartsUnlessChanged`, `EveryRequestEnds`. Fairness
and ENABLED are beyond this prover.

## What is not modelled

* *Status functions of kinds other than Deployment*: nothing calls them.
* *A replica's restart with a local file inside `Hcnmp`*: a process of `Hcnmp`
  restarts in `InitProxy`; `Validate` is in `ReplicaStartup` only. With it the
  registry would not keep `UidsDistinct` (see above).
* *Proxied watches*: a call to a cluster returns, or the request is not fair;
  how long a watch stays open is the cluster's choice.
* *Client construction, configuration, profiling, the uptime counter*: no
  behaviour but success or failure, which the callers' models have.
* *Edits of the ConfigMap by hand*: an operator may put anything into it, and
  every property of the registry with it. Its deletion, which the code handles,
  is modelled.
* *Watches left open*: the old watch is never stopped. Nothing reads or counts
  it, so the model drops it.
* *The contents of* kubeconfigs, pods and bodies, beyond what the properties
  tell apart.

## Plan

Written, in this order: `RegistryData`, `AtomicRegistry`, `ClusterRegistry` and
its proofs (the system's reason to exist, and everything else reads it),
`ClusterProxy`, `PodListing`, `OwnerFilter`, `DeploymentRestart`,
`ReplicaStartup`, `RequestPipeline`, `Hcnmp`; then the proofs of
`ClusterProxy`, `DeploymentRestart`, `ReplicaStartup`, `PodListing`,
`RequestPipeline`, of the composition, and of the filter loops.

Open:

* an abstract specification of the cache (it serves one version after another,
  each whole or half swapped, and may stop), which `ClusterProxy` implements
  with `served` as the refinement mapping; most lemmas for it are in
  `ClusterProxyProofs`;
* the hazards without a property in `PROJECT.json`, where one can be stated of
  what the code keeps.
