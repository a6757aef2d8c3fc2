-------------------------- MODULE DeploymentRestart -------------------------
(***************************************************************************)
(* restartDeployment (pkg/server/handlers/server/deployment.go) and the    *)
(* status rule it ends with (pkg/utils/controller_status.go): read the     *)
(* deployment, change a label of its pod template, and watch it until a    *)
(* version looks ready.  Any number of requests restart one deployment     *)
(* name, while users scale, delete and create it and the deployment        *)
(* controller reports on it.                                               *)
(*                                                                         *)
(* The API server is the sequence of its watch events: the object of the   *)
(* n-th has resourceVersion n, and the last one is the deployment as it    *)
(* is.  A uid is the resourceVersion an object was created with.           *)
(*                                                                         *)
(* A definition marked "fault:" is a mutated form of the next one, kept to *)
(* show that a property can fail; no specification uses it.                *)
(***************************************************************************)
EXTENDS Naturals, Sequences

CONSTANTS
    Requests,   \* the restart requests
    Times,      \* values of time.Now().UnixNano(); clocks may coincide
    Sizes,      \* values of spec.replicas
    Reports,    \* what the controller may count: see Counts
    MaxVersion, \* bound: users and controller act below this version only
    NoObject    \* a handler that has not read the deployment yet

Conditions == {"NewReplicaSetAvailable", "Available", "ReplicaFailure"}

\* DeploymentStatus, short of observedGeneration; conditions are those that
\* are True, Progressing under the reason the rule asks for.
Counts == [replicas : Nat, readyReplicas : Nat, availableReplicas : Nat,
           updatedReplicas : Nat, conditions : SUBSET Conditions]

NothingCounted ==
    [replicas |-> 0, readyReplicas |-> 0, availableReplicas |-> 0,
     updatedReplicas |-> 0, conditions |-> {}]

Objects == [uid : Nat, resourceVersion : Nat, generation : Nat,
            replicas : Nat, restart : Times \cup {0},
            observedGeneration : Nat, status : Counts]

Events == [type : {"ADDED", "MODIFIED", "DELETED"}, object : Objects]

ASSUME RestartAssumption ==
    /\ 0 \notin Times /\ Sizes \subseteq Nat /\ Reports \subseteq Counts
    /\ MaxVersion \in Nat /\ NoObject \notin Objects /\ NoObject \notin Events

VARIABLES
    events,   \* every event of the deployment
    pc,       \* pc[p]: the call p's handler makes next, or "watch"
    deploy,   \* deploy[p]: the object its last Get or Update returned
    seen,     \* seen[p]: the last event its watch has delivered
    status,   \* status[p]: the HTTP answer, 0 before it
    verdict   \* history: the event p was answered 200 for

vars == <<events, pc, deploy, seen, status, verdict>>
local == <<pc, deploy, seen, status, verdict>>

Version == Len(events)
Exists == events # <<>> /\ events[Version].type # "DELETED"
Current == events[Version].object

Emit(type, object) ==
    events' = Append(events,
                     [type |-> type,
                      object |-> [object EXCEPT !.resourceVersion = Version + 1]])

New(n) == [uid |-> Version + 1, resourceVersion |-> 0, generation |-> 1,
           replicas |-> n, restart |-> 0,
           observedGeneration |-> 0, status |-> NothingCounted]

Init ==
    /\ events = <<>>
    /\ pc = [p \in Requests |-> "lookup"]
    /\ deploy = [p \in Requests |-> NoObject]
    /\ seen = [p \in Requests |-> 0]
    /\ status = [p \in Requests |-> 0]
    /\ verdict = [p \in Requests |-> NoObject]
-----------------------------------------------------------------------------
(***************************************************************************)
(* Users and the deployment controller.                                    *)
(***************************************************************************)
Create ==
    /\ Version < MaxVersion /\ ~Exists
    /\ \E n \in Sizes : Emit("ADDED", New(n))
    /\ UNCHANGED local

Scale ==
    /\ Version < MaxVersion /\ Exists
    /\ \E n \in Sizes \ {Current.replicas} :
         Emit("MODIFIED", [Current EXCEPT !.replicas = n, !.generation = @ + 1])
    /\ UNCHANGED local

\* A version conflict refuses a report on any object but the latest.
Report ==
    /\ Version < MaxVersion /\ Exists
    /\ \E counts \in Reports :
         LET object == [Current EXCEPT !.observedGeneration = Current.generation,
                                       !.status = counts]
         IN  object # Current /\ Emit("MODIFIED", object)
    /\ UNCHANGED local

Delete ==
    /\ Version < MaxVersion /\ Exists
    /\ Emit("DELETED", Current)
    /\ UNCHANGED local
-----------------------------------------------------------------------------
(***************************************************************************)
(* deploymentStatus.  The break under ReplicaFailure leaves the switch, not *)
(* the loop, and makes no difference.                                      *)
(***************************************************************************)
ReadyOfAnyGeneration(d) ==     \* fault: observedGeneration is not compared
    /\ d.status.replicas = d.replicas
    /\ d.status.readyReplicas = d.replicas
    /\ d.status.availableReplicas = d.replicas
    /\ d.status.conditions \cap {"NewReplicaSetAvailable", "Available"} # {}
    /\ "ReplicaFailure" \notin d.status.conditions

Ready(d) ==
    /\ d.observedGeneration = d.generation
    /\ d.status.replicas = d.replicas
    /\ d.status.readyReplicas = d.replicas
    /\ d.status.availableReplicas = d.replicas
    /\ d.status.conditions \cap {"NewReplicaSetAvailable", "Available"} # {}
    /\ "ReplicaFailure" \notin d.status.conditions

\* DeploymentsEventStatusFromRuntime: only the object is looked at, and taken
\* for a Deployment, whatever the type of the event.
EventReady(event) == Ready(event.object)
-----------------------------------------------------------------------------
(***************************************************************************)
(* restartDeployment.                                                      *)
(***************************************************************************)
Goto(p, next) == pc' = [pc EXCEPT ![p] = next]

AnswerSilently(p, s) ==     \* fault: returns without a response
    /\ Goto(p, "done")
    /\ UNCHANGED status

Answer(p, s) ==
    /\ Goto(p, "done")
    /\ status' = [status EXCEPT ![p] = s]

\* The cluster is not in the cache, or a call fails.
Fail(p) ==
    /\ pc[p] \in {"lookup", "get", "update", "open"}
    /\ Answer(p, 500)
    /\ UNCHANGED <<events, deploy, seen, verdict>>

Lookup(p) ==
    /\ pc[p] = "lookup"
    /\ Goto(p, "get")
    /\ UNCHANGED <<events, deploy, seen, status, verdict>>

Get(p) ==
    /\ pc[p] = "get"
    /\ IF Exists
       THEN /\ deploy' = [deploy EXCEPT ![p] = Current]
            /\ Goto(p, "update")
            /\ UNCHANGED status
       ELSE Answer(p, 404) /\ UNCHANGED deploy
    /\ UNCHANGED <<events, seen, verdict>>

AcceptsAnyVersion(old) == Exists     \* fault: an Update without resourceVersion

\* The API server's optimistic concurrency check.
Accepts(old) == Exists /\ Current.resourceVersion = old.resourceVersion

\* The API server ignores the status sent to it, and counts a generation.
Restarted(old, time) ==
    [Current EXCEPT !.replicas = old.replicas, !.restart = time,
                    !.generation = @ + 1]

\* A second restart with the same time changes nothing, and is refused for
\* that; the response of a committed Update may be lost.
Update(p) ==
    /\ pc[p] = "update"
    /\ \/ ~Exists /\ Answer(p, 404) /\ UNCHANGED <<events, deploy>>
       \/ Exists /\ ~Accepts(deploy[p]) /\ Answer(p, 409)
                 /\ UNCHANGED <<events, deploy>>
       \/ /\ Accepts(deploy[p])
          /\ \E time \in Times :
               IF time = deploy[p].restart
               THEN Answer(p, 500) /\ UNCHANGED <<events, deploy>>
               ELSE /\ Emit("MODIFIED", Restarted(deploy[p], time))
                    /\ deploy' = [deploy EXCEPT ![p] = events'[Version + 1].object]
                    /\ \/ Goto(p, "open") /\ UNCHANGED status
                       \/ Answer(p, 500)
    /\ UNCHANGED <<seen, verdict>>

FirstSeenIsLatest(p) == Version     \* fault: op.ResourceVersion is not set

\* op.ResourceVersion: the watch delivers what follows the Update.
FirstSeen(p) == deploy[p].resourceVersion

Watch(p) ==
    /\ pc[p] = "open"
    /\ seen' = [seen EXCEPT ![p] = FirstSeen(p)]
    /\ Goto(p, "watch")
    /\ UNCHANGED <<events, deploy, status, verdict>>

ReceiveEvent(p) ==
    /\ pc[p] = "watch"
    /\ seen[p] < Version
    /\ seen' = [seen EXCEPT ![p] = @ + 1]
    /\ IF EventReady(events[seen[p] + 1])
       THEN /\ Answer(p, 200)
            /\ verdict' = [verdict EXCEPT ![p] = events[seen[p] + 1]]
       ELSE UNCHANGED <<pc, status, verdict>>
    /\ UNCHANGED <<events, deploy>>

WatchNeverEnds(p) == FALSE /\ UNCHANGED vars     \* fault: no TimeoutSeconds

\* TimeoutSeconds are over, or the connection breaks; an event of type ERROR
\* carries no Deployment, is passed over, and is the last one.
WatchEnds(p) ==
    /\ pc[p] = "watch"
    /\ Answer(p, 500)
    /\ UNCHANGED <<events, deploy, seen, verdict>>

Handler(p) ==
    \/ Lookup(p) \/ Get(p) \/ Update(p) \/ Watch(p)
    \/ ReceiveEvent(p) \/ WatchEnds(p) \/ Fail(p)

Next ==
    \/ Create \/ Scale \/ Report \/ Delete
    \/ \E p \in Requests : Handler(p)

Spec == Init /\ [][Next]_vars

\* The handler runs, its calls return, and the API server keeps to
\* TimeoutSeconds; nothing is assumed of the controller or the users.
FairSpec == Spec /\ \A p \in Requests : WF_vars(Handler(p))
-----------------------------------------------------------------------------
(***************************************************************************)
(* Properties.                                                             *)
(***************************************************************************)
\* The type invariant.
TypeOK ==
    /\ events \in Seq(Events)
    /\ pc \in [Requests -> {"lookup", "get", "update", "open", "watch", "done"}]
    /\ deploy \in [Requests -> Objects \cup {NoObject}]
    /\ seen \in [Requests -> Nat]
    /\ status \in [Requests -> {0, 200, 404, 409, 500}]
    /\ verdict \in [Requests -> Events \cup {NoObject}]
    /\ \A i \in 1 .. Version : events[i].object.resourceVersion = i
    /\ \A p \in Requests :
         /\ status[p] # 0 <=> pc[p] = "done"
         /\ seen[p] <= Version

\* A status computed before the restart is never taken for one after it:
\* the version a request succeeds on, unless it is of a deployment created
\* anew under the name, is one whose controller had seen the changed template,
\* whatever restarts, scalings and reports came in between.
ReadyIsNotStale ==
    \A p \in Requests :
        status[p] = 200 /\ verdict[p].object.uid = deploy[p].uid =>
            /\ verdict[p].object.observedGeneration >= deploy[p].generation
            /\ verdict[p].object.resourceVersion > deploy[p].resourceVersion

\* The handler does not read event types, and the last version of a deleted
\* deployment may well look ready: it is never the one a request succeeds on,
\* because a version that looked so was delivered before.
DeletionIsNotSuccess ==
    \A p \in Requests : status[p] = 200 => verdict[p].type # "DELETED"

\* The handler sends back the whole object it read: size and identity of the
\* deployment are what they were just before, also when users scale or
\* recreate it between the Get and the Update.
UpdateKeepsTheRest ==
    [][\A p \in Requests :
          pc[p] = "update" /\ pc'[p] # "update" /\ events' # events =>
            /\ Current'.uid = Current.uid
            /\ Current'.replicas = Current.replicas
            /\ Current'.status = Current.status
            /\ deploy[p].uid = Current.uid]_vars

\* Every request is answered, also when the rollout never completes.
RequestEnds == \A p \in Requests : <>(status[p] # 0)

(***************************************************************************)
(* A claim of the API document that the code does not keep.                *)
(***************************************************************************)
\* 200 means the deployment was restarted: its pods are of the new template.
SuccessMeansRestarted ==
    \A p \in Requests : status[p] = 200 =>
        verdict[p].object.status.updatedReplicas = verdict[p].object.replicas
=============================================================================
