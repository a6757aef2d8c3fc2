----------------------- MODULE DeploymentRestartProofs ----------------------
(***************************************************************************)
(* Proofs about DeploymentRestart, for any number of requests, any clocks, *)
(* sizes and reports, and any bound on the versions:                       *)
(*                                                                         *)
(*   TypeCorrect          Spec => []TypeOK                                 *)
(*   NeverStale           Spec => []ReadyIsNotStale                        *)
(*   DeletionNeverCounts  Spec => []DeletionIsNotSuccess                   *)
(*   OnlyTheLabelChanges  Spec => UpdateKeepsTheRest                       *)
(*                                                                         *)
(* The inductive invariant has two parts: Log, what every history of a     *)
(* deployment obeys, whoever wrote it; and Knows(p), what request p knows  *)
(* of that history, from its Get to its answer.                            *)
(***************************************************************************)
EXTENDS DeploymentRestart, SequenceTheorems, TLAPS

\* A version is that of its place, no older than the object it is of, and the
\* controller has not seen a generation that is yet to come.
Sound(log) ==
    \A i \in 1 .. Len(log) :
        /\ log[i].object.resourceVersion = i
        /\ log[i].object.uid <= i
        /\ log[i].object.observedGeneration <= log[i].object.generation

\* The generations of one object are counted upwards.
Ordered(log) ==
    \A i, j \in 1 .. Len(log) :
        i < j /\ log[i].object.uid = log[j].object.uid =>
            log[i].object.generation <= log[j].object.generation

\* A deletion leaves the object as it was one version before.
Buried(log) ==
    \A i \in 1 .. Len(log) :
        log[i].type = "DELETED" =>
            /\ i > 1 /\ log[i - 1].type # "DELETED"
            /\ log[i].object = [log[i - 1].object EXCEPT !.resourceVersion = i]

Log == Sound(events) /\ Ordered(events) /\ Buried(events)

\* d is a version of the history.
Read(log, d) ==
    /\ d \in Objects
    /\ d.resourceVersion \in 1 .. Len(log)
    /\ log[d.resourceVersion].object = d

\* What was delivered up to the n-th event did not look ready.
PassedOver(log, d, n) ==
    /\ d.resourceVersion <= n /\ n <= Len(log)
    /\ \A i \in (d.resourceVersion + 1) .. n : ~EventReady(log[i])

\* event is one that request p may succeed on.
Deserved(d, event) ==
    /\ event.type # "DELETED"
    /\ event.object.uid = d.uid =>
         /\ event.object.observedGeneration >= d.generation
         /\ event.object.resourceVersion > d.resourceVersion

Knows(p) ==
    /\ pc[p] \in {"update", "open", "watch"} => Read(events, deploy[p])
    /\ pc[p] \in {"open", "watch"} => ~Ready(deploy[p])
    /\ pc[p] = "watch" => PassedOver(events, deploy[p], seen[p])
    /\ status[p] = 200 => Deserved(deploy[p], verdict[p])

IInv == TypeOK /\ Log /\ \A p \in Requests : Knows(p)
-----------------------------------------------------------------------------
(***************************************************************************)
(* One more event.                                                         *)
(***************************************************************************)
\* The version an object is stored under is all that is written over.
LEMMA Stamped ==
    ASSUME NEW object \in Objects, NEW n \in Nat
    PROVE  LET stored == [object EXCEPT !.resourceVersion = n]
           IN  /\ stored \in Objects
               /\ stored.resourceVersion = n
               /\ stored.uid = object.uid
               /\ stored.generation = object.generation
               /\ stored.observedGeneration = object.observedGeneration
               /\ stored.replicas = object.replicas
               /\ stored.status = object.status
               /\ Ready(stored) <=> Ready(object)
  BY DEF Objects, Ready

\* What a user sends to scale an object to n replicas.
Resize(object, n) ==
    [object EXCEPT !.replicas = n, !.generation = @ + 1]

\* What scaling leaves of an object.
LEMMA Resized ==
    ASSUME NEW object \in Objects, NEW n \in Nat
    PROVE  /\ object.generation \in Nat
           /\ object.observedGeneration \in Nat
           /\ Resize(object, n) \in Objects
           /\ Resize(object, n).uid = object.uid
           /\ Resize(object, n).generation = object.generation + 1
           /\ Resize(object, n).observedGeneration
                = object.observedGeneration
           /\ Resize(object, n).replicas = n
           /\ Resize(object, n).status = object.status
  <1> DEFINE g == object.generation + 1
             d == Resize(object, n)
  <1>1. object.generation \in Nat /\ object.observedGeneration \in Nat
    BY DEF Objects
  <1>2. g \in Nat
    BY <1>1
  <1>3. d = [object EXCEPT !.replicas = n, !.generation = g]
    BY DEF Resize
  <1> HIDE DEF g, d
  <1>4. /\ d \in Objects
        /\ d.uid = object.uid
        /\ d.generation = g
        /\ d.observedGeneration = object.observedGeneration
        /\ d.replicas = n
        /\ d.status = object.status
    BY <1>2, <1>3 DEF Objects
  <1> QED
    BY <1>1, <1>4 DEF g, d

\* What a restart makes of it.
Relabel(object, n, time) ==
    [object EXCEPT !.replicas = n, !.restart = time, !.generation = @ + 1]

\* What a restart leaves of it.
LEMMA Relabelled ==
    ASSUME NEW object \in Objects, NEW n \in Nat, NEW time \in Times
    PROVE  /\ object.generation \in Nat
           /\ object.observedGeneration \in Nat
           /\ Relabel(object, n, time) \in Objects
           /\ Relabel(object, n, time).uid = object.uid
           /\ Relabel(object, n, time).generation = object.generation + 1
           /\ Relabel(object, n, time).observedGeneration
                = object.observedGeneration
           /\ Relabel(object, n, time).replicas = n
           /\ Relabel(object, n, time).status = object.status
  <1> DEFINE g == object.generation + 1
             d == Relabel(object, n, time)
  <1>1. object.generation \in Nat /\ object.observedGeneration \in Nat
    BY DEF Objects
  <1>2. g \in Nat
    BY <1>1
  <1>3. d = [object EXCEPT !.replicas = n, !.restart = time, !.generation = g]
    BY DEF Relabel
  <1> HIDE DEF g, d
  <1>4. /\ d \in Objects
        /\ d.uid = object.uid
        /\ d.generation = g
        /\ d.observedGeneration = object.observedGeneration
        /\ d.replicas = n
        /\ d.status = object.status
    BY <1>2, <1>3 DEF Objects
  <1> QED
    BY <1>1, <1>4 DEF g, d

\* event may be the next of log: it creates an object, or has the latest one
\* with a generation no lower, or as it was to delete it.
Fits(log, event) ==
    /\ event.object.resourceVersion = Len(log) + 1
    /\ event.object.observedGeneration <= event.object.generation
    /\ \/ event.type # "DELETED" /\ event.object.uid = Len(log) + 1
       \/ /\ Len(log) > 0 /\ log[Len(log)].type # "DELETED"
          /\ event.object.uid = log[Len(log)].object.uid
          /\ event.object.generation >= log[Len(log)].object.generation
          /\ event.type = "DELETED" =>
               event.object = [log[Len(log)].object EXCEPT
                                  !.resourceVersion = Len(log) + 1]

\* A history with an event more that fits.
LEMMA LogGrows ==
    ASSUME NEW log \in Seq(Events), Sound(log), Ordered(log), Buried(log),
           NEW event \in Events, Fits(log, event)
    PROVE  /\ Sound(Append(log, event))
           /\ Ordered(Append(log, event))
           /\ Buried(Append(log, event))
  <1> DEFINE more == Append(log, event)
             n == Len(log)
  <1>1. /\ n \in Nat /\ Len(more) = n + 1
        /\ \A i \in 1 .. n : more[i] = log[i]
        /\ more[n + 1] = event
    BY AppendProperties
  <1>2. \A i \in 1 .. n : log[i].object \in Objects
    <2>1. \A i \in 1 .. n : log[i] \in Events
      BY ElementOfSeq
    <2> QED
      BY <2>1 DEF Events
  <1>3. event.object \in Objects
    BY DEF Events
  <1> HIDE DEF more, n
  <1>4. Sound(more)
    <2> SUFFICES ASSUME NEW i \in 1 .. n + 1
                 PROVE  /\ more[i].object.resourceVersion = i
                        /\ more[i].object.uid <= i
                        /\ more[i].object.observedGeneration
                             <= more[i].object.generation
      BY <1>1 DEF Sound
    <2>1. CASE i \in 1 .. n
      BY <1>1, <2>1 DEF Sound, n
    <2>2. CASE i = n + 1
      BY <1>1, <1>2, <1>3, <2>2 DEF Sound, Fits, n, Objects
    <2> QED
      BY <1>1, <2>1, <2>2
  <1>5. Ordered(more)
    <2> SUFFICES ASSUME NEW i \in 1 .. n + 1, NEW j \in 1 .. n + 1, i < j,
                        more[i].object.uid = more[j].object.uid
                 PROVE  more[i].object.generation <= more[j].object.generation
      BY <1>1 DEF Ordered
    <2>1. CASE j \in 1 .. n
      BY <1>1, <2>1 DEF Ordered, n
    <2>2. CASE j = n + 1
      <3>1. i \in 1 .. n /\ more[i] = log[i] /\ more[j] = event
        BY <1>1, <2>2
      <3>2. log[i].object.uid <= n
        BY <1>2, <3>1, <1>1 DEF Sound, n, Objects
      <3>3. event.object.uid # n + 1
        BY <1>1, <1>2, <1>3, <3>1, <3>2 DEF Objects
      <3>4. /\ n \in 1 .. n /\ event.object.uid = log[n].object.uid
            /\ event.object.generation >= log[n].object.generation
        BY <1>1, <3>3 DEF Fits, n
      <3>5. log[i].object.generation <= log[n].object.generation
        BY <1>1, <1>2, <3>1, <3>4 DEF Ordered, n, Objects
      <3>6. /\ log[i].object.generation \in Nat
            /\ log[n].object.generation \in Nat
            /\ event.object.generation \in Nat
        BY <1>2, <1>3, <3>1, <3>4 DEF Objects
      <3> QED
        BY <3>1, <3>4, <3>5, <3>6
    <2> QED
      BY <1>1, <2>1, <2>2
  <1>6. Buried(more)
    <2> SUFFICES ASSUME NEW i \in 1 .. n + 1, more[i].type = "DELETED"
                 PROVE  /\ i > 1 /\ more[i - 1].type # "DELETED"
                        /\ more[i].object = [more[i - 1].object EXCEPT
                                                !.resourceVersion = i]
      BY <1>1 DEF Buried
    <2>1. CASE i \in 1 .. n
      <3>1. /\ more[i] = log[i] /\ i > 1 /\ log[i - 1].type # "DELETED"
            /\ log[i].object = [log[i - 1].object EXCEPT !.resourceVersion = i]
        BY <1>1, <2>1 DEF Buried, n
      <3>2. more[i - 1] = log[i - 1]
        BY <1>1, <2>1, <3>1
      <3> QED
        BY <3>1, <3>2
    <2>2. CASE i = n + 1
      BY <1>1, <2>2 DEF Fits, n
    <2> QED
      BY <1>1, <2>1, <2>2
  <1> QED
    BY <1>4, <1>5, <1>6 DEF more

\* What a request knows of a history stays true when it grows.
LEMMA KnownStays ==
    ASSUME NEW log \in Seq(Events), NEW event \in Events
    PROVE  /\ \A d : Read(log, d) => Read(Append(log, event), d)
           /\ \A d \in Objects, n \in Nat :
                PassedOver(log, d, n) => PassedOver(Append(log, event), d, n)
  <1> DEFINE more == Append(log, event)
  <1>1. /\ Len(log) \in Nat /\ Len(more) = Len(log) + 1
        /\ \A i \in 1 .. Len(log) : more[i] = log[i]
    BY AppendProperties
  <1> HIDE DEF more
  <1>2. ASSUME NEW d, Read(log, d)
        PROVE  Read(more, d)
    BY <1>1, <1>2 DEF Read
  <1>3. ASSUME NEW d \in Objects, NEW n \in Nat, PassedOver(log, d, n)
        PROVE  PassedOver(more, d, n)
    <2>1. d.resourceVersion \in Nat
      BY DEF Objects
    <2>2. /\ d.resourceVersion <= n /\ n <= Len(log)
          /\ \A i \in (d.resourceVersion + 1) .. n : ~EventReady(log[i])
      BY <1>3 DEF PassedOver
    <2>3. \A i \in (d.resourceVersion + 1) .. n : more[i] = log[i]
      BY <1>1, <2>1, <2>2
    <2> QED
      BY <1>1, <2>1, <2>2, <2>3 DEF PassedOver
  <1> QED
    BY <1>2, <1>3 DEF more
-----------------------------------------------------------------------------
(***************************************************************************)
(* Every step writes at most one event, and one that fits.                 *)
(***************************************************************************)
Written ==
    \E event \in Events :
        events' = Append(events, event) /\ Fits(events, event)

\* The deployment as it is, when there is one.
LEMMA CurrentType ==
    ASSUME TypeOK
    PROVE  /\ Version \in Nat
           /\ Exists => /\ Version > 0
                        /\ events[Version].type # "DELETED"
                        /\ events[Version] \in Events
                        /\ Current \in Objects
  <1>1. events \in Seq(Events)
    BY DEF TypeOK
  <1>2. Version \in Nat /\ (events # <<>> => Version > 0)
    BY <1>1, EmptySeq, LenProperties DEF Version
  <1>3. ASSUME Exists
        PROVE  /\ Version > 0 /\ events[Version].type # "DELETED"
               /\ events[Version] \in Events
    BY <1>1, <1>2, <1>3, ElementOfSeq DEF Exists, Version
  <1> QED
    BY <1>2, <1>3 DEF Current, Events

\* An object that Emit stores fits, when it is new or has the latest one.
LEMMA Emitted ==
    ASSUME TypeOK, NEW type \in {"ADDED", "MODIFIED", "DELETED"},
           NEW object \in Objects, Emit(type, object),
           object.observedGeneration <= object.generation,
           \/ type # "DELETED" /\ object.uid = Version + 1
           \/ /\ Exists /\ object.uid = Current.uid
              /\ object.generation >= Current.generation
              /\ type = "DELETED" => object = Current
    PROVE  Written
  <1> DEFINE stored == [object EXCEPT !.resourceVersion = Version + 1]
             event == [type |-> type, object |-> stored]
  <1>1. /\ stored \in Objects
        /\ stored.resourceVersion = Version + 1
        /\ stored.uid = object.uid
        /\ stored.generation = object.generation
        /\ stored.observedGeneration = object.observedGeneration
    BY CurrentType, Stamped
  <1>2. event.type = type /\ event.object = stored
    OBVIOUS
  <1>3. event \in Events
    BY <1>1 DEF Events
  <1>4. events' = Append(events, event)
    BY DEF Emit
  <1>5. type = "DELETED" =>
          stored = [events[Version].object EXCEPT !.resourceVersion = Version + 1]
    <2>1. CASE type # "DELETED"
      BY <2>1
    <2>2. CASE object = Current
      BY <2>2 DEF Current
    <2> QED
      BY <2>1, <2>2
  <1> HIDE DEF event, stored
  <1>6. Fits(events, event)
    BY <1>1, <1>2, <1>5, CurrentType DEF Fits, Current, Version
  <1> QED
    BY <1>3, <1>4, <1>6 DEF Written

\* A new deployment has nothing to be seen yet.
LEMMA NewObject ==
    ASSUME TypeOK, NEW n \in Nat
    PROVE  /\ New(n) \in Objects
           /\ New(n).uid = Version + 1
           /\ New(n).observedGeneration <= New(n).generation
  BY CurrentType DEF New, Objects, NothingCounted, Counts, Conditions

\* The latest version's controller has not seen a generation yet to come.
LEMMA CurrentSound ==
    ASSUME TypeOK, Log, Exists
    PROVE  Current.observedGeneration <= Current.generation
  BY CurrentType DEF Log, Sound, Current, Version

\* What users and the controller write fits.
LEMMA OthersWrite ==
    ASSUME TypeOK, Log, Create \/ Scale \/ Report \/ Delete
    PROVE  Written
  <1>1. CASE Create
    <2>1. PICK n \in Sizes : Emit("ADDED", New(n))
      BY <1>1 DEF Create
    <2> QED
      BY <2>1, RestartAssumption, NewObject, Emitted
  <1>2. CASE Scale
    <2>1. PICK n \in Sizes : Emit("MODIFIED", Resize(Current, n))
      BY <1>2 DEF Scale, Resize
    <2> DEFINE object == Resize(Current, n)
    <2>2. Exists /\ Current \in Objects
      BY <1>2, CurrentType DEF Scale
    <2>3. /\ object \in Objects /\ object.uid = Current.uid
          /\ object.generation = Current.generation + 1
          /\ object.observedGeneration = Current.observedGeneration
          /\ Current.generation \in Nat /\ Current.observedGeneration \in Nat
      BY <2>2, RestartAssumption, Resized
    <2>4. Emit("MODIFIED", object)
      BY <2>1
    <2> HIDE DEF object
    <2> QED
      BY <2>2, <2>3, <2>4, CurrentSound, Emitted
  <1>3. CASE Report
    <2>1. PICK counts \in Reports :
            Emit("MODIFIED",
                 [Current EXCEPT !.observedGeneration = Current.generation,
                                 !.status = counts])
      BY <1>3 DEF Report
    <2> DEFINE object ==
                 [Current EXCEPT !.observedGeneration = Current.generation,
                                 !.status = counts]
    <2>2. Exists /\ Current \in Objects
      BY <1>3, CurrentType DEF Report
    <2>3. /\ object \in Objects /\ object.uid = Current.uid
          /\ object.generation = Current.generation
          /\ object.observedGeneration = Current.generation
          /\ Current.generation \in Nat
      BY <2>2, RestartAssumption DEF Objects
    <2>4. Emit("MODIFIED", object)
      BY <2>1
    <2> HIDE DEF object
    <2> QED
      BY <2>2, <2>3, <2>4, Emitted
  <1>4. CASE Delete
    <2>1. Exists /\ Current \in Objects /\ Emit("DELETED", Current)
      BY <1>4, CurrentType DEF Delete
    <2>2. Current.generation \in Nat
      BY <2>1 DEF Objects
    <2> QED
      BY <2>1, <2>2, CurrentSound, Emitted
  <1> QED
    BY <1>1, <1>2, <1>3, <1>4

\* What an accepted Update writes: the object the request had read is the
\* latest one, and only the label and the generation change.
LEMMA UpdateWrites ==
    ASSUME TypeOK, Log, NEW p \in Requests, Knows(p), pc[p] = "update",
           Accepts(deploy[p]), NEW time \in Times,
           Emit("MODIFIED", Restarted(deploy[p], time))
    PROVE  /\ Written
           /\ deploy[p] = Current /\ Current \in Objects
           /\ LET object == events'[Version + 1].object
              IN  /\ Read(events', object) /\ ~Ready(object)
                  /\ Version' = Version + 1 /\ Current' = object
                  /\ object.uid = Current.uid
                  /\ object.replicas = Current.replicas
                  /\ object.status = Current.status
  <1> DEFINE object == Restarted(deploy[p], time)
             stored == [object EXCEPT !.resourceVersion = Version + 1]
  <1>1. /\ Exists /\ Current \in Objects /\ Version \in Nat /\ Version > 0
        /\ Current.resourceVersion = deploy[p].resourceVersion
    BY CurrentType DEF Accepts
  <1>2. deploy[p] = Current
    <2>1. Current.resourceVersion = Version
      BY <1>1 DEF Log, Sound, Current, Version
    <2> QED
      BY <1>1, <2>1 DEF Knows, Read, Current
  <1>3. /\ object \in Objects /\ object.uid = Current.uid
        /\ object.generation = Current.generation + 1
        /\ object.observedGeneration = Current.observedGeneration
        /\ object.replicas = Current.replicas
        /\ object.status = Current.status
        /\ Current.generation \in Nat /\ Current.observedGeneration \in Nat
    <2>1. Current.replicas \in Nat
      BY <1>1 DEF Objects
    <2>2. object = Relabel(Current, Current.replicas, time)
      BY <1>2 DEF Restarted, Relabel
    <2> HIDE DEF object
    <2> QED
      BY <1>1, <2>1, <2>2, Relabelled
  <1>4. Current.observedGeneration <= Current.generation
    BY <1>1, CurrentSound
  <1>5. Emit("MODIFIED", object)
    OBVIOUS
  <1> HIDE DEF object
  <1>6. Written
    BY <1>1, <1>3, <1>4, <1>5, Emitted
  <1>7. /\ stored \in Objects
        /\ stored.resourceVersion = Version + 1
        /\ stored.uid = object.uid
        /\ stored.replicas = object.replicas
        /\ stored.status = object.status
        /\ Ready(stored) <=> Ready(object)
    BY <1>1, <1>3, Stamped
  <1>8. ~Ready(stored)
    BY <1>3, <1>4, <1>7 DEF Ready
  <1>9. /\ Version' = Version + 1
        /\ events'[Version + 1].object = stored
    <2>1. events' = Append(events, [type |-> "MODIFIED", object |-> stored])
      BY <1>5 DEF Emit
    <2> HIDE DEF stored
    <2> QED
      BY <2>1, AppendProperties DEF TypeOK, Version, Events
  <1> HIDE DEF stored
  <1>10. Read(events', stored) /\ Current' = stored
    BY <1>1, <1>7, <1>9 DEF Read, Current, Version
  <1> QED
    BY <1>1, <1>2, <1>3, <1>6, <1>7, <1>8, <1>9, <1>10
-----------------------------------------------------------------------------
(***************************************************************************)
(* The type invariant and the history.                                     *)
(***************************************************************************)
\* An event that fits keeps the history one.
LEMMA WrittenLog ==
    ASSUME TypeOK, Log, Written
    PROVE  events' \in Seq(Events) /\ Log' /\ Version' = Version + 1
  <1>1. PICK event \in Events :
          events' = Append(events, event) /\ Fits(events, event)
    BY DEF Written
  <1>2. events \in Seq(Events)
    BY DEF TypeOK
  <1>3. events' \in Seq(Events) /\ Version' = Version + 1
    BY <1>1, <1>2, AppendProperties DEF Version
  <1>4. Sound(events') /\ Ordered(events') /\ Buried(events')
    BY <1>1, <1>2, LogGrows DEF Log
  <1> QED
    BY <1>3, <1>4 DEF Log, Sound, Ordered, Buried

\* What an Update can come to: the request is answered with an error and
\* nothing is written, or its object is written and kept, and its watch is
\* next, or an error when the response is lost.
LEMMA UpdateCases ==
    ASSUME NEW p \in Requests, Update(p)
    PROVE  /\ pc[p] = "update" /\ UNCHANGED <<seen, verdict>>
           /\ \/ /\ \E s \in {404, 409, 500} : Answer(p, s)
                 /\ UNCHANGED <<events, deploy>>
              \/ /\ Accepts(deploy[p])
                 /\ \E time \in Times :
                      Emit("MODIFIED", Restarted(deploy[p], time))
                 /\ deploy' = [deploy EXCEPT ![p] =
                                  events'[Version + 1].object]
                 /\ \/ Goto(p, "open") /\ UNCHANGED status
                    \/ Answer(p, 500)
  BY DEF Update

\* Every step writes nothing, or one event that fits.
LEMMA NextWrites ==
    ASSUME TypeOK, Log, \A p \in Requests : Knows(p), [Next]_vars
    PROVE  UNCHANGED events \/ Written
  <1>1. CASE Create \/ Scale \/ Report \/ Delete
    BY <1>1, OthersWrite
  <1>2. ASSUME NEW p \in Requests, Handler(p)
        PROVE  UNCHANGED events \/ Written
    <2>1. CASE Update(p)
      BY <2>1, UpdateCases, UpdateWrites
    <2>2. CASE Lookup(p) \/ Get(p) \/ Watch(p) \/ ReceiveEvent(p)
                 \/ WatchEnds(p) \/ Fail(p)
      BY <2>2 DEF Lookup, Get, Watch, ReceiveEvent, WatchEnds, Fail
    <2> QED
      BY <1>2, <2>1, <2>2 DEF Handler
  <1>3. CASE UNCHANGED vars
    BY <1>3 DEF vars
  <1> QED
    BY <1>1, <1>2, <1>3 DEF Next

\* The part of the type invariant that is about the requests.
Fields ==
    /\ pc' \in [Requests -> {"lookup", "get", "update", "open", "watch", "done"}]
    /\ deploy' \in [Requests -> Objects \cup {NoObject}]
    /\ seen' \in [Requests -> Nat]
    /\ status' \in [Requests -> {0, 200, 404, 409, 500}]
    /\ verdict' \in [Requests -> Events \cup {NoObject}]

LocalType ==
    /\ Fields
    /\ \A p \in Requests :
         /\ status'[p] # 0 <=> pc'[p] = "done"
         /\ seen'[p] <= Version'

\* A step of p moves no other request.
OnlyMoves(p) ==
    \A q \in Requests \ {p} :
        pc'[q] = pc[q] /\ status'[q] = status[q] /\ seen'[q] = seen[q]

\* The types of a step of p, when its fields have theirs.
LEMMA OneRequest ==
    ASSUME TypeOK, Version' \in Nat, Version <= Version',
           NEW p \in Requests, Fields, OnlyMoves(p),
           status'[p] # 0 <=> pc'[p] = "done", seen'[p] <= Version'
    PROVE  LocalType
  <1> SUFFICES ASSUME NEW q \in Requests \ {p}
               PROVE  /\ status'[q] # 0 <=> pc'[q] = "done"
                      /\ seen'[q] <= Version'
    BY DEF LocalType
  <1>1. /\ status[q] # 0 <=> pc[q] = "done"
        /\ seen[q] <= Version /\ seen[q] \in Nat
    BY DEF TypeOK
  <1>2. Version \in Nat
    BY CurrentType
  <1> QED
    BY <1>1, <1>2 DEF OnlyMoves

\* An answer, with whatever the request keeps of its last event.
LEMMA AnswerType ==
    ASSUME TypeOK, Version' \in Nat, Version <= Version',
           NEW p \in Requests, NEW s \in {200, 404, 409, 500}, Answer(p, s),
           deploy' \in [Requests -> Objects \cup {NoObject}],
           seen' \in [Requests -> Nat],
           \A q \in Requests \ {p} : seen'[q] = seen[q],
           seen'[p] <= Version',
           verdict' \in [Requests -> Events \cup {NoObject}]
    PROVE  LocalType
  <1>1. Fields
    <2>1. pc' \in [Requests ->
                    {"lookup", "get", "update", "open", "watch", "done"}]
      BY DEF TypeOK, Answer, Goto
    <2>2. status' \in [Requests -> {0, 200, 404, 409, 500}]
      BY DEF TypeOK, Answer
    <2> QED
      BY <2>1, <2>2 DEF Fields
  <1>2. OnlyMoves(p) /\ status'[p] = s /\ pc'[p] = "done"
    BY DEF TypeOK, Answer, Goto, OnlyMoves
  <1> QED
    BY <1>1, <1>2, OneRequest

\* The same when the request goes on.
LEMMA GotoType ==
    ASSUME TypeOK, Version' \in Nat, Version <= Version',
           NEW p \in Requests, pc[p] # "done",
           NEW next \in {"get", "update", "open", "watch"}, Goto(p, next),
           deploy' \in [Requests -> Objects \cup {NoObject}],
           seen' \in [Requests -> Nat],
           \A q \in Requests \ {p} : seen'[q] = seen[q],
           seen'[p] <= Version', UNCHANGED <<status, verdict>>
    PROVE  LocalType
  <1>1. Fields
    BY DEF TypeOK, Goto, Fields
  <1>2. OnlyMoves(p) /\ status'[p] = status[p] /\ pc'[p] = next
    BY DEF TypeOK, Goto, OnlyMoves
  <1>3. status[p] = 0
    BY DEF TypeOK
  <1> QED
    BY <1>1, <1>2, <1>3, OneRequest

\* The handlers keep their part of the types.
LEMMA HandlerType ==
    ASSUME TypeOK, Log, Version' \in Nat, Version <= Version',
           NEW p \in Requests, Knows(p), Handler(p)
    PROVE  LocalType
  <1>1. /\ Version \in Nat /\ (Exists => Current \in Objects)
        /\ seen[p] \in Nat /\ seen[p] <= Version'
        /\ deploy \in [Requests -> Objects \cup {NoObject}]
        /\ seen \in [Requests -> Nat]
        /\ verdict \in [Requests -> Events \cup {NoObject}]
    BY CurrentType DEF TypeOK
  <1>2. CASE Lookup(p)
    BY <1>1, <1>2, GotoType DEF Lookup
  <1>3. CASE Get(p)
    <2>1. CASE Exists
      <3>1. deploy' \in [Requests -> Objects \cup {NoObject}]
        BY <1>1, <1>3, <2>1 DEF Get
      <3> QED
        BY <1>1, <1>3, <2>1, <3>1, GotoType DEF Get
    <2>2. CASE ~Exists
      BY <1>1, <1>3, <2>2, AnswerType DEF Get
    <2> QED
      BY <2>1, <2>2
  <1>4. CASE Update(p)
    <2>1. pc[p] = "update" /\ UNCHANGED <<seen, verdict>>
      BY <1>4, UpdateCases
    <2>2. CASE /\ \E s \in {404, 409, 500} : Answer(p, s)
               /\ UNCHANGED <<events, deploy>>
      BY <1>1, <2>1, <2>2, AnswerType
    <2>3. CASE /\ Accepts(deploy[p])
               /\ \E time \in Times :
                    Emit("MODIFIED", Restarted(deploy[p], time))
               /\ deploy' = [deploy EXCEPT ![p] = events'[Version + 1].object]
               /\ \/ Goto(p, "open") /\ UNCHANGED status
                  \/ Answer(p, 500)
      <3>1. events'[Version + 1].object \in Objects
        BY <2>1, <2>3, UpdateWrites DEF Read
      <3>2. deploy' \in [Requests -> Objects \cup {NoObject}]
        BY <1>1, <2>3, <3>1
      <3> QED
        BY <1>1, <2>1, <2>3, <3>2, GotoType, AnswerType
    <2> QED
      BY <1>4, <2>2, <2>3, UpdateCases
  <1>5. CASE Watch(p)
    <2>1. /\ deploy[p].resourceVersion \in Nat
          /\ deploy[p].resourceVersion <= Version'
      BY <1>1, <1>5 DEF Watch, Knows, Read, Version
    <2>2. /\ seen' \in [Requests -> Nat]
          /\ seen'[p] = deploy[p].resourceVersion
          /\ \A q \in Requests \ {p} : seen'[q] = seen[q]
      BY <1>1, <1>5, <2>1 DEF Watch, FirstSeen
    <2> QED
      BY <1>1, <1>5, <2>1, <2>2, GotoType DEF Watch
  <1>6. CASE ReceiveEvent(p)
    <2>1. /\ seen[p] + 1 \in 1 .. Version /\ pc[p] = "watch"
          /\ UNCHANGED <<events, deploy>>
      BY <1>1, <1>6 DEF ReceiveEvent
    <2>2. /\ seen' \in [Requests -> Nat]
          /\ seen'[p] = seen[p] + 1 /\ seen'[p] <= Version'
          /\ \A q \in Requests \ {p} : seen'[q] = seen[q]
      BY <1>1, <1>6, <2>1 DEF ReceiveEvent
    <2>3. events[seen[p] + 1] \in Events
      BY <1>1, <2>1, ElementOfSeq DEF TypeOK, Version
    <2>4. CASE EventReady(events[seen[p] + 1])
      <3>1. verdict' \in [Requests -> Events \cup {NoObject}]
        BY <1>1, <1>6, <2>3, <2>4 DEF ReceiveEvent
      <3> QED
        BY <1>1, <1>6, <2>1, <2>2, <2>4, <3>1, AnswerType DEF ReceiveEvent
    <2>5. CASE ~EventReady(events[seen[p] + 1])
      <3>1. UNCHANGED <<pc, status, verdict>>
        BY <1>6, <2>5 DEF ReceiveEvent
      <3>2. Fields /\ OnlyMoves(p)
        BY <2>1, <2>2, <3>1 DEF TypeOK, Fields, OnlyMoves
      <3>3. status'[p] # 0 <=> pc'[p] = "done"
        BY <3>1 DEF TypeOK
      <3> QED
        BY <2>2, <3>2, <3>3, OneRequest
    <2> QED
      BY <2>4, <2>5
  <1>7. CASE WatchEnds(p) \/ Fail(p)
    BY <1>1, <1>7, AnswerType DEF WatchEnds, Fail
  <1> QED
    BY <1>2, <1>3, <1>4, <1>5, <1>6, <1>7 DEF Handler

\* Every step keeps the types and the history.
LEMMA NextTypeLog ==
    ASSUME IInv, [Next]_vars
    PROVE  TypeOK' /\ Log'
  <1>1. TypeOK /\ Log /\ \A p \in Requests : Knows(p)
    BY DEF IInv
  <1>2. Version \in Nat
    BY <1>1, CurrentType
  <1>3. /\ events' \in Seq(Events) /\ Log'
        /\ Version' \in Nat /\ Version <= Version'
    <2>1. CASE UNCHANGED events
      BY <1>1, <1>2, <2>1 DEF TypeOK, Log, Sound, Ordered, Buried, Version
    <2>2. CASE Written
      BY <1>1, <1>2, <2>2, WrittenLog
    <2> QED
      BY <1>1, <2>1, <2>2, NextWrites
  <1>4. LocalType
    <2>1. CASE UNCHANGED local
      BY <1>1, <1>2, <1>3, <2>1 DEF TypeOK, local, Fields, LocalType
    <2>2. ASSUME NEW p \in Requests, Handler(p)
          PROVE  LocalType
      BY <1>1, <1>3, <2>2, HandlerType
    <2> QED
      BY <2>1, <2>2 DEF Next, vars, local, Create, Scale, Report, Delete
  <1>5. \A i \in 1 .. Version' : events'[i].object.resourceVersion = i
    BY <1>3 DEF Log, Sound, Version
  <1> QED
    BY <1>3, <1>4, <1>5 DEF TypeOK, Fields, LocalType
-----------------------------------------------------------------------------
(***************************************************************************)
(* What a request knows.                                                   *)
(***************************************************************************)
\* The next event the watch delivers: when it looks ready the request may
\* succeed on it.  A deletion does not look ready, for the version before it
\* would have looked so too, and that one was passed over, or is the one the
\* request has written, whose generation the controller had not seen.
LEMMA Delivered ==
    ASSUME NEW log \in Seq(Events), Sound(log), Ordered(log), Buried(log),
           NEW d, Read(log, d), ~Ready(d),
           NEW n \in Nat, PassedOver(log, d, n), n + 1 <= Len(log)
    PROVE  IF EventReady(log[n + 1])
           THEN Deserved(d, log[n + 1])
           ELSE PassedOver(log, d, n + 1)
  <1> DEFINE i == n + 1
             r == d.resourceVersion
  <1>1. /\ Len(log) \in Nat /\ i \in 1 .. Len(log) /\ i > 1
        /\ r \in 1 .. Len(log) /\ r \in Nat /\ r < i /\ i - 1 = n
    BY LenProperties DEF PassedOver, Read
  <1>2. \A j \in 1 .. Len(log) : log[j].object \in Objects
    <2>1. \A j \in 1 .. Len(log) : log[j] \in Events
      BY ElementOfSeq
    <2> QED
      BY <2>1 DEF Events
  <1>3. log[r].object = d /\ d \in Objects
    BY DEF Read
  <1>4. \A j \in (r + 1) .. n : ~EventReady(log[j])
    BY DEF PassedOver
  <1>5. i = n + 1
    OBVIOUS
  <1> HIDE DEF i, r
  <1>6. CASE EventReady(log[i])
    <2>1. log[i].type # "DELETED"
      <3> SUFFICES ASSUME log[i].type = "DELETED" PROVE FALSE
        OBVIOUS
      <3>1. log[i].object = [log[n].object EXCEPT !.resourceVersion = i]
        BY <1>1 DEF Buried
      <3>2. n \in 1 .. Len(log) /\ i \in Nat
        BY <1>1, <1>5
      <3>3. Ready(log[n].object)
        BY <1>2, <1>6, <3>1, <3>2, Stamped DEF EventReady
      <3>4. CASE n = r
        BY <1>3, <3>3, <3>4
      <3>5. CASE n \in (r + 1) .. n
        BY <1>4, <3>3, <3>5 DEF EventReady
      <3> QED
        BY <1>1, <3>4, <3>5
    <2>2. ASSUME log[i].object.uid = d.uid
          PROVE  /\ log[i].object.observedGeneration >= d.generation
                 /\ log[i].object.resourceVersion > r
      <3>1. log[r].object.generation <= log[i].object.generation
        BY <1>1, <1>3, <2>2 DEF Ordered
      <3>2. log[i].object.observedGeneration = log[i].object.generation
        BY <1>6 DEF EventReady, Ready
      <3>3. log[i].object.resourceVersion = i
        BY <1>1 DEF Sound
      <3>4. d.generation \in Nat /\ log[i].object.generation \in Nat
        BY <1>1, <1>2, <1>3 DEF Objects
      <3> QED
        BY <1>1, <1>3, <3>1, <3>2, <3>3, <3>4
    <2> QED
      BY <1>5, <1>6, <2>1, <2>2 DEF Deserved, r
  <1>7. CASE ~EventReady(log[i])
    <2>1. \A j \in (r + 1) .. i : ~EventReady(log[j])
      BY <1>1, <1>4, <1>5, <1>7
    <2> QED
      BY <1>1, <1>5, <1>7, <2>1 DEF PassedOver, r
  <1> QED
    BY <1>5, <1>6, <1>7

\* A request that does not move keeps what it knows.
LEMMA KnowsKept ==
    ASSUME TypeOK, NEW p \in Requests, Knows(p), UNCHANGED events \/ Written,
           pc'[p] = pc[p], deploy'[p] = deploy[p], seen'[p] = seen[p],
           status'[p] = status[p], verdict'[p] = verdict[p]
    PROVE  Knows(p)'
  <1>1. events \in Seq(Events) /\ seen[p] \in Nat
    BY DEF TypeOK
  <1>2. CASE UNCHANGED events
    BY <1>2 DEF Knows, Read, PassedOver
  <1>3. CASE Written
    <2>1. PICK event \in Events : events' = Append(events, event)
      BY <1>3 DEF Written
    <2>2. Read(events, deploy[p]) => Read(events', deploy[p])
      BY <1>1, <2>1, KnownStays
    <2>3. Read(events, deploy[p]) /\ PassedOver(events, deploy[p], seen[p]) =>
            PassedOver(events', deploy[p], seen[p])
      BY <1>1, <2>1, KnownStays DEF Read
    <2> QED
      BY <2>2, <2>3 DEF Knows, Read, PassedOver
  <1> QED
    BY <1>2, <1>3

\* An answer other than 200 asks for nothing to be known.
LEMMA ErrorKnows ==
    ASSUME TypeOK, NEW p \in Requests, NEW s \in {404, 409, 500}, Answer(p, s)
    PROVE  Knows(p)'
  <1>1. pc'[p] = "done" /\ status'[p] = s
    BY DEF Answer, Goto, TypeOK
  <1> QED
    BY <1>1 DEF Knows

\* A request's own steps.
LEMMA HandlerKnows ==
    ASSUME TypeOK, Log, NEW p \in Requests, Knows(p), Handler(p)
    PROVE  Knows(p)'
  <1>1. events \in Seq(Events) /\ Version \in Nat /\ seen[p] \in Nat
    BY CurrentType DEF TypeOK
  <1>2. pc[p] # "done" => status[p] = 0
    BY DEF TypeOK
  <1>3. CASE Lookup(p)
    <2>1. pc'[p] = "get" /\ status'[p] = 0
      BY <1>2, <1>3 DEF Lookup, Goto, TypeOK
    <2> QED
      BY <2>1 DEF Knows
  <1>4. CASE Get(p)
    <2>1. CASE Exists
      <3>1. /\ pc'[p] = "update" /\ status'[p] = 0
            /\ deploy'[p] = Current /\ events' = events
        BY <1>2, <1>4, <2>1 DEF Get, Goto, TypeOK
      <3>2. Read(events, Current)
        BY <2>1, CurrentType DEF Read, Log, Sound, Current, Version
      <3> QED
        BY <3>1, <3>2 DEF Knows, Read
    <2>2. CASE ~Exists
      BY <1>4, <2>2, ErrorKnows DEF Get
    <2> QED
      BY <2>1, <2>2
  <1>5. CASE Update(p)
    <2>1. CASE \E s \in {404, 409, 500} : Answer(p, s)
      BY <2>1, ErrorKnows
    <2>2. CASE /\ Accepts(deploy[p])
               /\ \E time \in Times :
                    Emit("MODIFIED", Restarted(deploy[p], time))
               /\ deploy' = [deploy EXCEPT ![p] = events'[Version + 1].object]
               /\ Goto(p, "open") /\ UNCHANGED status
      <3>1. pc[p] = "update"
        BY <1>5, UpdateCases
      <3>2. /\ pc'[p] = "open" /\ status'[p] = 0
            /\ deploy'[p] = events'[Version + 1].object
        BY <1>2, <2>2, <3>1 DEF Goto, TypeOK
      <3>3. Read(events', deploy'[p]) /\ ~Ready(deploy'[p])
        BY <2>2, <3>1, <3>2, UpdateWrites
      <3> QED
        BY <3>2, <3>3 DEF Knows, Read, Ready
    <2> QED
      BY <1>5, <2>1, <2>2, UpdateCases
  <1>6. CASE Watch(p)
    <2>1. /\ pc'[p] = "watch" /\ status'[p] = 0 /\ pc[p] = "open"
          /\ seen'[p] = deploy[p].resourceVersion
          /\ deploy'[p] = deploy[p] /\ events' = events
      BY <1>2, <1>6 DEF Watch, FirstSeen, Goto, TypeOK
    <2>2. Read(events, deploy[p]) /\ ~Ready(deploy[p])
      BY <2>1 DEF Knows
    <2>3. PassedOver(events, deploy[p], deploy[p].resourceVersion)
      BY <1>1, <2>2 DEF Read, PassedOver
    <2> QED
      BY <2>1, <2>2, <2>3 DEF Knows, Read, PassedOver, Ready
  <1>7. CASE ReceiveEvent(p)
    <2>1. /\ pc[p] = "watch" /\ status[p] = 0
          /\ seen'[p] = seen[p] + 1 /\ seen[p] + 1 <= Version
          /\ deploy'[p] = deploy[p] /\ events' = events
      BY <1>1, <1>2, <1>7 DEF ReceiveEvent, TypeOK
    <2>2. /\ Read(events, deploy[p]) /\ ~Ready(deploy[p])
          /\ PassedOver(events, deploy[p], seen[p])
      BY <2>1 DEF Knows
    <2>3. IF EventReady(events[seen[p] + 1])
          THEN Deserved(deploy[p], events[seen[p] + 1])
          ELSE PassedOver(events, deploy[p], seen[p] + 1)
      BY <1>1, <2>1, <2>2, Delivered DEF Log, Version
    <2>4. CASE EventReady(events[seen[p] + 1])
      <3>1. pc'[p] = "done" /\ verdict'[p] = events[seen[p] + 1]
        BY <1>7, <2>4 DEF ReceiveEvent, Answer, Goto, TypeOK
      <3> QED
        BY <2>1, <2>3, <2>4, <3>1 DEF Knows, Deserved
    <2>5. CASE ~EventReady(events[seen[p] + 1])
      <3>1. UNCHANGED <<pc, status, verdict>>
        BY <1>7, <2>5 DEF ReceiveEvent
      <3> QED
        BY <2>1, <2>2, <2>3, <2>5, <3>1 DEF Knows, Read, PassedOver, Ready
    <2> QED
      BY <2>4, <2>5
  <1>8. CASE WatchEnds(p) \/ Fail(p)
    BY <1>8, ErrorKnows DEF WatchEnds, Fail
  <1> QED
    BY <1>3, <1>4, <1>5, <1>6, <1>7, <1>8 DEF Handler

\* Every step keeps the inductive invariant.
LEMMA NextIInv == IInv /\ [Next]_vars => IInv'
  <1> SUFFICES ASSUME IInv, [Next]_vars
               PROVE  IInv'
    OBVIOUS
  <1>1. TypeOK /\ Log /\ \A p \in Requests : Knows(p)
    BY DEF IInv
  <1>2. UNCHANGED events \/ Written
    BY <1>1, NextWrites
  <1>3. ASSUME NEW p \in Requests
        PROVE  Knows(p)'
    <2>1. CASE UNCHANGED local
      BY <1>1, <1>2, <2>1, KnowsKept DEF local
    <2>2. CASE Handler(p)
      BY <1>1, <2>2, HandlerKnows
    <2>3. ASSUME NEW q \in Requests \ {p}, Handler(q)
          PROVE  Knows(p)'
      <3>1. /\ pc'[p] = pc[p] /\ deploy'[p] = deploy[p]
            /\ seen'[p] = seen[p] /\ status'[p] = status[p]
            /\ verdict'[p] = verdict[p]
        BY <1>1, <2>3
        DEF Handler, Lookup, Get, Update, Watch, ReceiveEvent, WatchEnds,
            Fail, Answer, Goto, TypeOK
      <3> QED
        BY <1>1, <1>2, <3>1, KnowsKept
    <2> QED
      BY <2>1, <2>2, <2>3
      DEF Next, vars, local, Create, Scale, Report, Delete
  <1> QED
    BY <1>3, NextTypeLog DEF IInv

\* The inductive invariant holds before anything has happened.
LEMMA InitIInv == Init => IInv
  <1> SUFFICES ASSUME Init
               PROVE  IInv
    OBVIOUS
  <1>1. events \in Seq(Events) /\ Version = 0
    BY EmptySeq DEF Init, Version
  <1>2. TypeOK
    BY <1>1 DEF Init, TypeOK
  <1>3. Log
    BY <1>1 DEF Log, Sound, Ordered, Buried, Version
  <1>4. ASSUME NEW p \in Requests
        PROVE  Knows(p)
    BY DEF Init, Knows
  <1> QED
    BY <1>2, <1>3, <1>4 DEF IInv

\* The inductive invariant holds in every behaviour.
THEOREM Invariance == Spec => []IInv
  BY InitIInv, NextIInv, PTL DEF Spec
-----------------------------------------------------------------------------
(***************************************************************************)
(* The theorems.                                                           *)
(***************************************************************************)
\* Every variable keeps its type, and the history its numbering.
THEOREM TypeCorrect == Spec => []TypeOK
  <1>1. IInv => TypeOK
    BY DEF IInv
  <1> QED
    BY <1>1, Invariance, PTL

\* The version a request succeeds on, unless it is of a deployment created
\* anew under the name, is one whose controller had seen the restart.
THEOREM NeverStale == Spec => []ReadyIsNotStale
  <1>1. IInv => ReadyIsNotStale
    BY DEF IInv, Knows, Deserved, ReadyIsNotStale
  <1> QED
    BY <1>1, Invariance, PTL

\* No request succeeds on the last version of a deleted deployment, though
\* the handler does not look at the type of an event.
THEOREM DeletionNeverCounts == Spec => []DeletionIsNotSuccess
  <1>1. IInv => DeletionIsNotSuccess
    BY DEF IInv, Knows, Deserved, DeletionIsNotSuccess
  <1> QED
    BY <1>1, Invariance, PTL

\* An Update that is accepted changes the label and the generation of the very
\* deployment the request had read, and nothing else.
THEOREM OnlyTheLabelChanges == Spec => UpdateKeepsTheRest
  <1>1. ASSUME IInv, [Next]_vars, NEW p \in Requests,
               pc[p] = "update", pc'[p] # "update", events' # events
        PROVE  /\ Current'.uid = Current.uid
               /\ Current'.replicas = Current.replicas
               /\ Current'.status = Current.status
               /\ deploy[p].uid = Current.uid
    <2>1. TypeOK /\ Log /\ Knows(p)
      BY <1>1 DEF IInv
    <2>2. Update(p)
      <3>1. ASSUME NEW q \in Requests \ {p}, Handler(q)
            PROVE  pc'[p] = pc[p]
        BY <2>1, <3>1
        DEF Handler, Lookup, Get, Update, Watch, ReceiveEvent, WatchEnds,
            Fail, Answer, Goto, TypeOK
      <3> QED
        BY <1>1, <3>1
        DEF Next, vars, local, Create, Scale, Report, Delete, Handler,
            Lookup, Get, Watch, ReceiveEvent, WatchEnds, Fail
    <2>3. /\ Accepts(deploy[p])
          /\ \E time \in Times : Emit("MODIFIED", Restarted(deploy[p], time))
      BY <1>1, <2>2, UpdateCases
    <2> QED
      BY <1>1, <2>1, <2>3, UpdateWrites
  <1>2. IInv /\ [Next]_vars =>
          [\A p \in Requests :
              pc[p] = "update" /\ pc'[p] # "update" /\ events' # events =>
                /\ Current'.uid = Current.uid
                /\ Current'.replicas = Current.replicas
                /\ Current'.status = Current.status
                /\ deploy[p].uid = Current.uid]_vars
    BY <1>1
  <1> QED
    BY <1>2, Invariance, PTL DEF Spec, UpdateKeepsTheRest
=============================================================================
