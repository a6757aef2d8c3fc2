----------------------------- MODULE PodListing -----------------------------
(***************************************************************************)
(* listPodOfDeployment (pkg/server/handlers/server/deployment.go) and the  *)
(* two goroutines of utils.ListDeploymentPods: one lists the ReplicaSets,  *)
(* the other the pods, and both assign their error to the one variable err *)
(* of the enclosing function before they test it and send it to a channel  *)
(* of capacity two.                                                        *)
(*                                                                         *)
(* Nothing orders these accesses to err.  An error is an interface value   *)
(* of two words, which the build writes one by one; a test or a send may   *)
(* read the words from memory again or use the value just assigned.  So a  *)
(* goroutine may see the other's error, none, or a mixture: a type word    *)
(* that is not nil with the data word of another assignment.               *)
(*                                                                         *)
(* A definition marked "fault:" is a mutated form of the next one, kept to *)
(* show that a property can fail; no specification uses it.                *)
(***************************************************************************)
EXTENDS PodData, Naturals, Sequences

Workers == {"rs", "pods"}

VARIABLES
    handler,   \* where listPodOfDeployment is
    worker,    \* worker[w]: where goroutine w is
    unwritten, \* unwritten[w]: the words of err that w has still to assign
    own,       \* own[w]: the error w's List returned
    err,       \* the shared variable
    ch,        \* the values sent to the channel
    allRS,     \* the list of ReplicaSets, a pointer that may be nil
    allPods,   \* the items of the list of pods
    status,    \* the HTTP status, 0 before the answer
    answer     \* the pods of a 200

lists == <<allRS, allPods>>
reply == <<status, answer>>
vars == <<handler, worker, unwritten, own, err, ch, allRS, allPods,
          status, answer>>

\* The error of worker w, or no error; both words agree.
Error(w) == [type |-> w, data |-> w]
NoError == [type |-> "nil", data |-> "nil"]
ErrorValues == [type : Workers \cup {"nil"}, data : Workers \cup {"nil"}]

IsNil(e) == e.type = "nil"

NilList == [nil |-> TRUE, items |-> {}]
ListOf(items) == [nil |-> FALSE, items |-> items]

Init ==
    /\ handler = "lookup"
    /\ worker = [w \in Workers |-> "off"]
    /\ unwritten = [w \in Workers |-> {}]
    /\ own = [w \in Workers |-> NoError]
    /\ err = NoError
    /\ ch = <<>>
    /\ allRS = NilList /\ allPods = {}
    /\ status = 0 /\ answer = {}
-----------------------------------------------------------------------------
Respond(s, pods) ==
    /\ handler' = "done"
    /\ status' = s
    /\ answer' = pods

Refuse(s) == Respond(s, {})

\* The replica's cache has a client for the cluster, or has not.
Lookup ==
    /\ handler = "lookup"
    /\ \/ handler' = "get" /\ UNCHANGED reply
       \/ Refuse(500)
    /\ UNCHANGED <<worker, unwritten, own, err, ch, lists>>

\* Get of the deployment: it fails, it has no replicas, or the listing of
\* its pods starts.  A selector that does not parse is an error too.
GetDeployment ==
    /\ handler = "get"
    /\ \/ \E s \in {404, 500} : Refuse(s) /\ UNCHANGED worker
       \/ Respond(200, {}) /\ UNCHANGED worker
       \/ /\ handler' = "wait"
          /\ worker' = [w \in Workers |-> "list"]
          /\ UNCHANGED reply
    /\ UNCHANGED <<unwritten, own, err, ch, lists>>

\* The List returns.  On failure the metadata client returns a nil list, the
\* typed client an empty one.
ListResult(w, failed) ==
    IF w = "rs"
    THEN /\ IF failed THEN allRS' = NilList
                      ELSE \E items \in SUBSET ReplicaSets : allRS' = ListOf(items)
         /\ UNCHANGED allPods
    ELSE /\ IF failed THEN allPods' = {} ELSE allPods' \in SUBSET Pods
         /\ UNCHANGED allRS

List(w) ==
    /\ worker[w] = "list"
    /\ \E failed \in BOOLEAN :
         /\ ListResult(w, failed)
         /\ own' = [own EXCEPT ![w] = IF failed THEN Error(w) ELSE NoError]
    /\ worker' = [worker EXCEPT ![w] = "assign"]
    /\ unwritten' = [unwritten EXCEPT ![w] = {"type", "data"}]
    /\ UNCHANGED <<handler, err, ch, reply>>

\* err = ..., one word at a time, in either order.
Assign(w) ==
    /\ worker[w] = "assign"
    /\ \E word \in unwritten[w] :
         /\ err' = [err EXCEPT ![word] = own[w][word]]
         /\ unwritten' = [unwritten EXCEPT ![w] = @ \ {word}]
         /\ worker' = [worker EXCEPT ![w] =
                          IF unwritten[w] = {word} THEN "test" ELSE @]
    /\ UNCHANGED <<handler, own, ch, lists, reply>>

\* The values a use of err in w may yield.
Reads(w) == {own[w], err}

\* if err != nil
Test(w) ==
    /\ worker[w] = "test"
    /\ \E e \in Reads(w) :
         worker' = [worker EXCEPT ![w] =
                       IF IsNil(e) THEN "sendNil" ELSE "sendErr"]
    /\ UNCHANGED <<handler, unwritten, own, err, ch, lists, reply>>

SendTwice(w) ==     \* fault: no return after ch <- err
    /\ worker[w] \in {"sendNil", "sendErr"}
    /\ ch' = Append(ch, IF worker[w] = "sendNil" THEN NoError ELSE err)
    /\ worker' = [worker EXCEPT ![w] = IF @ = "sendNil" THEN "end" ELSE "sendNil"]
    /\ UNCHANGED <<handler, unwritten, own, err, lists, reply>>

SendNotErr(w) ==     \* fault: returns without ch <- err
    /\ worker[w] \in {"sendNil", "sendErr"}
    /\ ch' = IF worker[w] = "sendNil" THEN Append(ch, NoError) ELSE ch
    /\ worker' = [worker EXCEPT ![w] = "end"]
    /\ UNCHANGED <<handler, unwritten, own, err, lists, reply>>

\* ch <- nil, or ch <- err, which reads err once more.
Send(w) ==
    /\ \/ worker[w] = "sendNil" /\ ch' = Append(ch, NoError)
       \/ /\ worker[w] = "sendErr"
          /\ \E e \in Reads(w) : ch' = Append(ch, e)
    /\ worker' = [worker EXCEPT ![w] = "end"]
    /\ UNCHANGED <<handler, unwritten, own, err, lists, reply>>

ConcludeNilAsEmpty ==     \* fault: a nil list is taken for an empty one
    /\ handler = "wait"
    /\ Len(ch) = 2
    /\ IF \E i \in 1 .. 2 : ~IsNil(ch[i])
       THEN Refuse(500)
       ELSE Respond(200, Filtered(allRS.items, allPods))
    /\ UNCHANGED <<worker, unwritten, own, err, ch, lists>>

ConcludeAnyValue ==     \* fault: appends to errs without the nil test
    /\ handler = "wait"
    /\ Len(ch) = 2
    /\ Refuse(500)
    /\ UNCHANGED <<worker, unwritten, own, err, ch, lists>>

\* Both values are received.  An error is a 500, and so is the panic of
\* formatting a mixed one or of allRS.Items on a nil list, which gin's
\* Recovery catches.
Conclude ==
    /\ handler = "wait"
    /\ Len(ch) = 2
    /\ IF \E i \in 1 .. 2 : ~IsNil(ch[i])
       THEN Refuse(500)
       ELSE IF allRS.nil
            THEN Refuse(500)
            ELSE Respond(200, Filtered(allRS.items, allPods))
    /\ UNCHANGED <<worker, unwritten, own, err, ch, lists>>

Worker(w) == List(w) \/ Assign(w) \/ Test(w) \/ Send(w)

Handler == Lookup \/ GetDeployment \/ Conclude

Next == Handler \/ \E w \in Workers : Worker(w)

Spec == Init /\ [][Next]_vars

\* Goroutines are scheduled and their calls return.
FairSpec == Spec /\ WF_vars(Handler) /\ \A w \in Workers : WF_vars(Worker(w))
-----------------------------------------------------------------------------
(***************************************************************************)
(* Properties.                                                             *)
(***************************************************************************)
\* The type invariant.
TypeOK ==
    /\ handler \in {"lookup", "get", "wait", "done"}
    /\ worker \in [Workers -> {"off", "list", "assign", "test",
                               "sendNil", "sendErr", "end"}]
    /\ unwritten \in [Workers -> SUBSET {"type", "data"}]
    /\ own \in [Workers -> ErrorValues]
    /\ err \in ErrorValues
    /\ ch \in Seq(ErrorValues) /\ Len(ch) <= 2
    /\ allRS \in [nil : BOOLEAN, items : SUBSET ReplicaSets]
    /\ allPods \in SUBSET Pods
    /\ status \in {0, 200, 404, 500}
    /\ answer \in SUBSET Pods

Failed(w) == ~IsNil(own[w])
Listed == \A w \in Workers : worker[w] # "off"

\* Whatever the race does to the errors, a failed listing of the ReplicaSets
\* never ends in a 200: when its error is lost, the nil list panics.
NoAnswerWithoutReplicaSets == status = 200 /\ Listed => ~Failed("rs")

\* An answer that names pods names exactly the deployment's pods among those
\* listed, and both listings succeeded.
NamedPodsAreExact ==
    status = 200 /\ Listed /\ answer # {} =>
        /\ \A w \in Workers : ~Failed(w)
        /\ answer = {p \in allPods : Owner[p] \in allRS.items /\ Owner[p] \in Owned}

\* The race never invents an error: a 500 after the listing began means that
\* at least one of the two failed.
ErrorsAreReal == status = 500 /\ Listed => \E w \in Workers : Failed(w)

\* Every request is answered, and leaves neither goroutine behind.
NothingIsLeftRunning ==
    <>(/\ handler = "done"
       /\ \A w \in Workers : worker[w] \in {"off", "end"})

\* "returns a set of pods controlled by given deployment": an answer, empty
\* or not, comes from a listing of the pods that succeeded.  The code does
\* not keep this: the other goroutine's nil overwrites the error.
NoListingErrorIsLost == status = 200 /\ Listed => ~Failed("pods")
=============================================================================
