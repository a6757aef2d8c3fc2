-------------------------- MODULE PodListingProofs --------------------------
(***************************************************************************)
(* Proofs about PodListing and the loops it relies on, OwnerFilter, for    *)
(* any ReplicaSets and pods:                                               *)
(*                                                                         *)
(*   TypeCorrect           Spec => []TypeOK                                *)
(*   NilListPanics         Spec => []NoAnswerWithoutReplicaSets            *)
(*   ExactOrEmpty          Spec => []NamedPodsAreExact                     *)
(*   NoErrorIsInvented     Spec => []ErrorsAreReal                         *)
(*   PodsStayOnce          FilterSpec => []NoPodLostOrDoubled              *)
(*   FilterIsRight         FilterSpec => []ReturnsTheOwnedPods             *)
(*                                                                         *)
(* The request's inductive invariant, IInv, says how far handler and       *)
(* goroutines are with each other (Together), what the lists are worth     *)
(* after each outcome (Outcomes), and that without a failure there is      *)
(* nothing but nil to read, to test or to send (Clean), whatever the order *)
(* of the race.  That of the loops, FilterInv, says in which place each    *)
(* listed pod is (Places) and in which order (Orders).                     *)
(***************************************************************************)
EXTENDS PodListing, OwnerFilter, Integers, SequenceTheorems, TLAPS

\* How many values worker w has sent.
Sent(w) == IF worker[w] = "end" THEN 1 ELSE 0

\* The goroutines run while the handler waits, and only then; the channel has
\* one value of each that has ended, and the handler answers after both.
Together ==
    /\ (\A w \in Workers : worker[w] = "off") \/ Listed
    /\ handler \in {"lookup", "get"} => \A w \in Workers : worker[w] = "off"
    /\ handler = "wait" => Listed
    /\ handler = "done" /\ Listed => \A w \in Workers : worker[w] = "end"
    /\ status = 0 <=> handler # "done"
    /\ Len(ch) = Sent("rs") + Sent("pods")

\* A goroutine's own error, and the list that came with it.
Outcomes ==
    /\ \A w \in Workers : own[w] \in {NoError, Error(w)}
    /\ \A w \in Workers : worker[w] \in {"off", "list"} => own[w] = NoError
    /\ worker["rs"] \notin {"off", "list"} => (allRS.nil <=> Failed("rs"))
    /\ Failed("pods") => allPods = {}

\* When neither has failed, no error is on its way to the handler.
Clean ==
    (\A w \in Workers : ~Failed(w)) =>
        /\ err = NoError
        /\ \A w \in Workers : worker[w] # "sendErr"
        /\ \A i \in 1 .. Len(ch) : ch[i] = NoError

\* The three properties of the answer.
Answered == NoAnswerWithoutReplicaSets /\ NamedPodsAreExact /\ ErrorsAreReal

IInv == TypeOK /\ Together /\ Outcomes /\ Clean /\ Answered
-----------------------------------------------------------------------------
(***************************************************************************)
(* Lemmas.                                                                 *)
(***************************************************************************)
\* A worker's own error is nil exactly when its List did not fail.
LEMMA OwnError ==
    ASSUME Outcomes, NEW w \in Workers
    PROVE  /\ Failed(w) => own[w] = Error(w)
           /\ ~Failed(w) => own[w] = NoError
  BY DEF Outcomes, Failed, IsNil, NoError, Error, Workers

\* Errors are error values.
LEMMA ErrorTypes ==
    /\ NoError \in ErrorValues
    /\ \A w \in Workers : Error(w) \in ErrorValues
  BY DEF NoError, Error, ErrorValues

\* Before the answer there is nothing to say of it.
LEMMA NoAnswerYet ==
    ASSUME status' = 0
    PROVE  Answered'
  BY DEF Answered, NoAnswerWithoutReplicaSets, NamedPodsAreExact, ErrorsAreReal

\* Nor when the listing has not begun.
LEMMA NotListed ==
    ASSUME ~Listed'
    PROVE  Answered'
  BY DEF Answered, NoAnswerWithoutReplicaSets, NamedPodsAreExact, ErrorsAreReal

\* A worker runs only while the handler waits.
LEMMA Running ==
    ASSUME TypeOK, Together, NEW w \in Workers, worker[w] \notin {"off", "end"}
    PROVE  handler = "wait" /\ status = 0 /\ Listed
  BY DEF TypeOK, Together, Listed

\* A step of a worker that ends neither it nor the handler's waiting.
LEMMA WorkerTogether ==
    ASSUME TypeOK, Together, NEW w \in Workers, NEW next,
           worker[w] \notin {"off", "end"}, next \notin {"off", "end"},
           worker' = [worker EXCEPT ![w] = next],
           UNCHANGED <<handler, status, ch>>
    PROVE  Together'
  <1>1. handler = "wait" /\ status = 0 /\ Listed
    BY Running
  <1>2. Listed'
    BY <1>1 DEF Listed, TypeOK
  <1>3. \A v \in Workers : Sent(v)' = Sent(v)
    BY DEF Sent, TypeOK
  <1>4. Sent("rs")' = Sent("rs") /\ Sent("pods")' = Sent("pods")
    BY <1>3 DEF Workers
  <1> QED
    BY <1>1, <1>2, <1>4 DEF Together
-----------------------------------------------------------------------------
(***************************************************************************)
(* The handler.                                                            *)
(***************************************************************************)
\* Before the listing begins.
LEMMA EarlyStep ==
    ASSUME IInv, Lookup \/ GetDeployment
    PROVE  IInv'
  <1>1. TypeOK /\ Together /\ Outcomes /\ Clean
    BY DEF IInv
  <1>2. /\ handler \in {"lookup", "get"} /\ status = 0
        /\ \A w \in Workers : worker[w] = "off"
        /\ UNCHANGED <<unwritten, own, err, ch, lists>>
    BY <1>1 DEF Lookup, GetDeployment, Together
  <1>3. ch = <<>> /\ Len(ch) = 0
    <2>1. Sent("rs") = 0 /\ Sent("pods") = 0
      BY <1>2 DEF Sent, Workers
    <2> QED
      BY <1>1, <2>1, EmptySeq DEF Together, TypeOK
  <1>4. CASE /\ handler' \in {"get", "done"} /\ UNCHANGED worker
             /\ status' \in {0, 200, 404, 500}
             /\ status' = 0 <=> handler' # "done"
             /\ answer' \in SUBSET Pods
    <2>1. TypeOK'
      BY <1>1, <1>2, <1>4 DEF TypeOK, lists
    <2>2. ~Listed'
      BY <1>2, <1>4 DEF Listed, Workers
    <2>3. Together'
      BY <1>1, <1>2, <1>4, <2>2 DEF Together, Sent
    <2>4. Outcomes' /\ Clean'
      BY <1>1, <1>2, <1>4 DEF Outcomes, Clean, Failed, lists
    <2> QED
      BY <2>1, <2>2, <2>3, <2>4, NotListed DEF IInv
  <1>5. CASE /\ handler' = "wait" /\ worker' = [w \in Workers |-> "list"]
             /\ UNCHANGED reply
    <2>1. TypeOK'
      BY <1>1, <1>2, <1>5 DEF TypeOK, lists, reply
    <2>2. \A w \in Workers : worker'[w] = "list"
      BY <1>5
    <2>3. Together'
      <3>1. Sent("rs")' = 0 /\ Sent("pods")' = 0
        BY <2>2 DEF Sent, Workers
      <3> QED
        BY <1>2, <1>3, <1>5, <2>2, <3>1 DEF Together, Listed, reply
    <2>4. Outcomes' /\ Clean'
      BY <1>1, <1>2, <2>2 DEF Outcomes, Clean, Failed, Workers, lists
    <2>5. status' = 0
      BY <1>2, <1>5 DEF reply
    <2> QED
      BY <2>1, <2>3, <2>4, <2>5, NoAnswerYet DEF IInv
  <1>6. CASE Lookup
    <2>1. CASE handler' = "get" /\ UNCHANGED reply
      BY <1>1, <1>2, <1>4, <1>6, <2>1 DEF Lookup, reply, TypeOK
    <2>2. CASE Refuse(500)
      BY <1>4, <1>6, <2>2 DEF Lookup, Refuse, Respond
    <2> QED
      BY <1>6, <2>1, <2>2 DEF Lookup
  <1>7. CASE GetDeployment
    <2>1. CASE \E s \in {404, 500} : Refuse(s) /\ UNCHANGED worker
      BY <1>4, <2>1 DEF Refuse, Respond
    <2>2. CASE Respond(200, {}) /\ UNCHANGED worker
      BY <1>4, <2>2 DEF Respond
    <2> QED
      BY <1>5, <1>7, <2>1, <2>2 DEF GetDeployment
  <1> QED
    BY <1>6, <1>7

\* Both values are in the channel: both goroutines have ended.
LEMMA BothEnded ==
    ASSUME TypeOK, Together, Len(ch) = 2
    PROVE  \A w \in Workers : worker[w] = "end"
  <1>1. Sent("rs") + Sent("pods") = 2
    BY DEF Together
  <1>2. Sent("rs") \in {0, 1} /\ Sent("pods") \in {0, 1}
    BY DEF Sent
  <1>3. Sent("rs") = 1 /\ Sent("pods") = 1
    BY <1>1, <1>2
  <1> QED
    BY <1>3 DEF Sent, Workers

\* The answer after the listing.
LEMMA ConcludeStep ==
    ASSUME IInv, Conclude
    PROVE  IInv'
  <1>1. TypeOK /\ Together /\ Outcomes /\ Clean
    BY DEF IInv
  <1>2. /\ handler = "wait" /\ Len(ch) = 2 /\ handler' = "done"
        /\ UNCHANGED <<worker, unwritten, own, err, ch, lists>>
    BY DEF Conclude, Refuse, Respond
  <1>3. (\A w \in Workers : worker[w] = "end") /\ Listed
    BY <1>1, <1>2, BothEnded DEF Together
  <1>4. \/ /\ status' = 500 /\ answer' = {}
           /\ (\E i \in 1 .. 2 : ~IsNil(ch[i])) \/ allRS.nil
        \/ /\ status' = 200 /\ ~allRS.nil
           /\ answer' = Filtered(allRS.items, allPods)
    BY DEF Conclude, Refuse, Respond
  <1>5. TypeOK'
    <2>1. Filtered(allRS.items, allPods) \in SUBSET Pods
      BY <1>1 DEF Filtered, TypeOK
    <2> QED
      BY <1>1, <1>2, <1>4, <2>1 DEF TypeOK, lists
  <1>6. Together'
    BY <1>1, <1>2, <1>3, <1>4 DEF Together, Listed, Sent
  <1>7. Outcomes' /\ Clean'
    BY <1>1, <1>2 DEF Outcomes, Clean, Failed, lists
  <1>8. allRS.nil <=> Failed("rs")
    BY <1>1, <1>3 DEF Outcomes, Workers
  <1>9. Failed("pods") => Filtered(allRS.items, allPods) = {}
    BY <1>1 DEF Outcomes, Filtered
  <1>10. (\E i \in 1 .. 2 : ~IsNil(ch[i])) => \E w \in Workers : Failed(w)
    BY <1>1, <1>2 DEF Clean, IsNil, NoError
  <1>11. Failed("rs") => \E w \in Workers : Failed(w)
    BY DEF Workers
  <1>12. \A w \in Workers : Failed(w)' <=> Failed(w)
    BY <1>2 DEF Failed
  <1>13. NoAnswerWithoutReplicaSets'
    BY <1>4, <1>8, <1>12 DEF NoAnswerWithoutReplicaSets, Workers
  <1>14. NamedPodsAreExact'
    BY <1>2, <1>4, <1>8, <1>9, <1>12
    DEF NamedPodsAreExact, Workers, Filtered, lists
  <1>15. ErrorsAreReal'
    BY <1>4, <1>8, <1>10, <1>11, <1>12 DEF ErrorsAreReal
  <1> QED
    BY <1>5, <1>6, <1>7, <1>13, <1>14, <1>15 DEF IInv, Answered
-----------------------------------------------------------------------------
(***************************************************************************)
(* The goroutines.                                                         *)
(***************************************************************************)
\* What the goroutines do after their List changes neither error nor list.
LEMMA KeptOutcomes ==
    ASSUME Outcomes, NEW w \in Workers, worker[w] \notin {"off", "list"},
           worker'[w] \notin {"off", "list"},
           \A v \in Workers \ {w} : worker'[v] = worker[v],
           UNCHANGED <<own, allRS, allPods>>
    PROVE  Outcomes'
  <1>1. \A v \in Workers : worker'[v] \in {"off", "list"} <=>
                             worker[v] \in {"off", "list"}
    OBVIOUS
  <1>2. \A v \in Workers : Failed(v)' <=> Failed(v)
    BY DEF Failed
  <1> QED
    BY <1>1, <1>2 DEF Outcomes, Workers

\* A List returns: a failure comes with a nil list of ReplicaSets, or an empty
\* one of pods.
LEMMA ListStep ==
    ASSUME IInv, NEW w \in Workers, List(w)
    PROVE  IInv'
  <1>1. TypeOK /\ Together /\ Outcomes /\ Clean
    BY DEF IInv
  <1>2. PICK failed \in BOOLEAN :
          /\ ListResult(w, failed)
          /\ own' = [own EXCEPT ![w] = IF failed THEN Error(w) ELSE NoError]
    BY DEF List
  <1>3. /\ worker[w] = "list" /\ worker' = [worker EXCEPT ![w] = "assign"]
        /\ unwritten' = [unwritten EXCEPT ![w] = {"type", "data"}]
        /\ UNCHANGED <<handler, err, ch, status, answer>>
    BY DEF List, reply
  <1>4. handler = "wait" /\ status' = 0
    BY <1>1, <1>3, Running
  <1>5. Together'
    BY <1>1, <1>3, WorkerTogether
  <1>6. own' \in [Workers -> ErrorValues]
    BY <1>1, <1>2, ErrorTypes DEF TypeOK
  <1>7. /\ allRS' \in [nil : BOOLEAN, items : SUBSET ReplicaSets]
        /\ allPods' \in SUBSET Pods
    <2>1. \A items \in SUBSET ReplicaSets :
            ListOf(items) \in [nil : BOOLEAN, items : SUBSET ReplicaSets]
      BY DEF ListOf
    <2>2. NilList \in [nil : BOOLEAN, items : SUBSET ReplicaSets]
      BY DEF NilList
    <2>3. CASE w = "rs"
      BY <1>1, <1>2, <2>1, <2>2, <2>3 DEF ListResult, TypeOK
    <2>4. CASE w = "pods"
      BY <1>1, <1>2, <2>4 DEF ListResult, TypeOK
    <2> QED
      BY <2>3, <2>4 DEF Workers
  <1>8. TypeOK'
    <2>1. /\ worker' \in [Workers -> {"off", "list", "assign", "test",
                                      "sendNil", "sendErr", "end"}]
          /\ unwritten' \in [Workers -> SUBSET {"type", "data"}]
      BY <1>1, <1>3 DEF TypeOK
    <2> QED
      BY <1>1, <1>3, <1>6, <1>7, <2>1 DEF TypeOK
  <1>9. /\ own'[w] = (IF failed THEN Error(w) ELSE NoError)
        /\ worker'[w] = "assign" /\ own[w] = NoError
        /\ \A v \in Workers \ {w} : own'[v] = own[v] /\ worker'[v] = worker[v]
        /\ Failed(w)' <=> failed
    BY <1>1, <1>2, <1>3
    DEF TypeOK, Outcomes, Failed, IsNil, Error, NoError, Workers
  <1>10. Outcomes'
    <2>1. \A v \in Workers : /\ own'[v] \in {NoError, Error(v)}
                             /\ worker'[v] \in {"off", "list"} =>
                                  own'[v] = NoError
      BY <1>1, <1>9 DEF Outcomes
    <2>2. CASE w = "rs"
      <3>1. allRS'.nil <=> failed
        BY <1>2, <2>2 DEF ListResult, NilList, ListOf
      <3>2. Failed("pods")' => allPods' = {}
        BY <1>1, <1>2, <1>9, <2>2
        DEF ListResult, Outcomes, Failed, Workers
      <3> QED
        BY <1>9, <2>1, <2>2, <3>1, <3>2 DEF Outcomes
    <2>3. CASE w = "pods"
      <3>1. Failed("pods")' => allPods' = {}
        BY <1>2, <1>9, <2>3 DEF ListResult
      <3>2. worker'["rs"] \notin {"off", "list"} =>
              (allRS'.nil <=> Failed("rs")')
        BY <1>1, <1>2, <1>9, <2>3
        DEF ListResult, Outcomes, Failed, Workers
      <3> QED
        BY <2>1, <3>1, <3>2 DEF Outcomes
    <2> QED
      BY <2>2, <2>3 DEF Workers
  <1>11. Clean'
    <2> SUFFICES ASSUME \A v \in Workers : ~Failed(v)'
                 PROVE  /\ err' = NoError
                        /\ \A v \in Workers : worker'[v] # "sendErr"
                        /\ \A i \in 1 .. Len(ch') : ch'[i] = NoError
      BY DEF Clean
    <2>1. \A v \in Workers : ~Failed(v)
      BY <1>9 DEF Failed, IsNil, NoError
    <2> QED
      BY <1>1, <1>3, <1>9, <2>1 DEF Clean
  <1> QED
    BY <1>4, <1>5, <1>8, <1>10, <1>11, NoAnswerYet DEF IInv

\* One word of err is written.  Without a failure it was nil, and stays so.
LEMMA AssignStep ==
    ASSUME IInv, NEW w \in Workers, Assign(w)
    PROVE  IInv'
  <1>1. TypeOK /\ Together /\ Outcomes /\ Clean
    BY DEF IInv
  <1>2. PICK word \in unwritten[w] :
          /\ err' = [err EXCEPT ![word] = own[w][word]]
          /\ unwritten' = [unwritten EXCEPT ![w] = @ \ {word}]
          /\ worker' = [worker EXCEPT ![w] =
                           IF unwritten[w] = {word} THEN "test" ELSE @]
    BY DEF Assign
  <1>3. /\ worker[w] = "assign"
        /\ UNCHANGED <<handler, own, ch, allRS, allPods, status, answer>>
    BY DEF Assign, lists, reply
  <1>4. PICK next \in {"assign", "test"} :
          worker' = [worker EXCEPT ![w] = next]
    BY <1>2, <1>3
  <1>5. status' = 0
    BY <1>1, <1>3, Running
  <1>6. Together'
    BY <1>1, <1>3, <1>4, WorkerTogether
  <1>7. word \in {"type", "data"}
    BY <1>1 DEF TypeOK
  <1>8. TypeOK'
    <2>1. worker' \in [Workers -> {"off", "list", "assign", "test",
                                   "sendNil", "sendErr", "end"}]
      BY <1>1, <1>4 DEF TypeOK
    <2>2. unwritten' \in [Workers -> SUBSET {"type", "data"}]
      BY <1>1, <1>2 DEF TypeOK
    <2>3. err' \in ErrorValues
      <3>1. own[w] \in ErrorValues /\ err \in ErrorValues
        BY <1>1 DEF TypeOK
      <3> QED
        BY <1>2, <1>7, <3>1 DEF ErrorValues
    <2> QED
      BY <1>1, <1>3, <2>1, <2>2, <2>3 DEF TypeOK
  <1>9. /\ worker'[w] \in {"assign", "test"}
        /\ \A v \in Workers \ {w} : worker'[v] = worker[v]
    BY <1>1, <1>4 DEF TypeOK
  <1>10. Outcomes'
    BY <1>1, <1>3, <1>9, KeptOutcomes
  <1>11. Clean'
    <2> SUFFICES ASSUME \A v \in Workers : ~Failed(v)
                 PROVE  /\ err' = NoError
                        /\ \A v \in Workers : worker'[v] # "sendErr"
                        /\ \A i \in 1 .. Len(ch') : ch'[i] = NoError
      BY <1>3 DEF Clean, Failed
    <2>1. err = NoError /\ own[w] = NoError
      BY <1>1, OwnError DEF Clean
    <2>2. err' = NoError
      BY <1>2, <1>7, <2>1 DEF NoError
    <2> QED
      BY <1>1, <1>3, <1>9, <2>2 DEF Clean
  <1> QED
    BY <1>5, <1>6, <1>8, <1>10, <1>11, NoAnswerYet DEF IInv

\* What a use of err may yield is an error value, and nil without a failure.
LEMMA ReadValues ==
    ASSUME TypeOK, Outcomes, Clean, NEW w \in Workers, NEW e \in Reads(w)
    PROVE  /\ e \in ErrorValues
           /\ (\A v \in Workers : ~Failed(v)) => e = NoError
  BY OwnError DEF Reads, TypeOK, Clean

\* The test of err: without a failure it is nil.
LEMMA TestStep ==
    ASSUME IInv, NEW w \in Workers, Test(w)
    PROVE  IInv'
  <1>1. TypeOK /\ Together /\ Outcomes /\ Clean
    BY DEF IInv
  <1>2. PICK e \in Reads(w) :
          worker' = [worker EXCEPT ![w] =
                        IF IsNil(e) THEN "sendNil" ELSE "sendErr"]
    BY DEF Test
  <1>3. /\ worker[w] = "test"
        /\ UNCHANGED <<handler, unwritten, own, err, ch, allRS, allPods,
                       status, answer>>
    BY DEF Test, lists, reply
  <1>4. PICK next \in {"sendNil", "sendErr"} :
          /\ worker' = [worker EXCEPT ![w] = next]
          /\ IsNil(e) => next = "sendNil"
    BY <1>2
  <1>5. status' = 0
    BY <1>1, <1>3, Running
  <1>6. Together'
    BY <1>1, <1>3, <1>4, WorkerTogether
  <1>7. TypeOK'
    BY <1>1, <1>3, <1>4 DEF TypeOK
  <1>8. /\ worker'[w] = next
        /\ \A v \in Workers \ {w} : worker'[v] = worker[v]
    BY <1>1, <1>4 DEF TypeOK
  <1>9. Outcomes'
    BY <1>1, <1>3, <1>4, <1>8, KeptOutcomes
  <1>10. Clean'
    <2> SUFFICES ASSUME \A v \in Workers : ~Failed(v)
                 PROVE  /\ err' = NoError
                        /\ \A v \in Workers : worker'[v] # "sendErr"
                        /\ \A i \in 1 .. Len(ch') : ch'[i] = NoError
      BY <1>3 DEF Clean, Failed
    <2>1. next = "sendNil"
      BY <1>1, <1>4, ReadValues DEF IsNil, NoError
    <2> QED
      BY <1>1, <1>3, <1>8, <2>1 DEF Clean
  <1> QED
    BY <1>5, <1>6, <1>7, <1>9, <1>10, NoAnswerYet DEF IInv

\* The send: without a failure it sends nil.
LEMMA SendStep ==
    ASSUME IInv, NEW w \in Workers, Send(w)
    PROVE  IInv'
  <1>1. TypeOK /\ Together /\ Outcomes /\ Clean
    BY DEF IInv
  <1>2. PICK e \in ErrorValues :
          /\ ch' = Append(ch, e)
          /\ (\A v \in Workers : ~Failed(v)) => e = NoError
    <2>1. CASE worker[w] = "sendNil" /\ ch' = Append(ch, NoError)
      BY <2>1, ErrorTypes
    <2>2. CASE \E e \in Reads(w) : ch' = Append(ch, e)
      BY <1>1, <2>2, ReadValues
    <2> QED
      BY <2>1, <2>2 DEF Send
  <1>3. /\ worker[w] \in {"sendNil", "sendErr"}
        /\ worker' = [worker EXCEPT ![w] = "end"]
        /\ UNCHANGED <<handler, unwritten, own, err, allRS, allPods,
                       status, answer>>
    BY DEF Send, lists, reply
  <1>4. handler = "wait" /\ status = 0 /\ Listed
    BY <1>1, <1>3, Running
  <1>5. /\ worker'[w] = "end"
        /\ \A v \in Workers \ {w} : worker'[v] = worker[v]
    BY <1>1, <1>3 DEF TypeOK
  <1>6. ch \in Seq(ErrorValues) /\ Len(ch) \in Nat
    BY <1>1 DEF TypeOK
  <1>7. /\ ch' \in Seq(ErrorValues) /\ Len(ch') = Len(ch) + 1
        /\ \A i \in 1 .. Len(ch) : ch'[i] = ch[i]
        /\ ch'[Len(ch) + 1] = e
    BY <1>2, <1>6, AppendProperties
  <1>8. Sent("rs")' + Sent("pods")' = Sent("rs") + Sent("pods") + 1
    BY <1>3, <1>5 DEF Sent, Workers
  <1>9. Together'
    <2>1. Listed'
      BY <1>4, <1>5 DEF Listed
    <2> QED
      BY <1>1, <1>3, <1>4, <1>7, <1>8, <2>1 DEF Together
  <1>10. TypeOK'
    <2>1. Len(ch') <= 2
      BY <1>9 DEF Together, Sent
    <2> QED
      BY <1>1, <1>3, <1>7, <2>1 DEF TypeOK
  <1>11. Outcomes'
    BY <1>1, <1>3, <1>5, KeptOutcomes
  <1>12. Clean'
    <2> SUFFICES ASSUME \A v \in Workers : ~Failed(v)
                 PROVE  /\ err' = NoError
                        /\ \A v \in Workers : worker'[v] # "sendErr"
                        /\ \A i \in 1 .. Len(ch') : ch'[i] = NoError
      BY <1>3 DEF Clean, Failed
    <2>1. \A i \in 1 .. Len(ch) + 1 : ch'[i] = NoError
      BY <1>1, <1>2, <1>6, <1>7 DEF Clean
    <2> QED
      BY <1>1, <1>3, <1>5, <1>7, <2>1 DEF Clean
  <1> QED
    BY <1>3, <1>4, <1>9, <1>10, <1>11, <1>12, NoAnswerYet DEF IInv
-----------------------------------------------------------------------------
(***************************************************************************)
(* The theorems.                                                           *)
(***************************************************************************)
\* Every step keeps the inductive invariant.
LEMMA NextIInv == IInv /\ [Next]_vars => IInv'
  <1> SUFFICES ASSUME IInv, [Next]_vars
               PROVE  IInv'
    OBVIOUS
  <1>1. CASE UNCHANGED vars
    BY <1>1
    DEF vars, IInv, TypeOK, Together, Outcomes, Clean, Answered, Listed, Sent,
        Failed, NoAnswerWithoutReplicaSets, NamedPodsAreExact, ErrorsAreReal
  <1> QED
    BY <1>1, EarlyStep, ConcludeStep, ListStep, AssignStep, TestStep, SendStep
    DEF Next, Handler, Worker

\* It holds before the request.
LEMMA InitIInv == Init => IInv
  <1> SUFFICES ASSUME Init
               PROVE  IInv
    OBVIOUS
  <1>1. TypeOK
    BY ErrorTypes, EmptySeq DEF Init, TypeOK, NilList
  <1>2. \A w \in Workers : ~Failed(w) /\ Sent(w) = 0 /\ worker[w] = "off"
    BY DEF Init, Failed, IsNil, NoError, Sent
  <1>3. Together
    BY <1>2, EmptySeq DEF Init, Together, Workers
  <1>4. Outcomes /\ Clean
    BY <1>2, EmptySeq DEF Init, Outcomes, Clean, Workers
  <1>5. Answered
    BY DEF Init, Answered, NoAnswerWithoutReplicaSets, NamedPodsAreExact,
           ErrorsAreReal
  <1> QED
    BY <1>1, <1>3, <1>4, <1>5 DEF IInv

\* The inductive invariant holds in every behaviour.
THEOREM Invariance == Spec => []IInv
  BY InitIInv, NextIInv, PTL DEF Spec

\* Every variable keeps its type, and the channel never has to hold more than
\* its two values.
THEOREM TypeCorrect == Spec => []TypeOK
  <1>1. IInv => TypeOK
    BY DEF IInv
  <1> QED
    BY <1>1, Invariance, PTL

\* A failed listing of the ReplicaSets never ends in a 200.
THEOREM NilListPanics == Spec => []NoAnswerWithoutReplicaSets
  <1>1. IInv => NoAnswerWithoutReplicaSets
    BY DEF IInv, Answered
  <1> QED
    BY <1>1, Invariance, PTL

\* An answer that names pods names exactly the deployment's.
THEOREM ExactOrEmpty == Spec => []NamedPodsAreExact
  <1>1. IInv => NamedPodsAreExact
    BY DEF IInv, Answered
  <1> QED
    BY <1>1, Invariance, PTL

\* A 500 after the listing began means that a listing failed.
THEOREM NoErrorIsInvented == Spec => []ErrorsAreReal
  <1>1. IInv => ErrorsAreReal
    BY DEF IInv, Answered
  <1> QED
    BY <1>1, Invariance, PTL
-----------------------------------------------------------------------------
(***************************************************************************)
(* The loops of OwnerFilter, for any lists.                                *)
(***************************************************************************)
\* The ReplicaSets of the deployment that the outer loop is done with.
Taken(rs) == \E k \in 1 .. rsk - 1 : rsList[k] = rs /\ rs \in Owned

\* What the inner loop has found; before and after it, found means nothing.
InFound(pod) == pc = "inner" /\ pod \in Range(found)

\* Both lists name every object once, the indices stay within them, and the
\* loops end only when one of the lists is used up.
WellFormed ==
    /\ pc \in {"outer", "inner", "done"}
    /\ rsList \in Seq(ReplicaSets) /\ IsInjective(rsList)
    /\ listed \in Seq(Pods) /\ IsInjective(listed)
    /\ podList \in Seq(Pods)
    /\ found \in Seq(Pods)
    /\ matchingPods \in Seq(Pods)
    /\ rsk \in 1 .. Len(rsList) + 1 /\ podInx \in Nat \ {0}
    /\ pc = "inner" =>
           /\ rsk <= Len(rsList) /\ rsList[rsk] \in Owned
           /\ podInx <= Len(podList) + 1
    /\ pc = "done" => rsk = Len(rsList) + 1 \/ podList = <<>>

\* Where each listed pod is; the inner loop has left behind its index only
\* pods of other ReplicaSets.
Places ==
    /\ Range(podList) =
           {p \in Range(listed) : ~Taken(Owner[p]) /\ ~InFound(p)}
    /\ Range(matchingPods) =
           {p \in Range(listed) : Taken(Owner[p])}
    /\ pc = "inner" =>
           /\ \A p \in Range(found) :
                  p \in Range(listed) /\ Owner[p] = rsList[rsk]
           /\ \A i \in 1 .. podInx - 1 : Owner[podList[i]] # rsList[rsk]

\* Each list keeps the order of the listing, and the result that of Before.
Orders ==
    /\ \A i, j \in DOMAIN podList :
           i < j => Earlier(listed, podList[i], podList[j])
    /\ pc = "inner" =>
           /\ \A i, j \in DOMAIN found :
                  i < j => Earlier(listed, found[i], found[j])
           /\ \A i \in DOMAIN found, j \in podInx .. Len(podList) :
                  Earlier(listed, found[i], podList[j])
    /\ \A i, j \in DOMAIN matchingPods :
           i < j => Before(matchingPods[i], matchingPods[j])

FilterInv == WellFormed /\ Places /\ Orders

\* The order of a list without duplicates is irreflexive.
LEMMA EarlierIrreflexive ==
    ASSUME NEW s, IsInjective(s), NEW x, Earlier(s, x, x),
           DOMAIN s \subseteq Int
    PROVE  FALSE
  BY DEF IsInjective, Earlier

\* What RemoveAt leaves: the elements before the index where they were, those
\* behind it one place to the left.
LEMMA RemoveAtElements ==
    ASSUME NEW S, NEW s \in Seq(S), NEW n \in 1 .. Len(s)
    PROVE  LET t == RemoveAt(s, n)
           IN  /\ t \in Seq(S)
               /\ Len(t) = Len(s) - 1
               /\ \A i \in 1 .. n - 1 : t[i] = s[i]
               /\ \A i \in n .. Len(s) - 1 : t[i] = s[i + 1]
  <1> DEFINE a == SubSeq(s, 1, n - 1)
             b == SubSeq(s, n + 1, Len(s))
  <1>1. /\ a \in Seq(S) /\ Len(a) = n - 1
        /\ \A i \in 1 .. n - 1 : a[i] = s[i]
    OBVIOUS
  <1>2. /\ b \in Seq(S) /\ Len(b) = Len(s) - n
        /\ \A i \in 1 .. Len(s) - n : b[i] = s[n + i]
    <2>1. CASE n = Len(s)
      BY <2>1
    <2>2. CASE n < Len(s)
      BY <2>2
    <2> QED  BY <2>1, <2>2
  <1> HIDE DEF a, b
  <1>3. /\ a \o b \in Seq(S)
        /\ Len(a \o b) = Len(s) - 1
        /\ \A i \in 1 .. n - 1 : (a \o b)[i] = a[i]
        /\ \A i \in n .. Len(s) - 1 : (a \o b)[i] = b[i - (n - 1)]
    <2>1. /\ a \o b \in Seq(S)
          /\ Len(a \o b) = Len(a) + Len(b)
          /\ \A i \in 1 .. Len(a) + Len(b) :
                 (a \o b)[i] = IF i <= Len(a) THEN a[i] ELSE b[i - Len(a)]
      BY <1>1, <1>2, ConcatProperties
    <2>2. Len(s) \in Nat
      OBVIOUS
    <2>3. Len(a) + Len(b) = Len(s) - 1
      BY <1>1, <1>2, <2>2
    <2>4. ASSUME NEW i \in 1 .. n - 1
          PROVE  (a \o b)[i] = a[i]
      BY <1>1, <2>1, <2>2, <2>3
    <2>5. ASSUME NEW i \in n .. Len(s) - 1
          PROVE  (a \o b)[i] = b[i - (n - 1)]
      BY <1>1, <2>1, <2>2, <2>3
    <2> QED
      BY <2>1, <2>3, <2>4, <2>5
  <1>4. ASSUME NEW i \in n .. Len(s) - 1
        PROVE  (a \o b)[i] = s[i + 1]
    <2>1. i - (n - 1) \in 1 .. Len(s) - n /\ n + (i - (n - 1)) = i + 1
      OBVIOUS
    <2> QED  BY <1>2, <1>3, <2>1
  <1>5. RemoveAt(s, n) = a \o b
    BY DEF RemoveAt, a, b
  <1> QED  BY <1>1, <1>3, <1>4, <1>5

\* Two lists without duplicates that share nothing have none together.
LEMMA Apart ==
    ASSUME NEW S, NEW a \in Seq(S), NEW b \in Seq(S),
           IsInjective(a), IsInjective(b),
           Range(a) \cap Range(b) = {}
    PROVE  /\ a \o b \in Seq(S)
           /\ IsInjective(a \o b)
           /\ Range(a \o b) = Range(a) \cup Range(b)
  <1> DEFINE c == a \o b
  <1>1. c \in Seq(S) /\ Len(c) = Len(a) + Len(b)
    OBVIOUS
  <1>2. ASSUME NEW i \in DOMAIN c
        PROVE  \/ i \in DOMAIN a /\ c[i] = a[i]
               \/ i - Len(a) \in DOMAIN b /\ c[i] = b[i - Len(a)] /\ i > Len(a)
    OBVIOUS
  <1>3. \A i \in DOMAIN a : i \in DOMAIN c /\ c[i] = a[i]
    OBVIOUS
  <1>4. ASSUME NEW i \in DOMAIN b
        PROVE  i + Len(a) \in DOMAIN c /\ c[i + Len(a)] = b[i]
    OBVIOUS
  <1>5. /\ DOMAIN a \subseteq Int /\ DOMAIN b \subseteq Int
        /\ DOMAIN c \subseteq Int
    OBVIOUS
  <1> HIDE DEF c
  <1>6. Range(c) = Range(a) \cup Range(b)
    BY <1>2, <1>3, <1>4 DEF Range
  <1>7. ASSUME NEW i \in DOMAIN c, NEW j \in DOMAIN c, c[i] = c[j]
        PROVE  i = j
    <2>1. Len(a) \in Int
      OBVIOUS
    <2>2. \A x \in DOMAIN a, y \in DOMAIN b : a[x] # b[y]
      BY DEF Range
    <2>3. CASE i \in DOMAIN a /\ c[i] = a[i]
      <3>1. ~(j - Len(a) \in DOMAIN b /\ c[j] = b[j - Len(a)])
        BY <1>7, <2>2, <2>3
      <3> QED
        BY <1>2, <1>7, <2>3, <3>1 DEF IsInjective
    <2>4. CASE i - Len(a) \in DOMAIN b /\ c[i] = b[i - Len(a)]
      <3>1. ~(j \in DOMAIN a /\ c[j] = a[j])
        BY <1>7, <2>2, <2>4
      <3>2. j - Len(a) \in DOMAIN b /\ c[j] = b[j - Len(a)]
        BY <1>2, <3>1
      <3>3. i - Len(a) = j - Len(a)
        BY <1>7, <2>4, <3>2 DEF IsInjective
      <3> QED
        BY <1>5, <2>1, <3>3
    <2> QED
      BY <1>2, <2>3, <2>4
  <1> QED  BY <1>1, <1>6, <1>7 DEF IsInjective, c

\* The ReplicaSet of the inner loop is not taken before it returns.
LEMMA NotTakenYet ==
    ASSUME WellFormed, pc = "inner"
    PROVE  ~Taken(rsList[rsk])
  BY DEF WellFormed, Taken, IsInjective

\* The lists of pods have no duplicates, since their order is strict.
LEMMA NoDuplicatesIn ==
    ASSUME WellFormed, Orders
    PROVE  /\ IsInjective(podList)
           /\ pc = "inner" => IsInjective(found)
           /\ IsInjective(matchingPods)
  <1>0. /\ DOMAIN listed \subseteq Int /\ DOMAIN rsList \subseteq Int
        /\ DOMAIN podList \subseteq Int /\ DOMAIN found \subseteq Int
        /\ DOMAIN matchingPods \subseteq Int
        /\ IsInjective(listed) /\ IsInjective(rsList)
    BY DEF WellFormed
  <1>1. \A x : ~Earlier(listed, x, x)
    BY <1>0, EarlierIrreflexive
  <1>2. \A x : ~Earlier(rsList, x, x)
    BY <1>0, EarlierIrreflexive
  <1>3. \A x : ~Before(x, x)
    BY <1>1, <1>2 DEF Before
  <1>4. IsInjective(podList)
    <2> SUFFICES ASSUME NEW i \in DOMAIN podList, NEW j \in DOMAIN podList,
                        podList[i] = podList[j], i < j
                 PROVE  FALSE
      BY <1>0 DEF IsInjective
    <2> QED
      BY <1>1 DEF Orders
  <1>5. ASSUME pc = "inner"
        PROVE  IsInjective(found)
    <2> SUFFICES ASSUME NEW i \in DOMAIN found, NEW j \in DOMAIN found,
                        found[i] = found[j], i < j
                 PROVE  FALSE
      BY <1>0 DEF IsInjective
    <2> QED
      BY <1>1, <1>5 DEF Orders
  <1>6. IsInjective(matchingPods)
    <2> SUFFICES ASSUME NEW i \in DOMAIN matchingPods,
                        NEW j \in DOMAIN matchingPods,
                        matchingPods[i] = matchingPods[j], i < j
                 PROVE  FALSE
      BY <1>0 DEF IsInjective
    <2> QED
      BY <1>3 DEF Orders
  <1> QED
    BY <1>4, <1>5, <1>6

\* Each listed pod is in one place.
LEMMA EveryPodInOnePlace ==
    ASSUME FilterInv
    PROVE  NoPodLostOrDoubled
  <1> USE DEF FilterInv
  <1> DEFINE f == IF pc = "inner" THEN found ELSE <<>>
  <1>1. f \in Seq(Pods) /\ IsInjective(f)
    BY NoDuplicatesIn, EmptySeq DEF WellFormed, IsInjective
  <1>2. \A p : p \in Range(f) <=> InFound(p)
    BY EmptySeq DEF Range, InFound
  <1>3. /\ podList \in Seq(Pods) /\ IsInjective(podList)
        /\ matchingPods \in Seq(Pods) /\ IsInjective(matchingPods)
    BY NoDuplicatesIn DEF WellFormed
  <1>4. ASSUME NEW p, InFound(p)
        PROVE  p \in Range(listed) /\ ~Taken(Owner[p])
    BY <1>4, NotTakenYet DEF InFound, Places
  <1> HIDE DEF f
  <1>5. Range(podList) \cap Range(f) = {}
    BY <1>2 DEF Places
  <1>6. /\ podList \o f \in Seq(Pods)
        /\ IsInjective(podList \o f)
        /\ Range(podList \o f) =
               Range(podList) \cup Range(f)
    BY <1>1, <1>3, <1>5, Apart
  <1>7. Range(podList \o f) \cap Range(matchingPods) = {}
    BY <1>2, <1>4, <1>6 DEF Places
  <1> DEFINE g == podList \o f
  <1>8. /\ IsInjective(g \o matchingPods)
        /\ Range(g \o matchingPods)
              = Range(g) \cup Range(matchingPods)
    <2>1. /\ g \in Seq(Pods) /\ IsInjective(g)
          /\ Range(g) \cap Range(matchingPods) = {}
      BY <1>6, <1>7
    <2> HIDE DEF g
    <2> QED
      BY <1>3, <2>1, Apart
  <1>9. Range(g) \cup Range(matchingPods) = Range(listed)
    BY <1>2, <1>4, <1>6 DEF Places
  <1> QED
    BY <1>8, <1>9 DEF NoPodLostOrDoubled, f

\* At the end every pod of a listed ReplicaSet of the deployment is returned.
LEMMA AllReturned ==
    ASSUME FilterInv
    PROVE  ReturnsTheOwnedPods
  <1> SUFFICES ASSUME pc = "done"
               PROVE  Range(matchingPods) =
                          {p \in Range(listed) :
                               Owner[p] \in Range(rsList) \cap Owned}
    BY DEF ReturnsTheOwnedPods, Filtered, FilterInv, Orders
  <1>1. ASSUME NEW rs, Taken(rs)
        PROVE  rs \in Range(rsList) \cap Owned
    BY <1>1 DEF Taken, FilterInv, WellFormed, Range
  <1>2. CASE rsk = Len(rsList) + 1
    <2>1. ASSUME NEW rs \in Range(rsList) \cap Owned
          PROVE  Taken(rs)
      BY <1>2, <2>1 DEF Taken, FilterInv, WellFormed, Range
    <2> QED
      BY <1>1, <2>1 DEF FilterInv, Places
  <1>3. CASE podList = <<>>
    <2>1. Range(podList) = {}
      BY <1>3, EmptySeq DEF Range
    <2>2. \A p \in Range(listed) : Taken(Owner[p])
      BY <2>1 DEF FilterInv, Places, InFound
    <2> QED
      BY <1>1, <2>2 DEF FilterInv, Places
  <1> QED
    BY <1>2, <1>3 DEF FilterInv, WellFormed

-----------------------------------------------------------------------------
\* The API server's lists come in sequences without duplicates.
LEMMA ListsAreSequences ==
    ASSUME NEW S, NEW n, NEW s \in Lists(S, n), n \in Nat
    PROVE  s \in Seq(S) /\ IsInjective(s)
  <1>1. PICK k \in 0 .. n : s \in [1 .. k -> S]
    BY DEF Lists
  <1>2. s \in Seq(S)
    BY <1>1, SeqDef
  <1> QED
    BY <1>2 DEF Lists

\* The invariant holds before the loops.
LEMMA InitFilterInv == FilterInit => FilterInv
  <1> SUFFICES ASSUME FilterInit
               PROVE  FilterInv
    OBVIOUS
  <1>1. /\ rsList \in Seq(ReplicaSets) /\ IsInjective(rsList)
        /\ listed \in Seq(Pods) /\ IsInjective(listed)
    BY BoundsAssumption, ListsAreSequences DEF FilterInit
  <1>2. \A rs : ~Taken(rs)
    BY DEF FilterInit, Taken
  <1>3. WellFormed
    BY <1>1, EmptySeq DEF WellFormed, FilterInit
  <1>4. Places
    <2>1. Range(matchingPods) = {}
      BY EmptySeq DEF FilterInit, Range
    <2> QED
      BY <1>2, <2>1 DEF Places, FilterInit, InFound
  <1>5. Orders
    <2>1. ASSUME NEW i \in DOMAIN podList, NEW j \in DOMAIN podList, i < j
          PROVE  Earlier(listed, podList[i], podList[j])
      BY <2>1 DEF FilterInit, Earlier
    <2> QED
      BY <2>1, EmptySeq DEF Orders, FilterInit
  <1> QED
    BY <1>3, <1>4, <1>5 DEF FilterInv

\* One turn of the outer loop.
LEMMA OuterStep ==
    ASSUME FilterInv, Outer
    PROVE  FilterInv'
  <1> USE DEF Outer
  <1>0. /\ WellFormed /\ Places /\ Orders
        /\ rsk \in Nat /\ Len(rsList) \in Nat
        /\ UNCHANGED <<rsList, listed, podList, matchingPods>>
    BY DEF FilterInv, WellFormed
  <1>1. CASE rsk > Len(rsList) \/ podList = <<>>
    <2>1. pc' = "done" /\ UNCHANGED <<rsk, podInx, found>>
      BY <1>1
    <2>2. \A rs : Taken(rs)' <=> Taken(rs)
      BY <1>0, <2>1 DEF Taken
    <2>3. \A p : ~InFound(p) /\ ~InFound(p)'
      BY <2>1 DEF InFound
    <2>4. WellFormed'
      BY <1>0, <1>1, <2>1 DEF WellFormed
    <2>5. Places'
      BY <1>0, <2>1, <2>2, <2>3 DEF Places, Range
    <2>6. Orders'
      BY <1>0, <2>1 DEF Orders, Earlier, Before
    <2> QED
      BY <2>4, <2>5, <2>6 DEF FilterInv
  <1>2. CASE ~(rsk > Len(rsList) \/ podList = <<>>) /\ rsList[rsk] \in Owned
    <2>1. pc' = "inner" /\ podInx' = 1 /\ found' = <<>> /\ UNCHANGED rsk
      BY <1>2
    <2>2. \A rs : Taken(rs)' <=> Taken(rs)
      BY <1>0, <2>1 DEF Taken
    <2>3. /\ Range(found)' = {}
          /\ \A p : ~InFound(p) /\ ~InFound(p)'
      BY <2>1, EmptySeq DEF InFound, Range
    <2>4. WellFormed'
      BY <1>0, <1>2, <2>1, EmptySeq DEF WellFormed
    <2>5. Places'
      <3>1. /\ Range(podList)' = Range(podList)
            /\ Range(listed)' = Range(listed)
            /\ Range(matchingPods)' = Range(matchingPods)
        BY <1>0
      <3>2. 1 .. podInx' - 1 = {}
        BY <2>1
      <3> QED
        BY <1>0, <2>1, <2>2, <2>3, <3>1, <3>2 DEF Places
    <2>6. Orders'
      BY <1>0, <2>1, EmptySeq DEF Orders, Earlier, Before
    <2> QED
      BY <2>4, <2>5, <2>6 DEF FilterInv
  <1>3. CASE ~(rsk > Len(rsList) \/ podList = <<>>) /\ rsList[rsk] \notin Owned
    <2>1. rsk' = rsk + 1 /\ pc' = "outer" /\ UNCHANGED <<podInx, found>>
      BY <1>3
    <2>2. \A rs : Taken(rs)' <=> Taken(rs)
      BY <1>0, <1>3, <2>1 DEF Taken
    <2>3. \A p : ~InFound(p) /\ ~InFound(p)'
      BY <2>1 DEF InFound
    <2>4. WellFormed'
      BY <1>0, <1>3, <2>1 DEF WellFormed
    <2>5. Places'
      BY <1>0, <2>1, <2>2, <2>3 DEF Places, Range
    <2>6. Orders'
      BY <1>0, <2>1 DEF Orders, Earlier, Before
    <2> QED
      BY <2>4, <2>5, <2>6 DEF FilterInv
  <1> QED
    BY <1>1, <1>2, <1>3

\* One turn of the inner loop: a pod that does not match is left behind, one
\* that does is taken out of the list.
LEMMA InnerStep ==
    ASSUME FilterInv, Inner
    PROVE  FilterInv'
  <1> DEFINE match == Controls(rsList[rsk], podList[podInx])
  <1>0. /\ WellFormed /\ Places /\ Orders
        /\ rsk \in Nat /\ Len(rsList) \in Nat
        /\ podInx \in 1 .. Len(podList)
        /\ podList \in Seq(Pods) /\ found \in Seq(Pods)
        /\ pc = "inner" /\ pc' = "inner"
        /\ UNCHANGED <<rsList, listed, rsk, matchingPods>>
    BY DEF FilterInv, WellFormed, Inner
  <1>1. \A rs : Taken(rs)' <=> Taken(rs)
    BY <1>0 DEF Taken
  <1>2. match <=> Owner[podList[podInx]] = rsList[rsk]
    BY DEF Controls
  <1>3. CASE ~match
    <2>1. podInx' = podInx + 1 /\ UNCHANGED <<found, podList>>
      BY <1>3 DEF Inner, NextIndex
    <2>2. \A p : InFound(p)' <=> InFound(p)
      BY <1>0, <2>1 DEF InFound, Range
    <2>3. WellFormed'
      BY <1>0, <2>1 DEF WellFormed
    <2>4. ASSUME NEW i \in 1 .. podInx
          PROVE  Owner[podList[i]] # rsList[rsk]
      <3>1. CASE i = podInx
        BY <1>2, <1>3, <3>1
      <3>2. CASE i \in 1 .. podInx - 1
        BY <1>0, <3>2 DEF Places
      <3> QED
        BY <1>0, <3>1, <3>2
    <2>5. Places'
      <3>1. podInx' - 1 = podInx
        BY <1>0, <2>1
      <3> QED
        BY <1>0, <1>1, <2>1, <2>2, <2>4, <3>1 DEF Places, Range
    <2>6. Orders'
      <3>1. podInx' .. Len(podList') \subseteq podInx .. Len(podList)
        BY <1>0, <2>1
      <3> QED
        BY <1>0, <2>1, <3>1 DEF Orders, Earlier, Before
    <2> QED
      BY <2>3, <2>5, <2>6 DEF FilterInv
  <1>4. CASE match
    <2> DEFINE x == podList[podInx]
    <2>1. /\ podInx' = podInx
          /\ found' = Append(found, x)
          /\ podList' = RemoveAt(podList, podInx)
      BY <1>4 DEF Inner, NextIndex
    <2>2. /\ podList' \in Seq(Pods)
          /\ Len(podList') = Len(podList) - 1
          /\ \A i \in 1 .. podInx - 1 : podList'[i] = podList[i]
          /\ \A i \in podInx .. Len(podList) - 1 : podList'[i] = podList[i + 1]
      BY <1>0, <2>1, RemoveAtElements
    <2>3. /\ found' \in Seq(Pods)
          /\ Len(found') = Len(found) + 1
          /\ \A i \in 1 .. Len(found) : found'[i] = found[i]
          /\ found'[Len(found) + 1] = x
          /\ x \in Pods
      BY <1>0, <2>1
    <2>4. Len(podList) \in Nat /\ Len(found) \in Nat
      BY <1>0
    <2> HIDE DEF x
    <2>5. Range(found)' = Range(found) \cup {x}
      <3>1. /\ DOMAIN found = 1 .. Len(found)
            /\ DOMAIN found' = 1 .. Len(found) + 1
        BY <1>0, <2>3
      <3> QED
        BY <2>3, <2>4, <3>1 DEF Range
    <2>6. Range(podList)' = Range(podList) \ {x}
      <3>1. /\ DOMAIN podList = 1 .. Len(podList)
            /\ DOMAIN podList' = 1 .. Len(podList) - 1
        BY <1>0, <2>2
      <3>2. IsInjective(podList)
        BY <1>0, NoDuplicatesIn
      <3>3. ASSUME NEW i \in DOMAIN podList'
            PROVE  podList'[i] \in Range(podList) \ {x}
        <4>1. CASE i \in 1 .. podInx - 1
          <5>1. i \in DOMAIN podList /\ i # podInx
            BY <1>0, <2>4, <3>1, <4>1
          <5> QED
            BY <1>0, <2>2, <3>1, <3>2, <4>1, <5>1
            DEF Range, IsInjective, x
        <4>2. CASE i \in podInx .. Len(podList) - 1
          <5>1. i + 1 \in DOMAIN podList /\ i + 1 # podInx
            BY <1>0, <2>4, <3>1, <4>2
          <5> QED
            BY <1>0, <2>2, <3>1, <3>2, <4>2, <5>1
            DEF Range, IsInjective, x
        <4> QED
          BY <1>0, <2>4, <3>1, <4>1, <4>2
      <3>4. ASSUME NEW i \in DOMAIN podList, podList[i] # x
            PROVE  podList[i] \in Range(podList)'
        <4>1. CASE i \in 1 .. podInx - 1
          <5>1. i \in DOMAIN podList'
            BY <1>0, <2>4, <3>1, <4>1
          <5> QED
            BY <2>2, <4>1, <5>1 DEF Range
        <4>2. CASE i \in podInx + 1 .. Len(podList)
          <5>1. /\ i - 1 \in DOMAIN podList'
                /\ i - 1 \in podInx .. Len(podList) - 1
                /\ (i - 1) + 1 = i
            BY <1>0, <2>4, <3>1, <4>2
          <5> QED
            BY <2>2, <5>1 DEF Range
        <4>3. i # podInx
          BY <3>4 DEF x
        <4> QED
          BY <1>0, <2>4, <3>1, <4>1, <4>2, <4>3
      <3> QED
        BY <3>3, <3>4 DEF Range
    <2>7. /\ x \in Range(listed)
          /\ ~Taken(Owner[x]) /\ Owner[x] = rsList[rsk]
      <3>1. x \in Range(podList)
        BY <1>0 DEF Range, x
      <3> QED
        BY <1>0, <1>2, <1>4, <3>1 DEF Places, x
    <2>8. \A p : InFound(p)' <=> InFound(p) \/ p = x
      BY <1>0, <2>5 DEF InFound
    <2>9. WellFormed'
      BY <1>0, <2>1, <2>2, <2>3, <2>4 DEF WellFormed
    <2>10. Places'
      <3>1. Range(listed)' = Range(listed)
        BY <1>0
      <3>2. Range(podList)' =
                {p \in Range(listed)' :
                     ~Taken(Owner[p])' /\ ~InFound(p)'}
        BY <1>0, <1>1, <2>6, <2>8, <3>1 DEF Places
      <3>3. Range(matchingPods)' =
                {p \in Range(listed)' : Taken(Owner[p])'}
        <4>1. Range(matchingPods)' = Range(matchingPods)
          BY <1>0
        <4> QED
          BY <1>0, <1>1, <3>1, <4>1 DEF Places
      <3>4. \A p \in Range(found)' :
                p \in Range(listed)' /\ Owner[p] = rsList'[rsk']
        BY <1>0, <2>5, <2>7, <3>1 DEF Places
      <3>5. \A i \in 1 .. podInx' - 1 : Owner[podList'[i]] # rsList'[rsk']
        BY <1>0, <2>1, <2>2 DEF Places
      <3> QED
        BY <3>2, <3>3, <3>4, <3>5 DEF Places
    <2>11. Orders'
      <3>1. ASSUME NEW i \in DOMAIN podList', NEW j \in DOMAIN podList', i < j
            PROVE  Earlier(listed, podList'[i], podList'[j])
        <4>1. /\ i \in 1 .. Len(podList) - 1 /\ j \in 1 .. Len(podList) - 1
              /\ DOMAIN podList = 1 .. Len(podList)
          BY <1>0, <2>2
        <4> DEFINE k == IF i < podInx THEN i ELSE i + 1
                   l == IF j < podInx THEN j ELSE j + 1
        <4>2. k \in DOMAIN podList /\ podList'[i] = podList[k]
          BY <1>0, <2>2, <2>4, <4>1
        <4>3. l \in DOMAIN podList /\ podList'[j] = podList[l]
          BY <1>0, <2>2, <2>4, <4>1
        <4>4. k < l
          BY <1>0, <2>4, <3>1, <4>1
        <4> HIDE DEF k, l
        <4> QED
          BY <1>0, <4>2, <4>3, <4>4 DEF Orders
      <3>2. ASSUME NEW j \in podInx .. Len(podList')
            PROVE  /\ j + 1 \in podInx .. Len(podList)
                   /\ podList'[j] = podList[j + 1]
                   /\ Earlier(listed, x, podList[j + 1])
        <4>1. /\ j + 1 \in podInx .. Len(podList)
              /\ j \in podInx .. Len(podList) - 1
              /\ podInx \in DOMAIN podList /\ j + 1 \in DOMAIN podList
              /\ podInx < j + 1
          BY <1>0, <2>2, <2>4
        <4> QED
          BY <1>0, <2>2, <4>1 DEF Orders, x
      <3>3. /\ DOMAIN found' = 1 .. Len(found) + 1
            /\ DOMAIN found = 1 .. Len(found)
        BY <1>0, <2>3
      <3>4. ASSUME NEW i \in DOMAIN found', NEW j \in DOMAIN found', i < j
            PROVE  Earlier(listed, found'[i], found'[j])
        <4>1. i \in 1 .. Len(found) /\ found'[i] = found[i]
          BY <2>3, <2>4, <3>3, <3>4
        <4>2. CASE j = Len(found) + 1
          <5>1. podInx \in podInx .. Len(podList)
            BY <1>0, <2>4
          <5> QED
            BY <1>0, <2>3, <3>3, <4>1, <4>2, <5>1 DEF Orders, x
        <4>3. CASE j \in 1 .. Len(found)
          BY <1>0, <2>3, <3>3, <3>4, <4>1, <4>3 DEF Orders
        <4> QED
          BY <2>4, <3>3, <4>2, <4>3
      <3>5. ASSUME NEW i \in DOMAIN found', NEW j \in podInx .. Len(podList')
            PROVE  Earlier(listed, found'[i], podList'[j])
        <4>1. CASE i = Len(found) + 1
          BY <2>3, <3>2, <4>1
        <4>2. CASE i \in 1 .. Len(found)
          BY <1>0, <2>3, <3>2, <3>3, <4>2 DEF Orders
        <4> QED
          BY <2>4, <3>3, <4>1, <4>2
      <3>6. \A i, j \in DOMAIN matchingPods' :
                i < j => Before(matchingPods[i], matchingPods[j])'
        BY <1>0 DEF Orders, Before, Earlier
      <3>7. listed' = listed /\ podInx' = podInx
        BY <1>0, <2>1
      <3> QED
        BY <3>1, <3>4, <3>5, <3>6, <3>7 DEF Orders
    <2> QED
      BY <2>9, <2>10, <2>11 DEF FilterInv
  <1> QED
    BY <1>3, <1>4

\* The inner loop's result is appended to the outer loop's.
LEMMA ReturnStep ==
    ASSUME FilterInv, Return
    PROVE  FilterInv'
  <1>0. /\ WellFormed /\ Places /\ Orders
        /\ rsk \in 1 .. Len(rsList) /\ Len(rsList) \in Nat
        /\ rsList[rsk] \in Owned
        /\ podInx = Len(podList) + 1
        /\ podList \in Seq(Pods)
        /\ found \in Seq(Pods)
        /\ matchingPods \in Seq(Pods)
        /\ pc = "inner" /\ pc' = "outer" /\ rsk' = rsk + 1
        /\ matchingPods' = matchingPods \o found
        /\ UNCHANGED <<rsList, listed, podList, podInx, found>>
    BY DEF FilterInv, WellFormed, Return
  <1>1. \A rs : Taken(rs)' <=> Taken(rs) \/ rs = rsList[rsk]
    <2>1. 1 .. rsk' - 1 = (1 .. rsk - 1) \cup {rsk}
      BY <1>0
    <2> QED
      BY <1>0, <2>1 DEF Taken
  <1>2. \A p : InFound(p) <=> p \in Range(found)
    BY <1>0 DEF InFound
  <1>3. \A p : ~InFound(p)'
    BY <1>0 DEF InFound
  <1>4. ~Taken(rsList[rsk])
    BY <1>0, NotTakenYet
  <1>5. Range(found) =
            {p \in Range(listed) : Owner[p] = rsList[rsk]}
    <2>1. ASSUME NEW p \in Range(podList)
          PROVE  Owner[p] # rsList[rsk]
      <3>1. PICK i \in DOMAIN podList : p = podList[i]
        BY DEF Range
      <3>2. i \in 1 .. podInx - 1
        BY <1>0
      <3> QED
        BY <1>0, <3>1, <3>2 DEF Places
    <2> QED
      BY <1>0, <1>2, <1>4, <2>1 DEF Places
  <1>6. /\ IsInjective(matchingPods) /\ IsInjective(found)
        /\ Range(matchingPods) \cap Range(found) = {}
    BY <1>0, <1>4, <1>5, NoDuplicatesIn DEF Places
  <1>7. /\ matchingPods' \in Seq(Pods)
        /\ Range(matchingPods)' =
               Range(matchingPods) \cup Range(found)
    <2>1. Range(matchingPods') =
               Range(matchingPods) \cup Range(found)
      BY <1>0, <1>6, Apart
    <2> QED
      BY <1>0, <2>1
  <1>8. WellFormed'
    BY <1>0, <1>7 DEF WellFormed
  <1>9. Places'
    <2>1. /\ Range(listed)' = Range(listed)
          /\ Range(podList)' = Range(podList)
      BY <1>0
    <2>2. Range(podList)' =
              {p \in Range(listed)' : ~Taken(Owner[p])' /\ ~InFound(p)'}
      BY <1>0, <1>1, <1>2, <1>3, <1>5, <2>1 DEF Places
    <2>3. Range(matchingPods)' =
              {p \in Range(listed)' : Taken(Owner[p])'}
      BY <1>0, <1>1, <1>5, <1>7, <2>1 DEF Places
    <2> QED
      BY <1>0, <2>2, <2>3 DEF Places
  <1>10. Orders'
    <2> DEFINE m == matchingPods
    <2>1. /\ Len(m) \in Nat /\ Len(found) \in Nat
          /\ DOMAIN matchingPods' = 1 .. Len(m) + Len(found)
          /\ \A i \in 1 .. Len(m) : matchingPods'[i] = m[i]
          /\ \A i \in Len(m) + 1 .. Len(m) + Len(found) :
                 /\ matchingPods'[i] = found[i - Len(m)]
                 /\ i - Len(m) \in DOMAIN found
          /\ DOMAIN m = 1 .. Len(m)
      BY <1>0
    <2>2. ASSUME NEW p, NEW q
          PROVE  Before(p, q)' <=> Before(p, q)
      BY <1>0 DEF Before
    <2>3. ASSUME NEW i \in DOMAIN matchingPods',
                 NEW j \in DOMAIN matchingPods', i < j
          PROVE  Before(matchingPods'[i], matchingPods'[j])
      <3>1. CASE j \in 1 .. Len(m)
        <4>1. i \in 1 .. Len(m)
          BY <2>1, <2>3, <3>1
        <4> QED
          BY <1>0, <2>1, <2>3, <3>1, <4>1 DEF Orders
      <3>2. CASE i \in Len(m) + 1 .. Len(m) + Len(found)
        <4> DEFINE k == i - Len(m)
                   l == j - Len(m)
        <4>1. /\ j \in Len(m) + 1 .. Len(m) + Len(found)
              /\ k < l
          BY <2>1, <2>3, <3>2
        <4>2. /\ k \in DOMAIN found /\ matchingPods'[i] = found[k]
              /\ l \in DOMAIN found /\ matchingPods'[j] = found[l]
          BY <2>1, <3>2, <4>1
        <4> HIDE DEF k, l
        <4>3. Earlier(listed, found[k], found[l])
          BY <1>0, <4>1, <4>2 DEF Orders
        <4>4. Owner[found[k]] = rsList[rsk] /\ Owner[found[l]] = rsList[rsk]
          BY <1>5, <4>2 DEF Range
        <4> QED
          BY <4>2, <4>3, <4>4 DEF Before
      <3>3. CASE i \in 1 .. Len(m) /\ j \in Len(m) + 1 .. Len(m) + Len(found)
        <4>1. /\ m[i] \in Range(m) /\ matchingPods'[i] = m[i]
              /\ matchingPods'[j] \in Range(found)
          BY <2>1, <3>3 DEF Range
        <4>2. Taken(Owner[m[i]]) /\ Owner[matchingPods'[j]] = rsList[rsk]
          BY <1>0, <1>5, <4>1 DEF Places
        <4>3. PICK k \in 1 .. rsk - 1 : rsList[k] = Owner[m[i]]
          BY <4>2 DEF Taken
        <4>4. k \in DOMAIN rsList /\ rsk \in DOMAIN rsList /\ k < rsk
          BY <1>0 DEF WellFormed
        <4>5. Earlier(rsList, Owner[m[i]], rsList[rsk])
          BY <4>3, <4>4 DEF Earlier
        <4> QED
          BY <4>1, <4>2, <4>5 DEF Before
      <3> QED
        BY <2>1, <3>1, <3>2, <3>3
    <2> QED
      BY <1>0, <2>2, <2>3 DEF Orders
  <1> QED
    BY <1>8, <1>9, <1>10 DEF FilterInv

\* Every step keeps it.
LEMMA NextFilterInv == FilterInv /\ [FilterNext]_filterVars => FilterInv'
  <1>1. ASSUME FilterInv, UNCHANGED filterVars
        PROVE  FilterInv'
    <2>1. UNCHANGED <<rsList, listed, podList, rsk, podInx, found,
                      matchingPods, pc>>
      BY <1>1 DEF filterVars
    <2>2. \A rs : Taken(rs)' <=> Taken(rs)
      BY <2>1 DEF Taken
    <2>3. \A p : InFound(p)' <=> InFound(p)
      BY <2>1 DEF InFound
    <2> QED
      BY <1>1, <2>1, <2>2, <2>3
      DEF FilterInv, WellFormed, Places, Orders, Before
  <1> QED
    BY <1>1, OuterStep, InnerStep, ReturnStep DEF FilterNext

\* The loops' invariant holds in every behaviour.
THEOREM FilterInvariance == FilterSpec => []FilterInv
  <1>1. FilterInit => FilterInv
    BY InitFilterInv
  <1>2. FilterInv /\ [FilterNext]_filterVars => FilterInv'
    BY NextFilterInv
  <1> QED
    BY <1>1, <1>2, PTL DEF FilterSpec

\* No pod is lost or doubled while the loops move it from list to list.
THEOREM PodsStayOnce == FilterSpec => []NoPodLostOrDoubled
  <1>1. FilterInv => NoPodLostOrDoubled
    BY EveryPodInOnePlace
  <1> QED
    BY <1>1, FilterInvariance, PTL

\* The loops return exactly the pods of the deployment's ReplicaSets, in order.
THEOREM FilterIsRight == FilterSpec => []ReturnsTheOwnedPods
  <1>1. FilterInv => ReturnsTheOwnedPods
    BY AllReturned
  <1> QED
    BY <1>1, FilterInvariance, PTL
=============================================================================
