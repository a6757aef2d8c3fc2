---------------------------- MODULE OwnerFilter -----------------------------
(***************************************************************************)
(* The two nested loops of FilterDeploymentPodsByOwnerReference            *)
(* (pkg/utils/deployment.go) and FilterPodsByControllerRef                 *)
(* (pkg/utils/helper.go).  The inner loop takes the pods it matches out of *)
(* the slice it is iterating over, and corrects its index for it.  The two *)
(* lists are called rsList and podList here, as PodListing has variables   *)
(* allRS and allPods of its own.                                           *)
(*                                                                         *)
(* A definition marked "fault:" is a mutated form of the next one, kept to *)
(* show that a property can fail; no specification uses it.                *)
(***************************************************************************)
EXTENDS PodData, Naturals, SequencesExt

CONSTANTS
    MaxPods,    \* bound: the longest list of pods
    MaxRS       \* bound: the longest list of ReplicaSets

ASSUME BoundsAssumption == MaxPods \in Nat /\ MaxRS \in Nat

VARIABLES
    rsList,       \* allRS, which the loops do not change
    listed,       \* history: the pods listed
    podList,      \* allPods: those not matched yet
    rsk, podInx,  \* the loop indices, from 1
    found,        \* matchingPods of the inner loop
    matchingPods, \* matchingPods of the outer loop
    pc

filterVars ==
    <<rsList, listed, podList, rsk, podInx, found, matchingPods, pc>>

\* The API server lists every object once, in some order.
Lists(S, n) == {s \in UNION {[1 .. k -> S] : k \in 0 .. n} : IsInjective(s)}

FilterInit ==
    /\ rsList \in Lists(ReplicaSets, MaxRS)
    /\ listed \in Lists(Pods, MaxPods)
    /\ podList = listed
    /\ rsk = 1 /\ podInx = 1
    /\ found = <<>> /\ matchingPods = <<>>
    /\ pc = "outer"

\* One turn of the loop over allRS, up to the inner loop if it is entered.
Outer ==
    /\ pc = "outer"
    /\ IF rsk > Len(rsList) \/ podList = <<>>
       THEN pc' = "done" /\ UNCHANGED <<rsk, podInx, found>>
       ELSE IF rsList[rsk] \in Owned
            THEN pc' = "inner" /\ podInx' = 1 /\ found' = <<>> /\ UNCHANGED rsk
            ELSE rsk' = rsk + 1 /\ UNCHANGED <<pc, podInx, found>>
    /\ UNCHANGED <<rsList, listed, podList, matchingPods>>

Controls(rs, pod) == Owner[pod] = rs

NextIndexUncorrected(removed) == podInx + 1     \* fault: no podInx--
NextIndexStuck(removed) == podInx     \* fault: podInx-- on every turn

\* podInx-- and the loop's podInx++ cancel out after a removal.
NextIndex(removed) == IF removed THEN podInx ELSE podInx + 1

Inner ==
    /\ pc = "inner"
    /\ podInx <= Len(podList)
    /\ LET match == Controls(rsList[rsk], podList[podInx])
       IN  /\ podInx' = NextIndex(match)
           /\ IF match
              THEN /\ found' = Append(found, podList[podInx])
                   /\ podList' = RemoveAt(podList, podInx)
              ELSE UNCHANGED <<found, podList>>
    /\ UNCHANGED <<rsList, listed, rsk, matchingPods, pc>>

ReturnAssigned ==     \* fault: the result is assigned, not appended
    /\ pc = "inner"
    /\ podInx > Len(podList)
    /\ matchingPods' = found
    /\ rsk' = rsk + 1
    /\ pc' = "outer"
    /\ UNCHANGED <<rsList, listed, podList, podInx, found>>

\* append(matchingPods, FilterPodsByControllerRef(...)...)
Return ==
    /\ pc = "inner"
    /\ podInx > Len(podList)
    /\ matchingPods' = matchingPods \o found
    /\ rsk' = rsk + 1
    /\ pc' = "outer"
    /\ UNCHANGED <<rsList, listed, podList, podInx, found>>

FilterNext == Outer \/ Inner \/ Return

FilterSpec ==
    FilterInit /\ [][FilterNext]_filterVars /\ WF_filterVars(FilterNext)
-----------------------------------------------------------------------------
(***************************************************************************)
(* Properties.                                                             *)
(***************************************************************************)
Earlier(s, x, y) == \E i, j \in DOMAIN s : i < j /\ s[i] = x /\ s[j] = y

\* The order of the result: by ReplicaSet, as they are listed; the pods of one
\* ReplicaSet as these are listed.
Before(p, q) ==
    \/ Earlier(rsList, Owner[p], Owner[q])
    \/ Owner[p] = Owner[q] /\ Earlier(listed, p, q)

\* The loops return exactly the pods of the deployment's listed ReplicaSets, in
\* the order Before, which is strict and total on them, so that it leaves one
\* sequence only: removing pods from the slice under the index skips none and
\* moves none, and leaving early drops none.
ReturnsTheOwnedPods ==
    pc = "done" =>
        /\ Range(matchingPods) =
               Filtered(Range(rsList), Range(listed))
        /\ \A i, j \in DOMAIN matchingPods :
               i < j => Before(matchingPods[i], matchingPods[j])

\* At every step each listed pod is in exactly one of three places: still
\* unmatched, found by the inner loop, or already in the result.
NoPodLostOrDoubled ==
    LET places == podList \o (IF pc = "inner" THEN found ELSE <<>>) \o matchingPods
    IN  IsInjective(places) /\ Range(places) = Range(listed)

Terminates == <>(pc = "done")
=============================================================================
