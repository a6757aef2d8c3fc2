--------------------------- MODULE RegistryLemmas ---------------------------
(***************************************************************************)
(* Facts about the operators of RegistryData: what storing and deleting an *)
(* entry of binaryData preserves.                                          *)
(***************************************************************************)
EXTENDS RegistryData, TLAPS

\* Being a registry is being a function from some codes to ClusterInfo.
LEMMA RegistryIntro ==
    ASSUME NEW S \in SUBSET Codes, NEW data \in [S -> ClusterInfo]
    PROVE  data \in Registries
  BY DEF Registries

LEMMA RegistryElim ==
    ASSUME NEW data \in Registries
    PROVE  /\ DOMAIN data \in SUBSET Codes
           /\ data \in [DOMAIN data -> ClusterInfo]
  BY DEF Registries

LEMMA EmptyRegistryType == EmptyRegistry \in Registries
  <1>1. EmptyRegistry \in [{} -> ClusterInfo]
    BY DEF EmptyRegistry
  <1> QED
    BY <1>1, RegistryIntro

\* cm.BinaryData[code] = data yields a registry.
LEMMA PutType ==
    ASSUME NEW data \in Registries, NEW code \in Codes, NEW info \in ClusterInfo
    PROVE  Put(data, code, info) \in Registries
  <1>1. Put(data, code, info) \in [DOMAIN data \cup {code} -> ClusterInfo]
    BY RegistryElim DEF Put
  <1>2. DOMAIN data \cup {code} \in SUBSET Codes
    BY RegistryElim
  <1> QED
    BY <1>1, <1>2, RegistryIntro

\* delete(cm.BinaryData, code) yields a registry.
LEMMA DropType ==
    ASSUME NEW data \in Registries, NEW code
    PROVE  Drop(data, code) \in Registries
  <1>1. Drop(data, code) \in [DOMAIN data \ {code} -> ClusterInfo]
    BY RegistryElim DEF Drop, Restrict
  <1>2. DOMAIN data \ {code} \in SUBSET Codes
    BY RegistryElim
  <1> QED
    BY <1>1, <1>2, RegistryIntro

\* Deleting a code that is not there changes nothing.
LEMMA DropAbsent ==
    ASSUME NEW data \in Registries, NEW code, code \notin DOMAIN data
    PROVE  Drop(data, code) = data
  BY RegistryElim DEF Drop, Restrict

\* An entry is replaced by deleting it and storing another.
LEMMA PutAfterDrop ==
    ASSUME NEW data \in Registries, NEW code, NEW info
    PROVE  Put(Drop(data, code), code, info) = Put(data, code, info)
  BY RegistryElim DEF Put, Drop, Restrict

\* Deleting an entry keeps the UIDs distinct, and matched to kubeconfigs.
LEMMA DropKeeps ==
    ASSUME NEW data \in Registries, NEW code
    PROVE  /\ DistinctUids(data) => DistinctUids(Drop(data, code))
           /\ UidsMatch(data) => UidsMatch(Drop(data, code))
  BY DEF DistinctUids, UidsMatch, Drop, Restrict

\* Storing an entry keeps the UIDs distinct if its UID is not taken.
LEMMA PutDistinct ==
    ASSUME NEW data \in Registries, NEW code, NEW info \in ClusterInfo,
           DistinctUids(data), code \notin DOMAIN data,
           ~UidTaken(data, info.id)
    PROVE  DistinctUids(Put(data, code, info))
  BY DEF DistinctUids, UidTaken, Put

LEMMA PutMatches ==
    ASSUME NEW data \in Registries, NEW code, NEW info \in ClusterInfo,
           UidsMatch(data), info.id \in Answers[info.kubeconfig]
    PROVE  UidsMatch(Put(data, code, info))
  BY DEF UidsMatch, Put
=============================================================================
