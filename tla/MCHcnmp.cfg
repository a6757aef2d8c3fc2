SPECIFICATION SystemSpec
CONSTANTS
    a = a  b = b
    k1 = k1  k2 = k2  k3 = k3
    u1 = u1  u2 = u2
    Codes = {a, b}
    Kubeconfigs = {k1, k2, k3}
    Uids = {u1, u2}
    Answers <- MCAnswers
    LocalInfos <- MCLocalInfos
    NoConfigMap = NoConfigMap
    NoCall = NoCall
    NoReplica = NoReplica
    Replicas = {r1}
    Requests = {p1, p2}
    Menu <- MCMenu
    MaxRevision = 20
    Budget <- Writes
INVARIANT
    RefusedIsNeverServed
PROPERTIES
    KeepsClusterRegistry
    KeepsClusterProxy
    RefusalsAreFounded
SYMMETRY
    RequestSymmetry
CHECK_DEADLOCK FALSE
