SPECIFICATION SystemFairSpec
CONSTANTS
    a = a  b = b
    k1 = k1  k2 = k2  k3 = k3
    u1 = u1  u2 = u2
    Codes = {a}
    Kubeconfigs = {k1, k3}
    Uids = {u1, u2}
    Answers <- TwoAnswers
    LocalInfos <- MCLocalInfos
    NoConfigMap = NoConfigMap
    NoCall = NoCall
    NoReplica = NoReplica
    Replicas = {r1, r2}
    Requests = {p1}
    Menu <- OneApply
    MaxRevision = 20
    Budget <- DeleteAndKill
PROPERTY
    Converges
CHECK_DEADLOCK FALSE
