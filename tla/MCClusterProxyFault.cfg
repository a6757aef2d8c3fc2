SPECIFICATION FairSpec
CONSTANTS
    a = a  b = b
    k1 = k1  k2 = k2
    u1 = u1  u2 = u2
    Codes = {a}
    Kubeconfigs = {k1, k2}
    Uids = {u1}
    Answers <- OneAnswers
    LocalInfos <- MCLocalInfos
    NoConfigMap = NoConfigMap
    NoCall = NoCall
    Replicas = {r1}
    Budget <- OneFault
PROPERTY
    Converges
CHECK_DEADLOCK FALSE
