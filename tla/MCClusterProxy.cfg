SPECIFICATION FairSpec
CONSTANTS
    a = a  b = b
    k1 = k1  k2 = k2
    u1 = u1  u2 = u2
    Codes = {a, b}
    Kubeconfigs = {k1, k2}
    Uids = {u1, u2}
    Answers <- MCAnswers
    LocalInfos <- MCLocalInfos
    NoConfigMap = NoConfigMap
    NoCall = NoCall
    Replicas = {r1}
    Budget <- Turbulence
INVARIANTS
    TypeOK
    QuietMeansFresh
    CacheIsOneSnapshot
    RetryIsDead
    StopsAreExplained
PROPERTIES
    ServedMonotone
    ConvergesUnlessStopped
CHECK_DEADLOCK FALSE
