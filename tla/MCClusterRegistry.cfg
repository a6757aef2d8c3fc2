SPECIFICATION Spec
CONSTANTS
    a = a  b = b
    k1 = k1  k2 = k2  k3 = k3  bad = bad
    u1 = u1  u2 = u2
    Codes = {a, b}
    Kubeconfigs = {k1, k2, k3, bad}
    Uids = {u1, u2}
    Answers <- MCAnswers
    LocalInfos <- MCLocalInfos
    NoConfigMap = NoConfigMap
    NoCall = NoCall
    Requests = {p1, p2}
    MaxRevision = 3
SYMMETRY RequestSymmetry
INVARIANTS
    TypeOK
    UidsDistinct
    UidsBelong
    CopiesAreCurrent
PROPERTY
    ImplementsAtomicRegistry
CHECK_DEADLOCK FALSE
