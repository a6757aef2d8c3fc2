SPECIFICATION FairSpec
CONSTANTS
    old = old  new = new  foreign = foreign
    p1 = p1  p2 = p2  p3 = p3
    ReplicaSets = {old, new, foreign}
    Pods = {p1, p2, p3}
    Owned = {old, new}
    Owner <- MCOwner
INVARIANTS
    TypeOK
    NoAnswerWithoutReplicaSets
    NamedPodsAreExact
    ErrorsAreReal
PROPERTY
    NothingIsLeftRunning
CHECK_DEADLOCK FALSE
