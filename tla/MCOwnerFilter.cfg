SPECIFICATION FilterSpec
CONSTANTS
    old = old  new = new  foreign = foreign
    p1 = p1  p2 = p2  p3 = p3  p4 = p4  p5 = p5
    ReplicaSets = {old, new, foreign}
    Pods = {p1, p2, p3, p4, p5}
    Owned = {old, new}
    Owner <- MCOwner
    MaxPods = 5
    MaxRS = 3
INVARIANTS
    ReturnsTheOwnedPods
    NoPodLostOrDoubled
PROPERTY
    Terminates
CHECK_DEADLOCK FALSE
