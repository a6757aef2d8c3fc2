SPECIFICATION FairSpec
CONSTANTS
    Requests = {p1, p2}
    Times = {1, 2}
    Sizes = {1, 2}
    Reports <- MCReports
    MaxVersion = 5
    NoObject = NoObject
INVARIANTS
    TypeOK
    ReadyIsNotStale
    DeletionIsNotSuccess
PROPERTIES
    UpdateKeepsTheRest
    RequestEnds
CHECK_DEADLOCK FALSE
