SPECIFICATION FairSpec
CONSTANTS
    Requests = {q1, q2}
    NoRoute = NoRoute
INVARIANTS
    TypeOK
    CountersMatch
    UnauthorizedCallsNothing
    ConnectTellsTheTruth
    OneBody
PROPERTY
    EveryRequestEnds
CHECK_DEADLOCK FALSE
