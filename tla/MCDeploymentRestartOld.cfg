SPECIFICATION Spec
CONSTANTS
    Requests = {p1}
    Times = {1, 2}
    Sizes = {1, 2}
    Reports <- MCReports
    MaxVersion = 4
    NoObject = NoObject
INVARIANT
    SuccessMeansRestarted
CHECK_DEADLOCK FALSE
