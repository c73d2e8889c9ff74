CONSTANTS
    Jobs = {j1, j2}
    Verdicts <- MCVerdicts
    MaxRows = 2
    Dispatchers = {d1, d2}
    Threshold = 2
    Limit = 2
    MaxIncidents = 1
    MaxFreezes = 1
    NoOne = NoOne
SPECIFICATION FairSpec
INVARIANTS
    StatusTellsDelivery
    BatchAgrees
PROPERTIES
    NoReplay
    AtMostOnce
    EventuallyAttempted
