\* One job with all three kinds of work; two processes of two threads.
CONSTANTS
    Jobs = {j1}
    Pools = {p1, p2}
    Threads = {t1, t2}
    MaxAttempts = 2
    Limit = 2
    MaxFaults = 1
    MaxRetries = 1
    NoPool = NoPool
    NoItem = NoItem
SPECIFICATION FairSpec
INVARIANTS
    ExclusiveExecution
    AttemptsExhausted
    SummaryAfterStatic
PROPERTIES
    SettledIsFinal
    ImplementsContract
    EventuallySettled
