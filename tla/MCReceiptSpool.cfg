CONSTANTS
    Receipts = {1, 2}
    Jobs = {"j1", "j2"}
    Contents <- MCAll
    Ingesters = {a1, a2}
    MaxFaults = 1
    MaxReplays = 1
    NoReceipt = NoReceipt
SPECIFICATION FairSpec
INVARIANTS
    NothingLost
    WorkFollowsSubmission
PROPERTIES
    ImplementsLedger
    EventuallyFiled
