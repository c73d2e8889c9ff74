CONSTANTS
    Receipts = {1, 2}
    Jobs = {"j1", "j2"}
    Contents <- MCOpaque
    Ingesters = {a1, a2}
    MaxFaults = 0
    MaxReplays = 0
    NoReceipt = NoReceipt
SPECIFICATION FairSpec
PROPERTIES
    EventuallyRecorded
