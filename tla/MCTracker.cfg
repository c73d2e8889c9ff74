CONSTANTS
    Jobs = {j1, j2}
    Passes = {a1, a2}
    Ends = {"COMPLETED", "FAILED"}
    BatchSize = 1
    PlainJobs = {j1}
    LogJobs = {j1}
    MaxFaults = 1
    MaxRequeues = 1
    NoPass = NoPass
    NoJob = NoJob
SPECIFICATION FairSpec
INVARIANTS
    EndsAreQueued
    EventsTellHistory
PROPERTIES
    TerminalPreserved
    EndIsRecorded
