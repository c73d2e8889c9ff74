CONSTANTS
    Jobs = {j1}
    Passes = {a1, a2}
    Ends = {"COMPLETED", "PREEMPTED"}
    BatchSize = 1
    PlainJobs = {}
    LogJobs = {}
    MaxFaults = 0
    MaxRequeues = 0
    NoPass = NoPass
    NoJob = NoJob
SPECIFICATION FairSpec
PROPERTIES
    EveryEndIsRecorded
