SPECIFICATION Spec
CONSTANTS
    Size = 5
    ControllerRanks = 2
    MaxJobs = 3
    Functions <- AllAnswer
    Silent <- PythonSilent
    Script = "early"
    Buffered = TRUE
INVARIANTS
    NoRankShared
    OneJobWaiting
    WaitingJobsActive
    JobsInOrder
    ScanIsFirstFit
