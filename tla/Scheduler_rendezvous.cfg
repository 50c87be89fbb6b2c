SPECIFICATION FairSpec
CONSTANTS
    Size = 4
    ControllerRanks = 1
    MaxJobs = 3
    Functions <- BoolElsewhere
    Silent <- ChaiSilent
    Script = "any"
    Buffered = FALSE
PROPERTIES
    JobServed
    Termination
    ImplementsFairPool
