SPECIFICATION Spec
CONSTANTS
    Size = 3
    ControllerRanks = 1
    MaxJobs = 2
    Functions <- OneAnswerAnywhere
    Silent <- ChaiSilent
    Script = "poll"
    Buffered = TRUE
INVARIANTS
    ValuesPopped
