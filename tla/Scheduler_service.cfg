SPECIFICATION Spec
CONSTANTS
    Size = 4
    ControllerRanks = 1
    MaxJobs = 3
    Functions <- OneAnswerAnywhere
    Silent <- PythonSilent
    Script = "poll"
    Buffered = TRUE
INVARIANTS
    TypeOK
    AnsweredOnce
    CleanShutdown
PROPERTIES
    ImplementsPool
