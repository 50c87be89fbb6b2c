SPECIFICATION FairSpec
CONSTANTS
  Scripts <- AllScripts
  MaxYields = 2
INVARIANTS TypeOK LoopInOrder RestIsTold NobodyAbandoned
PROPERTIES LastTurn Termination
