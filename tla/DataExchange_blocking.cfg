SPECIFICATION FairSpec
CONSTANTS
  SendSize = 2
  RecvSize = 4
  Steps = 3
  Count <- MCCount
  Modes = {FALSE, TRUE}
  Buffered = FALSE
INVARIANTS AllReceived WholeArrays
PROPERTIES Termination ImplementsStream
