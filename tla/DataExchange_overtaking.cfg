SPECIFICATION Spec
CONSTANTS
  SendSize = 1
  RecvSize = 1
  Steps = 2
  Count <- MCCount
  Modes = {FALSE}
  Buffered = TRUE
INVARIANT StopIsLast
