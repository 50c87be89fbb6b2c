SPECIFICATION Spec
CONSTANTS
  SendSize = 4
  RecvSize = 2
  Steps = 2
  Count <- MCCount
  Modes = {FALSE, TRUE}
  Buffered = TRUE
INVARIANTS TypeOK SameStep Backpressure NothingLost WholeArrays
PROPERTY ImplementsStream
