SPECIFICATION FairSpec
CONSTANTS
  Width = 2
  NumWorkers = 4
  MaxJobs = 2
  Buffering = {FALSE, TRUE}
INVARIANTS TotalsComplete StopIsLast
PROPERTY Termination
