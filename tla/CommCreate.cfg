SPECIFICATION FairSpec
CONSTANTS
  PairRanks = 4
  LongRanks = 6
  MaxJobs = 2
  Ranks <- MCRanks
  Workloads <- MCWorkloads
INVARIANTS TypeOK NoMixUp SidesAgree
PROPERTIES Termination ImplementsComms
