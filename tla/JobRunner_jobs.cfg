SPECIFICATION FairRunnerSpec
CONSTANTS
  Callers = {c1, c2}
  Workers = {w1, w2}
  Main = main
  NoCaller = none
  MaxJobs = 3
CHECK_DEADLOCK FALSE
INVARIANTS JobInv
PROPERTIES ImplementsForkJoin JobReturns
