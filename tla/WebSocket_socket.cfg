SPECIFICATION FairSpec
CONSTANTS
  Requests = {r1, r2}
  SyncRequests = {r1}
  MaxConns = 2
  MaxFaults = 1
  None = None
INVARIANTS TypeOK NoLostWakeup OneAnswer CalmCanceledIfBroken
PROPERTIES EveryRequestCompletes ClosedHostEnds
CHECK_DEADLOCK FALSE
