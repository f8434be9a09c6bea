SPECIFICATION Spec
CONSTANTS
  Dispatchings = {"QueueSend"}
  Conns = 2
  MaxEvents = 2
  MaxRequests = 1
  QueueEventsInit = {TRUE}
  MaxToggles = 1
CHECK_DEADLOCK FALSE
INVARIANTS OrderInv ProcessedInOrder RetainedUntilPassed
PROPERTIES ImplementsLossyLog
