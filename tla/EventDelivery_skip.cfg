SPECIFICATION Spec
CONSTANTS
  Dispatchings = {"QueueSend"}
  Conns = 2
  MaxEvents = 2
  MaxRequests = 1
  QueueEventsInit = {TRUE}
  MaxToggles = 0
CHECK_DEADLOCK FALSE
INVARIANTS NoEventSkipped
