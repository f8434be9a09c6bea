SPECIFICATION CalmFairSpec
CONSTANTS
  Dispatchings = {"QueueSend", "Queue"}
  Conns = 2
  MaxEvents = 2
  MaxRequests = 1
  QueueEventsInit = {TRUE, FALSE}
  MaxToggles = 1
CHECK_DEADLOCK FALSE
INVARIANTS NoEventSkipped
PROPERTIES ImplementsFifoLog ConnectedProgress SentIsProcessed
