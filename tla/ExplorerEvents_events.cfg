SPECIFICATION FairSpec
CONSTANTS
  MaxSockets = 2
  Databases = {"db"}
  Containers = {"c"}
  Messages = {"m"}
  Users = {"u1", "u2"}
  MaxSeq = 9
  SubKeys <- MCSubKeys
  Batches <- MCBatches
  Filters <- MCFilters
  MaxClicks = 3
  MaxEvents = 2
CHECK_DEADLOCK FALSE
INVARIANTS TypeOK LogExact TreeShowsSubscriptions
PROPERTIES EventsAcknowledged
