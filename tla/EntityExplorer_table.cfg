SPECIFICATION Spec
CONSTANTS
  Containers = {A, B}
  Ids = {i, j}
  Command = command
  None = none
  MaxRequests = 4
SYMMETRY Interchangeable
CONSTRAINT OnCourse
CHECK_DEADLOCK FALSE
INVARIANTS TypeOK TableShowsContainer EditorShowsIdentity HistoryAtIdentity
