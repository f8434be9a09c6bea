SPECIFICATION FairSpec
CONSTANTS
  Procs = {p1, p2, p3, p4}
  Cancellable = {p3, p4}
INVARIANTS LockInv
PROPERTIES ImplementsReaderWriter NoStarvation
