SPECIFICATION Spec
CONSTANTS
  Default = Default
  Capacity = 2
  Lengths = {1, 2}
  MaxAdds = 5
INVARIANTS TypeOK Intact BuffersFitLoad
PROPERTIES ImplementsFifo
