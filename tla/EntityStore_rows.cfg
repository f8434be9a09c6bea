SPECIFICATION Spec
CONSTANTS
  e1 = e1
  e2 = e2
  e3 = e3
  Ids <- MCIds
  NoId = NoId
  Others = {}
  MaxRelations = 2
  MaxItems = 3
SYMMETRY IdSymmetry
CONSTRAINT FewItems
INVARIANT RowsExact
