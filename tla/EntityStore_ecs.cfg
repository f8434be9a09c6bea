SPECIFICATION Spec
CONSTANTS
  e1 = e1
  e2 = e2
  e3 = e3
  Ids <- MCIds
  NoId = NoId
  Others = {"Tag"}
  MaxRelations = 2
  MaxItems = 3
SYMMETRY IdSymmetry
CONSTRAINT FewItems
INVARIANTS StoreInv LinksExact RelationsExact TreeExact
PROPERTY ImplementsEntities
