SPECIFICATION Spec
CONSTANTS
  NumRequests = 2
  Pages = {p1, p2, p3, p4}
  NoPage = NoPage
  Garbage = Garbage
  PageSize = 4
  Width = 2
  ScaleDim = 4
  TopK = 3
  KVHeads = 1
  Profiles <- MCProfiles
  NarrowTile = 1
  QuantTile = 2
  NumDrafts = 2
  MaxLen = 5
  MaxChunk = 2
  MaxRows = 3
SYMMETRY MCSymmetry
INVARIANTS TypeOK AttendsItsSelection CacheHoldsContext
