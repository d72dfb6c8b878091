SPECIFICATION Spec
CONSTANTS
  None = None
  k1 = k1
  k2 = k2
  u1 = u1
  ProductIds = {p1, p2, p3}
  Sellers = {u1}
  Categories = {k1, k2}
  Bodies <- MCBodies
  Times <- MCTimes
  Queries <- MCQueries
  Limit = 1
  MaxWrites = 2
SYMMETRY Symmetry
INVARIANTS
  TypeOK
  PageFitsTotal
  WalkIsComplete
  NoDeletedImages
