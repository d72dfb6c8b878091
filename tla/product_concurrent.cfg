SPECIFICATION Spec
CONSTANTS
  None = None
  Requests = {r1, r2}
  Existing = {p1}
  Sellers = {u1, u2}
  Categories = {k1}
  Slugs = {s1, s2}
  Skus = {x1, x2}
  Bodies = {b1}
  Pictures = {i1}
  MaxImages = 1
SYMMETRY Symmetry
INVARIANTS
  TypeOK
  UniqueKeys
  ConflictsAreRefused
PROPERTIES
  OnlySellerWrites
  StoresPayload
  RefinesCatalog
