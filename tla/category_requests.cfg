SPECIFICATION FairSpec
CONSTANTS
  None = None
  Requests = {r1, r2}
  Existing = {c1}
  Slugs = {s1, s2}
INVARIANTS
  TypeOK
  UniqueSlugs
  ParentsStored
  ConflictsAreRefused
PROPERTIES
  StoresPayload
  EveryRequestSettles
