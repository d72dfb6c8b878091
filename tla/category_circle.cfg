SPECIFICATION Spec
CONSTANTS
  None = None
  Requests = {r1, r2}
  Existing = {c1, c2}
  Slugs = {s1, s2}
SYMMETRY Symmetry
INVARIANTS
  AcyclicInTurn
