SPECIFICATION Spec
CONSTANTS
  None = None
  Gone = Gone
  Requests = {r1, r2}
  Existing = {a1, a2}
  Users = {u1}
  Types = {shipping, billing}
  Bodies = {b1}
SYMMETRY Symmetric
INVARIANTS
  OneDefault
