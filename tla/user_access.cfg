SPECIFICATION Spec
CONSTANTS
  None = None
  Requests = {r1, r2}
  Users = {u1, u2}
  Names = {n1, n2}
  Roles = {k1}
  Permissions = {p1}
SYMMETRY Symmetry
INVARIANTS
  TypeOK
  PermissionsAreFresh
PROPERTIES
  AnswersTheRow
  DeactivationStands
