SPECIFICATION NamedFairSpec
CONSTANTS
  None = None
  Gone = Gone
  Requests = {r1, r2}
  Existing = {a1, a2}
  Users = {u1, u2}
  Types = {shipping, billing}
  Bodies = {b1}
INVARIANTS
  TypeOK
  OneDefaultInTurn
PROPERTIES
  OnlyOwnerWrites
  OnlyCreateAdds
  OthersOnlyLoseDefault
  StoresPayload
  EveryRequestSettles
