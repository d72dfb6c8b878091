SPECIFICATION FairSpec
CONSTANTS
  lower = lower
  upper = upper
  None = None
  Requests = {r1, r2, r3}
  Spellings = {lower}
  Lower <- MCLower
  AccessTTL = 1
  RefreshTTL = 1
  MaxNow = 0
INVARIANTS
  RotationsConsistent
  SingleUseInTurn
PROPERTIES
  RefinesLedger
  EveryRequestSettles
