SPECIFICATION Spec
CONSTANTS
  lower = lower
  upper = upper
  None = None
  Requests = {r1, r2, r3}
  Spellings = {lower, upper}
  Lower <- MCLower
  AccessTTL = 1
  RefreshTTL = 2
  MaxNow = 2
SYMMETRY Symmetric
INVARIANTS
  TypeOK
  OneAccountPerEmail
  AllOrNothing
  AnswerIsDurable
  RevokedNotHonoured
  DeactivatedShutOut
