CONSTANTS
  i1 = i1
  i2 = i2
  Uuid <- MCUuid
  True = True
  Junk = Junk
  None = None
  Frame <- MCFrame
  MaxSent = 2
SPECIFICATION Spec
INVARIANTS
  TypeOK
  AnsweredAsInstalled
  TakesNothingFromTheHelper
  CachedAnswersThisRequest
  ChangesClearTheCache
