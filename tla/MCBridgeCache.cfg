CONSTANTS
  Thread = {t1, t2}
  Key = {k1}
  None = None
  CacheTtl = 2
  SleepSpans <- MCSleepSpans
  WallSteps <- MCWallSteps
  MaxReal = 3
  MaxMutations = 2
SPECIFICATION FairSpec
INVARIANTS
  TypeOK
  CachedReadsFollowEveryMutation
PROPERTIES
  HitAgeBound
  EveryRequestAnswered
