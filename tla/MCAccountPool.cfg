SPECIFICATION PoolSpec
CONSTANTS
  s1 = s1  s2 = s2  r1 = r1  r2 = r2
  opus = opus  fable = fable  none = none  noSeat = noSeat
  Seats <- OneSeat
  Families <- MCFamilies
  NoFamily = none
  SeedFamilies <- MCSeed
  NoSeat = noSeat
  Requests <- MCRequests
  FamilyOf <- MCFamilyOf
  PinnedRequests <- NoRemoval
  HardFloor = FALSE
  WireReadings <- WireAll
  RetryAfters <- RetryLong
  Cooldown = 1
  AuthBase = 1
  AuthMax = 2
  TokenLife = 2
  RefreshAhead = 1
  RecoveryPasses = 0
  Removable <- NoRemoval
  MaxGrant = 1
  MaxTime = 3
INVARIANTS
  TypeOK
  EligibleIsProbeable
  ServesAgain
  ParkedUntilHonest
  StreakTakesTime
PROPERTIES
  BucketParkCarried
