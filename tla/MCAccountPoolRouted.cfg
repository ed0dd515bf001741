SPECIFICATION PoolSpec
CONSTANTS
  s1 = s1  s2 = s2  r1 = r1  r2 = r2
  opus = opus  fable = fable  none = none  noSeat = noSeat
  Seats <- MCSeats
  Families <- MCFamilies
  NoFamily = none
  SeedFamilies <- MCSeed
  NoSeat = noSeat
  Requests <- Alone
  FamilyOf <- AloneFamilyOf
  PinnedRequests <- NoRemoval
  HardFloor = TRUE
  WireReadings <- WireFloor
  RetryAfters <- RetryOne
  Cooldown = 1
  AuthBase = 1
  AuthMax = 2
  TokenLife = 2
  RefreshAhead = 1
  RecoveryPasses = 0
  Removable <- MCSeats
  MaxGrant = 2
  MaxTime = 3
SYMMETRY Symmetry
INVARIANTS
  ServesAgain
PROPERTIES
  RoutedAroundUntilReset
