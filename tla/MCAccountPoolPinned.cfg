SPECIFICATION FairPoolSpec
CONSTANTS
  s1 = s1  s2 = s2  r1 = r1  r2 = r2
  opus = opus  fable = fable  none = none  noSeat = noSeat
  Seats <- MCSeats
  Families <- MCFamilies
  NoFamily = none
  SeedFamilies <- MCSeed
  NoSeat = noSeat
  Requests <- MCRequests
  FamilyOf <- MCFamilyOf
  PinnedRequests <- Pinned
  HardFloor = FALSE
  WireReadings <- WireUnstated
  RetryAfters <- RetryOne
  Cooldown = 1
  AuthBase = 1
  AuthMax = 2
  TokenLife = 9
  RefreshAhead = 1
  RecoveryPasses = 1
  Removable <- NoRemoval
  MaxGrant = 1
  MaxTime = 1
PROPERTIES
  
  RequestsAnswered
  PeerTriedBeforeSurfacing
  BudgetOnlyFalls
