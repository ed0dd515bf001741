SPECIFICATION RefreshSpec
CONSTANTS
  i1 = i1  i2 = i2  nobody = nobody
  Instances <- MCInstances
  Nobody = nobody
  Removers <- MCRemovers
  Backends <- Worker
  MaxAttempts = 1
  MaxGrant = 2
  MaxSerial = 4
INVARIANTS
  TypeOK
  WorkerRefreshIsLive
  WorkerSharesTheLivePair
PROPERTIES
  CacheOnlyAdvances
  ImplementsFamily
  TakeoverOnlyAdvances
