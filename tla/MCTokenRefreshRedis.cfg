SPECIFICATION RefreshSpec
CONSTANTS
  i1 = i1  i2 = i2  nobody = nobody
  Instances <- MCInstances
  Nobody = nobody
  Removers <- NoRemover
  Backends <- Redis
  MaxAttempts = 1
  MaxGrant = 1
  MaxSerial = 3
INVARIANT LockedRefreshIsLive
