SPECIFICATION FairRefreshSpec
CONSTANTS
  i1 = i1  i2 = i2  nobody = nobody
  Instances <- MCInstances
  Nobody = nobody
  Removers <- MCRemovers
  Backends <- Either
  MaxAttempts = 1
  MaxGrant = 1
  MaxSerial = 3
PROPERTY CatchesUp
