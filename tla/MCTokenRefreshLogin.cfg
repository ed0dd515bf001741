SPECIFICATION RefreshSpec
CONSTANTS
  i1 = i1  i2 = i2  nobody = nobody
  Instances <- MCInstances
  Nobody = nobody
  Removers <- NoRemover
  Backends <- Worker
  MaxAttempts = 1
  MaxGrant = 2
  MaxSerial = 3
PROPERTY LoginNotOverwritten
