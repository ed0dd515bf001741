SPECIFICATION FairGatewaySpec
CONSTANTS
  c1 = c1  c2 = c2  c3 = c3  l1 = l1  m1 = m1
  a = a  b = b  none = none  noLeg = noLeg
  Requests <- MCRequests
  Clients <- MCClients
  Consumers <- MCConsumers
  NoConsumer = none
  ConsumerOf <- MCConsumerOf
  LegOf <- MCLegOf
  NoLeg = noLeg
  MaxLegs = 2
  MaxConcurrent = 2
  MaxQueued = 2
  PerConsumerCap = 1
  QueueTimeout = 1
  AnnounceAfter = 1
  AgeCap = 1
  HaltCooldown = 2
  Grace = 2
INVARIANTS
  GatewayTypeOK
  SlotAccounting
  NeverStuck
PROPERTIES
  HaltBoundsBleed
  ExitLeavesNobodyQueued
  RequestsEnd
