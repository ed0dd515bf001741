SPECIFICATION GatewaySpec
CONSTANTS
  c1 = c1  c2 = c2  c3 = c3  l1 = l1  m1 = m1
  a = a  b = b  none = none  noLeg = noLeg
  Requests <- MCRequests
  Clients <- MCClients
  Consumers <- MCConsumers
  NoConsumer = none
  ConsumerOf <- MCConsumerOf
  LegOf <- MCLegOf
  NoLeg = noLeg
  MaxLegs = 1
  MaxConcurrent = 1
  MaxQueued = 2
  PerConsumerCap = 1
  QueueTimeout = 1
  AnnounceAfter = 1
  AgeCap = 1
  HaltCooldown = 1
  Grace = 1
PROPERTY ExitSeversNothing
