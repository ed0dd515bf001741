SPECIFICATION QueueSpec
CONSTANTS
  r1 = r1  r2 = r2  r3 = r3  r4 = r4  r5 = r5
  a = a  b = b  none = none
  Requests <- MCRequests
  Consumers <- MCConsumers
  NoConsumer = none
  ConsumerOf <- MCConsumerOf
  MaxConcurrent = 2
  MaxQueued = 2
  PerConsumerCap = 1
  QueueTimeout = 3
  AnnounceAfter = 1
  AgeCap = 3
SYMMETRY Symmetry
INVARIANTS
  TypeOK
  SlotAccounting
  QueueExact
  CapsRespected
  WorkConserving
  StallStampExact
  AnnouncedOncePerEpisode
PROPERTIES
  NoOvertaking
  StampRestartsOnlyOnRelease
  ImplementsSemaphore
