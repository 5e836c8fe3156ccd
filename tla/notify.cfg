\* Two connections, two environments, two updates; clients may stay connected for ever.
\* The process ends, or hangs, after its shutdown.
CONSTANTS
  Handlers = {h1, h2}
  Envs = {dev, prod}
  MaxUpdates = 2
SPECIFICATION FairSpec
INVARIANTS
  TypeOK
  NoPanic
  DeliveredInOrder
PROPERTIES
  NotifyReturns
  SubscribersReleased
CHECK_DEADLOCK FALSE
