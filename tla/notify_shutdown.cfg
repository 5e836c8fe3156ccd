\* One stream that is just opened or closed when the instance shuts down.
CONSTANTS
  Handlers = {h1}
  Envs = {dev}
  MaxUpdates = 0
SPECIFICATION ServedSpec
PROPERTIES
  ShutdownCompletes
CHECK_DEADLOCK FALSE
