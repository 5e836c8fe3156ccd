\* Two instances, one failure.
CONSTANTS
  i1 = i1
  i2 = i2
  none = none
  Instances = {i1, i2}
  NoInstance = none
  MaxFailures = 1
SPECIFICATION Spec
PROPERTIES
  LeaderSynchronises
