\* One clone and one failed call.
CONSTANTS
  de = de
  dev = dev
  dev2 = dev2
  g = g
  x = x
  s = s
  Missing = Missing
  None = None
  Envs = {dev, dev2}
  Reserved = {dev}
  Targets = {dev2}
  Under <- MCUnder
  Groups = {g}
  Globals = {x}
  Refs <- MCRefs
  MaxVersion = 2
  Content <- MCContent
  Secrets = {s}
  Order <- MCOrder
  PageSize = 1
  Cloners = {c1}
  Deleters = {}
  Overrides <- MCOverrides
  MaxFaults = 1
SPECIFICATION Spec
PROPERTIES
  CloneReported
