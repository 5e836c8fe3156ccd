\* Two requests to clone dev to a name it begins with, to one that begins with it, or over itself;
\* one deletion, two keys per page, one failure or crash.
CONSTANTS
  de = de
  dev = dev
  dev2 = dev2
  g = g
  x = x
  s = s
  Missing = Missing
  None = None
  Envs = {de, dev, dev2}
  Reserved = {dev}
  Targets = {de, dev, dev2}
  Under <- MCUnder
  Groups = {g}
  Globals = {x}
  Refs <- MCRefs
  MaxVersion = 2
  Content <- MCContent
  Secrets = {s}
  Order <- MCOrder
  PageSize = 2
  Cloners = {c1, c2}
  Deleters = {d1}
  Overrides <- MCOverrides
  MaxFaults = 1
SPECIFICATION Spec
INVARIANTS
  TypeOK
  LockGivenBack
PROPERTIES
  CloneExact
  NeverHalfCloned
  ReservedReached
SYMMETRY Symmetry
CONSTRAINT Bounds
