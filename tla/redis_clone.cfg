\* A poller, two clones; two failed calls or crashes.
CONSTANTS
  dev = dev
  feat = feat
  g = g
  x = x
  y = y
  s = s
  r1 = r1
  c1 = c1
  c2 = c2
  d1 = d1
  Missing = Missing
  None = None
  Repo = Repo
  Star = Star
  Top = Top
  Envs = {dev, feat}
  Reserved = {dev}
  Groups = {g}
  Globals = {x, y}
  Refs <- MCRefs
  MaxVersion = 2
  Content <- MCContent
  Magic = {}
  Targets = {feat}
  Secrets = {s}
  Readers = {}
  Cloners = {c1, c2}
  Deleters = {}
  Requests <- MCRequests
  Overrides <- MCOverrides
  MaxFaults = 2
SPECIFICATION Spec
INVARIANTS
  TypeOK
PROPERTIES
  CloneIsSnapshot
  FailedCloneIsGone
SYMMETRY Symmetry
