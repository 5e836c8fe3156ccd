\* A poller, a read of group g and global y, a clone and its deletion; one failed call or crash.
CONSTANTS
  dev = dev
  feat = feat
  g = g
  x = x
  y = y
  s = s
  r1 = r1
  c1 = c1
  c2 = c2
  d1 = d1
  Missing = Missing
  None = None
  Repo = Repo
  Star = Star
  Top = Top
  Envs = {dev, feat}
  Reserved = {dev}
  Groups = {g}
  Globals = {x, y}
  Refs <- MCRefs
  MaxVersion = 2
  Content <- MCContent
  Magic = {}
  Targets = {feat}
  Secrets = {}
  Readers = {r1}
  Cloners = {c1}
  Deleters = {d1}
  Requests <- MCRequests
  Overrides <- NoOverrides
  MaxFaults = 1
SPECIFICATION Spec
INVARIANTS
  LatestStored
  ReadMissesNothing
  ReadIsView
