\* One poller, one reader, two environments of which the name of one is a prefix of the
\* other's; two versions; one failure or crash.  Requests are scheduled.
CONSTANTS
  dev = dev
  develop = develop
  g = g
  x = x
  y = y
  Missing = Missing
  Free = Free
  Stale = Stale
  Top = Top
  Envs = {dev, develop}
  Reserved = {dev, develop}
  Under <- MCPrefix
  Groups = {g}
  Globals = {x, y}
  Refs <- MCRefs
  MaxVersion = 2
  Content <- MCContent
  Writers = {w1}
  Readers = {r1}
  Requests <- MCRequests
  Tries = 3
  MaxFaults = 1
SPECIFICATION FairSpec
INVARIANTS
  TypeOK
  NeverMixed
  SettledIsExact
  ReadIsRegular
PROPERTIES
  ReadsFinish
