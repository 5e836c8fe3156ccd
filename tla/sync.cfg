\* Two environments, the name of one a prefix of the other's; four tags: v1-dev and v1-dev2-dev,
\* and v2-dev (which cannot be stored) and v2-dev2-dev (broken for dev2-dev) tie for dev; every
\* call but a checkout may fail (3 failures or crashes in a behaviour);
\* the clone's directory may survive a restart.
CONSTANTS
  dev = dev
  dev2 = dev2
  d1 = d1
  d2 = d2
  p1 = p1
  p2 = p2
  BranchHead = BranchHead
  None = None
  Absent = Absent
  Envs = {dev, dev2}
  Tags = {d1, d2, p1, p2}
  Version <- MCVersion
  Selects <- MCSelects
  Broken <- MCBroken
  Unstorable <- MCUnstorable
  Under <- MCUnder
  CheckoutFaults = FALSE
  MaxFaults = 3
SPECIFICATION FairSpec
INVARIANTS
  TypeOK
  LostIsPending
  StoredIsUsable
  RecordedIsStored
  ServingIsRegistered
  MetadataNeverAhead
PROPERTIES
  NeverRollsBack
  ImplementsFeed
  Converges
