\* One failure that FetchAndCheckout ignores.
CONSTANTS
  dev = dev
  dev2 = dev2
  d1 = d1
  d2 = d2
  p1 = p1
  p2 = p2
  BranchHead = BranchHead
  None = None
  Absent = Absent
  Envs = {dev, dev2}
  Tags = {d1, d2, p1}
  Version <- MCVersion
  Selects <- MCSelects
  Broken <- MCBroken
  Unstorable <- MCUnstorable
  Under <- MCUnder
  CheckoutFaults = TRUE
  MaxFaults = 1
SPECIFICATION Spec
INVARIANTS
  RecordedIsStored
