CONSTANTS
  l1 = l1
  l2 = l2
  e1 = e1
  e2 = e2
  None = None
  Lamps <- TwoLamps
  Entries <- TwoEntries
  Values <- TwoValues
  MaxOps = 4
  MaxCrashes = 2
SPECIFICATION Spec
CHECK_DEADLOCK FALSE
INVARIANT
  BrightnessPersists
