CONSTANTS
  l1 = l1
  l2 = l2
  e1 = e1
  e2 = e2
  None = None
  Lamps <- TwoLamps
  Entries <- TwoEntries
  Values <- TwoValues
  MaxOps = 6
  MaxCrashes = 2
SPECIFICATION Spec
CHECK_DEADLOCK FALSE
INVARIANTS
  TypeOK
  NeverStale
  BrightnessKept
