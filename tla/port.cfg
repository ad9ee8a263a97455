CONSTANTS
  l1 = l1
  l2 = l2
  t1 = t1
  t2 = t2
  t3 = t3
  NoRow = NoRow
  Blank = Blank
  Lamps <- OneLamp
  Values <- OnOff
  Delays <- SomeDelays
  Threads <- TwoThreads
  Quiet = 2
  MaxRows = 2
  MaxBytes = 2
SPECIFICATION Spec
CHECK_DEADLOCK FALSE
INVARIANT TypeOK
PROPERTIES
  ImplementsDelayedLamps
  EveryRowHandled
  SwitchOffReported
