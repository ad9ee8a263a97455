CONSTANTS
  Missing = Missing
  Empty = Empty
  Dials <- MCDials
  DIMMER_CNT = 1
  PIR_NUM = 1
  KEYS = 2
  SUBS = 2
  Texts <- SceneFile
  Strays <- MCStrays
  MaxStops = 1
  Foreign <- MCForeign
  MaxPresses = 1
  MaxForeign = 1
SPECIFICATION Spec
CHECK_DEADLOCK FALSE
INVARIANTS
  RowsInOrder
PROPERTIES
  KeptUnlessDialChanged
  LedOffMeansEnrolled
  EnrollmentCompletes
