CONSTANTS
  Missing = Missing
  Empty = Empty
  Dials <- MCDials
  DIMMER_CNT = 1
  PIR_NUM = 1
  KEYS = 2
  SUBS = 2
  Texts <- SceneFile
  Strays <- MCStrays
  MaxStops = 2
  Foreign <- MCForeign
  MaxPresses = 0
  MaxForeign = 0
SPECIFICATION Spec
CHECK_DEADLOCK FALSE
PROPERTY KeptThroughStops
