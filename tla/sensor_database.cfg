CONSTANTS
  l1 = l1
  l2 = l2
  NoEntry = NoEntry
  Lamps <- OneLamp
  Levels <- SomeLevels
  Others <- OneOther
  Events <- OnAndOff
  Garbage <- SomeGarbage
  MaxFrames = 2
  MaxEvents = 2
  QUEUE_MAX = 5
SPECIFICATION Spec
INVARIANTS
  DbTracksAlways
