CONSTANTS
  l1 = l1
  l2 = l2
  NoEntry = NoEntry
  Lamps <- OneLamp
  Levels <- OneLevel
  Others <- OneOther
  Events <- OnAndOff
  Garbage <- SomeGarbage
  MaxFrames = 2
  MaxEvents = 1
  QUEUE_MAX = 5
SPECIFICATION Spec
INVARIANTS
  DbTracksDevice
PROPERTIES
  EveryCommandAnswered
  ComesToRest
