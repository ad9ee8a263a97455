CONSTANTS
  l1 = l1
  l2 = l2
  NoEntry = NoEntry
  Lamps <- TwoLamps
  Levels <- SomeLevels
  Others <- OneOther
  Events <- NoEvents
  Garbage <- SomeGarbage
  MaxFrames = 3
  MaxEvents = 0
  QUEUE_MAX = 5
SPECIFICATION Spec
INVARIANTS
  GatewaySeesLamp
