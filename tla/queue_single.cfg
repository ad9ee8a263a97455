SPECIFICATION Spec
CONSTANTS
  handler = handler
  mainloop = mainloop
  writer = writer
  l1 = l1
  l2 = l2
  NoThread = NoThread
  NoLine = NoLine
  Producers <- MCProducers
  Consumers <- MCConsumers
  Lines <- MCLines
  QUEUE_MAX = 4
  MaxLines = 1
INVARIANTS
  TypeOK
  LockInv
  RoomForEveryRow
PROPERTIES
  ImplementsFifo
