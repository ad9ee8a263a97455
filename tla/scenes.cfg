CONSTANTS
  NoEntry = NoEntry
  Dial = 2
  DIMMER_CNT = 12
  PIR_NUM = 1
  Lamps <- SomeLamps
  Sensors <- SomeSensors
  Requests <- ConfigureAndRecall
  Events <- OnAndOff
  Reporter <- P14
  Target = 2
  Stored <- TwoScenes
  StoredLevel <- SomeLevels
  MaxInputs = 3
  MaxDeletes = 1
  MaxEvents = 1
  Garbage <- Toggles
SPECIFICATION Spec
INVARIANTS
  TypeOK
  AcknowledgedIsStored
  DbTracksDevice
  GatewaySeesScene
  SceneMasks
PROPERTIES
  ImplementsSceneBook
