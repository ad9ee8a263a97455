CONSTANTS
  NoEntry = NoEntry
  Dial = 1
  DIMMER_CNT = 11
  PIR_NUM = 1
  Lamps <- PrefixLamps
  Sensors <- PrefixSensors
  Requests <- PrefixAsk
  Events <- OnAndOff
  Reporter <- P12
  Target = 1
  Stored <- PrefixStored
  StoredLevel <- PrefixLevels
  MaxInputs = 3
  MaxDeletes = 1
  MaxEvents = 1
  Garbage <- Toggles
SPECIFICATION Spec
PROPERTIES
  ImplementsSceneBook
