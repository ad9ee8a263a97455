CONSTANTS
  Traffic <- Mixed
  Noise <- Noises
  Reports <- SensorReports
  Strays <- Clear
  MaxRead = 12
  BUF_MAX = 32
  Created <- Always
SPECIFICATION Spec
INVARIANTS
  TypeOK
  Genuine
  IndexInBuffer
PROPERTIES
  AllDelivered
