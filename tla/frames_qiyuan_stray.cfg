CONSTANTS
  Traffic <- Nobody
  Noise <- Clear
  Reports <- SensorReports
  Strays <- Stray
  MaxRead = 12
  BUF_MAX = 32
  Created <- Always
SPECIFICATION Spec
INVARIANTS
  Genuine
