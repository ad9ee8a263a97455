SPECIFICATION InstallationSpec
CONSTANTS
  Dials <- MCDials
  DimmerCnts = {0, 2, 8}
  PirCnts = {0, 1, 2}
  Devices <- MCDevices
  Levels <- MCPercent
INVARIANTS
  LevelRoundTrip
  LevelOrder
  LampRoundTrip
  SensorRows
  KindsApart
