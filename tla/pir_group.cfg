CONSTANTS
  s1 = s1
  s2 = s2
  s3 = s3
  s4 = s4
  t1 = t1
  t2 = t2
  t3 = t3
  NoTarget = NoTarget
  Sensors <- TwoSensors
  Targets <- OneLamp
  Scenes <- NoScenes
  Assigned <- OneTarget
  Commands <- Nothing
  MaxCommands = 0
  MaxReports = 4
SPECIFICATION Spec
INVARIANTS
  GroupCoordinated
