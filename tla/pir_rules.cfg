CONSTANTS
  s1 = s1
  s2 = s2
  s3 = s3
  s4 = s4
  t1 = t1
  t2 = t2
  t3 = t3
  NoTarget = NoTarget
  Sensors <- FourSensors
  Targets <- ThreeTargets
  Scenes <- FirstScene
  Assigned <- TwoAlone
  Commands <- MaskAndAssign
  MaxCommands = 2
  MaxReports = 4
SPECIFICATION Spec
INVARIANTS
  TypeOK
  LightFollowsSensor
  ValuesCurrent
PROPERTIES
  AcceptedMotionLights
