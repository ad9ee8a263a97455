SPECIFICATION Spec
CONSTANTS
  Dials = {16}
  DimmerCnts = {2}
  PirCnts = {1}
  Devices <- MCDevices
  Levels = {100}
INVARIANTS
  OnlyOwnAddresses
