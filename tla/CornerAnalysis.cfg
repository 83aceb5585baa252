SPECIFICATION Spec
CONSTANTS
  Speeds = {0, 2, 4, 8}
  DistanceProfiles <- MCDistanceProfiles
  Windows = {1, 3}
  MinProminence = 4
  MinSeparation = 2
  Tolerance = 2
  NumSectors = 3
INVARIANTS
  CornersDisjoint
  SharpDipsReported
  
CHECK_DEADLOCK FALSE
