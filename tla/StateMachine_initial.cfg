\* A race whose initial_state is TRAILING.
SPECIFICATION Spec
CONSTANTS
  Mode = "head_to_head"
  InitialState = "TRAILING"
  TestOnCar = FALSE
  TrackLength = 725
  NumGlbWpnts = 8
  Raceline <- MCRaceline
  NLoc = 4
  GbHorizon = 300
  OtHorizon = 300
  GbWidth = 2
  OtWidth = 1
  EgoWidth = 1
  Hyst = 1
  TtlTicks = 2
  Threshold = 2
  Sectors <- MCSectors
  Poses <- SmallPoses
  ObstacleArrays <- SmallObstacleArrays
  Paths <- SmallPaths
  SwitchAges <- MCSwitchAges
  ForceChoices = {}
  InitialStates = {}
  None = None
INVARIANTS
  InitialStateUsable
CHECK_DEADLOCK FALSE
