\* A head-to-head race with an operator who forces states and rewrites the
\* initial state, on the car; safety and liveness on a small world.
SPECIFICATION FairSpec
CONSTANTS
  Mode = "head_to_head"
  InitialState = "GB_TRACK"
  TestOnCar = TRUE
  TrackLength = 725
  NumGlbWpnts = 8
  Raceline <- MCRaceline
  NLoc = 3
  GbHorizon = 300
  OtHorizon = 300
  GbWidth = 2
  OtWidth = 1
  EgoWidth = 1
  Hyst = 1
  TtlTicks = 2
  Threshold = 2
  Sectors <- MCSectors
  Poses <- SmallPoses
  ObstacleArrays <- SmallObstacleArrays
  Paths <- SmallPaths
  SwitchAges <- MCSwitchAges
  ForceChoices = {"OVERTAKE", "FTGONLY", "TRAILING", "GB_TRACK"}
  InitialStates = {"FTGONLY", "TRAILING_TO_GBTRACK", "LOST"}
  None = None
INVARIANTS
  SurvivesOnceReady
PROPERTIES
  RejoinsRaceline
  SplineExpires
CHECK_DEADLOCK FALSE
