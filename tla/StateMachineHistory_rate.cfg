\* An operator lowers the rate from 40 Hz to 10 Hz.
SPECIFICATION HistSpec
CONSTANTS
  Mode = "head_to_head"
  InitialState = "GB_TRACK"
  TestOnCar = FALSE
  TrackLength = 725
  NumGlbWpnts = 8
  Raceline <- MCRaceline
  NLoc = 4
  GbHorizon = 300
  OtHorizon = 300
  GbWidth = 2
  OtWidth = 1
  EgoWidth = 1
  Hyst = 1
  TtlTicks = 3
  Threshold = 2
  Sectors <- MCSectors
  Poses <- MCPoses
  ObstacleArrays <- MCObstacleArrays
  Paths <- MCPaths
  SwitchAges = {1}
  ForceChoices = {}
  InitialStates = {}
  None = None
  Period = 1
  AgeCap = 13
  Periods = {4}
INVARIANTS
  CachedWithinTtl
CHECK_DEADLOCK FALSE
