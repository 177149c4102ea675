\* A head-to-head race without an operator's commands: every order of startup,
\* messages and ticks; the timer runs at its initial rate or at twice that.
SPECIFICATION HistSpec
CONSTANTS
  Mode = "head_to_head"
  InitialState = "GB_TRACK"
  TestOnCar = FALSE
  TrackLength = 725
  NumGlbWpnts = 8
  Raceline <- MCRaceline
  NLoc = 3
  GbHorizon = 300
  OtHorizon = 300
  GbWidth = 2
  OtWidth = 1
  EgoWidth = 1
  Hyst = 1
  TtlTicks = 2
  Threshold = 3
  Sectors <- MCSectors
  Poses <- MCPoses
  ObstacleArrays <- MCObstacleArrays
  Paths <- MCPaths
  SwitchAges <- MCSwitchAges
  ForceChoices = {}
  InitialStates = {}
  None = None
  Period = 2
  AgeCap = 5
  Periods = {1, 2}
INVARIANTS
  TypeOK
  SplineLive
  CachedWithinTtl
PROPERTIES
  LineInOrder
  OvertakeLineIsClear
  RacelineOnlyWhenFree
  RejoinAfterFreeRun
CHECK_DEADLOCK FALSE
