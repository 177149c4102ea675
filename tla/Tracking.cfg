\* One or two obstacles that appear, creep on, stop and vanish, with memory
\* switched on and off.
SPECIFICATION Spec
CONSTANTS
  TrackLen = 7
  MaxDist = 2
  Aggro = 2
  InFrontDist = 3
  Deletion = 3
  Ttl = 1
  MinMeas = 1
  Confirm = 1
  OppTtl = 2
  PlausibleVs <- MCPlausibleVs
  Drift <- MCDrift
  Detections <- MCDetections
  Poses <- MCPoses
  Switches = {"noMemoryMode"}
  None = None
INVARIANTS
  TypeOK
  ForgottenInTime
PROPERTIES
  EachDetectionOnce
  LoneTrackKept
  ConfirmedReported
