\* A driver from its first connection to its end, over a lossy link.
SPECIFICATION FairSpec
CONSTANTS
  FwMajor = 5
  FwMinor = 2
  Unit = 2
  Configs <- MCConfigs
  Values <- MCValues
  StaleReplies <- CleanLine
  MaxOutstanding = 1
  MaxReplies = 2
INVARIANTS
  TypeOK
  NoLostWakeup
  DrivenIdentified
  TelemetryHasPublisher
PROPERTIES
  DrivenClosest
  Identified
  DisconnectReturns
CHECK_DEADLOCK FALSE
