\* Every source falls silent.
SPECIFICATION FairSpec
CONSTANTS
  Velocities <- StackVelocities
  Locks <- NoLocks
  StartTime = 9
  Reliable = {}
  Commands = {"go", "stop"}
PROPERTIES
  SilenceStops
