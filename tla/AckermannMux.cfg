\* Three sources and two locks, started on a running clock.
SPECIFICATION FairSpec
CONSTANTS
  Velocities <- MCVelocities
  Locks <- MCLocks
  StartTime = 9
  Reliable = {1}
  Commands = {"go", "stop"}
PROPERTIES
  NeverOverridden
  NeverSwallowed
  Handover
