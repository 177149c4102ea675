\* Two changes of speeds, limit or flags, at any time of the start-up.
SPECIFICATION FairSpec
CONSTANTS
  NSectors = 2
  Scalings = {0, 1}
  MaxHalvings = 3
  MaxChanges = 2
  Depth = 1
  None = None
INVARIANTS
  TypeOK
  LineFollows
  FlagsFollow
PROPERTIES
  ScaledOnceApart
  SpeedsSettle
  LineSettles
