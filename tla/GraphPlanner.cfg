\* A lattice of five layers, pruned in three ways, before every message.
SPECIFICATION Spec
CONSTANTS
  NLayers = 5
  Width <- MCWidth
  Raceline <- MCRaceline
  LatSteps <- MCLatSteps
  Cost <- MCCost
  Sharp <- MCSharp
  Penalty = 30
  Inflate = 0
  Horizons = {2, 4, 5}
  Messages <- MCMessages
  None = None
INVARIANTS
  CostsRestored
  NoDeadEnds
  CheapestLine
PROPERTIES
  NodesSettle
