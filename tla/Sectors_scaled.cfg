\* The first seconds after the start, without an operator.
SPECIFICATION Spec
CONSTANTS
  NSectors = 2
  Scalings = {0, 1}
  MaxHalvings = 3
  MaxChanges = 2
  Depth = 1
  None = None
PROPERTIES
  ScaledOnce
