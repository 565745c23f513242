SPECIFICATION Spec
CONSTANTS
  Trees <- MCTrees
  Props <- MCProps
  Groups <- MCGroups
  Pins <- MCPins
  PinsOf <- MCPinsOf
  Broken <- MCBroken
INVARIANT DistinctProperties
CHECK_DEADLOCK FALSE
