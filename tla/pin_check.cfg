SPECIFICATION Spec
CONSTANTS
  Trees <- MCTrees
  Props <- MCProps
  Groups <- MCGroups
  Pins <- MCPins
  PinsOf <- MCPinsOf
  Broken <- MCBroken
INVARIANT NoSharing
INVARIANT VerdictEarned
CHECK_DEADLOCK FALSE
