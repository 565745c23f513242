\* Either endpoint with three URBs and room for two frames: an overflow, two
\* faults of any kind and two suspensions.
SPECIFICATION Spec
CONSTANTS
    Urbs = 3
    MaxQueue = 2
    MaxTokens = 3
    MaxFaults = 2
    MaxSuspends = 2
INVARIANT PoolWhole
INVARIANT Armed
INVARIANT NoneStranded
PROPERTY Served
CHECK_DEADLOCK FALSE
