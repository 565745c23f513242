\* One command that fails and one script killed, over any number of starts, stops and runs by hand.
SPECIFICATION Spec
CONSTANTS
    MaxFaults = 1
    MaxKills = 1
INVARIANT BoundWhole
INVARIANT UninstallRepairs
INVARIANT EnableCompletes
INVARIANT FailedStartUndone
