\* The clocks enabled up to four times, three probes.
SPECIFICATION Spec
CONSTANTS
    MaxClocks = 4
    MaxBinds = 3
INVARIANT HeldUnlessRunning
INVARIANT ResourcesAccounted
PROPERTY LifeKept
\* The number of probes is bounded.
CHECK_DEADLOCK FALSE
