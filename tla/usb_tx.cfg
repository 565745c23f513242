\* Eight URBs give the marks 2 and 6.  A data sender and one that sends
\* management frames, one suspension, failed submission or unplug.
SPECIFICATION Spec
CONSTANTS
    d = d
    m = m
    Senders = {d, m}
    Mgmt = {m}
    Urbs = 8
    MaxTokens = 2
    MaxFaults = 1
INVARIANT PoolWhole
INVARIANT WakePending
INVARIANT TriggerPending
PROPERTY QueueWoken
CHECK_DEADLOCK FALSE
