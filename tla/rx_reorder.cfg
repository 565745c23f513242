\* A window of four frames in sequence numbers modulo 32, wrapping within the stream, which is
\* long enough for its last frame to lie above the window.
SPECIFICATION FairSpec
CONSTANTS
    SeqSpace = 32
    Window = 4
    PoolSize = 3
    FirstPos = 30
    LastPos = 35
    Rtp = {30}
    Direct = {31}
    MaxFaults = 2
INVARIANT BufferOrdered
INVARIANT InOrder
INVARIANT NothingLost
INVARIANT PoolWhole
INVARIANT GapWatched
PROPERTY NeverBack
PROPERTY Drained
\* The stream is finite and a teardown may end the behaviour.
CHECK_DEADLOCK FALSE
