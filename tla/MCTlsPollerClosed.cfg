\* One socket: a reader times out while the next chunk for its key is on
\* its way to the poll loop.  A panic ends the process.
CONSTANTS
    f1 = f1
    f2 = f2
    Fds <- MCOneFd
    MaxChunks = 2
    PerfCapacity = 2
    ChunkCapacity = 1
    ClosedCapacity = 1
    CacheSize = 1
SPECIFICATION Spec
INVARIANT NoPanic
CHECK_DEADLOCK FALSE
