\* Two sockets and three chunks: the fd cache of one entry is evicted, a
\* socket closes while its chunks wait in the perf buffer, readers time out
\* while chunks for them are on the way, and the perf reader may fail.
\* Once every goroutine waits on the kernel, or after a panic, nothing
\* more happens: the tapper really does stop there.
CONSTANTS
    f1 = f1
    f2 = f2
    Fds <- MCFds
    MaxChunks = 3
    PerfCapacity = 2
    ChunkCapacity = 1
    ClosedCapacity = 1
    CacheSize = 1
SPECIFICATION Spec
INVARIANT TypeOK
INVARIANT OneOpenReaderPerKey
 
CHECK_DEADLOCK FALSE
