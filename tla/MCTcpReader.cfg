\* Chunks of 0..2 bytes, reads of 1..2 bytes: short reads split a chunk,
\* empty chunks are skipped, and the channel fills up.
CONSTANTS
    MaxBytes = 4
    MaxChunks = 4
    MaxChunkLen = 2
    MaxRead = 2
    QueueCapacity = 2
    TlsCheckAmount = 2
SPECIFICATION Spec
INVARIANT TypeOK
PROPERTY ByteStreamSpec
\* Every behaviour ends with the stream closed and io.EOF returned: the
\* dissector goroutine has exited.
CHECK_DEADLOCK FALSE
