\* The TLS chunk loop and the Go-runtime loop both register streams.
\* A panic ends the process, after which nothing runs.
CONSTANTS
    s1 = s1
    s2 = s2
    s3 = s3
    assembler = assembler
    ssllib = ssllib
    golang = golang
    NoStream = NoStream
    Streams <- MCStreams
    TcpCallers <- MCNoCallers
    TlsCallers <- MCTlsLoops
SPECIFICATION Spec
INVARIANT StoredStreamsRetained
CHECK_DEADLOCK FALSE
