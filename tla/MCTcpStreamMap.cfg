\* TCP and TLS capture together: the assembler and the TLS chunk loop both
\* register streams through NextId, so ids may collide, dissectors identify
\* streams, reassembly tears them down and the sweep may meet a TLS stream.
\* After a panic nothing runs, so the model may stop there.
CONSTANTS
    s1 = s1
    s2 = s2
    s3 = s3
    assembler = assembler
    ssllib = ssllib
    golang = golang
    NoStream = NoStream
    Streams <- MCThreeStreams
    TcpCallers <- MCAssembler
    TlsCallers <- MCSsllib
SPECIFICATION Spec
INVARIANT TypeOK
PROPERTY UnidentifiedEventuallyClosed
CHECK_DEADLOCK FALSE
