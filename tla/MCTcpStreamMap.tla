--------------------------- MODULE MCTcpStreamMap ---------------------------
(* Model values for the stream registry: streams and the goroutines that   *)
(* register them.                                                          *)
EXTENDS TcpStreamMap

CONSTANTS s1, s2, s3, assembler, ssllib, golang

MCStreams == {s1, s2}
MCThreeStreams == {s1, s2, s3}
MCAssembler == {assembler}
MCNoCallers == {}
MCSsllib == {ssllib}
MCTlsLoops == {ssllib, golang}
=============================================================================
