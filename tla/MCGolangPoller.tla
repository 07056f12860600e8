--------------------------- MODULE MCGolangPoller ---------------------------
(* Model values for the Go-runtime TLS loop.                              *)
EXTENDS GolangPoller

CONSTANTS i1, i2, i3

\* Three traced connections against a map of two: an event of the third
\* evicts one of the others, and an event for the oldest evicts itself.
MCIds == {i1, i2, i3}
=============================================================================
