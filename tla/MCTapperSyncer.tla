--------------------------- MODULE MCTapperSyncer ---------------------------
(* Model values for the tapper syncer.                                    *)
EXTENDS TapperSyncer

CONSTANTS p1, p2

\* Two matching pods: one can start while the other stops.
MCPods == {p1, p2}
=============================================================================
