-------------------------- MODULE MCReqResMatcher --------------------------
(* Instantiation of ReqResMatcher for TLC. *)
EXTENDS ReqResMatcher, TLC

CONSTANTS c1, c2

\* Two connections: enough for one connection's key to meet the other's.
MCConns == {c1, c2}

\* Connections are interchangeable model values.
MCSymmetry == Permutations(MCConns)
=============================================================================
