------------------------------ MODULE MCCleaner ------------------------------
(* Model values for the cleaner: connections and matcher entries.         *)
EXTENDS Cleaner

CONSTANTS c1, c2, e1, e2

\* Two connections: one can go idle while the other is still active.
MCConns == {c1, c2}
\* Two entries: one can be paired while the other is abandoned.
MCEntries == {e1, e2}
=============================================================================
