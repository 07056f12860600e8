---------------------------- MODULE MCTlsPoller ----------------------------
(* Model values for the TLS chunk loop: the traced sockets.                *)
EXTENDS TlsPoller

CONSTANTS f1, f2

MCFds == {f1, f2}
MCOneFd == {f1}
=============================================================================
