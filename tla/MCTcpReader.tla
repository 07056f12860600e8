---------------------------- MODULE MCTcpReader ----------------------------
(* Instantiation of TcpReader for TLC. *)
EXTENDS TcpReader
=============================================================================
