--------------------------- MODULE MCAmqpDissector ---------------------------
(* Instances of the AMQP frame loop for TLC. *)
EXTENDS AmqpDissector

CONSTANTS ch1, ch2

\* Two channels, so that the frames of two content messages can interleave
\* as AMQP allows on one connection.
MCTwoChannels == {ch1, ch2}
=============================================================================
