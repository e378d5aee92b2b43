---------------------------- MODULE MCTcpChannel ----------------------------
(* TcpChannel for TLC: its constants are ordinary values.                  *)
EXTENDS TcpChannel
=============================================================================
