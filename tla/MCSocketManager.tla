-------------------------- MODULE MCSocketManager --------------------------
(* SocketManager for TLC, with the identities that may be permuted.        *)
EXTENDS SocketManager, TLC

Symmetric == Permutations(Users) \cup Permutations(Socks)
               \cup Permutations(Timers) \cup Permutations(Ports)
=============================================================================
