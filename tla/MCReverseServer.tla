-------------------------- MODULE MCReverseServer --------------------------
(* ReverseServer for TLC.                                                  *)
EXTENDS ReverseServer, TLC

Symmetric == Permutations(Conns) \cup Permutations(Tasks)
               \cup Permutations(Socks) \cup Permutations(Timers)
=============================================================================
