-------------------------- MODULE MCTokenRegistry --------------------------
(* TokenRegistry for TLC.  Connections are alike, and so are tasks.        *)
EXTENDS TokenRegistry, TLC

Symmetric == Permutations(Conns) \cup Permutations(Tasks)
=============================================================================
