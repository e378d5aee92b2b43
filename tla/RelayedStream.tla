--------------------------- MODULE RelayedStream ---------------------------
(***************************************************************************)
(* What a TCP channel of the relay gives to the two programs it connects:  *)
(* in each direction the chunks arrive in the order they were sent, each   *)
(* at most once and without a gap between two of them.  The end of a       *)
(* stream may be missing when the channel closes; in the directions of     *)
(* MayMissStart its beginning may be missing as well.                      *)
(***************************************************************************)
EXTENDS Integers, Sequences

CONSTANTS Directions, MayMissStart, MaxChunks

VARIABLES sent,   \* sent[d]: how many chunks were sent
          got     \* got[d]: the numbers of the chunks that arrived

streamVars == <<sent, got>>

StreamInit ==
    /\ sent = [d \in Directions |-> 0]
    /\ got = [d \in Directions |-> <<>>]

Send(d) ==
    /\ sent[d] < MaxChunks
    /\ sent' = [sent EXCEPT ![d] = @ + 1]
    /\ UNCHANGED got

Follows(d, n) ==
    IF got[d] # <<>> THEN n = got[d][Len(got[d])] + 1
                     ELSE n = 1 \/ d \in MayMissStart

Deliver(d) ==
    /\ \E n \in 1..sent[d] : /\ Follows(d, n)
                             /\ got' = [got EXCEPT ![d] = Append(@, n)]
    /\ UNCHANGED sent

StreamNext == \E d \in Directions : Send(d) \/ Deliver(d)

StreamSpec == StreamInit /\ [][StreamNext]_streamVars
=============================================================================
