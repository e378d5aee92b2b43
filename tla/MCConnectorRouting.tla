------------------------- MODULE MCConnectorRouting -------------------------
(* ConnectorRouting for TLC.                                               *)
EXTENDS ConnectorRouting, TLC

CONSTANTS k1, k2, ch1, ch2

OneEach == ch1 :> k1 @@ ch2 :> k2
DataOnFirst == ch1 :> 1 @@ ch2 :> 0
=============================================================================
