-------------------------- MODULE MCUdpAssociation --------------------------
(* UdpAssociation for TLC.                                                 *)
EXTENDS UdpAssociation, TLC
=============================================================================
