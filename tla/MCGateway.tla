------------------------------ MODULE MCGateway ------------------------------
(* An instance of Gateway for TLC.  With three cells to a frame the packet of    *)
(* four may end in the frame in which the one of two is complete or the one of   *)
(* six starts, which may then take three frames, more than a list of two holds.  *)
EXTENDS Gateway

PacketLengths == <<2, 4, 2, 6>>
=============================================================================
