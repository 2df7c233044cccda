----------------------- MODULE MCPacketNumberGenerator -----------------------
(* A generator with a short period. *)
EXTENDS PacketNumberGenerator
=============================================================================
