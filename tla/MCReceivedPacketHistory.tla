----------------------- MODULE MCReceivedPacketHistory -----------------------
(* Instance of ReceivedPacketHistory for TLC. *)
EXTENDS ReceivedPacketHistory
=============================================================================
