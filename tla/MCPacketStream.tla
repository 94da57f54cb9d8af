---------------------------- MODULE MCPacketStream ----------------------------
(* A header of two bytes and buffers of seven: one, two and a half or more     *)
(* packets fit, packets straddle the end of the array, and the longest is    *)
(* longer than its size field can say.                                       *)
EXTENDS PacketStream
=============================================================================
