----------------------------- MODULE PacketBytes -----------------------------
(***************************************************************************)
(* What both ends of a connection and both client sides share: a ChatPacket *)
(* (protocolo.h) as the bytes that TCP carries.  What a byte says is left   *)
(* out: byte k of a packet is <<packet, k>>, so that bytes of two packets,  *)
(* or bytes out of place, are told apart.                                   *)
(***************************************************************************)
EXTENDS Integers, Sequences

CONSTANT PACKET_SIZE   \* sizeof(ChatPacket), 1024 in the code

ASSUME PacketAssumption == PACKET_SIZE \in Nat \ {0}

Bytes(packet) == [k \in 1 .. PACKET_SIZE |-> <<packet, k>>]
Byte(Packets) == Packets \X (1 .. PACKET_SIZE)
==============================================================================
