------------------------------ MODULE BlockStream ------------------------------
(***************************************************************************)
(* packetize_transfer_body as the loop it is, next to a receiver that      *)
(* knows nothing of the body's length: the bootloader, which stores the    *)
(* data field of each packet behind the previous one, takes a packet whose *)
(* sequence number follows the last one it took, and stops at the packet   *)
(* with the end marker.                                                    *)
(***************************************************************************)
EXTENDS Packetizer

CONSTANT BodyLengths   \* the body lengths explored

ASSUME BodyLengthsAssumption == BodyLengths \subseteq Nat

VARIABLES
  length,    \* len(body)
  packets,   \* number of packets appended so far
  phase,     \* "cutting", "done" (the tuple is returned) or "refused"
  stored,    \* bytes the receiver holds, padding included
  last_seq,  \* sequence number the receiver took last, 0 at the start
  ended      \* the receiver saw the end marker

vars == <<length, packets, phase, stored, last_seq, ended>>

Init ==
  /\ length \in BodyLengths
  /\ packets = 0 /\ phase = "cutting"
  /\ stored = 0 /\ last_seq = 0 /\ ended = FALSE

(* "firmware transfer body must not be empty", and the guards of           *)
(* build_transfer_packet.                                                  *)
Refuse ==
  /\ phase = "cutting"
  /\ length # 0 => ~Encodable(Packet(length, packets + 1))
  /\ phase' = "refused"
  /\ UNCHANGED <<length, packets, stored, last_seq, ended>>

(* The receiver takes p behind the packets it already holds.               *)
Receive(p) ==
  IF ~ended /\ p.sequence = (last_seq + 1) % SequenceModulus /\ stored = p.first
  THEN /\ stored' = stored + p.data_size + Padding(p)
       /\ last_seq' = p.sequence
       /\ ended' = p.final
  ELSE UNCHANGED <<stored, last_seq, ended>>

(* One turn of the loop, or the final packet after it.                     *)
Append ==
  /\ phase = "cutting" /\ length # 0
  /\ LET p == Packet(length, packets + 1)
     IN  /\ Encodable(p)
         /\ packets' = packets + 1
         /\ phase' = IF packets = RegularCount(length) THEN "done" ELSE "cutting"
         /\ Receive(p)
  /\ UNCHANGED length

Returned == phase # "cutting" /\ UNCHANGED vars

Next == Refuse \/ Append \/ Returned

Spec == Init /\ [][Next]_vars
-------------------------------------------------------------------------------
TypeOK ==
  /\ length \in BodyLengths
  /\ packets \in Nat /\ stored \in Nat
  /\ phase \in {"cutting", "done", "refused"}
  /\ last_seq \in 0 .. 255
  /\ ended \in BOOLEAN

(***************************************************************************)
(* packetize_transfer_body: when the packets are all cut, the receiver has *)
(* ended with exactly the body, padded up to whole data fields by less     *)
(* than one field, having skipped no packet; the sequence number wraps at  *)
(* 256 and the body of a multiple of 128 bytes must not lose or repeat its *)
(* last block.                                                             *)
(***************************************************************************)
ReceiverHoldsBody ==
  phase = "done" =>
    /\ ended
    /\ packets = PacketCount(length)
    /\ stored = packets * DATA_FIELD_SIZE
    /\ stored - length \in 0 .. DATA_FIELD_SIZE - 1

(***************************************************************************)
(* packetize_transfer_body raises for the empty body and for no other:     *)
(* build_transfer_packet never meets a packet it refuses.                  *)
(***************************************************************************)
OnlyEmptyRefused == phase = "refused" => length = 0

(***************************************************************************)
(* build_transfer_packet: a regular packet is 132 bytes on the wire and    *)
(* the final one 135, whatever the remainder: the two sizes the captures   *)
(* show, and the only thing the bootloader can frame packets by.           *)
(***************************************************************************)
WireSizes ==
  \A i \in 1 .. packets :
    WireSize(Packet(length, i)) =
      IF phase = "done" /\ i = packets THEN 135 ELSE 132
===============================================================================
