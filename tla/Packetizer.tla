------------------------------ MODULE Packetizer ------------------------------
(***************************************************************************)
(* The pure part of flasher.py: how packetize_transfer_body cuts a         *)
(* transfer body of n bytes into bootloader packets, and which packets     *)
(* build_transfer_packet agrees to encode.  A body is its length; a packet *)
(* is the slice of the body it carries together with the header fields the *)
(* bootloader tells packets apart by.                                      *)
(***************************************************************************)
EXTENDS Integers

DATA_FIELD_SIZE == 128     \* bytes of the data field of every packet
UnmaskedModulus == 65536   \* fault variant: without the & 0xFF
SequenceModulus == 256     \* sequence numbers are taken & 0xFF
FrameOverhead   == 4       \* start byte, sequence, complement, checksum
FinalMarkerSize == 3       \* FINAL_MARKER

(* divmod(n, 128): every full block is regular unless the body is aligned, *)
(* in which case the last full block becomes the final packet.             *)
FloorCount(n) == n \div DATA_FIELD_SIZE                       \* fault variant
RegularCount(n) ==
  LET full == n \div DATA_FIELD_SIZE
  IN  IF n % DATA_FIELD_SIZE # 0 THEN full ELSE full - 1

PacketCount(n) == RegularCount(n) + 1

(* Packet i of the body, counted from 1; index in the code is i - 1.       *)
PacketFromZero(n, i) ==                                       \* fault variant
  [sequence  |-> (i - 1) % SequenceModulus,
   first     |-> (i - 1) * DATA_FIELD_SIZE,
   data_size |-> IF i <= RegularCount(n)
                 THEN DATA_FIELD_SIZE
                 ELSE n - RegularCount(n) * DATA_FIELD_SIZE,
   final     |-> i > RegularCount(n)]
Packet(n, i) ==
  [sequence  |-> i % SequenceModulus,
   first     |-> (i - 1) * DATA_FIELD_SIZE,
   data_size |-> IF i <= RegularCount(n)
                 THEN DATA_FIELD_SIZE
                 ELSE n - RegularCount(n) * DATA_FIELD_SIZE,
   final     |-> i > RegularCount(n)]

(* The guards of build_transfer_packet: it raises on any other packet.     *)
Encodable(p) ==
  /\ p.sequence \in 0 .. SequenceModulus - 1
  /\ IF p.final THEN p.data_size \in 1 .. DATA_FIELD_SIZE
                ELSE p.data_size = DATA_FIELD_SIZE

(* Bytes of 0xFF the final packet is padded with.                          *)
NoPadding(p) == 0                                             \* fault variant
Padding(p) == IF p.final THEN DATA_FIELD_SIZE - p.data_size ELSE 0

(* Bytes on the wire.                                                      *)
WireSize(p) ==
  FrameOverhead + p.data_size + Padding(p)
    + (IF p.final THEN FinalMarkerSize ELSE 0)
===============================================================================
