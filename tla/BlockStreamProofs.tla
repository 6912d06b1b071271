--------------------------- MODULE BlockStreamProofs ---------------------------
(***************************************************************************)
(* The packets of packetize_transfer_body, for a body of any length.       *)
(***************************************************************************)
EXTENDS BlockStream, TLAPS

(* packetize_transfer_body: the empty body has no packet, every other has  *)
(* at least the final one.                                                 *)
LEMMA PacketCountType ==
  ASSUME NEW n \in Nat
  PROVE  /\ PacketCount(n) \in Nat
         /\ n # 0 => PacketCount(n) >= 1
BY DEF PacketCount, RegularCount, DATA_FIELD_SIZE

(* divmod: the regular packets leave between 1 and 128 bytes for the last. *)
LEMMA RegularCountBounds ==
  ASSUME NEW n \in Nat \ {0}
  PROVE  /\ RegularCount(n) \in Nat
         /\ n - RegularCount(n) * 128 \in 1 .. 128
BY DEF RegularCount, DATA_FIELD_SIZE

(* packetize_transfer_body: for every non-empty body the packets tile it   *)
(* from the first byte to the last without gap or overlap, each is one     *)
(* that build_transfer_packet encodes, each carries the sequence number    *)
(* after its predecessor's, and the last and only the last is final.       *)
THEOREM PacketsTile ==
  ASSUME NEW n \in Nat \ {0}
  PROVE  /\ Packet(n, 1).first = 0
         /\ \A i \in 1 .. PacketCount(n) :
              /\ Encodable(Packet(n, i))
              /\ Packet(n, i).final <=> i = PacketCount(n)
         /\ \A i \in 1 .. PacketCount(n) - 1 :
              /\ Packet(n, i + 1).first = Packet(n, i).first + Packet(n, i).data_size
              /\ Packet(n, i + 1).sequence = (Packet(n, i).sequence + 1) % 256
         /\ LET last == Packet(n, PacketCount(n))
            IN  last.first + last.data_size = n
<1> DEFINE r == RegularCount(n)
<1>1. r \in Nat /\ n - r * 128 \in 1 .. 128 /\ PacketCount(n) = r + 1
  BY RegularCountBounds DEF PacketCount
<1>2. Packet(n, 1).first = 0
  BY DEF Packet, DATA_FIELD_SIZE
<1>3. ASSUME NEW i \in 1 .. r + 1
      PROVE  /\ Encodable(Packet(n, i))
             /\ Packet(n, i).final <=> i = r + 1
  <2> DEFINE p == Packet(n, i)
  <2>1. p.sequence = i % 256 /\ i % 256 \in 0 .. 255
    BY <1>1 DEF Packet, SequenceModulus
  <2>2. p.data_size = IF i <= r THEN 128 ELSE n - r * 128
    BY DEF Packet, DATA_FIELD_SIZE
  <2>3. p.final = (i > r)
    BY DEF Packet
  <2>4. i > r <=> i = r + 1
    BY <1>1
  <2>5. p.final <=> i = r + 1
    BY <2>3, <2>4
  <2>6. IF i > r THEN p.data_size \in 1 .. 128 ELSE p.data_size = 128
    BY <1>1, <2>2
  <2> HIDE DEF p
  <2>7. 0 .. 255 = 0 .. SequenceModulus - 1 /\ DATA_FIELD_SIZE = 128
    BY DEF SequenceModulus, DATA_FIELD_SIZE
  <2>8. ASSUME i > r PROVE Encodable(p)
    <3>1. p.final /\ p.data_size \in 1 .. 128
      BY <2>3, <2>6, <2>8, Zenon
    <3>2. /\ p.sequence \in 0 .. SequenceModulus - 1
          /\ p.data_size \in 1 .. DATA_FIELD_SIZE
      BY <2>1, <2>7, <3>1
    <3> QED
      BY <3>1, <3>2, Zenon DEF Encodable
  <2>9. ASSUME ~(i > r) PROVE Encodable(p)
    <3>1. ~p.final
      BY <2>3, <2>9, Zenon
    <3>2. p.data_size = DATA_FIELD_SIZE
      BY <2>6, <2>9 DEF DATA_FIELD_SIZE
    <3> QED
      BY <2>1, <2>7, <3>1, <3>2, Zenon DEF Encodable
  <2> QED
    BY <2>5, <2>8, <2>9 DEF p
<1>4. ASSUME NEW i \in 1 .. r
      PROVE  /\ Packet(n, i + 1).first = Packet(n, i).first + Packet(n, i).data_size
             /\ Packet(n, i + 1).sequence = (Packet(n, i).sequence + 1) % 256
  BY <1>1 DEF Packet, DATA_FIELD_SIZE, SequenceModulus
<1>5. Packet(n, r + 1).first + Packet(n, r + 1).data_size = n
  BY <1>1 DEF Packet, DATA_FIELD_SIZE
<1> QED
  BY <1>1, <1>2, <1>3, <1>4, <1>5
-------------------------------------------------------------------------------
(* What the loop of packetize_transfer_body and its receiver have in common *)
(* after each turn.                                                         *)
StreamInv ==
  /\ length \in Nat /\ length \in BodyLengths
  /\ phase \in {"cutting", "done", "refused"}
  /\ packets \in Nat /\ stored = packets * 128
  /\ last_seq = packets % 256 /\ ended \in BOOLEAN
  /\ length = 0 => packets = 0
  /\ phase = "refused" => length = 0
  /\ phase = "cutting" => ended = FALSE /\ (length # 0 => packets <= RegularCount(length))
  /\ phase = "done" => ended = TRUE /\ length # 0 /\ packets = PacketCount(length)

(* Nothing cut, nothing stored.                                           *)
LEMMA StreamInvInit == Init => StreamInv
  <1> SUFFICES ASSUME Init PROVE StreamInv
    OBVIOUS
  <1>1. length \in Nat
    BY BodyLengthsAssumption DEF Init
  <1>2. length # 0 => 0 <= RegularCount(length)
    BY <1>1, RegularCountBounds
  <1>3. /\ stored = packets * 128 /\ last_seq = packets % 256
        /\ packets = 0 /\ phase = "cutting" /\ ended = FALSE /\ length \in BodyLengths
    BY DEF Init
  <1> QED
    BY <1>1, <1>2, <1>3 DEF StreamInv

(* One packet more: the receiver takes it, because its sequence number and  *)
(* its place are the ones it waits for.                                     *)
LEMMA AppendKeepsStreamInv ==
  ASSUME StreamInv, Append
  PROVE  StreamInv'
  <1> DEFINE p == Packet(length, packets + 1)
             r == RegularCount(length)
  <1>1. /\ length \in Nat \ {0} /\ length' = length
        /\ packets \in Nat /\ packets' = packets + 1 /\ packets <= r
        /\ ended = FALSE /\ stored = packets * 128 /\ last_seq = packets % 256
    BY DEF StreamInv, Append
  <1>2. r \in Nat /\ PacketCount(length) = r + 1
    BY <1>1, RegularCountBounds DEF PacketCount
  <1>3. /\ p.sequence = (packets + 1) % 256 /\ p.first = packets * 128
        /\ p.final = (packets + 1 > r)
        /\ p.data_size = IF packets + 1 <= r THEN 128 ELSE length - r * 128
    BY <1>1 DEF Packet, DATA_FIELD_SIZE, SequenceModulus
  <1>4. (packets + 1) % 256 = ((packets % 256) + 1) % 256
    BY <1>1
  <1>5. p.data_size + Padding(p) = 128
    <2>1. Padding(p) = IF packets + 1 > r THEN 128 - p.data_size ELSE 0
      BY <1>3, Zenon DEF Padding, DATA_FIELD_SIZE
    <2>2. p.data_size \in Int
      BY <1>1, <1>2, <1>3
    <2> HIDE DEF p
    <2> QED
      BY <1>1, <1>2, <1>3, <2>1, <2>2
  <1>6. Receive(p)
    BY DEF Append
  <1>7. /\ stored' = stored + p.data_size + Padding(p)
        /\ last_seq' = p.sequence
        /\ ended' = p.final
    BY <1>1, <1>3, <1>4, <1>6 DEF Receive, SequenceModulus
  <1>8. stored' = (packets + 1) * 128
    <2>1. p.data_size \in Int /\ Padding(p) \in Int
      <3>1. Padding(p) = IF packets + 1 > r THEN 128 - p.data_size ELSE 0
        BY <1>3, Zenon DEF Padding, DATA_FIELD_SIZE
      <3> QED
        BY <1>1, <1>2, <1>3, <3>1
    <2> QED
      BY <1>1, <1>5, <1>7, <2>1
  <1>9. phase' = IF packets = r THEN "done" ELSE "cutting"
    BY DEF Append
  <1> HIDE DEF p, r
  <1>10. CASE packets = r
    <2>1. ended' = TRUE
      <3>1. packets + 1 > r
        BY <1>1, <1>10
      <3> QED
        BY <1>3, <1>7, <3>1, Zenon
    <2> QED
      BY <1>1, <1>2, <1>3, <1>7, <1>8, <1>9, <1>10, <2>1 DEF StreamInv, r
  <1>11. CASE packets # r
    <2>1. ended' = FALSE
      <3>1. (packets + 1 > r) = FALSE
        BY <1>1, <1>2, <1>11
      <3> QED
        BY <1>3, <1>7, <3>1, Zenon
    <2> QED
      BY <1>1, <1>2, <1>3, <1>7, <1>8, <1>9, <1>11, <2>1 DEF StreamInv, r
  <1> QED
    BY <1>10, <1>11

(* build_transfer_packet refuses no packet of a non-empty body.             *)
LEMMA RefuseKeepsStreamInv ==
  ASSUME StreamInv, Refuse
  PROVE  StreamInv'
  <1>1. CASE length = 0
    BY <1>1 DEF StreamInv, Refuse
  <1>2. CASE length # 0
    <2>1. length \in Nat \ {0} /\ packets + 1 \in 1 .. PacketCount(length)
      BY <1>2, RegularCountBounds DEF StreamInv, Refuse, PacketCount
    <2>2. Encodable(Packet(length, packets + 1))
      BY <2>1, PacketsTile
    <2> QED
      BY <1>2, <2>2 DEF Refuse
  <1> QED
    BY <1>1, <1>2

(* The receiver is always exactly as far as the cutting.                   *)
LEMMA StreamInvariant == Spec => []StreamInv
  <1>1. StreamInv /\ [Next]_vars => StreamInv'
    <2> SUFFICES ASSUME StreamInv, [Next]_vars PROVE StreamInv'
      OBVIOUS
    <2>1. CASE Append
      BY <2>1, AppendKeepsStreamInv
    <2>2. CASE Refuse
      BY <2>2, RefuseKeepsStreamInv
    <2>3. CASE UNCHANGED vars
      BY <2>3 DEF StreamInv, vars
    <2> QED
      BY <2>1, <2>2, <2>3 DEF Next, Returned
  <1> QED
    BY StreamInvInit, <1>1, PTL DEF Spec

(* packetize_transfer_body: whatever the length of the body, a bootloader   *)
(* that takes packets strictly in sequence ends up with the whole of it.    *)
THEOREM StreamDeliversBody == Spec => []ReceiverHoldsBody
  <1>1. StreamInv => ReceiverHoldsBody
    <2> SUFFICES ASSUME StreamInv, phase = "done" PROVE ReceiverHoldsBody
      BY DEF ReceiverHoldsBody
    <2>1. length \in Nat \ {0} /\ packets = RegularCount(length) + 1 /\ ended
      BY DEF StreamInv, PacketCount
    <2>2. stored - length \in 0 .. 127
      <3> DEFINE r == RegularCount(length)
      <3>1. r \in Nat /\ length - r * 128 \in 1 .. 128 /\ length \in Nat
        BY <2>1, RegularCountBounds
      <3>2. stored = packets * 128 /\ packets = r + 1
        BY <2>1 DEF StreamInv
      <3> HIDE DEF r
      <3> QED
        BY <3>1, <3>2
    <2> QED
      BY <2>1, <2>2 DEF StreamInv, ReceiverHoldsBody, DATA_FIELD_SIZE
  <1> QED
    BY StreamInvariant, <1>1, PTL

(* packetize_transfer_body raises for the empty body only.                  *)
THEOREM StreamRefusesEmptyOnly == Spec => []OnlyEmptyRefused
  <1>1. StreamInv => OnlyEmptyRefused
    BY DEF StreamInv, OnlyEmptyRefused
  <1> QED
    BY StreamInvariant, <1>1, PTL

(* The loop and its receiver only take values the code can give them.       *)
THEOREM StreamTypes == Spec => []TypeOK
  <1>1. StreamInv => TypeOK
    <2>1. packets \in Nat => packets * 128 \in Nat /\ packets % 256 \in 0 .. 255
      OBVIOUS
    <2> QED
      BY <2>1 DEF StreamInv, TypeOK
  <1> QED
    BY StreamInvariant, <1>1, PTL

(* A regular packet is 132 bytes on the wire, the final one 135.            *)
LEMMA WireSizeOfPacket ==
  ASSUME NEW n \in Nat \ {0}, NEW i \in 1 .. PacketCount(n)
  PROVE  WireSize(Packet(n, i)) = IF i = PacketCount(n) THEN 135 ELSE 132
  <1> DEFINE p == Packet(n, i)
             r == RegularCount(n)
  <1>1. r \in Nat /\ n - r * 128 \in 1 .. 128 /\ PacketCount(n) = r + 1
    BY RegularCountBounds DEF PacketCount
  <1>2. /\ p.final = (i > r)
        /\ p.data_size = IF i <= r THEN 128 ELSE n - r * 128
    BY DEF Packet, DATA_FIELD_SIZE
  <1>3. p.data_size \in Int /\ (i > r <=> i = r + 1)
    BY <1>1, <1>2
  <1> HIDE DEF p, r
  <1>4. CASE i > r
    <2>1. p.final
      BY <1>2, <1>4, Zenon
    <2>2. Padding(p) = 128 - p.data_size
      BY <2>1, Zenon DEF Padding, DATA_FIELD_SIZE
    <2>3. WireSize(p) = FrameOverhead + p.data_size + Padding(p) + FinalMarkerSize
      BY <2>1, Zenon DEF WireSize
    <2>4. WireSize(p) = 135
      BY <1>3, <2>2, <2>3 DEF FrameOverhead, FinalMarkerSize
    <2> QED
      BY <1>1, <1>3, <1>4, <2>4 DEF p
  <1>5. CASE ~(i > r)
    <2>1. ~p.final
      BY <1>2, <1>5, Zenon
    <2>2. Padding(p) = 0
      BY <2>1, Zenon DEF Padding
    <2>3. WireSize(p) = FrameOverhead + p.data_size + Padding(p) + 0
      BY <2>1, Zenon DEF WireSize
    <2>4. p.data_size = 128
      BY <1>1, <1>2, <1>5
    <2>5. WireSize(p) = 132
      BY <2>2, <2>3, <2>4 DEF FrameOverhead
    <2> QED
      BY <1>1, <1>3, <1>5, <2>5 DEF p
  <1> QED
    BY <1>4, <1>5

(* build_transfer_packet: the two sizes on the wire, for any body.          *)
THEOREM StreamWireSizes == Spec => []WireSizes
  <1>1. StreamInv => WireSizes
    <2> SUFFICES ASSUME StreamInv, NEW i \in 1 .. packets
                 PROVE  WireSize(Packet(length, i)) =
                          IF phase = "done" /\ i = packets THEN 135 ELSE 132
      BY DEF WireSizes
    <2>1. length \in Nat \ {0} /\ phase \in {"cutting", "done"} /\ packets \in Nat
      BY DEF StreamInv
    <2>2. PacketCount(length) \in Nat /\ RegularCount(length) = PacketCount(length) - 1
      BY <2>1, RegularCountBounds DEF PacketCount
    <2>3. /\ i \in 1 .. PacketCount(length)
          /\ i = PacketCount(length) <=> phase = "done" /\ i = packets
      BY <2>1, <2>2 DEF StreamInv
    <2> QED
      BY <2>1, <2>3, WireSizeOfPacket
  <1> QED
    BY StreamInvariant, <1>1, PTL
===============================================================================
