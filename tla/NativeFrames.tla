----------------------------- MODULE NativeFrames -----------------------------
(***************************************************************************)
(* NativeFrameParser: finds fixed-size frames in a stream of bytes that    *)
(* arrives in chunks.  The parser only ever appends to its buffer and      *)
(* drops bytes from the front of it, so the buffer is a window of the line *)
(* and is kept as two positions: it holds bytes start + 1 .. end.          *)
(*                                                                         *)
(* A byte says which answer it belongs to and its place in it.  The magic  *)
(* bytes and the acknowledgement are the same in every answer of a kind;   *)
(* the rest of a frame is not, and the checksum holds only when it all     *)
(* comes from one answer.  A byte that was garbled or belongs to nothing   *)
(* has place 0.                                                            *)
(***************************************************************************)
EXTENDS Integers, Sequences

CONSTANTS
  FrameSize,   \* NATIVE_FRAME_SIZE, 300
  MagicSize,   \* len(NATIVE_MAGIC), 4
  MaxBuffer    \* max_buffer, 600

ASSUME FrameAssumption ==
  /\ FrameSize \in Nat /\ MagicSize \in Nat /\ MaxBuffer \in Nat
  /\ 1 <= MagicSize /\ MagicSize < FrameSize
  /\ MaxBuffer >= FrameSize    \* __init__ raises otherwise

VARIABLES
  line,      \* every byte that was or will be received, in order
  edge,      \* number of them received: the end of the chunk being fed
  pc,        \* here: "feeding" (the loop of feed) or "parsing"
             \* (that of _parse_available)
  expected,  \* expected_code
  start, end,
  found      \* where the frames start that this parser returned

parser == <<pc, start, end, found>>

Byte(kind, q, i) == [kind |-> kind, of |-> q, place |-> i]

Smaller(a, b) == IF a <= b THEN a ELSE b

(* NATIVE_MAGIC is found at offset p of the line, wholly in the buffer.    *)
MarkerAt(p) ==
  /\ p \in start .. end - MagicSize
  /\ \A i \in 1 .. MagicSize : line[p + i].place = i

NoMarker == \A p \in start .. end - MagicSize : ~MarkerAt(p)

(* bytearray.find: the first one.                                          *)
FirstMarker(p) == MarkerAt(p) /\ \A r \in start .. p - 1 : ~MarkerAt(r)

AnyCode(p) == TRUE                                            \* fault variant
ValidCode(p) == line[p + MagicSize + 1].kind = expected

(* The checksum, and so every byte, is that of one frame.                  *)
ValidChecksum(p) ==
  /\ \A i \in 1 .. FrameSize : line[p + i].place = i
  /\ \A i \in MagicSize + 1 .. FrameSize : line[p + i].of = line[p + FrameSize].of

FrameAt(p) == ValidCode(p) /\ ValidChecksum(p)

(* _discard_unusable_prefix and the byte dropped when it does not help:    *)
(* where a buffer with no room would start.                                *)
KeepNothing == 0                                              \* fault variant
KeptTail == MagicSize - 1    \* the longest possible partial magic
Discarded ==
  LET usable == IF NoMarker THEN end - Smaller(KeptTail, end - start)
                ELSE CHOOSE p \in start .. end : FirstMarker(p)
  IN  IF MaxBuffer - (end - usable) > 0 THEN usable ELSE usable + 1

(* One turn of the loop of feed.                                           *)
Extend ==
  /\ pc = "feeding" /\ end < edge
  /\ LET from == IF MaxBuffer - (end - start) > 0 THEN start ELSE Discarded
     IN  /\ start' = from
         /\ end' = end + Smaller(MaxBuffer - (end - from), edge - end)
  /\ pc' = "parsing"
  /\ UNCHANGED <<line, edge, expected, found>>

(* The turns of the loop of _parse_available, by how they end.             *)
BelowOrAtFrame == end - start <= FrameSize                    \* fault variant
BelowFrame == end - start < FrameSize

TooShort ==
  /\ pc = "parsing" /\ BelowFrame
  /\ pc' = "feeding"
  /\ UNCHANGED <<line, edge, expected, start, end, found>>

KeepTail ==
  /\ pc = "parsing" /\ ~BelowFrame /\ NoMarker
  /\ start' = end - KeptTail
  /\ pc' = "feeding"
  /\ UNCHANGED <<line, edge, expected, end, found>>

AlignToMarker ==
  /\ pc = "parsing" /\ ~BelowFrame
  /\ \E p \in start .. end :
       /\ FirstMarker(p) /\ end - p < FrameSize
       /\ start' = p
  /\ pc' = "feeding"
  /\ UNCHANGED <<line, edge, expected, end, found>>

AfterRejected(p) == p + 1

RejectByte ==
  /\ pc = "parsing" /\ ~BelowFrame
  /\ \E p \in start .. end - FrameSize :
       /\ FirstMarker(p) /\ ~FrameAt(p)
       /\ start' = AfterRejected(p)
  /\ UNCHANGED <<pc, line, edge, expected, end, found>>

PastFrame(p) == p + FrameSize + 1                             \* fault variant
AfterFrame(p) == p + FrameSize

AcceptFrame ==
  /\ pc = "parsing" /\ ~BelowFrame
  /\ \E p \in start .. end - FrameSize :
       /\ FirstMarker(p) /\ FrameAt(p)
       /\ found' = Append(found, p)
       /\ start' = AfterFrame(p)
  /\ UNCHANGED <<pc, line, edge, expected, end>>

Parse ==
  \/ Extend \/ TooShort \/ KeepTail \/ AlignToMarker \/ RejectByte \/ AcceptFrame
==============================================================================
