------------------------------ MODULE SerialLink ------------------------------
(***************************************************************************)
(* JkProtocol._query over a serial line: the request, the frame found by   *)
(* NativeFrameParser in whatever chunks the port returns, the independent  *)
(* acknowledgement after it, and every way to raise.  The unit answers in  *)
(* order, or not at all; the line cuts and garbles answers; a byte that is *)
(* not received before a timeout is received later.                        *)
(*                                                                         *)
(* The port's input buffer is the part of `line' after `edge', as far as   *)
(* it has arrived.  No query empties it; opening the port again, as        *)
(* connect does, drops what has arrived but not what is still under way,   *)
(* so a line outlives a session.                                           *)
(***************************************************************************)
EXTENDS NativeFrames

CONSTANTS
  AckSize,        \* MODBUS_ACK_SIZE, 8
  Sessions        \* bound: the pairs of questions asked and number of
                  \* answers damaged that are explored

ASSUME LinkAssumption ==
  /\ AckSize \in Nat \ {0}
  /\ Sessions \subseteq Seq({"identity", "telemetry"}) \X Nat

VARIABLES
  asked, answers, served,   \* as in QueryContract
  born,                     \* where the bytes of the current parser begin
  damaged                   \* answers that were damaged so far

link == <<asked, answers, served, born, damaged>>
vars == <<line, edge, expected, parser, link>>

Kinds == {"identity", "telemetry"}   \* read_identity, read_telemetry

ReadSize == FrameSize + AckSize

Init ==
  /\ line = <<>> /\ edge = 0
  /\ pc = "idle" /\ expected = "identity"
  /\ start = 0 /\ end = 0 /\ found = <<>>
  /\ asked = <<>> /\ answers = <<>> /\ served = 0
  /\ born = 0 /\ damaged = 0
-------------------------------------------------------------------------------
(* What the unit's answer to question q becomes on the line.               *)
Answer(kind, q) == [i \in 1 .. ReadSize |-> Byte(kind, q, i)]

(* Cut at either end, or lost altogether.                                  *)
Cut(whole) == {SubSeq(whole, i, j) : i \in 1 .. ReadSize, j \in 0 .. ReadSize}

(* With a byte changed to one that belongs to nothing.                     *)
Garbled(whole) == {[whole EXCEPT ![i].place = 0] : i \in 1 .. ReadSize}

(* After the beginning of a frame that was never finished.                 *)
Restarted(whole) == {SubSeq(whole, 1, i) \o whole : i \in 1 .. MagicSize}

(* With a stray byte before it, inside it, or after its acknowledgement.   *)
With(whole, byte, i) ==
  [k \in 1 .. ReadSize + 1 |->
     IF k < i THEN whole[k] ELSE IF k = i THEN byte ELSE whole[k - 1]]
Noisy(whole, byte) == {With(whole, byte, i) : i \in 1 .. ReadSize + 1}

Damaged(kind, q) ==
  Cut(Answer(kind, q)) \cup Garbled(Answer(kind, q)) \cup Restarted(Answer(kind, q))
    \cup Noisy(Answer(kind, q), Byte(kind, q, 0))

Transmit(kind, q) ==
  \/ /\ line' = line \o Answer(kind, q)
     /\ UNCHANGED damaged
  \/ /\ <<asked, damaged + 1>> \in Sessions
     /\ damaged' = damaged + 1
     /\ \E bytes \in Damaged(kind, q) : line' = line \o bytes
-------------------------------------------------------------------------------
(* read_identity or read_telemetry is called: a new parser.                *)
Ask ==
  /\ pc = "idle"
  /\ \E kind \in Kinds :
       /\ <<Append(asked, kind), damaged>> \in Sessions
       /\ asked' = Append(asked, kind)
       /\ expected' = kind
  /\ pc' = "writing"
  /\ UNCHANGED <<line, edge, start, end, found, answers, served, born, damaged>>

(* A query is over; its parser and what was in its buffer are gone.        *)
Over ==
  /\ pc' = "idle"
  /\ start' = edge' /\ end' = edge' /\ born' = edge'
  /\ found' = <<>>

Raise ==
  /\ UNCHANGED <<line, edge, expected, asked, served, damaged>>
  /\ Over
  /\ answers' = Append(answers, 0)

(* _write_all.                                                             *)
WriteTwice ==                                                 \* fault variant
  /\ pc = "writing"
  /\ line' = line \o Answer(expected, Len(asked)) \o Answer(expected, Len(asked))
  /\ pc' = "reading"
  /\ UNCHANGED <<edge, expected, start, end, found, link>>
WriteRequest ==
  /\ pc = "writing"
  /\ Transmit(expected, Len(asked))
  /\ pc' = "reading"
  /\ UNCHANGED <<edge, expected, start, end, found, asked, answers, served, born>>

(* "short serial write"; the unit may or may not have got a request.       *)
ShortWrite ==
  /\ pc = "writing"
  /\ \/ UNCHANGED <<line, damaged>>
     \/ Transmit(expected, Len(asked))
  /\ UNCHANGED <<edge, expected, asked, served>>
  /\ Over
  /\ answers' = Append(answers, 0)

(* transport.read(size): at most size bytes, fewer when the timeout ends   *)
(* it, and none is a ProtocolTimeout.                                      *)
Receive(size) ==
  \E n \in 1 .. Smaller(size, Len(line) - edge) : edge' = edge + n

ReadChunk ==
  /\ pc = "reading" /\ Receive(ReadSize)
  /\ pc' = "feeding"
  /\ UNCHANGED <<line, expected, start, end, found, link>>

ReadOnSilence == UNCHANGED vars                               \* fault variant
ReturnOnSilence ==                                            \* fault variant
  IF pc = "reading" THEN Raise
  ELSE /\ UNCHANGED <<line, edge, expected, asked, damaged>>
       /\ Over
       /\ served' = line[found[1] + FrameSize].of
       /\ answers' = Append(answers, served')
OnSilence == Raise

ReadNothing == pc = "reading" /\ OnSilence

(* feed returned no frame: read on.                                        *)
FedNothing ==
  /\ pc = "feeding" /\ end = edge /\ found = <<>>
  /\ pc' = "reading"
  /\ UNCHANGED <<line, edge, expected, start, end, found, link>>

(* "received multiple native frames for one request"                       *)
FedSeveral == pc = "feeding" /\ end = edge /\ Len(found) > 1 /\ Raise

(* take_pending: what the buffer holds begins the acknowledgement.         *)
TakePending ==
  /\ pc = "feeding" /\ end = edge /\ Len(found) = 1
  /\ end - start <= AckSize
  /\ pc' = "acking"
  /\ UNCHANGED <<line, edge, expected, start, end, found, link>>

(* "unexpected bytes followed the Modbus acknowledgement"                  *)
TooMuchPending ==
  /\ pc = "feeding" /\ end = edge /\ Len(found) = 1
  /\ end - start > AckSize
  /\ Raise

ReadAckPart ==
  /\ pc = "acking" /\ edge - start < AckSize
  /\ Receive(AckSize - (edge - start))
  /\ end' = edge'
  /\ UNCHANGED <<pc, line, expected, start, found, link>>

ReadNoAck ==
  /\ pc = "acking" /\ edge - start < AckSize
  /\ OnSilence

(* validate_modbus_ack: the register tells the kinds apart, nothing tells  *)
(* one acknowledgement of a kind from another.                             *)
ValidAck ==
  \A i \in 1 .. AckSize :
    /\ line[start + i].place = FrameSize + i
    /\ line[start + i].kind = expected

BadAck == pc = "acking" /\ edge - start = AckSize /\ ~ValidAck /\ Raise

(* The frame is returned and decoded by parse_identity_frame or one of the *)
(* telemetry parsers, which reject what the unit should not have sent.     *)
Decode ==
  /\ pc = "acking" /\ edge - start = AckSize /\ ValidAck
  /\ UNCHANGED <<line, edge, expected, asked, damaged>>
  /\ Over
  /\ served' = line[found[1] + FrameSize].of
  /\ answers' = Append(answers, served')

Undecodable == pc = "acking" /\ edge - start = AckSize /\ ValidAck /\ Raise

Query ==
  \/ WriteRequest \/ ShortWrite \/ ReadChunk \/ ReadNothing \/ FedNothing
  \/ FedSeveral \/ TakePending \/ TooMuchPending \/ ReadAckPart \/ ReadNoAck
  \/ BadAck \/ Decode \/ Undecodable \/ (Parse /\ UNCHANGED link)

(* connect: pyserial empties the input buffer of a port it opens.          *)
Reopen ==
  /\ pc = "idle"
  /\ edge' \in edge + 1 .. Len(line)
  /\ Over
  /\ UNCHANGED <<line, expected, asked, answers, served, damaged>>

(* Nobody need ask again.                                                  *)
Idle == pc = "idle" /\ UNCHANGED vars

Next == Ask \/ Query \/ Reopen \/ Idle

Spec == Init /\ [][Next]_vars

(* _query runs on one thread and every read returns, by its timeout at the *)
(* latest.                                                                 *)
FairSpec == Spec /\ WF_vars(Query)
-------------------------------------------------------------------------------
Contract == INSTANCE QueryContract

TypeOK ==
  /\ Contract!TypeOK
  /\ pc \in {"idle", "writing", "reading", "feeding", "parsing", "acking"}
  /\ expected \in Kinds
  /\ \A i \in 1 .. Len(line) :
       line[i] \in [kind : Kinds, of : 1 .. Len(asked), place : 0 .. ReadSize]
  /\ born <= start /\ start <= end /\ end <= edge /\ edge <= Len(line)
  /\ damaged \in Nat

(***************************************************************************)
(* NativeFrameParser retains less than a frame between two chunks,         *)
(* whatever the line carries: the buffer is never full when feed wants to  *)
(* extend it, so a chunk is taken whole and no byte is dropped unseen.     *)
(***************************************************************************)
RoomForMore == pc \in {"reading", "feeding"} => end - start < FrameSize

(***************************************************************************)
(* NativeFrameParser finds every frame, however its bytes are split into   *)
(* chunks and whatever comes before it: no byte of a frame of the expected *)
(* kind is dropped, unless as part of a frame that was returned.  With     *)
(* RoomForMore, _query never waits for bytes it already has.               *)
(***************************************************************************)
NoFrameSkipped ==
  \A p \in born .. end - FrameSize :
    FrameAt(p) => \/ p >= start
                  \/ \E i \in 1 .. Len(found) : p \in found[i] .. found[i] + FrameSize - 1

(***************************************************************************)
(* A query that returns the answer to its own question has read all that   *)
(* was ever answered: nothing of this or an earlier answer is left for the *)
(* next query, or for read_boot_ready, which would take it for the         *)
(* bootloader's.  A stray byte after the acknowledgement may be left: with *)
(* frame and acknowledgement received at once, nothing looks for it.       *)
(***************************************************************************)
FreshAnswerIsLast ==
  pc = "idle" /\ asked # <<>> /\ served = Len(asked) =>
    \A i \in edge + 1 .. Len(line) : line[i].place = 0

(* See QueryContract.                                                      *)
PreBootFresh == Contract!PreBootFresh

(***************************************************************************)
(* _query keeps the promise of QueryContract: answers come for questions   *)
(* of the kind asked, in the order of the questions and none twice,        *)
(* whatever is late, lost, cut or garbled.                                 *)
(***************************************************************************)
ImplementsQueryContract == Contract!Spec

(***************************************************************************)
(* _query returns or raises: it holds the serial lock, and has no deadline *)
(* but the timeout of each read.                                           *)
(***************************************************************************)
QueryEnds == pc # "idle" ~> pc = "idle"
==============================================================================
