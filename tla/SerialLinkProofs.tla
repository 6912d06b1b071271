--------------------------- MODULE SerialLinkProofs ---------------------------
(***************************************************************************)
(* Queries over a serial line keep the promise of QueryContract and find   *)
(* every frame, for frames, acknowledgements and buffers of any size, and  *)
(* sessions of any length with any number of damaged answers: LinkInv is   *)
(* an invariant, with one lemma per group of actions, and the rest follows.*)
(***************************************************************************)
EXTENDS SerialLink, SequenceTheorems, TLAPS

Bytes(kinds, questions) ==
  [kind : kinds, of : questions, place : 0 .. ReadSize]

(***************************************************************************)
(* What can be on the line of one answer: only strays after its last byte, *)
(* and the last byte of its frame once, so no second copy of the frame.    *)
(***************************************************************************)
OneAnswer(bytes) ==
  \A i, j \in 1 .. Len(bytes) : i < j =>
    /\ bytes[i].place = ReadSize => bytes[j].place = 0
    /\ ~(bytes[i].place = FrameSize /\ bytes[j].place = FrameSize)

(* The line: answers in the order of the questions, each as above.         *)
LineInv ==
  /\ line \in Seq(Bytes(Kinds, 1 .. Len(asked)))
  /\ \A i \in 1 .. Len(line) : line[i].kind = asked[line[i].of]
  /\ \A i, j \in 1 .. Len(line) : i < j =>
       /\ line[i].of <= line[j].of
       /\ line[i].place = ReadSize => line[i].of # line[j].of \/ line[j].place = 0
       /\ line[i].place = FrameSize /\ line[j].place = FrameSize
            => line[i].of # line[j].of

WindowInv ==
  /\ born \in Nat /\ start \in Nat /\ end \in Nat /\ edge \in Nat
  /\ born <= start /\ start <= end /\ end <= edge /\ edge <= Len(line)
  /\ found \in Seq(Nat) /\ damaged \in Nat
  /\ pc \in {"idle", "writing", "reading", "feeding", "parsing", "acking"}
  /\ expected \in Kinds

(* Where a query is, what it has asked, and what its parser holds then.    *)
QueryInv ==
  /\ Contract!TypeOK
  /\ served <= Len(answers)
  /\ pc = "idle" => Len(answers) = Len(asked)
  /\ pc # "idle" => Len(answers) + 1 = Len(asked) /\ expected = asked[Len(asked)]
  /\ pc \in {"idle", "writing"} => born = edge
  /\ pc \in {"idle", "writing", "reading"} => end = edge /\ found = <<>>
  /\ pc = "acking" => end = edge /\ Len(found) = 1
  /\ pc = "writing" => \A i \in 1 .. Len(line) : line[i].of < Len(asked)

(* No frame starts at p, as far as the parser has seen.                    *)
Refuted(p) ==
  \/ \E i \in 1 .. MagicSize : p + i <= end /\ line[p + i].place # i
  \/ p + FrameSize <= end /\ ~FrameAt(p)

Returned(p) == \E i \in 1 .. Len(found) : p \in found[i] .. found[i] + FrameSize - 1

(* What the parser returned are frames, what it dropped is not the start   *)
(* of one, and the line ahead holds no second copy of a frame served.      *)
FramesInv ==
  /\ \A i \in 1 .. Len(found) :
       found[i] \in born .. start - FrameSize /\ FrameAt(found[i])
  /\ \A p \in born .. start - 1 : Refuted(p) \/ Returned(p)
  /\ \A i \in born + 1 .. Len(line) : line[i].place = FrameSize => line[i].of > served
  /\ pc \in {"idle", "writing", "reading", "feeding"} => end - start < FrameSize
  /\ FreshAnswerIsLast

Busy == {"reading", "feeding", "parsing", "acking"}

LinkInv == LineInv /\ WindowInv /\ QueryInv /\ FramesInv
-------------------------------------------------------------------------------
(* The sizes, as numbers.                                                  *)
LEMMA Sizes ==
  /\ FrameSize \in Nat /\ MagicSize \in Nat /\ AckSize \in Nat /\ ReadSize \in Nat
  /\ MaxBuffer \in Nat /\ MaxBuffer >= FrameSize
  /\ 1 <= MagicSize /\ MagicSize < FrameSize
  /\ 1 <= AckSize /\ ReadSize = FrameSize + AckSize
  BY FrameAssumption, LinkAssumption DEF ReadSize

(* An answer as it was sent.                                               *)
LEMMA WholeAnswer ==
  ASSUME NEW kind \in Kinds, NEW q \in Nat
  PROVE  /\ Answer(kind, q) \in Seq(Bytes({kind}, {q}))
         /\ Len(Answer(kind, q)) = ReadSize
         /\ \A i \in 1 .. ReadSize : Answer(kind, q)[i] = Byte(kind, q, i)
         /\ \A i \in 0 .. ReadSize : Byte(kind, q, i) \in Bytes({kind}, {q})
         /\ \A i : Byte(kind, q, i).place = i
  <1> DEFINE S == Bytes({kind}, {q})
  <1>1. \A i \in 0 .. ReadSize : Byte(kind, q, i) \in S
    BY DEF Byte, Bytes
  <1> HIDE DEF S
  <1>2. Answer(kind, q) \in [1 .. ReadSize -> S]
    <2>1. \A i \in 1 .. ReadSize : Byte(kind, q, i) \in S
      BY <1>1, Sizes
    <2> QED
      BY <2>1 DEF Answer
  <1>3. Answer(kind, q) \in Seq(S)
    BY <1>2, SeqDef, Sizes
  <1>4. Len(Answer(kind, q)) = ReadSize
    BY <1>2, <1>3, LenProperties, Sizes
  <1> QED
    BY <1>1, <1>3, <1>4 DEF Answer, Byte, S

(* Whatever the line does to an answer, OneAnswer holds of it.             *)
LEMMA DamagedAnswer ==
  ASSUME NEW kind \in Kinds, NEW q \in Nat,
         NEW bytes \in {Answer(kind, q)} \cup Damaged(kind, q)
  PROVE  bytes \in Seq(Bytes({kind}, {q})) /\ OneAnswer(bytes)
  <1> DEFINE S == Bytes({kind}, {q})
             whole == Answer(kind, q)
  <1>1. /\ whole \in Seq(S) /\ Len(whole) = ReadSize
        /\ \A i \in 1 .. ReadSize : whole[i] \in S /\ whole[i].place = i
        /\ \A i \in 0 .. ReadSize : Byte(kind, q, i) \in S
        /\ \A i : Byte(kind, q, i).place = i
    <2>1. /\ whole \in Seq(S) /\ Len(whole) = ReadSize
          /\ \A i \in 1 .. ReadSize : whole[i] = Byte(kind, q, i)
          /\ \A i \in 0 .. ReadSize : Byte(kind, q, i) \in S
          /\ \A i : Byte(kind, q, i).place = i
      BY WholeAnswer
    <2> HIDE DEF S, whole
    <2> QED
      BY <2>1, Sizes
  <1> HIDE DEF S, whole
  <1>2. ASSUME bytes = whole
        PROVE  bytes \in Seq(S) /\ OneAnswer(bytes)
    BY <1>1, <1>2, Sizes DEF OneAnswer
  <1>3. ASSUME NEW i \in 1 .. ReadSize, NEW j \in 0 .. ReadSize,
               bytes = SubSeq(whole, i, j)
        PROVE  bytes \in Seq(S) /\ OneAnswer(bytes)
    <2>1. /\ bytes \in Seq(S)
          /\ Len(bytes) = IF i <= j THEN j - i + 1 ELSE 0
          /\ \A k \in 1 .. j - i + 1 : bytes[k] = whole[i + k - 1]
      <3>1. \A k \in i .. j : whole[k] \in S
        BY <1>1
      <3> QED
        BY <1>3, <3>1, SubSeqProperties
    <2>2. \A k \in 1 .. Len(bytes) : bytes[k].place = i + k - 1
      <3> SUFFICES ASSUME NEW k \in 1 .. Len(bytes)
                   PROVE  bytes[k].place = i + k - 1
        OBVIOUS
      <3>1. k \in 1 .. j - i + 1 /\ i + k - 1 \in 1 .. ReadSize
        BY <2>1, Sizes
      <3> QED
        BY <1>1, <2>1, <3>1
    <2> QED
      BY <2>1, <2>2, Sizes DEF OneAnswer
  <1>4. ASSUME NEW i \in 1 .. ReadSize, bytes = [whole EXCEPT ![i].place = 0]
        PROVE  bytes \in Seq(S) /\ OneAnswer(bytes)
    <2> DEFINE garbled == [whole[i] EXCEPT !.place = 0]
    <2>1. garbled \in S /\ garbled.place = 0
      <3>1. whole[i] \in [kind : {kind}, of : {q}, place : 0 .. ReadSize]
        BY <1>1 DEF S, Bytes
      <3>2. 0 \in 0 .. ReadSize
        BY Sizes
      <3> QED
        BY <3>1, <3>2 DEF S, Bytes
    <2>2. bytes = [whole EXCEPT ![i] = garbled]
      BY <1>4
    <2> HIDE DEF garbled
    <2>3. /\ bytes \in Seq(S) /\ Len(bytes) = ReadSize
          /\ \A k \in 1 .. ReadSize : bytes[k] = IF k = i THEN garbled ELSE whole[k]
      BY <1>1, <2>1, <2>2, ExceptSeq
    <2>4. \A k \in 1 .. ReadSize : bytes[k].place = k \/ bytes[k].place = 0
      BY <1>1, <2>1, <2>3
    <2> QED
      BY <2>3, <2>4, Sizes DEF OneAnswer
  <1>5. ASSUME NEW prefix \in Seq(S), bytes = prefix \o whole,
               \A k \in 1 .. Len(prefix) :
                 prefix[k].place # ReadSize /\ prefix[k].place # FrameSize
        PROVE  bytes \in Seq(S) /\ OneAnswer(bytes)
    <2>1. /\ Len(prefix) \in Nat /\ bytes \in Seq(S)
          /\ Len(bytes) = Len(prefix) + ReadSize
          /\ \A k \in 1 .. Len(prefix) + ReadSize :
               bytes[k] = IF k <= Len(prefix) THEN prefix[k] ELSE whole[k - Len(prefix)]
      BY <1>1, <1>5, ConcatProperties, LenProperties
    <2>2. \A k \in 1 .. Len(bytes) :
            IF k <= Len(prefix)
            THEN bytes[k].place # ReadSize /\ bytes[k].place # FrameSize
            ELSE bytes[k].place = k - Len(prefix)
      <3> SUFFICES ASSUME NEW k \in 1 .. Len(bytes)
                   PROVE  IF k <= Len(prefix)
                          THEN bytes[k].place # ReadSize /\ bytes[k].place # FrameSize
                          ELSE bytes[k].place = k - Len(prefix)
        OBVIOUS
      <3>1. k > Len(prefix) => k - Len(prefix) \in 1 .. ReadSize
        BY <2>1, Sizes
      <3> QED
        BY <1>1, <1>5, <2>1, <3>1
    <2> QED
      BY <2>1, <2>2, Sizes DEF OneAnswer
  <1>6. ASSUME NEW i \in 1 .. ReadSize + 1, bytes = With(whole, Byte(kind, q, 0), i)
        PROVE  bytes \in Seq(S) /\ OneAnswer(bytes)
    <2> DEFINE noise == Byte(kind, q, 0)
    <2>1. noise \in S /\ noise.place = 0
      BY <1>1, Sizes
    <2>2. bytes = [k \in 1 .. ReadSize + 1 |->
                     IF k < i THEN whole[k] ELSE IF k = i THEN noise ELSE whole[k - 1]]
      BY <1>6 DEF With
    <2> HIDE DEF noise
    <2>3. \A k \in 1 .. ReadSize + 1 :
            /\ k < i => k \in 1 .. ReadSize
            /\ k > i => k - 1 \in 1 .. ReadSize
      BY Sizes
    <2>4. bytes \in [1 .. ReadSize + 1 -> S]
      BY <1>1, <2>1, <2>2, <2>3
    <2>5. bytes \in Seq(S) /\ Len(bytes) = ReadSize + 1
      <3>1. bytes \in Seq(S)
        BY <2>4, SeqDef, Sizes
      <3> QED
        BY <2>4, <3>1, LenProperties, Sizes
    <2>6. \A k \in 1 .. ReadSize + 1 :
            bytes[k].place = IF k < i THEN k ELSE IF k = i THEN 0 ELSE k - 1
      BY <1>1, <2>1, <2>2, <2>3
    <2> QED
      BY <2>5, <2>6, Sizes DEF OneAnswer
  <1>7. ASSUME NEW i \in 1 .. MagicSize, bytes = SubSeq(whole, 1, i) \o whole
        PROVE  bytes \in Seq(S) /\ OneAnswer(bytes)
    <2> DEFINE prefix == SubSeq(whole, 1, i)
    <2>1. /\ prefix \in Seq(S) /\ Len(prefix) = i
          /\ \A k \in 1 .. i : prefix[k] = whole[k]
      <3>1. \A k \in 1 .. i : whole[k] \in S
        BY <1>1, Sizes
      <3> QED
        BY <3>1, SubSeqProperties, Sizes
    <2>2. \A k \in 1 .. i : prefix[k].place = k
      BY <1>1, <2>1, Sizes
    <2> HIDE DEF prefix
    <2>3. \A k \in 1 .. Len(prefix) :
            prefix[k].place # ReadSize /\ prefix[k].place # FrameSize
      BY <2>1, <2>2, Sizes
    <2> QED
      BY <1>5, <1>7, <2>1, <2>3 DEF prefix
  <1>8. \/ bytes = whole
        \/ \E i \in 1 .. ReadSize, j \in 0 .. ReadSize : bytes = SubSeq(whole, i, j)
        \/ \E i \in 1 .. ReadSize : bytes = [whole EXCEPT ![i].place = 0]
        \/ \E i \in 1 .. ReadSize + 1 : bytes = With(whole, Byte(kind, q, 0), i)
        \/ \E i \in 1 .. MagicSize : bytes = SubSeq(whole, 1, i) \o whole
    <2>1. bytes \in Cut(whole) =>
            \E i \in 1 .. ReadSize, j \in 0 .. ReadSize : bytes = SubSeq(whole, i, j)
      BY DEF Cut
    <2>2. bytes \in Garbled(whole) =>
            \E i \in 1 .. ReadSize : bytes = [whole EXCEPT ![i].place = 0]
      BY DEF Garbled
    <2>3. bytes \in Restarted(whole) =>
            \E i \in 1 .. MagicSize : bytes = SubSeq(whole, 1, i) \o whole
      BY DEF Restarted
    <2>4. bytes \in Noisy(whole, Byte(kind, q, 0)) =>
            \E i \in 1 .. ReadSize + 1 : bytes = With(whole, Byte(kind, q, 0), i)
      BY DEF Noisy
    <2> QED
      BY <2>1, <2>2, <2>3, <2>4 DEF Damaged, whole
  <1>9. bytes \in Seq(S) /\ OneAnswer(bytes)
    BY <1>2, <1>3, <1>4, <1>6, <1>7, <1>8
  <1> QED
    BY <1>9 DEF S

-------------------------------------------------------------------------------
(* The unit answers: the line stays an ordered line of answers.            *)
LEMMA LineGrows ==
  ASSUME LineInv, NEW n \in Nat, n = Len(asked), asked' = asked,
         expected \in Kinds, n > 0, expected = asked[n],
         \A i \in 1 .. Len(line) : line[i].of < n,
         NEW bytes \in {Answer(expected, n)} \cup Damaged(expected, n),
         line' = line \o bytes
  PROVE  /\ LineInv'
         /\ Len(line) \in Nat /\ Len(line') \in Nat /\ Len(line) <= Len(line')
         /\ \A i \in 1 .. Len(line) : line'[i] = line[i]
         /\ \A i \in Len(line) + 1 .. Len(line') : line'[i].of = n
  <1> DEFINE S == Bytes(Kinds, 1 .. n)
  <1>1. bytes \in Seq(Bytes({expected}, {n})) /\ OneAnswer(bytes)
    BY DamagedAnswer
  <1>2. Len(bytes) \in Nat /\ Len(line) \in Nat /\ line \in Seq(S)
    BY <1>1 DEF LineInv
  <1>3. \A i \in 1 .. Len(bytes) : bytes[i] \in Bytes({expected}, {n})
    BY <1>1, ElementOfSeq
  <1>4. \A i \in 1 .. Len(bytes) : bytes[i].of = n /\ bytes[i].kind = expected
    BY <1>3 DEF Bytes
  <1>5. bytes \in Seq(S)
    <2>1. Bytes({expected}, {n}) \subseteq S
      <3>1. expected \in Kinds /\ n \in 1 .. n
        OBVIOUS
      <3> QED
        BY <3>1 DEF Bytes
    <2> HIDE DEF S
    <2> QED
      BY <1>1, <2>1, SeqMonotonic
  <1>6. \A i \in 1 .. Len(line) : line[i] \in S
    BY <1>2, ElementOfSeq
  <1>7. \A i \in 1 .. Len(line) : line[i].of \in Nat
    BY <1>6 DEF Bytes
  <1> HIDE DEF S
  <1>8. /\ line' \in Seq(S) /\ Len(line') = Len(line) + Len(bytes)
        /\ \A i \in 1 .. Len(line) : line'[i] = line[i]
        /\ \A i \in Len(line) + 1 .. Len(line') : line'[i] = bytes[i - Len(line)]
    BY <1>2, <1>5, ConcatProperties
  <1>9. \A i \in Len(line) + 1 .. Len(line') :
          i - Len(line) \in 1 .. Len(bytes) /\ line'[i].of = n /\ line'[i].kind = expected
    <2> SUFFICES ASSUME NEW i \in Len(line) + 1 .. Len(line')
                 PROVE  /\ i - Len(line) \in 1 .. Len(bytes)
                        /\ line'[i].of = n /\ line'[i].kind = expected
      OBVIOUS
    <2>1. i - Len(line) \in 1 .. Len(bytes)
      BY <1>2, <1>8
    <2> QED
      BY <1>4, <1>8, <2>1
  <1>10. \A i \in 1 .. Len(line') : line'[i].kind = asked[line'[i].of]
    <2> SUFFICES ASSUME NEW i \in 1 .. Len(line')
                 PROVE  line'[i].kind = asked[line'[i].of]
      OBVIOUS
    <2>1. i \in 1 .. Len(line) \/ i \in Len(line) + 1 .. Len(line')
      BY <1>2, <1>8
    <2> QED
      BY <1>8, <1>9, <2>1 DEF LineInv
  <1>11. \A i, j \in 1 .. Len(line') : i < j =>
           /\ line'[i].of <= line'[j].of
           /\ line'[i].place = ReadSize
                => line'[i].of # line'[j].of \/ line'[j].place = 0
           /\ line'[i].place = FrameSize /\ line'[j].place = FrameSize
                => line'[i].of # line'[j].of
    <2> SUFFICES ASSUME NEW i \in 1 .. Len(line'), NEW j \in 1 .. Len(line'), i < j
                 PROVE  /\ line'[i].of <= line'[j].of
                        /\ line'[i].place = ReadSize
                             => line'[i].of # line'[j].of \/ line'[j].place = 0
                        /\ line'[i].place = FrameSize /\ line'[j].place = FrameSize
                             => line'[i].of # line'[j].of
      OBVIOUS
    <2>1. CASE j <= Len(line)
      <3>1. i \in 1 .. Len(line) /\ j \in 1 .. Len(line)
        BY <1>2, <1>8, <2>1
      <3> QED
        BY <1>8, <3>1 DEF LineInv
    <2>2. CASE i <= Len(line) /\ j > Len(line)
      <3>1. i \in 1 .. Len(line) /\ j \in Len(line) + 1 .. Len(line')
        BY <1>2, <1>8, <2>2
      <3>2. line'[i].of \in Nat /\ line'[i].of < n
        <4>1. line[i].of \in Nat
          BY <1>7, <3>1
        <4>2. line[i].of < n
          BY <3>1
        <4>3. line'[i] = line[i]
          BY <1>8, <3>1
        <4> QED
          BY <4>1, <4>2, <4>3
      <3>3. line'[j].of = n
        BY <1>9, <3>1
      <3> QED
        BY <3>2, <3>3
    <2>3. CASE i > Len(line)
      <3>1. i \in Len(line) + 1 .. Len(line') /\ j \in Len(line) + 1 .. Len(line')
        BY <1>2, <1>8, <2>3
      <3>2. i - Len(line) < j - Len(line)
        BY <1>2, <1>8
      <3>3. /\ i - Len(line) \in 1 .. Len(bytes) /\ j - Len(line) \in 1 .. Len(bytes)
            /\ line'[i].of = n /\ line'[j].of = n
        BY <1>9, <3>1
      <3>4. /\ bytes[i - Len(line)].place = ReadSize
                 => bytes[j - Len(line)].place = 0
            /\ ~(/\ bytes[i - Len(line)].place = FrameSize
                 /\ bytes[j - Len(line)].place = FrameSize)
        BY <1>1, <3>2, <3>3 DEF OneAnswer
      <3>5. line'[i] = bytes[i - Len(line)] /\ line'[j] = bytes[j - Len(line)]
        BY <1>8, <3>1
      <3> QED
        BY <3>3, <3>4, <3>5
    <2>4. i \in Nat /\ j \in Nat /\ Len(line) \in Nat
      BY <1>2
    <2>5. j <= Len(line) \/ (i <= Len(line) /\ j > Len(line)) \/ i > Len(line)
      BY <2>4
    <2> QED
      BY <2>1, <2>2, <2>3, <2>5
  <1>12. LineInv'
    BY <1>8, <1>10, <1>11 DEF LineInv, S
  <1> QED
    BY <1>2, <1>8, <1>9, <1>12

(* The properties follow.                                                  *)
LEMMA LinkInvImplies ==
  ASSUME LinkInv
  PROVE  TypeOK /\ RoomForMore /\ NoFrameSkipped /\ FreshAnswerIsLast
  <1>1. TypeOK
    <2>1. \A i \in 1 .. Len(line) : line[i] \in Bytes(Kinds, 1 .. Len(asked))
      BY ElementOfSeq DEF LinkInv, LineInv
    <2> QED
      BY <2>1 DEF LinkInv, WindowInv, QueryInv, TypeOK, Bytes
  <1>2. RoomForMore
    BY DEF LinkInv, FramesInv, RoomForMore
  <1>3. NoFrameSkipped
    <2> SUFFICES ASSUME NEW p \in born .. end - FrameSize, FrameAt(p), p < start
                 PROVE  Returned(p)
      BY Sizes DEF NoFrameSkipped, Returned, LinkInv, WindowInv
    <2>1. p \in born .. start - 1 /\ p + FrameSize <= end
      BY Sizes DEF LinkInv, WindowInv
    <2>2. \A i \in 1 .. MagicSize : line[p + i].place = i
      BY Sizes DEF FrameAt, ValidChecksum
    <2>3. ~Refuted(p)
      BY <2>1, <2>2 DEF Refuted
    <2> QED
      BY <2>1, <2>3 DEF LinkInv, FramesInv
  <1> QED
    BY <1>1, <1>2, <1>3 DEF LinkInv, FramesInv

LEMMA InitLink == Init => LinkInv
  <1> SUFFICES ASSUME Init PROVE LinkInv
    OBVIOUS
  <1>1. Len(line) = 0 /\ Len(asked) = 0 /\ Len(answers) = 0 /\ Len(found) = 0
    BY DEF Init
  <1>2. LineInv
    BY <1>1 DEF Init, LineInv
  <1>3. WindowInv
    BY <1>1 DEF Init, WindowInv, Kinds
  <1>4. QueryInv
    BY <1>1 DEF Init, QueryInv, Contract!TypeOK
  <1>5. FramesInv
    BY <1>1, Sizes DEF Init, FramesInv, FreshAnswerIsLast
  <1> QED
    BY <1>2, <1>3, <1>4, <1>5 DEF LinkInv

-------------------------------------------------------------------------------
(* An interval is cut in two anywhere.                                     *)
LEMMA Split ==
  ASSUME NEW a \in Int, NEW b \in Int, NEW c \in Int, NEW p \in a .. c
  PROVE  p \in a .. b - 1 \/ p \in b .. c
  OBVIOUS

(* What a step within a query must establish: everything it drops is not   *)
(* the start of a frame, or part of one it returns.                        *)
LEMMA BusyStep ==
  ASSUME LinkInv, pc \in Busy, pc' \in Busy,
         UNCHANGED <<line, expected, link>>,
         start' \in Nat, end' \in Nat, edge' \in Nat, found' \in Seq(Nat),
         start <= start', start' <= end', end <= end', end' <= edge',
         edge' <= Len(line),
         \A i \in 1 .. Len(found) : i \in 1 .. Len(found') /\ found'[i] = found[i],
         \A i \in 1 .. Len(found') :
           found'[i] \in born .. start' - FrameSize /\ FrameAt(found'[i]),
         \A p \in start .. start' - 1 : Refuted(p)' \/ Returned(p)',
         pc' \in {"reading", "feeding"} => end' - start' < FrameSize,
         pc' = "reading" => end' = edge' /\ found' = <<>>,
         pc' = "acking" => end' = edge' /\ Len(found') = 1
  PROVE  LinkInv'
  <1>1. LineInv'
    BY DEF LinkInv, LineInv, link
  <1>2. WindowInv'
    BY DEF LinkInv, WindowInv, link, Busy
  <1>3. QueryInv'
    BY DEF LinkInv, QueryInv, Contract!TypeOK, link, Busy
  <1>4. \A p : FrameAt(p)' <=> FrameAt(p)
    BY DEF FrameAt, ValidCode, ValidChecksum
  <1>5. \A p \in born .. start - 1 : Refuted(p) => Refuted(p)'
    <2> SUFFICES ASSUME NEW p \in born .. start - 1, Refuted(p) PROVE Refuted(p)'
      OBVIOUS
    <2>1. p \in Nat /\ end \in Nat /\ end' \in Nat /\ end <= end'
      BY DEF LinkInv, WindowInv
    <2>2. CASE \E i \in 1 .. MagicSize : p + i <= end /\ line[p + i].place # i
      <3>1. PICK i \in 1 .. MagicSize : p + i <= end /\ line[p + i].place # i
        BY <2>2
      <3>2. p + i <= end' /\ line'[p + i].place # i
        BY <2>1, <3>1, Sizes
      <3> QED
        BY <3>2 DEF Refuted
    <2>3. CASE p + FrameSize <= end /\ ~FrameAt(p)
      <3>1. p + FrameSize <= end'
        BY <2>1, <2>3, Sizes
      <3> QED
        BY <1>4, <2>3, <3>1 DEF Refuted
    <2> QED
      BY <2>2, <2>3 DEF Refuted
  <1>6. \A p \in born .. start - 1 : Returned(p) => Returned(p)'
    BY DEF Returned
  <1>7. \A p \in born .. start' - 1 : Refuted(p)' \/ Returned(p)'
    <2> SUFFICES ASSUME NEW p \in born .. start' - 1 PROVE Refuted(p)' \/ Returned(p)'
      OBVIOUS
    <2>1. p \in born .. start - 1 \/ p \in start .. start' - 1
      <3>1. born \in Int /\ start \in Int /\ start' - 1 \in Int
        BY DEF LinkInv, WindowInv
      <3> QED
        BY <3>1, Split
    <2> QED
      BY <1>5, <1>6, <2>1 DEF LinkInv, FramesInv
  <1>8. FramesInv'
    BY <1>4, <1>7 DEF LinkInv, FramesInv, FreshAnswerIsLast, link, Busy
  <1> QED
    BY <1>1, <1>2, <1>3, <1>8 DEF LinkInv

(* For a step of the parser, which only moves its own window.              *)
LEMMA ParserStep ==
  ASSUME LinkInv, pc \in {"feeding", "parsing"}, pc' \in {"feeding", "parsing"},
         UNCHANGED <<line, edge, expected, link>>,
         start' \in Nat, end' \in Nat, found' \in Seq(Nat),
         start <= start', start' <= end', end <= end', end' <= edge,
         \A i \in 1 .. Len(found) : i \in 1 .. Len(found') /\ found'[i] = found[i],
         \A i \in 1 .. Len(found') :
           found'[i] \in born .. start' - FrameSize /\ FrameAt(found'[i]),
         \A p \in start .. start' - 1 : Refuted(p)' \/ Returned(p)',
         pc' = "feeding" => end' - start' < FrameSize
  PROVE  LinkInv'
  <1>1. edge' = edge /\ edge \in Nat /\ edge <= Len(line)
    BY DEF LinkInv, WindowInv
  <1>2. /\ pc \in Busy /\ pc' \in Busy
        /\ pc' # "reading" /\ pc' # "acking"
    BY DEF Busy
  <1> QED
    BY <1>1, <1>2, BusyStep

(* A position where the magic bytes are not found is refuted.              *)
LEMMA NoMarkerRefutes ==
  ASSUME LinkInv, UNCHANGED <<line, expected>>, end' = end,
         NEW p \in start .. end - MagicSize, ~MarkerAt(p)
  PROVE  Refuted(p)'
  <1>1. PICK i \in 1 .. MagicSize : line[p + i].place # i
    BY DEF MarkerAt
  <1>2. p + i <= end
    BY Sizes DEF LinkInv, WindowInv
  <1> QED
    BY <1>1, <1>2 DEF Refuted

(* Nor is a frame before the first place where they are found.             *)
LEMMA FirstMarkerRefutes ==
  ASSUME LinkInv, UNCHANGED <<line, expected>>, end' = end,
         NEW p \in start .. end, FirstMarker(p)
  PROVE  \A r \in start .. p - 1 : Refuted(r)'
  <1> SUFFICES ASSUME NEW r \in start .. p - 1 PROVE Refuted(r)'
    OBVIOUS
  <1>1. start \in Nat /\ end \in Nat
    BY DEF LinkInv, WindowInv
  <1>2. r \in start .. end - MagicSize
    BY <1>1, Sizes DEF FirstMarker, MarkerAt
  <1>3. ~MarkerAt(r)
    BY DEF FirstMarker
  <1> QED
    BY <1>2, <1>3, NoMarkerRefutes

(* Extend: there is room, so the chunk is taken whole.                     *)
LEMMA ExtendStep == LinkInv /\ Extend /\ UNCHANGED link => LinkInv'
  <1> SUFFICES ASSUME LinkInv, Extend, UNCHANGED link PROVE LinkInv'
    OBVIOUS
  <1>1. /\ start \in Nat /\ end \in Nat /\ edge \in Nat /\ born \in Nat
        /\ start <= end /\ end <= edge /\ found \in Seq(Nat)
        /\ end - start < FrameSize
    BY DEF LinkInv, WindowInv, FramesInv, Extend
  <1>2. start' = start /\ end' = end + Smaller(MaxBuffer - (end - start), edge - end)
    <2>1. MaxBuffer - (end - start) > 0
      BY <1>1, Sizes
    <2> QED
      BY <2>1 DEF Extend
  <1>3. end' \in Nat /\ end <= end' /\ end' <= edge
    BY <1>1, <1>2, Sizes DEF Smaller
  <1> QED
    BY <1>1, <1>2, <1>3, ParserStep DEF Extend, LinkInv, FramesInv

LEMMA TooShortStep == LinkInv /\ TooShort /\ UNCHANGED link => LinkInv'
  <1> SUFFICES ASSUME LinkInv, TooShort, UNCHANGED link PROVE LinkInv'
    OBVIOUS
  <1>1. /\ start \in Nat /\ end \in Nat /\ edge \in Nat /\ born \in Nat
        /\ start <= end /\ end <= edge /\ found \in Seq(Nat)
    BY DEF LinkInv, WindowInv
  <1> QED
    BY <1>1, ParserStep DEF TooShort, BelowFrame, LinkInv, FramesInv

(* KeepTail: the bytes kept are the longest possible partial magic, so no  *)
(* marker that is completed later starts among the bytes dropped.          *)
LEMMA KeepTailStep == LinkInv /\ KeepTail /\ UNCHANGED link => LinkInv'
  <1> SUFFICES ASSUME LinkInv, KeepTail, UNCHANGED link PROVE LinkInv'
    OBVIOUS
  <1>1. /\ start \in Nat /\ end \in Nat /\ edge \in Nat /\ born \in Nat
        /\ start <= end /\ end <= edge /\ found \in Seq(Nat)
        /\ end - start >= FrameSize
    BY Sizes DEF LinkInv, WindowInv, KeepTail, BelowFrame
  <1>2. /\ start' = end - (MagicSize - 1) /\ end' = end /\ found' = found
        /\ start' \in Nat /\ start <= start' /\ start' <= end'
        /\ end' - start' < FrameSize
    BY <1>1, Sizes DEF KeepTail, KeptTail
  <1>3. \A p \in start .. start' - 1 : Refuted(p)'
    <2> SUFFICES ASSUME NEW p \in start .. start' - 1 PROVE Refuted(p)'
      OBVIOUS
    <2>1. p \in start .. end - MagicSize
      BY <1>1, <1>2, Sizes
    <2> QED
      BY <2>1, NoMarkerRefutes DEF KeepTail, NoMarker
  <1>4. \A i \in 1 .. Len(found) : found[i] \in born .. start' - FrameSize /\ FrameAt(found[i])
    BY <1>1, <1>2, Sizes DEF LinkInv, FramesInv
  <1> QED
    BY <1>1, <1>2, <1>3, <1>4, ParserStep DEF KeepTail

LEMMA AlignToMarkerStep == LinkInv /\ AlignToMarker /\ UNCHANGED link => LinkInv'
  <1> SUFFICES ASSUME LinkInv, AlignToMarker, UNCHANGED link PROVE LinkInv'
    OBVIOUS
  <1>1. /\ start \in Nat /\ end \in Nat /\ edge \in Nat /\ born \in Nat
        /\ start <= end /\ end <= edge /\ found \in Seq(Nat)
    BY DEF LinkInv, WindowInv
  <1>2. PICK p \in start .. end : FirstMarker(p) /\ end - p < FrameSize /\ start' = p
    BY DEF AlignToMarker
  <1>3. \A r \in start .. start' - 1 : Refuted(r)'
    BY <1>2, FirstMarkerRefutes DEF AlignToMarker
  <1>4. \A i \in 1 .. Len(found) : found[i] \in born .. start' - FrameSize /\ FrameAt(found[i])
    <2>1. start' \in Nat /\ start <= start'
      BY <1>1, <1>2
    <2>2. \A i \in 1 .. Len(found) : found[i] \in born .. start - FrameSize /\ FrameAt(found[i])
      BY DEF LinkInv, FramesInv
    <2> QED
      BY <1>1, <2>1, <2>2, Sizes
  <1> QED
    BY <1>1, <1>2, <1>3, <1>4, ParserStep DEF AlignToMarker

(* The magic bytes are found, but not a frame: that position is refuted.   *)
LEMMA RejectByteStep == LinkInv /\ RejectByte /\ UNCHANGED link => LinkInv'
  <1> SUFFICES ASSUME LinkInv, RejectByte, UNCHANGED link PROVE LinkInv'
    OBVIOUS
  <1>1. /\ start \in Nat /\ end \in Nat /\ edge \in Nat /\ born \in Nat
        /\ start <= end /\ end <= edge /\ found \in Seq(Nat)
    BY DEF LinkInv, WindowInv
  <1>2. PICK p \in start .. end - FrameSize :
          FirstMarker(p) /\ ~FrameAt(p) /\ start' = p + 1
    BY DEF RejectByte, AfterRejected
  <1>3. Refuted(p)'
    <2>1. ~FrameAt(p)' /\ p + FrameSize <= end'
      BY <1>1, <1>2, Sizes DEF RejectByte, FrameAt, ValidCode, ValidChecksum
    <2> QED
      BY <2>1 DEF Refuted
  <1>4. \A r \in start .. p - 1 : Refuted(r)'
    <2>1. p \in start .. end
      BY <1>1, Sizes
    <2> QED
      BY <1>2, <2>1, FirstMarkerRefutes DEF RejectByte
  <1>5. \A r \in start .. start' - 1 : Refuted(r)'
    BY <1>1, <1>2, <1>3, <1>4
  <1>6. \A i \in 1 .. Len(found) : found[i] \in born .. start' - FrameSize /\ FrameAt(found[i])
    BY <1>1, <1>2, Sizes DEF LinkInv, FramesInv
  <1>7. start' \in Nat /\ start <= start' /\ start' <= end
    BY <1>1, <1>2, Sizes
  <1> QED
    BY <1>1, <1>5, <1>6, <1>7, ParserStep DEF RejectByte

LEMMA AcceptFrameStep == LinkInv /\ AcceptFrame /\ UNCHANGED link => LinkInv'
  <1> SUFFICES ASSUME LinkInv, AcceptFrame, UNCHANGED link PROVE LinkInv'
    OBVIOUS
  <1>1. /\ start \in Nat /\ end \in Nat /\ edge \in Nat /\ born \in Nat
        /\ born <= start /\ start <= end /\ end <= edge /\ found \in Seq(Nat)
    BY DEF LinkInv, WindowInv
  <1>2. PICK p \in start .. end - FrameSize :
          /\ FirstMarker(p) /\ FrameAt(p)
          /\ found' = Append(found, p) /\ start' = p + FrameSize
    BY DEF AcceptFrame, AfterFrame
  <1>3. /\ p \in Nat /\ found' \in Seq(Nat) /\ Len(found) \in Nat
        /\ Len(found') = Len(found) + 1 /\ found'[Len(found) + 1] = p
        /\ \A i \in 1 .. Len(found) : i \in 1 .. Len(found') /\ found'[i] = found[i]
    BY <1>1, <1>2, AppendProperties
  <1>4. \A r \in start .. start' - 1 : Refuted(r)' \/ Returned(r)'
    <2> SUFFICES ASSUME NEW r \in start .. start' - 1 PROVE Refuted(r)' \/ Returned(r)'
      OBVIOUS
    <2>1. CASE r < p
      <3>1. p \in start .. end /\ r \in start .. p - 1
        BY <1>1, <1>2, <2>1, Sizes
      <3> QED
        BY <1>2, <3>1, FirstMarkerRefutes DEF AcceptFrame
    <2>2. CASE r >= p
      <3>1. r \in p .. p + FrameSize - 1 /\ Len(found) + 1 \in 1 .. Len(found')
        BY <1>1, <1>2, <1>3, <2>2, Sizes
      <3> QED
        BY <1>3, <3>1 DEF Returned
    <2> QED
      BY <1>1, <1>2, <1>3, <2>1, <2>2, Sizes
  <1>5. \A i \in 1 .. Len(found') :
          found'[i] \in born .. start' - FrameSize /\ FrameAt(found'[i])
    <2> SUFFICES ASSUME NEW i \in 1 .. Len(found')
                 PROVE  found'[i] \in born .. start' - FrameSize /\ FrameAt(found'[i])
      OBVIOUS
    <2>1. CASE i \in 1 .. Len(found)
      <3>1. found'[i] = found[i]
        BY <1>3, <2>1
      <3>2. found[i] \in born .. start - FrameSize /\ FrameAt(found[i])
        BY <2>1 DEF LinkInv, FramesInv
      <3> QED
        BY <1>1, <1>2, <3>1, <3>2, Sizes
    <2>2. CASE i = Len(found) + 1
      BY <1>1, <1>2, <1>3, <2>2, Sizes
    <2> QED
      BY <1>3, <2>1, <2>2
  <1>6. start' \in Nat /\ start <= start' /\ start' <= end
    BY <1>1, <1>2, Sizes
  <1> QED
    BY <1>1, <1>3, <1>4, <1>5, <1>6, ParserStep DEF AcceptFrame

-------------------------------------------------------------------------------
(* The steps of a query that neither write nor end it.                     *)
LEMMA ReadChunkStep == LinkInv /\ ReadChunk => LinkInv'
  <1> SUFFICES ASSUME LinkInv, ReadChunk PROVE LinkInv'
    OBVIOUS
  <1>1. /\ start \in Nat /\ end \in Nat /\ edge \in Nat /\ found \in Seq(Nat)
        /\ start <= end /\ end <= edge /\ edge <= Len(line)
    BY DEF LinkInv, WindowInv
  <1>2. Len(line) \in Nat
    BY DEF LinkInv, LineInv
  <1>3. PICK n \in 1 .. Smaller(ReadSize, Len(line) - edge) : edge' = edge + n
    BY DEF ReadChunk, Receive
  <1>4. edge' \in Nat /\ edge <= edge' /\ edge' <= Len(line)
    BY <1>1, <1>2, <1>3, Sizes DEF Smaller
  <1>5. pc \in Busy /\ pc' \in Busy /\ pc' = "feeding"
    BY DEF ReadChunk, Busy
  <1>6. \A i \in 1 .. Len(found) : found[i] \in born .. start - FrameSize /\ FrameAt(found[i])
    BY DEF LinkInv, FramesInv
  <1>7. end - start < FrameSize
    BY DEF LinkInv, FramesInv, ReadChunk
  <1> QED
    BY <1>1, <1>4, <1>5, <1>6, <1>7, BusyStep DEF ReadChunk

LEMMA FedNothingStep == LinkInv /\ FedNothing => LinkInv'
  <1> SUFFICES ASSUME LinkInv, FedNothing PROVE LinkInv'
    OBVIOUS
  <1>1. /\ start \in Nat /\ end \in Nat /\ edge \in Nat /\ found \in Seq(Nat)
        /\ start <= end /\ end <= edge /\ edge <= Len(line)
    BY DEF LinkInv, WindowInv
  <1>2. pc \in Busy /\ pc' \in Busy /\ pc' = "reading"
    BY DEF FedNothing, Busy
  <1>3. \A i \in 1 .. Len(found) : found[i] \in born .. start - FrameSize /\ FrameAt(found[i])
    BY DEF LinkInv, FramesInv
  <1>4. end - start < FrameSize
    BY DEF LinkInv, FramesInv, FedNothing
  <1> QED
    BY <1>1, <1>2, <1>3, <1>4, BusyStep DEF FedNothing

LEMMA TakePendingStep == LinkInv /\ TakePending => LinkInv'
  <1> SUFFICES ASSUME LinkInv, TakePending PROVE LinkInv'
    OBVIOUS
  <1>1. /\ start \in Nat /\ end \in Nat /\ edge \in Nat /\ found \in Seq(Nat)
        /\ start <= end /\ end <= edge /\ edge <= Len(line)
    BY DEF LinkInv, WindowInv
  <1>2. pc \in Busy /\ pc' \in Busy /\ pc' = "acking"
    BY DEF TakePending, Busy
  <1>3. \A i \in 1 .. Len(found) : found[i] \in born .. start - FrameSize /\ FrameAt(found[i])
    BY DEF LinkInv, FramesInv
  <1>4. /\ UNCHANGED <<line, expected, link>> /\ edge' = edge
        /\ start' = start /\ end' = end /\ found' = found
        /\ end = edge /\ Len(found') = 1
    BY DEF TakePending
  <1>5. \A p \in start .. start' - 1 : Refuted(p)' \/ Returned(p)'
    BY <1>1, <1>4
  <1> QED
    BY <1>1, <1>2, <1>3, <1>4, <1>5, BusyStep

LEMMA ReadAckPartStep == LinkInv /\ ReadAckPart => LinkInv'
  <1> SUFFICES ASSUME LinkInv, ReadAckPart PROVE LinkInv'
    OBVIOUS
  <1>1. /\ start \in Nat /\ end \in Nat /\ edge \in Nat /\ found \in Seq(Nat)
        /\ start <= end /\ end <= edge /\ edge <= Len(line)
    BY DEF LinkInv, WindowInv
  <1>2. Len(line) \in Nat
    BY DEF LinkInv, LineInv
  <1>3. PICK n \in 1 .. Smaller(AckSize - (edge - start), Len(line) - edge) :
          edge' = edge + n
    BY DEF ReadAckPart, Receive
  <1>4. edge' \in Nat /\ edge <= edge' /\ edge' <= Len(line)
    BY <1>1, <1>2, <1>3, Sizes DEF Smaller
  <1>5. pc \in Busy /\ pc' \in Busy /\ pc' = "acking"
    BY DEF ReadAckPart, Busy
  <1>6. \A i \in 1 .. Len(found) : found[i] \in born .. start - FrameSize /\ FrameAt(found[i])
    BY DEF LinkInv, FramesInv
  <1>7. Len(found) = 1
    BY DEF LinkInv, QueryInv, ReadAckPart
  <1> QED
    BY <1>1, <1>4, <1>5, <1>6, <1>7, BusyStep DEF ReadAckPart

(* The request goes out.                                                   *)
LEMMA WriteRequestStep == LinkInv /\ WriteRequest => LinkInv'
  <1> SUFFICES ASSUME LinkInv, WriteRequest PROVE LinkInv'
    OBVIOUS
  <1> PICK n \in Nat : n = Len(asked)
    BY DEF LinkInv, QueryInv, Contract!TypeOK
  <1>1. /\ n > 0 /\ expected \in Kinds /\ expected = asked[n]
        /\ \A i \in 1 .. Len(line) : line[i].of < n
        /\ served \in Nat /\ served < n
    BY DEF LinkInv, QueryInv, WindowInv, WriteRequest, Contract!TypeOK
  <1>2. /\ born \in Nat /\ born = edge /\ start = edge /\ end = edge
        /\ edge <= Len(line) /\ found = <<>> /\ damaged \in Nat
    BY DEF LinkInv, QueryInv, WindowInv, WriteRequest
  <1>3. PICK bytes \in {Answer(expected, n)} \cup Damaged(expected, n) :
          line' = line \o bytes
    BY DEF WriteRequest, Transmit
  <1>4. /\ LineInv'
        /\ Len(line) \in Nat /\ Len(line') \in Nat /\ Len(line) <= Len(line')
        /\ \A i \in 1 .. Len(line) : line'[i] = line[i]
        /\ \A i \in Len(line) + 1 .. Len(line') : line'[i].of = n
    BY <1>1, <1>3, LineGrows DEF LinkInv, WriteRequest
  <1>5. damaged' \in Nat
    BY <1>2 DEF WriteRequest, Transmit
  <1>6. WindowInv'
    BY <1>2, <1>4, <1>5 DEF LinkInv, WindowInv, WriteRequest
  <1>7. QueryInv'
    BY <1>2 DEF LinkInv, QueryInv, WriteRequest, Contract!TypeOK
  <1>8. \A i \in born + 1 .. Len(line') : line'[i].place = FrameSize => line'[i].of > served
    <2> SUFFICES ASSUME NEW i \in born + 1 .. Len(line'), line'[i].place = FrameSize
                 PROVE  line'[i].of > served
      OBVIOUS
    <2>1. i \in born + 1 .. Len(line) + 1 - 1 \/ i \in Len(line) + 1 .. Len(line')
      BY <1>2, <1>4, Split
    <2>2. CASE i \in born + 1 .. Len(line)
      <3>1. line'[i] = line[i]
        BY <1>2, <1>4, <2>2
      <3> QED
        BY <2>2, <3>1 DEF LinkInv, FramesInv
    <2>3. CASE i \in Len(line) + 1 .. Len(line')
      BY <1>1, <1>4, <2>3
    <2> QED
      BY <1>4, <2>1, <2>2, <2>3
  <1>9. FramesInv'
    <2>1. start' = born' /\ found' = <<>> /\ born' = born /\ served' = served
      BY <1>2 DEF WriteRequest
    <2>2. end' - start' < FrameSize /\ pc' # "idle"
      BY <1>2, Sizes DEF WriteRequest
    <2>3. born' \in Nat /\ Len(found') = 0
      BY <1>2, <2>1
    <2> QED
      BY <1>8, <2>1, <2>2, <2>3 DEF FramesInv, FreshAnswerIsLast
  <1> QED
    BY <1>4, <1>6, <1>7, <1>9 DEF LinkInv

(* A query ends.                                                           *)
LEMMA OverStep ==
  ASSUME LinkInv, pc # "idle", UNCHANGED <<edge, expected, asked>>, Over,
         LineInv', Len(line') \in Nat, edge <= Len(line'), damaged' \in Nat,
         NEW answer \in Nat, answers' = Append(answers, answer),
         served' \in 0 .. Len(asked),
         \A i \in edge + 1 .. Len(line') :
           line'[i].place = FrameSize => line'[i].of > served',
         served' = Len(asked) => \A i \in edge + 1 .. Len(line') : line'[i].place = 0
  PROVE  LinkInv'
  <1>1. /\ edge \in Nat /\ edge' = edge /\ born' = edge /\ start' = edge /\ end' = edge
        /\ found' = <<>> /\ pc' = "idle" /\ expected \in Kinds
    BY DEF LinkInv, WindowInv, Over
  <1>2. WindowInv'
    BY <1>1 DEF WindowInv
  <1>3. /\ answers \in Seq(Nat) /\ Len(answers) + 1 = Len(asked)
        /\ Len(asked) \in Nat /\ asked \in Seq(Kinds)
    BY DEF LinkInv, QueryInv, Contract!TypeOK
  <1>4. answers' \in Seq(Nat) /\ Len(answers') = Len(asked)
    BY <1>3
  <1>5. QueryInv'
    BY <1>1, <1>3, <1>4 DEF QueryInv, Contract!TypeOK
  <1>6. FramesInv'
    <2>1. Len(found') = 0
      BY <1>1
    <2>2. end' - start' < FrameSize
      BY <1>1, Sizes
    <2>3. \A p \in born' .. start' - 1 : FALSE
      BY <1>1
    <2> QED
      BY <1>1, <2>1, <2>2, <2>3 DEF FramesInv, FreshAnswerIsLast
  <1> QED
    BY <1>2, <1>5, <1>6 DEF LinkInv

(* What is ahead of the parser is ahead of what was received.              *)
LEMMA AheadOfEdge ==
  ASSUME LinkInv
  PROVE  \A i \in edge + 1 .. Len(line) :
           line[i].place = FrameSize => line[i].of > served
  <1>1. born \in Nat /\ edge \in Nat /\ born <= edge
    BY DEF LinkInv, WindowInv
  <1>2. \A i \in edge + 1 .. Len(line) : i \in born + 1 .. Len(line)
    BY <1>1
  <1> QED
    BY <1>2 DEF LinkInv, FramesInv

LEMMA RaiseStep ==
  ASSUME LinkInv, pc # "idle", Raise
  PROVE  LinkInv'
  <1>1. LineInv' /\ Len(line') \in Nat /\ edge <= Len(line') /\ damaged' \in Nat
    BY DEF LinkInv, LineInv, WindowInv, Raise
  <1>2. /\ served' = served /\ line' = line
        /\ UNCHANGED <<edge, expected, asked>> /\ Over /\ answers' = Append(answers, 0)
    BY DEF Raise
  <1>3. served \in 0 .. Len(asked) /\ served # Len(asked)
    BY DEF LinkInv, QueryInv, Contract!TypeOK
  <1>4. \A i \in edge + 1 .. Len(line') : line'[i].place = FrameSize => line'[i].of > served'
    BY <1>2, AheadOfEdge
  <1> QED
    BY <1>1, <1>2, <1>3, <1>4, OverStep

LEMMA ShortWriteStep == LinkInv /\ ShortWrite => LinkInv'
  <1> SUFFICES ASSUME LinkInv, ShortWrite PROVE LinkInv'
    OBVIOUS
  <1>1. CASE UNCHANGED <<line, damaged>>
    <2>1. Raise /\ pc # "idle"
      BY <1>1 DEF ShortWrite, Raise
    <2> QED
      BY <2>1, RaiseStep
  <1>2. CASE Transmit(expected, Len(asked))
    <2> PICK n \in Nat : n = Len(asked)
      BY DEF LinkInv, QueryInv, Contract!TypeOK
    <2>1. /\ n > 0 /\ expected \in Kinds /\ expected = asked[n]
          /\ \A i \in 1 .. Len(line) : line[i].of < n
          /\ served \in Nat /\ served < n /\ damaged \in Nat
          /\ edge \in Nat /\ edge <= Len(line)
      BY DEF LinkInv, QueryInv, WindowInv, ShortWrite, Contract!TypeOK
    <2>2. PICK bytes \in {Answer(expected, n)} \cup Damaged(expected, n) :
            line' = line \o bytes
      BY <1>2 DEF Transmit
    <2>3. /\ LineInv'
          /\ Len(line) \in Nat /\ Len(line') \in Nat /\ Len(line) <= Len(line')
          /\ \A i \in 1 .. Len(line) : line'[i] = line[i]
          /\ \A i \in Len(line) + 1 .. Len(line') : line'[i].of = n
      BY <2>1, <2>2, LineGrows DEF LinkInv, ShortWrite
    <2>4. damaged' \in Nat
      BY <1>2, <2>1 DEF Transmit
    <2>5. \A i \in edge + 1 .. Len(line') : line'[i].place = FrameSize => line'[i].of > served
      <3> SUFFICES ASSUME NEW i \in edge + 1 .. Len(line'), line'[i].place = FrameSize
                   PROVE  line'[i].of > served
        OBVIOUS
      <3>1. CASE i \in edge + 1 .. Len(line)
        <4>1. line'[i] = line[i]
          BY <2>1, <2>3, <3>1
        <4> QED
          BY <3>1, <4>1, AheadOfEdge
      <3>2. CASE i \in Len(line) + 1 .. Len(line')
        BY <2>1, <2>3, <3>2
      <3> QED
        BY <2>1, <2>3, <3>1, <3>2, Split
    <2>6. served' = served /\ served' \in 0 .. Len(asked) /\ served' # Len(asked)
      BY <2>1 DEF ShortWrite
    <2>7. edge <= Len(line') /\ pc # "idle"
      BY <2>1, <2>3 DEF ShortWrite
    <2> QED
      BY <2>3, <2>4, <2>5, <2>6, <2>7, OverStep DEF ShortWrite
  <1> QED
    BY <1>1, <1>2 DEF ShortWrite

(***************************************************************************)
(* What is returned is an answer that was not served before, to a question *)
(* of the kind asked; the rest of the line is ahead of it, and only strays *)
(* if it is the answer to the last question.                               *)
(***************************************************************************)
LEMMA DecodeAnswers ==
  ASSUME LinkInv, Decode
  PROVE  /\ served' \in served + 1 .. Len(asked)
         /\ asked[served'] = asked[Len(asked)]
         /\ \A i \in edge + 1 .. Len(line) :
              line[i].place = FrameSize => line[i].of > served'
         /\ served' = Len(asked) => \A i \in edge + 1 .. Len(line) : line[i].place = 0
  <1>1. /\ edge \in Nat /\ start \in Nat /\ born \in Nat /\ born <= start
        /\ start <= edge /\ edge <= Len(line) /\ edge = start + AckSize
        /\ Len(line) \in Nat /\ Len(asked) \in Nat /\ served \in Nat
    BY Sizes DEF LinkInv, WindowInv, LineInv, QueryInv, Contract!TypeOK, Decode
  <1>2. found[1] \in born .. start - FrameSize /\ FrameAt(found[1])
    <2>1. 1 \in 1 .. Len(found)
      BY DEF LinkInv, QueryInv, Decode
    <2> QED
      BY <2>1 DEF LinkInv, FramesInv
  <1> PICK p \in born .. start - FrameSize : p = found[1]
    BY <1>2
  <1> PICK last \in Int : last = p + FrameSize
    BY <1>1, Sizes
  <1> PICK code \in Int : code = p + (MagicSize + 1)
    BY <1>1, Sizes
  <1>3. /\ last \in 1 .. Len(line) /\ last \in born + 1 .. Len(line)
        /\ last <= start /\ last <= edge /\ last < edge
        /\ code \in 1 .. Len(line) /\ edge \in 1 .. Len(line)
    <2>1. p \in Nat /\ born <= p /\ p + FrameSize <= start
      BY <1>1, Sizes
    <2>2. last \in born + 1 .. start /\ edge \in last + 1 .. Len(line)
      <3>1. last \in Nat /\ born < last /\ last <= start
        BY <1>1, <2>1, Sizes
      <3>2. start < edge
        BY <1>1, Sizes
      <3> QED
        BY <1>1, <3>1, <3>2
    <2>3. code \in 1 .. last
      BY <2>1, Sizes
    <2> QED
      BY <1>1, <2>2, <2>3
  <1>4. /\ line[last].place = FrameSize
        /\ line[code].of = line[last].of /\ line[code].kind = expected
    <2>1. FrameSize \in 1 .. FrameSize /\ MagicSize + 1 \in MagicSize + 1 .. FrameSize
      BY Sizes
    <2>2. line[p + FrameSize].place = FrameSize
      BY <1>2, <2>1 DEF FrameAt, ValidChecksum
    <2>3. line[p + (MagicSize + 1)].of = line[p + FrameSize].of
      BY <1>2, <2>1 DEF FrameAt, ValidChecksum
    <2>4. line[p + (MagicSize + 1)].kind = expected
      <3>1. p \in Int /\ MagicSize \in Int
        BY <1>1, Sizes
      <3>2. p + MagicSize + 1 = p + (MagicSize + 1)
        BY <3>1
      <3> QED
        BY <1>2, <3>2 DEF FrameAt, ValidCode
    <2> QED
      BY <2>2, <2>3, <2>4
  <1>5. \A i \in 1 .. Len(line) : line[i].of \in 1 .. Len(asked)
    <2>1. \A i \in 1 .. Len(line) : line[i] \in Bytes(Kinds, 1 .. Len(asked))
      BY ElementOfSeq DEF LinkInv, LineInv
    <2> QED
      BY <2>1 DEF Bytes
  <1>6. served' = line[last].of
    BY DEF Decode
  <1>7. served' \in 1 .. Len(asked) /\ served' > served
    <2>1. line[last].of > served
      BY <1>3, <1>4 DEF LinkInv, FramesInv
    <2> QED
      BY <1>3, <1>5, <1>6, <2>1
  <1>8. asked[served'] = asked[Len(asked)]
    <2>1. asked[line[code].of] = line[code].kind
      BY <1>3 DEF LinkInv, LineInv
    <2>2. expected = asked[Len(asked)]
      BY DEF LinkInv, QueryInv, Decode
    <2> QED
      BY <1>4, <1>6, <2>1, <2>2
  <1>9. \A i \in edge + 1 .. Len(line) : line[i].place = FrameSize => line[i].of > served'
    <2> SUFFICES ASSUME NEW i \in edge + 1 .. Len(line), line[i].place = FrameSize
                 PROVE  line[i].of > served'
      OBVIOUS
    <2>1. i \in 1 .. Len(line) /\ last < i
      BY <1>1, <1>3
    <2>2. line[last].of <= line[i].of /\ line[last].of # line[i].of
      BY <1>3, <1>4, <2>1 DEF LinkInv, LineInv
    <2>3. line[i].of \in Nat /\ line[last].of \in Nat
      BY <1>3, <1>5, <2>1
    <2> QED
      BY <1>6, <2>2, <2>3
  <1>10. ASSUME served' = Len(asked), NEW i \in edge + 1 .. Len(line)
         PROVE  line[i].place = 0
    <2>1. line[edge].place = ReadSize
      <3>1. AckSize \in 1 .. AckSize
        BY Sizes
      <3>2. line[start + AckSize].place = FrameSize + AckSize
        BY <3>1 DEF Decode, ValidAck
      <3> QED
        BY <1>1, <3>2 DEF ReadSize
    <2>2. i \in 1 .. Len(line) /\ edge < i
      BY <1>1
    <2>3. line[last].of <= line[edge].of /\ line[edge].of <= line[i].of
      BY <1>3, <2>2 DEF LinkInv, LineInv
    <2>4. line[edge].of # line[i].of \/ line[i].place = 0
      BY <1>3, <2>1, <2>2 DEF LinkInv, LineInv
    <2>5. /\ line[last].of \in 1 .. Len(asked) /\ line[edge].of \in 1 .. Len(asked)
          /\ line[i].of \in 1 .. Len(asked)
      BY <1>3, <1>5, <2>2
    <2> QED
      BY <1>1, <1>6, <1>10, <2>3, <2>4, <2>5
  <1> QED
    BY <1>1, <1>7, <1>8, <1>9, <1>10

LEMMA DecodeStep == LinkInv /\ Decode => LinkInv'
  <1> SUFFICES ASSUME LinkInv, Decode PROVE LinkInv'
    OBVIOUS
  <1>1. LineInv' /\ Len(line') \in Nat /\ edge <= Len(line') /\ damaged' \in Nat
    BY DEF LinkInv, LineInv, WindowInv, Decode
  <1>2. /\ pc # "idle" /\ line' = line
        /\ UNCHANGED <<edge, expected, asked>> /\ Over /\ answers' = Append(answers, served')
    BY DEF Decode
  <1>3. /\ served' \in served + 1 .. Len(asked) /\ served \in Nat
        /\ \A i \in edge + 1 .. Len(line') : line'[i].place = FrameSize => line'[i].of > served'
        /\ served' = Len(asked) =>
             \A i \in edge + 1 .. Len(line') : line'[i].place = 0
    BY <1>2, DecodeAnswers DEF LinkInv, QueryInv, Contract!TypeOK
  <1> PICK answer \in Nat : answer = served'
    BY <1>3
  <1>4. served' \in 0 .. Len(asked)
    BY <1>3
  <1> QED
    BY <1>1, <1>2, <1>3, <1>4, OverStep

(* The port is opened again: what had arrived is dropped.                  *)
LEMMA ReopenStep == LinkInv /\ Reopen => LinkInv'
  <1> SUFFICES ASSUME LinkInv, Reopen PROVE LinkInv'
    OBVIOUS
  <1>1. /\ born \in Nat /\ edge \in Nat /\ born <= edge /\ expected \in Kinds
        /\ damaged \in Nat
    BY DEF LinkInv, WindowInv
  <1>2. /\ edge' \in Nat /\ edge < edge' /\ edge' <= Len(line) /\ born' = edge'
        /\ start' = edge' /\ end' = edge' /\ found' = <<>> /\ pc' = "idle"
        /\ UNCHANGED <<line, expected, asked, answers, served, damaged>>
    <2>1. edge' \in edge + 1 .. Len(line) /\ Len(line) \in Nat
      BY DEF Reopen, LinkInv, LineInv
    <2>2. edge' \in Nat /\ edge < edge' /\ edge' <= Len(line)
      BY <1>1, <2>1
    <2> QED
      BY <2>2 DEF Reopen, Over
  <1>3. PICK n \in Nat : n = edge'
    BY <1>2
  <1>4. LineInv'
    BY <1>2 DEF LinkInv, LineInv
  <1>5. WindowInv'
    BY <1>1, <1>2 DEF WindowInv
  <1>6. QueryInv'
    BY <1>2 DEF LinkInv, QueryInv, Contract!TypeOK, Reopen
  <1>7. FramesInv'
    <2>1. \A i \in n + 1 .. Len(line) : i \in born + 1 .. Len(line)
      <3>1. born <= n /\ Len(line) \in Nat
        BY <1>1, <1>2, <1>3 DEF LinkInv, LineInv
      <3> QED
        BY <1>1, <3>1
    <2>2. \A i \in born' + 1 .. Len(line') : line'[i].place = FrameSize => line'[i].of > served'
      BY <1>2, <1>3, <2>1 DEF LinkInv, FramesInv
    <2>3. Len(found') = 0 /\ end' - start' < FrameSize /\ \A p \in born' .. start' - 1 : FALSE
      <3>1. n - n < FrameSize
        BY Sizes
      <3>2. \A p \in n .. n - 1 : FALSE
        OBVIOUS
      <3> QED
        BY <1>2, <1>3, <3>1, <3>2
    <2>4. asked' # <<>> /\ served' = Len(asked') =>
            \A i \in edge' + 1 .. Len(line') : line'[i].place = 0
      <3>1. \A i \in n + 1 .. Len(line) : i \in edge + 1 .. Len(line)
        <4>1. edge < n /\ Len(line) \in Nat
          BY <1>2, <1>3 DEF LinkInv, LineInv
        <4> QED
          BY <1>1, <4>1
      <3>2. asked # <<>> /\ served = Len(asked) =>
              \A i \in edge + 1 .. Len(line) : line[i].place = 0
        BY DEF LinkInv, FramesInv, FreshAnswerIsLast, Reopen
      <3> QED
        BY <1>2, <1>3, <3>1, <3>2
    <2> QED
      BY <2>2, <2>3, <2>4 DEF FramesInv, FreshAnswerIsLast
  <1> QED
    BY <1>4, <1>5, <1>6, <1>7 DEF LinkInv

(* A query begins.                                                         *)
LEMMA AskStep == LinkInv /\ Ask => LinkInv'
  <1> SUFFICES ASSUME LinkInv, Ask PROVE LinkInv'
    OBVIOUS
  <1> PICK n \in Nat : n = Len(asked)
    BY DEF LinkInv, QueryInv, Contract!TypeOK
  <1>1. PICK kind \in Kinds : asked' = Append(asked, kind) /\ expected' = kind
    BY DEF Ask
  <1>2. /\ asked \in Seq(Kinds) /\ asked' \in Seq(Kinds) /\ Len(asked') = n + 1
        /\ asked'[n + 1] = kind /\ \A q \in 1 .. n : asked'[q] = asked[q]
    BY <1>1 DEF LinkInv, QueryInv, Contract!TypeOK
  <1>3. /\ pc' = "writing"
        /\ UNCHANGED <<line, edge, start, end, found, answers, served, born, damaged>>
    BY DEF Ask
  <1>4. /\ born \in Nat /\ born = edge /\ start = edge /\ end = edge /\ found = <<>>
        /\ edge <= Len(line) /\ damaged \in Nat
    BY DEF LinkInv, WindowInv, QueryInv, Ask
  <1>5. \A i \in 1 .. Len(line) : line[i] \in Bytes(Kinds, 1 .. n)
    BY ElementOfSeq DEF LinkInv, LineInv
  <1>6. \A i \in 1 .. Len(line) : line[i].of \in 1 .. n
    BY <1>5 DEF Bytes
  <1>7. LineInv'
    <2>1. line \in Seq(Bytes(Kinds, 1 .. n)) /\ Bytes(Kinds, 1 .. n) \subseteq Bytes(Kinds, 1 .. n + 1)
      BY DEF LinkInv, LineInv, Bytes
    <2>2. line' \in Seq(Bytes(Kinds, 1 .. Len(asked')))
      BY <1>2, <1>3, <2>1, SeqMonotonic
    <2>3. \A i \in 1 .. Len(line') : line'[i].kind = asked'[line'[i].of]
      BY <1>2, <1>3, <1>6 DEF LinkInv, LineInv
    <2> QED
      BY <1>3, <2>2, <2>3 DEF LinkInv, LineInv
  <1>8. WindowInv'
    BY <1>1, <1>3, <1>4 DEF LinkInv, WindowInv
  <1>9. QueryInv'
    <2>1. /\ answers \in Seq(Nat) /\ Len(answers) = n /\ served \in 0 .. n
      BY DEF LinkInv, QueryInv, Contract!TypeOK, Ask
    <2>2. \A i \in 1 .. Len(line') : line'[i].of < Len(asked')
      <3> SUFFICES ASSUME NEW i \in 1 .. Len(line) PROVE line[i].of < n + 1
        BY <1>2, <1>3
      <3> QED
        BY <1>6
    <2>3. Contract!TypeOK'
      BY <1>2, <1>3, <2>1 DEF Contract!TypeOK
    <2>4. Len(answers') + 1 = Len(asked') /\ expected' = asked'[Len(asked')] /\ served' <= Len(answers')
      BY <1>1, <1>2, <1>3, <2>1
    <2> QED
      BY <1>3, <1>4, <2>2, <2>3, <2>4 DEF QueryInv
  <1>10. FramesInv'
    <2>1. Len(found') = 0 /\ \A p \in born' .. start' - 1 : FALSE
      BY <1>3, <1>4
    <2>2. end' - start' < FrameSize
      BY <1>3, <1>4, Sizes
    <2>3. \A i \in born' + 1 .. Len(line') : line'[i].place = FrameSize => line'[i].of > served'
      BY <1>3 DEF LinkInv, FramesInv
    <2> QED
      BY <1>3, <2>1, <2>2, <2>3 DEF FramesInv, FreshAnswerIsLast
  <1> QED
    BY <1>7, <1>8, <1>9, <1>10 DEF LinkInv

-------------------------------------------------------------------------------
(* Every way to raise is the same step.                                    *)
LEMMA RaisingSteps ==
  ASSUME LinkInv,
         \/ ReadNothing \/ FedSeveral \/ TooMuchPending \/ ReadNoAck
         \/ BadAck \/ Undecodable
  PROVE  Raise /\ LinkInv'
  <1>1. Raise /\ pc # "idle"
    BY DEF ReadNothing, FedSeveral, TooMuchPending, ReadNoAck, OnSilence, BadAck,
         Undecodable
  <1> QED
    BY <1>1, RaiseStep

LEMMA ParseSteps == LinkInv /\ Parse /\ UNCHANGED link => LinkInv'
  BY ExtendStep, TooShortStep, KeepTailStep, AlignToMarkerStep, RejectByteStep,
     AcceptFrameStep DEF Parse

LEMMA StutterStep == LinkInv /\ UNCHANGED vars => LinkInv'
  <1> SUFFICES ASSUME LinkInv, UNCHANGED vars PROVE LinkInv'
    OBVIOUS
  <1>1. /\ UNCHANGED <<line, edge, expected, pc, start, end, found>>
        /\ UNCHANGED <<asked, answers, served, born, damaged>>
    BY DEF vars, parser, link
  <1>2. LineInv' /\ WindowInv'
    BY <1>1 DEF LinkInv, LineInv, WindowInv
  <1>3. QueryInv'
    BY <1>1 DEF LinkInv, QueryInv, Contract!TypeOK
  <1>4. FramesInv'
    BY <1>1 DEF LinkInv, FramesInv, Refuted, Returned, FrameAt, ValidCode,
         ValidChecksum, FreshAnswerIsLast
  <1> QED
    BY <1>2, <1>3, <1>4 DEF LinkInv

(* Whatever the line does, for any number of questions and damaged answers *)
(* and any sizes.                                                          *)
THEOREM LinkInvariant == Spec => []LinkInv
  <1>1. LinkInv /\ [Next]_vars => LinkInv'
    <2> SUFFICES ASSUME LinkInv, [Next]_vars PROVE LinkInv'
      OBVIOUS
    <2>1. CASE Ask
      BY <2>1, AskStep
    <2>2. CASE Query
      BY <2>2, WriteRequestStep, ShortWriteStep, ReadChunkStep, FedNothingStep,
         TakePendingStep, ReadAckPartStep, DecodeStep, RaisingSteps, ParseSteps
         DEF Query
    <2>3. CASE Reopen
      BY <2>3, ReopenStep
    <2>4. CASE Idle \/ UNCHANGED vars
      BY <2>4, StutterStep DEF Idle
    <2> QED
      BY <2>1, <2>2, <2>3, <2>4 DEF Next
  <1> QED
    BY <1>1, InitLink, PTL DEF Spec
-------------------------------------------------------------------------------
Promise == INSTANCE QueryContractProofs
-------------------------------------------------------------------------------
(* The state of a query stays well-formed.                                 *)
THEOREM LinkTypes == Spec => []TypeOK
  BY LinkInvariant, LinkInvImplies, PTL

(* The buffer of the parser is never full between two chunks.              *)
THEOREM LinkRoomForMore == Spec => []RoomForMore
  BY LinkInvariant, LinkInvImplies, PTL

(* No frame is missed, however the line is cut into chunks.                *)
THEOREM LinkNoFrameSkipped == Spec => []NoFrameSkipped
  BY LinkInvariant, LinkInvImplies, PTL

(* A fresh answer leaves nothing of an answer on the line.                 *)
THEOREM LinkFreshAnswerIsLast == Spec => []FreshAnswerIsLast
  BY LinkInvariant, LinkInvImplies, PTL
-------------------------------------------------------------------------------
(* A query that raised fails in the contract.                              *)
LEMMA RaiseFails == LinkInv /\ pc # "idle" /\ Raise => Contract!Fail
  BY DEF LinkInv, QueryInv, Contract!TypeOK, Raise, Contract!Fail

LEMMA ShortWriteFails == LinkInv /\ ShortWrite => Contract!Fail
  BY DEF LinkInv, QueryInv, Contract!TypeOK, ShortWrite, Contract!Fail

(* What is decoded answers, in the contract, a question of its kind.       *)
LEMMA DecodeIsAnswer == LinkInv /\ Decode => Contract!Answer
  <1> SUFFICES ASSUME LinkInv, Decode PROVE Contract!Answer
    OBVIOUS
  <1>1. Len(answers) < Len(asked)
    BY DEF LinkInv, QueryInv, Contract!TypeOK, Decode
  <1>2. /\ served' \in served + 1 .. Len(asked)
        /\ asked[served'] = asked[Len(asked)]
    BY DecodeAnswers
  <1>3. answers' = Append(answers, served') /\ asked' = asked
    BY DEF Decode
  <1> QED
    BY <1>1, <1>2, <1>3 DEF Contract!Answer

LEMMA AskAsks == LinkInv /\ Ask => Contract!Ask
  <1> SUFFICES ASSUME LinkInv, Ask PROVE Contract!Ask
    OBVIOUS
  <1>1. Len(answers) = Len(asked)
    BY DEF LinkInv, QueryInv, Ask
  <1> QED
    BY <1>1 DEF Ask, Contract!Ask

(* Reading, parsing and opening the port again are stutters.               *)
LEMMA StepsUnseen ==
  ASSUME \/ WriteRequest \/ ReadChunk \/ FedNothing \/ TakePending \/ ReadAckPart
         \/ (Parse /\ UNCHANGED link) \/ Reopen \/ Idle \/ UNCHANGED vars
  PROVE  UNCHANGED Contract!vars
  BY DEF WriteRequest, ReadChunk, FedNothing, TakePending, ReadAckPart, Reopen, Idle,
         vars, link, Contract!vars

(* Every step of a query is a step of the contract, or none.               *)
LEMMA StepImplements == LinkInv /\ [Next]_vars => [Contract!Next]_Contract!vars
  <1> SUFFICES ASSUME LinkInv, [Next]_vars PROVE [Contract!Next]_Contract!vars
    OBVIOUS
  <1>1. CASE Ask
    BY <1>1, AskAsks DEF Contract!Next
  <1>2. CASE ShortWrite
    BY <1>2, ShortWriteFails DEF Contract!Next
  <1>3. CASE \/ ReadNothing \/ FedSeveral \/ TooMuchPending \/ ReadNoAck
             \/ BadAck \/ Undecodable
    <2>1. pc # "idle"
      BY <1>3 DEF ReadNothing, FedSeveral, TooMuchPending, ReadNoAck, BadAck, Undecodable
    <2> QED
      BY <1>3, <2>1, RaisingSteps, RaiseFails DEF Contract!Next
  <1>4. CASE Decode
    BY <1>4, DecodeIsAnswer DEF Contract!Next
  <1>5. CASE \/ WriteRequest \/ ReadChunk \/ FedNothing \/ TakePending \/ ReadAckPart
             \/ (Parse /\ UNCHANGED link) \/ Reopen \/ Idle \/ UNCHANGED vars
    BY <1>5, StepsUnseen
  <1> QED
    BY <1>1, <1>2, <1>3, <1>4, <1>5 DEF Next, Query

(* The refinement.                                                         *)
THEOREM LinkImplementsContract == Spec => ImplementsQueryContract
  <1>1. Init => Contract!Init
    BY DEF Init, Contract!Init
  <1> QED
    BY <1>1, LinkInvariant, StepImplements, PTL
       DEF Spec, ImplementsQueryContract, Contract!Spec

(* So what holds of every session of the contract holds of these.          *)
THEOREM LinkPreBootFresh == Spec => []PreBootFresh
  <1>1. Contract!Spec => Promise!Spec
    BY PTL DEF Contract!Spec, Promise!Spec, Contract!Init, Promise!Init,
       Contract!Next, Promise!Next, Contract!Ask, Promise!Ask,
       Contract!Answer, Promise!Answer, Contract!Fail, Promise!Fail,
       Contract!vars, Promise!vars
  <1>2. \A S : Contract!Cardinality(S) = Promise!Cardinality(S)
    BY DEF Contract!Cardinality, Promise!Cardinality
  <1>3. Promise!PreBootFresh => PreBootFresh
    BY <1>2 DEF PreBootFresh, Contract!PreBootFresh, Promise!PreBootFresh,
       Contract!PreBootReads, Promise!PreBootReads, Contract!Failures,
       Promise!Failures
  <1> QED
    BY <1>1, <1>3, LinkImplementsContract, Promise!QueryPreBootFresh, PTL
       DEF ImplementsQueryContract
===============================================================================
