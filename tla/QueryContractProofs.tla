------------------------- MODULE QueryContractProofs -------------------------
(***************************************************************************)
(* How old an answer can be, for sessions of any length.                   *)
(***************************************************************************)
EXTENDS QueryContract, FiniteSetTheorems, TLAPS

(* An answer is for a question of the same kind, not after the one that    *)
(* was asked.                                                              *)
AnswerOfKind(i) ==
  answers[i] # 0 => answers[i] \in 1 .. i /\ asked[answers[i]] = asked[i]

Answered(r) == r = 0 \/ answers[r] # 0

(* LagBounded for the next answer, whichever it is: the line is behind by  *)
(* no more than it was when r was answered, plus the queries that raised.  *)
BehindSince(r) == Len(answers) - served <= Lag(r) + Failures(r + 1, Len(answers))

AnswersInv ==
  /\ TypeOK
  /\ served <= Len(answers)
  /\ \A i \in 1 .. Len(answers) : AnswerOfKind(i)
  /\ \A r \in 0 .. Len(answers) : Answered(r) => BehindSince(r)
  /\ LagBounded

(* The queries that raised, as a set.                                      *)
Raised(s, r, q) == {i \in r .. q : s[i] = 0}
-------------------------------------------------------------------------------
(* There are finitely many queries that raised.                            *)
LEMMA RaisedFinite ==
  ASSUME NEW s, NEW r \in Int, NEW q \in Int
  PROVE  /\ IsFiniteSet(Raised(s, r, q))
         /\ Cardinality(Raised(s, r, q)) \in Nat
  <1>1. IsFiniteSet(r .. q)
    BY FS_Interval
  <1>2. Raised(s, r, q) \in SUBSET (r .. q)
    BY DEF Raised
  <1>3. IsFiniteSet(Raised(s, r, q))
    BY <1>1, <1>2, FS_Subset
  <1> QED
    BY <1>3, FS_CardinalityType

(* A query that raised adds one to the count, one that was answered none.  *)
LEMMA RaisedByNext ==
  ASSUME NEW s, NEW r \in Int, NEW q \in Int, r <= q + 1
  PROVE  /\ s[q + 1] = 0 => Cardinality(Raised(s, r, q + 1)) =
                             Cardinality(Raised(s, r, q)) + 1
         /\ s[q + 1] # 0 => Raised(s, r, q + 1) = Raised(s, r, q)
  <1>1. IsFiniteSet(Raised(s, r, q)) /\ Cardinality(Raised(s, r, q)) \in Nat
    BY RaisedFinite
  <1>2. q + 1 \notin Raised(s, r, q)
    BY DEF Raised
  <1>3. CASE s[q + 1] = 0
    <2>1. Raised(s, r, q + 1) = Raised(s, r, q) \cup {q + 1}
      BY <1>3 DEF Raised
    <2> QED
      BY <1>1, <1>2, <1>3, <2>1, FS_AddElement
  <1>4. CASE s[q + 1] # 0
    BY <1>4 DEF Raised
  <1> QED
    BY <1>3, <1>4

(* Nothing is asked or answered yet.                                       *)
LEMMA InitAnswers == Init => AnswersInv
  <1> SUFFICES ASSUME Init PROVE AnswersInv
    OBVIOUS
  <1>1. TypeOK /\ served = 0 /\ Len(answers) = 0
    BY DEF Init, TypeOK
  <1>2. Failures(1, 0) \in Nat
    BY RaisedFinite DEF Failures, Raised
  <1>3. BehindSince(0)
    BY <1>1, <1>2 DEF BehindSince, Lag
  <1> QED
    BY <1>1, <1>3 DEF AnswersInv, LagBounded

(* The end of a query: answer is the one it got, 0 if none.                *)
LEMMA EndOfQuery ==
  ASSUME AnswersInv, NEW answer \in Nat, NEW n \in Nat, n = Len(answers),
         Len(answers) < Len(asked), asked' = asked,
         answers' = Append(answers, answer),
         \/ answer = 0 /\ served' = served
         \/ /\ answer \in served + 1 .. Len(asked)
            /\ asked[answer] = asked[Len(asked)]
            /\ served' = answer
  PROVE  AnswersInv'
  <1>1. /\ n \in Nat /\ Len(asked) = n + 1 /\ Len(answers') = n + 1
        /\ answers' \in Seq(Nat) /\ answers'[n + 1] = answer
        /\ \A i \in 1 .. n : answers'[i] = answers[i] /\ answers[i] \in Nat
        /\ served \in Nat /\ served' \in Nat /\ served' <= n + 1
        /\ served <= n
    BY DEF AnswersInv, TypeOK
  <1>2. TypeOK'
    BY <1>1 DEF AnswersInv, TypeOK
  <1>3. \A i \in 1 .. n + 1 : AnswerOfKind(i)'
    BY <1>1 DEF AnswersInv, AnswerOfKind, TypeOK
  <1>4. \A r \in 0 .. n : /\ Answered(r)' <=> Answered(r)
                          /\ Lag(r)' = Lag(r)
                          /\ Lag(r) \in Int
    BY <1>1 DEF Answered, Lag
  <1>5. \A r, q \in 0 .. n : /\ Failures(r + 1, q)' = Failures(r + 1, q)
                             /\ Failures(r + 1, q) \in Nat
    <2> SUFFICES ASSUME NEW r \in 0 .. n, NEW q \in 0 .. n
                 PROVE  /\ Failures(r + 1, q)' = Failures(r + 1, q)
                        /\ Failures(r + 1, q) \in Nat
      OBVIOUS
    <2>1. Raised(answers', r + 1, q) = Raised(answers, r + 1, q)
      BY <1>1 DEF Raised
    <2>2. Cardinality(Raised(answers, r + 1, q)) \in Nat
      BY <1>1, RaisedFinite
    <2> QED
      BY <2>1, <2>2 DEF Failures, Raised
  <1>6. \A r \in 0 .. n :
          /\ answer = 0 => Failures(r + 1, n + 1)' = Failures(r + 1, n) + 1
          /\ answer # 0 => Failures(r + 1, n + 1)' = Failures(r + 1, n)
    <2> SUFFICES ASSUME NEW r \in 0 .. n
                 PROVE  /\ answer = 0 => Failures(r + 1, n + 1)' = Failures(r + 1, n) + 1
                        /\ answer # 0 => Failures(r + 1, n + 1)' = Failures(r + 1, n)
      OBVIOUS
    <2>1. /\ answer = 0 => Cardinality(Raised(answers', r + 1, n + 1)) =
                           Cardinality(Raised(answers', r + 1, n)) + 1
          /\ answer # 0 => Raised(answers', r + 1, n + 1) = Raised(answers', r + 1, n)
      <3>1. r + 1 \in Int /\ n \in Int /\ r + 1 <= n + 1
        BY <1>1
      <3> QED
        BY <1>1, <3>1, RaisedByNext
    <2>2. Cardinality(Raised(answers', r + 1, n)) = Failures(r + 1, n)
      <3>1. n \in 0 .. n
        OBVIOUS
      <3>2. Failures(r + 1, n)' = Failures(r + 1, n)
        BY <1>5, <3>1
      <3> QED
        BY <3>2 DEF Failures, Raised
    <2> QED
      BY <2>1, <2>2 DEF Failures, Raised
  <1>7. \A r \in 0 .. n : Answered(r)' => BehindSince(r)'
    <2> SUFFICES ASSUME NEW r \in 0 .. n, Answered(r)' PROVE BehindSince(r)'
      OBVIOUS
    <2>1. n - served <= Lag(r) + Failures(r + 1, n)
      BY <1>1, <1>4 DEF AnswersInv, BehindSince
    <2>2. n \in 0 .. n /\ Failures(r + 1, n) \in Nat
      BY <1>5
    <2>3. n + 1 - served' <= Lag(r)' + Failures(r + 1, n + 1)'
      <3>1. Lag(r)' = Lag(r) /\ Lag(r) \in Int
        BY <1>4
      <3>2. served \in Nat /\ served <= n
        BY <1>1
      <3>3. CASE answer = 0
        <4>1. served' = served /\ Failures(r + 1, n + 1)' = Failures(r + 1, n) + 1
          BY <1>6, <3>2, <3>3
        <4> QED
          BY <2>1, <2>2, <3>1, <3>2, <4>1
      <3>4. CASE answer # 0
        <4>1. /\ served' \in Nat /\ served < served'
              /\ Failures(r + 1, n + 1)' = Failures(r + 1, n)
          BY <1>1, <1>6, <3>4
        <4> QED
          BY <2>1, <2>2, <3>1, <3>2, <4>1
      <3> QED
        BY <3>3, <3>4
    <2> QED
      BY <1>1, <2>3 DEF BehindSince
  <1>8. Answered(n + 1)' => BehindSince(n + 1)'
    <2> SUFFICES ASSUME answer # 0 PROVE BehindSince(n + 1)'
      BY <1>1 DEF Answered
    <2>1. Lag(n + 1)' = n + 1 - served'
      <3>1. n + 1 # 0 /\ answers'[n + 1] = answer /\ served' = answer
        BY <1>1
      <3> QED
        BY <3>1 DEF Lag
    <2>2. Cardinality(Raised(answers', n + 2, n + 1)) \in Nat
      BY <1>1, RaisedFinite
    <2>3. Failures(n + 2, n + 1)' \in Nat
      BY <2>2 DEF Failures, Raised
    <2> QED
      BY <1>1, <2>1, <2>3 DEF BehindSince
  <1>9. LagBounded'
    <2> SUFFICES ASSUME NEW q \in 1 .. n + 1, NEW r \in 0 .. q - 1,
                        answers'[q] # 0, Answered(r)'
                 PROVE  Lag(q)' <= Lag(r)' + Failures(r + 1, q)'
      BY <1>1 DEF LagBounded, Answered
    <2>1. CASE q <= n
      <3>1. Lag(q) <= Lag(r) + Failures(r + 1, q)
        BY <1>1, <1>4, <2>1 DEF AnswersInv, LagBounded, Answered
      <3>2. r \in 0 .. n /\ q \in 0 .. n
        BY <2>1
      <3> QED
        BY <1>4, <1>5, <3>1, <3>2
    <2>2. CASE q = n + 1
      <3>1. Lag(q)' = n + 1 - served'
        <4>1. q # 0 /\ answers'[q] = answer /\ served' = answer
          BY <1>1, <2>2
        <4> QED
          BY <2>2, <4>1 DEF Lag
      <3>2. BehindSince(r)'
        BY <1>1, <1>7, <2>2
      <3> QED
        BY <1>1, <2>2, <3>1, <3>2 DEF BehindSince
    <2> QED
      BY <1>1, <2>1, <2>2
  <1>10. \A r \in 0 .. n + 1 : Answered(r)' => BehindSince(r)'
    <2> SUFFICES ASSUME NEW r \in 0 .. n + 1, Answered(r)' PROVE BehindSince(r)'
      OBVIOUS
    <2>1. r \in 0 .. n \/ r = n + 1
      BY <1>1
    <2> QED
      BY <1>7, <1>8, <2>1
  <1> QED
    BY <1>1, <1>2, <1>3, <1>9, <1>10 DEF AnswersInv

(* A question changes nothing of what was answered.                        *)
LEMMA StartOfQuery == AnswersInv /\ Ask => AnswersInv'
  <1> SUFFICES ASSUME AnswersInv, Ask PROVE AnswersInv'
    OBVIOUS
  <1>1. /\ answers' = answers /\ served' = served
        /\ Len(answers) \in Nat /\ Len(answers) = Len(asked)
        /\ Len(asked') = Len(asked) + 1
        /\ \A i \in 1 .. Len(asked) : asked'[i] = asked[i]
    BY DEF AnswersInv, TypeOK, Ask
  <1>2. TypeOK'
    BY <1>1 DEF AnswersInv, TypeOK, Ask
  <1>3. \A i \in 1 .. Len(answers) : AnswerOfKind(i)'
    BY <1>1 DEF AnswersInv, AnswerOfKind
  <1>4. /\ \A r : Answered(r)' = Answered(r) /\ BehindSince(r)' = BehindSince(r)
        /\ LagBounded' = LagBounded
    BY <1>1 DEF Answered, BehindSince, LagBounded, Lag, Failures
  <1> QED
    BY <1>1, <1>2, <1>3, <1>4 DEF AnswersInv

THEOREM AnswersInvariant == Spec => []AnswersInv
  <1>1. AnswersInv /\ [Next]_vars => AnswersInv'
    <2> SUFFICES ASSUME AnswersInv, [Next]_vars PROVE AnswersInv'
      OBVIOUS
    <2> PICK n \in Nat : n = Len(answers)
      BY DEF AnswersInv, TypeOK
    <2>1. CASE Ask
      BY <2>1, StartOfQuery
    <2>2. CASE Answer
      <3>1. PICK q \in served + 1 .. Len(asked) :
              /\ asked[q] = asked[Len(asked)]
              /\ answers' = Append(answers, q)
              /\ served' = q
        BY <2>2 DEF Answer
      <3>2. q \in Nat
        BY DEF AnswersInv, TypeOK
      <3> QED
        BY <2>2, <3>1, <3>2, EndOfQuery DEF Answer
    <2>3. CASE Fail
      BY <2>3, EndOfQuery DEF Fail
    <2>4. CASE UNCHANGED vars
      <3>1. asked' = asked /\ answers' = answers /\ served' = served
        BY <2>4 DEF vars
      <3>2. TypeOK' /\ \A i \in 1 .. Len(answers) : AnswerOfKind(i)'
        BY <3>1 DEF AnswersInv, TypeOK, AnswerOfKind
      <3>3. \A r \in 0 .. Len(answers) : Answered(r)' => BehindSince(r)'
        BY <3>1 DEF AnswersInv, Answered, BehindSince, Lag, Failures
      <3>4. LagBounded'
        BY <3>1 DEF AnswersInv, LagBounded, Lag, Failures
      <3> QED
        BY <3>1, <3>2, <3>3, <3>4 DEF AnswersInv
    <2> QED
      BY <2>1, <2>2, <2>3, <2>4 DEF Next
  <1> QED
    BY <1>1, InitAnswers, PTL DEF Spec

(* The lag is bounded by the queries that raised, in every session.        *)
THEOREM QueryLagBounded == Spec => []LagBounded
  BY AnswersInvariant, PTL DEF AnswersInv

(* What the two identities and the telemetry that flash() reads are worth: *)
(* they are as far behind as queries raised before them, and an answer     *)
(* that is behind is for a question of its own kind.                       *)
LEMMA FreshFromLag == AnswersInv => PreBootFresh
  <1> SUFFICES ASSUME AnswersInv,
                      NEW q \in 1 .. Len(answers) - 2, NEW r \in 0 .. q - 1,
                      PreBootReads(q), r = 0 \/ answers[r] = r
               PROVE  /\ Failures(r + 1, q) <= 1 => answers[q + 1] >= q
                      /\ Failures(r + 1, q) <= 2 => answers[q + 2] = q + 2
    BY DEF PreBootFresh
  <1>1. /\ Len(answers) \in Nat /\ q \in Nat /\ r \in Nat
        /\ \A i \in q .. q + 2 : /\ answers[i] \in 1 .. i
                                /\ asked[answers[i]] = asked[i]
    BY DEF AnswersInv, TypeOK, PreBootReads, AnswerOfKind
  <1>2. Failures(r + 1, q + 1) = Failures(r + 1, q)
    <2>1. q + 1 \in q .. q + 2 /\ answers[q + 1] # 0
      BY <1>1 DEF PreBootReads
    <2>2. Raised(answers, r + 1, q + 1) = Raised(answers, r + 1, q)
      BY <1>1, <2>1, RaisedByNext
    <2> QED
      BY <2>2 DEF Failures, Raised
  <1>3. Failures(r + 1, q + 2) = Failures(r + 1, q + 1)
    <2>1. q + 2 \in q .. q + 2 /\ answers[(q + 1) + 1] # 0 /\ (q + 1) + 1 = q + 2
      BY <1>1 DEF PreBootReads
    <2>2. Raised(answers, r + 1, (q + 1) + 1) = Raised(answers, r + 1, q + 1)
      BY <1>1, <2>1, RaisedByNext
    <2>3. Raised(answers, r + 1, q + 2) = Raised(answers, r + 1, q + 1)
      BY <2>1, <2>2
    <2> QED
      BY <2>3 DEF Failures, Raised
  <1>4. Failures(r + 1, q) \in Nat
    <2>1. Cardinality(Raised(answers, r + 1, q)) \in Nat
      BY <1>1, RaisedFinite
    <2> QED
      BY <2>1 DEF Failures, Raised
  <1>5. Lag(r) = 0
    BY <1>1 DEF Lag
  <1>6. \A i \in {q + 1, q + 2} : i - answers[i] <= Failures(r + 1, q)
    <2> SUFFICES ASSUME NEW i \in {q + 1, q + 2}
                 PROVE  i - answers[i] <= Failures(r + 1, q)
      OBVIOUS
    <2>1. i \in 1 .. Len(answers) /\ r \in 0 .. i - 1 /\ answers[i] # 0
      BY <1>1
    <2>2. r = 0 \/ answers[r] # 0
      BY <1>1
    <2>3. Lag(i) <= Lag(r) + Failures(r + 1, i)
      BY <2>1, <2>2 DEF AnswersInv, LagBounded
    <2> QED
      BY <1>1, <1>2, <1>3, <1>4, <1>5, <2>1, <2>3 DEF Lag
  <1>7. /\ answers[q + 1] \in Nat /\ answers[q + 2] \in 1 .. q + 2
        /\ asked[answers[q + 2]] = "telemetry"
    BY <1>1 DEF PreBootReads
  <1>8. answers[q + 2] # q /\ answers[q + 2] # q + 1
    BY <1>7 DEF PreBootReads
  <1> QED
    BY <1>1, <1>4, <1>6, <1>7, <1>8

THEOREM QueryPreBootFresh == Spec => []PreBootFresh
  BY AnswersInvariant, FreshFromLag, PTL
==============================================================================
