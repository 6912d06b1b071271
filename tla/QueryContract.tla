---------------------------- MODULE QueryContract ----------------------------
(***************************************************************************)
(* What a caller of JkProtocol.read_identity and read_telemetry may rely   *)
(* on, with no bytes, parser or timeout: questions are asked one at a      *)
(* time, each is answered or raises, and an answer is for a question of    *)
(* the same kind, later than every question answered before.  It need not  *)
(* be for the question just asked: nothing empties the line between two    *)
(* queries, so the late answer to a query that raised answers the next.    *)
(***************************************************************************)
EXTENDS Integers, Sequences, FiniteSets

CONSTANT Kinds   \* "identity" and "telemetry"

VARIABLES
  asked,    \* the kind of each question of the session, in order
  answers,  \* for each query that ended, the question its answer was for,
            \* 0 if it raised
  served    \* the last question that was answered, 0 at the start

vars == <<asked, answers, served>>

Init == asked = <<>> /\ answers = <<>> /\ served = 0

Ask ==
  /\ Len(answers) = Len(asked)
  /\ \E kind \in Kinds : asked' = Append(asked, kind)
  /\ UNCHANGED <<answers, served>>

Answer ==
  /\ Len(answers) < Len(asked)
  /\ \E q \in served + 1 .. Len(asked) :
       /\ asked[q] = asked[Len(asked)]
       /\ answers' = Append(answers, q)
       /\ served' = q
  /\ UNCHANGED asked

Fail ==
  /\ Len(answers) < Len(asked)
  /\ answers' = Append(answers, 0)
  /\ UNCHANGED <<asked, served>>

Next == Ask \/ Answer \/ Fail

Spec == Init /\ [][Next]_vars
-------------------------------------------------------------------------------
TypeOK ==
  /\ asked \in Seq(Kinds)
  /\ answers \in Seq(Nat)
  /\ served \in 0 .. Len(asked)
  /\ Len(answers) \in {Len(asked), Len(asked) - 1}

(* Queries from r to q, both included, that raised.                        *)
Failures(r, q) == Cardinality({i \in r .. q : answers[i] = 0})

(* How far query q was behind: 0 if it got the answer to its own question. *)
Lag(q) == IF q = 0 THEN 0 ELSE q - answers[q]

(***************************************************************************)
(* A query that raised can put the line behind by one answer, and nothing  *)
(* else can: between two answered queries the lag grows by at most the     *)
(* number of queries that raised between them (query 0 is the opening of   *)
(* the port).                                                              *)
(***************************************************************************)
LagBounded ==
  \A q \in 1 .. Len(answers) : \A r \in 0 .. q - 1 :
    answers[q] # 0 /\ (r = 0 \/ answers[r] # 0)
      => Lag(q) <= Lag(r) + Failures(r + 1, q)

(* What flash() reads before boot entry, from query q on.                  *)
PreBootReads(q) ==
  /\ asked[q] = "identity" /\ asked[q + 1] = "identity"
  /\ asked[q + 2] = "telemetry"
  /\ \A i \in q .. q + 2 : answers[i] # 0

(***************************************************************************)
(* flash() reads the identity twice and then telemetry, and calls both     *)
(* identities fresh.  What that is worth: if at most one query raised      *)
(* since the line was last level (a query got its own answer, or the port  *)
(* was opened), the second identity was asked for by this attempt; if at   *)
(* most two did, the telemetry that permits boot entry is the answer to    *)
(* this attempt's own question.                                            *)
(***************************************************************************)
PreBootFresh ==
  \A q \in 1 .. Len(answers) - 2 : \A r \in 0 .. q - 1 :
    PreBootReads(q) /\ (r = 0 \/ answers[r] = r) =>
      /\ Failures(r + 1, q) <= 1 => answers[q + 1] >= q
      /\ Failures(r + 1, q) <= 2 => answers[q + 2] = q + 2
==============================================================================
