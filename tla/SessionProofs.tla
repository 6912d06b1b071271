----------------------------- MODULE SessionProofs -----------------------------
(***************************************************************************)
(* What Session promises, for any number of threads, identities, images    *)
(* and calls of the UI thread.  One lemma per action.                      *)
(***************************************************************************)
EXTENDS Session, TLAPS

(* The steps with _serial_lock held, and those of flash with a decision on *)
(* the approval made, with the flasher entered, and with it left.          *)
Inside == Steps \ {"idle", "lock", "done"}
Closing == {"truncate", "rewrite", "adopt"}
Decided == {"take", "consume", "transcript", "flasher", "flashing"} \cup Closing

(* The locals of the UI thread at each of its steps.                       *)
UiShape ==
  \/ ui \in [step : {"idle", "inspecting"}, calls : 0 .. UiCalls]
  \/ ui \in [step : {"checked"}, calls : 1 .. UiCalls,
             identity : Identities, image : Images, connected : Identities]
  \/ ui \in [step : {"evaluated"}, calls : 1 .. UiCalls,
             identity : Identities, image : Images]

TypeInv ==
  /\ TypeOK
  /\ UiShape
  /\ \A w \in Workers : pc[w] # "idle" => call[w] \in Calls

LockInv == \A w \in Workers : pc[w] \in Inside <=> lock = w

(* The session is whole except while connect opens a port and discovers;   *)
(* a query has a port, and an attempt the identity it was called for.      *)
WholeInv ==
  /\ (\A w \in Workers : pc[w] \notin {"open", "discover"})
       => handles = {transport} \ {None} /\ (transport = None <=> identity = None)
  /\ \A w \in Workers :
       /\ pc[w] \in {"open", "discover"} => transport = None /\ identity = None
       /\ pc[w] = "open" => handles = {}
       /\ pc[w] = "discover" => handles = {w}
       /\ pc[w] \in Decided \cup {"reading"} => transport # None
       /\ pc[w] \in Decided => identity = call[w].identity

(* An approval was issued for an allowed pair, before any call of the UI   *)
(* thread that may still issue one.                                        *)
Issued(a) ==
  a # None => /\ <<a.identity, a.image>> \in Allowed
              /\ a.issued <= ui.calls
              /\ ui.step \in {"checked", "evaluated"} => a.issued < ui.calls

Distinct(a, b) == a # None /\ b # None => a.issued # b.issued

(* No approval is in two places, but for the moment between the two        *)
(* statements of flash that take it and clear it.                          *)
ApprovalInv ==
  /\ Issued(approval)
  /\ \A w \in Workers :
       /\ Issued(taken[w])
       /\ pc[w] # "consume" => Distinct(approval, taken[w])
       /\ \A v \in Workers \ {w} : Distinct(taken[v], taken[w])

AttemptInv ==
  \A w \in Workers :
    /\ accepted[w] => /\ pc[w] \in {"flashing", "done"} \cup Closing
                      /\ Acceptable(w)
    /\ attempted[w] => pc[w] \in {"flashing", "done"} \cup Closing

RecordInv ==
  \A w \in Workers :
    /\ pc[w] \in Steps \ ({"flasher", "flashing", "done"} \cup Closing)
         => record[w] = "none"
    /\ pc[w] \in Steps \ ({"done"} \cup Closing) => result[w] = None
    /\ pc[w] \in {"flasher", "flashing", "truncate"} => record[w] = "started"
    /\ pc[w] = "rewrite" => record[w] = "truncated"
    /\ pc[w] \in Closing => result[w] # None
    /\ record[w] \in Verdicts => record[w] = result[w]
    /\ attempted[w] => /\ record[w] # "none"
                       /\ pc[w] = "flashing" \/ result[w] # None
    /\ result[w] \in {"succeeded", "recovery_required"} => attempted[w]

SessionInv ==
  /\ TypeInv /\ LockInv /\ WholeInv
  /\ ApprovalInv /\ AttemptInv /\ RecordInv
-------------------------------------------------------------------------------
(* The call of a thread.                                                   *)
LEMMA BeginStep ==
  ASSUME SessionInv, NEW w \in Workers, Begin(w)
  PROVE  SessionInv'
<1> USE SessionAssumption DEF SessionInv
<1>1. /\ pc[w] = "idle" /\ pc' = [pc EXCEPT ![w] = "lock"]
      /\ UNCHANGED <<lock, session, handles, attempt, ui>>
  BY DEF Begin, To
<1>2. /\ call' \in [Workers -> Calls \cup {None}] /\ call'[w] \in Calls
      /\ \A v \in Workers \ {w} : call'[v] = call[v]
  <2>1. PICK c \in Calls : call' = [call EXCEPT ![w] = c]
    BY DEF Begin
  <2> QED
    BY <2>1 DEF TypeInv, TypeOK
<1> USE DEF session, attempt
<1>3. TypeInv'
  <2>1. pc' \in [Workers -> Steps]
    BY <1>1 DEF TypeInv, TypeOK, Steps
  <2>2. TypeOK'
    BY <1>1, <1>2, <2>1 DEF TypeInv, TypeOK
  <2>3. UiShape'
    BY <1>1 DEF TypeInv, UiShape
  <2> QED
    BY <1>1, <1>2, <2>2, <2>3 DEF TypeInv
<1>4. LockInv'
  BY <1>1 DEF LockInv, Inside
<1>5. WholeInv'
  BY <1>1, <1>2 DEF WholeInv, Decided, Closing
<1>6. ApprovalInv'
  BY <1>1 DEF ApprovalInv, Issued
<1>7. AttemptInv'
  BY <1>1, <1>2 DEF AttemptInv, Acceptable, Closing
<1>8. RecordInv'
  BY <1>1 DEF RecordInv, Closing, TypeInv, TypeOK
<1> QED
  BY <1>3, <1>4, <1>5, <1>6, <1>7, <1>8

(* The lock is taken: no other thread is inside.                           *)
LEMMA EnterStep ==
  ASSUME SessionInv, NEW w \in Workers, Enter(w)
  PROVE  SessionInv'
<1> USE SessionAssumption DEF SessionInv
<1>1. PICK op \in Operations : pc' = [pc EXCEPT ![w] = op]
  <2>1. call[w] \in Calls
    BY DEF Enter, TypeInv
  <2>2. call[w].op \in Operations
    BY <2>1 DEF Calls, Operations
  <2> QED
    BY <2>2 DEF Enter, To
<1>2. /\ pc[w] = "lock" /\ lock = None /\ lock' = w
      /\ UNCHANGED <<call, session, handles, attempt, ui>>
  BY DEF Enter, MayEnter
<1>3. pc' \in [Workers -> Steps]
  BY <1>1 DEF TypeInv, TypeOK, Steps
<1>4. \A v \in Workers \ {w} : pc[v] \notin Inside /\ pc'[v] = pc[v]
  BY <1>1, <1>2 DEF LockInv
<1>5. pc'[w] \in Operations
  BY <1>1 DEF TypeInv, TypeOK
<1> USE DEF session, attempt
<1>6. TypeInv'
  BY <1>2, <1>3, <1>4 DEF TypeInv, TypeOK, UiShape
<1>7. LockInv'
  BY <1>2, <1>3, <1>4, <1>5 DEF LockInv, Inside, Operations
<1>8. WholeInv'
  BY <1>2, <1>4, <1>5 DEF WholeInv, Decided, Closing, Operations
<1>9. ApprovalInv'
  BY <1>2, <1>4, <1>5 DEF ApprovalInv, Issued
<1>10. AttemptInv'
  BY <1>2, <1>4, <1>5 DEF AttemptInv, Acceptable, Closing
<1>11. RecordInv'
  BY <1>2, <1>3, <1>4, <1>5 DEF RecordInv, Closing, Steps, Operations
<1> QED
  BY <1>6, <1>7, <1>8, <1>9, <1>10, <1>11

(* With the session go the port and the approval.                          *)
LEMMA CloseStep ==
  ASSUME SessionInv, NEW w \in Workers, Close(w)
  PROVE  SessionInv'
<1> USE SessionAssumption DEF SessionInv, Close, To, Leave, session, attempt,
                              CloseLocked, ClosePort
<1>1. TypeInv'
  BY DEF TypeInv, UiShape, TypeOK, Steps
<1>2. LockInv'
  BY DEF LockInv, Inside, TypeInv, TypeOK
<1>3. WholeInv'
  BY DEF WholeInv, Decided, Closing, LockInv, Inside, TypeInv, TypeOK
<1>4. ApprovalInv'
  BY DEF ApprovalInv, Issued, Distinct
<1>5. AttemptInv'
  BY DEF AttemptInv, Acceptable
<1>6. RecordInv'
  BY DEF RecordInv, Closing
<1> QED
  BY <1>1, <1>2, <1>3, <1>4, <1>5, <1>6

(* connect gives the old session up before it opens a port.                *)
LEMMA DisconnectStep ==
  ASSUME SessionInv, NEW w \in Workers, Disconnect(w)
  PROVE  SessionInv'
<1> USE SessionAssumption DEF SessionInv, Disconnect, To, Leave, session, attempt,
                              CloseLocked, ClosePort, Refuse
<1>1. TypeInv'
  BY DEF TypeInv, UiShape, TypeOK, Steps
<1>2. LockInv'
  BY DEF LockInv, Inside, TypeInv, TypeOK, Steps
<1>3. WholeInv'
  BY DEF WholeInv, Decided, Closing, LockInv, Inside, TypeInv, TypeOK
<1>4. ApprovalInv'
  BY DEF ApprovalInv, Issued, Distinct, TypeInv, TypeOK
<1>5. AttemptInv'
  BY DEF AttemptInv, Acceptable, Closing, TypeInv, TypeOK
<1>6. RecordInv'
  BY DEF RecordInv, Closing, TypeInv, TypeOK
<1> QED
  BY <1>1, <1>2, <1>3, <1>4, <1>5, <1>6

(* The only port is the one this thread opened.                            *)
LEMMA OpenPortStep ==
  ASSUME SessionInv, NEW w \in Workers, OpenPort(w)
  PROVE  SessionInv'
<1> USE SessionAssumption DEF SessionInv, OpenPort, To, Leave, session, attempt,
                              Refuse
<1>1. TypeInv'
  BY DEF TypeInv, UiShape, TypeOK, Steps
<1>2. LockInv'
  BY DEF LockInv, Inside, TypeInv, TypeOK, Steps
<1>3. WholeInv'
  BY DEF WholeInv, Decided, Closing, LockInv, Inside, TypeInv, TypeOK
<1>4. ApprovalInv'
  BY DEF ApprovalInv, Issued, TypeInv, TypeOK
<1>5. AttemptInv'
  BY DEF AttemptInv, Acceptable, Closing, TypeInv, TypeOK
<1>6. RecordInv'
  BY DEF RecordInv, Closing, TypeInv, TypeOK
<1> QED
  BY <1>1, <1>2, <1>3, <1>4, <1>5, <1>6

(* A session comes into being whole, or not at all.                        *)
LEMMA DiscoverStep ==
  ASSUME SessionInv, NEW w \in Workers, Discover(w)
  PROVE  SessionInv'
<1> USE SessionAssumption DEF SessionInv, Discover, To, Leave, session, attempt
<1>1. TypeInv'
  BY DEF TypeInv, UiShape, TypeOK, Steps
<1>2. LockInv'
  BY DEF LockInv, Inside, TypeInv, TypeOK
<1>3. WholeInv'
  BY DEF WholeInv, Decided, Closing, LockInv, TypeInv, TypeOK
<1>4. ApprovalInv'
  BY DEF ApprovalInv, Issued, Distinct
<1>5. AttemptInv'
  BY DEF AttemptInv, Acceptable
<1>6. RecordInv'
  BY DEF RecordInv, Closing
<1> QED
  BY <1>1, <1>2, <1>3, <1>4, <1>5, <1>6

(* A query goes on the wire.                                               *)
LEMMA StartQueryStep ==
  ASSUME SessionInv, NEW w \in Workers, StartQuery(w)
  PROVE  SessionInv'
<1> USE SessionAssumption DEF SessionInv, StartQuery, To, session, attempt,
                              Connected, Knows
<1>1. TypeInv'
  BY DEF TypeInv, UiShape, TypeOK, Steps
<1>2. LockInv'
  BY DEF LockInv, Inside, TypeInv, TypeOK, Steps
<1>3. WholeInv'
  BY DEF WholeInv, Decided, Closing
<1>4. ApprovalInv'
  BY DEF ApprovalInv, Issued
<1>5. AttemptInv'
  BY DEF AttemptInv, Acceptable, Closing
<1>6. RecordInv'
  BY DEF RecordInv, Closing, TypeInv, TypeOK
<1> QED
  BY <1>1, <1>2, <1>3, <1>4, <1>5, <1>6

(* A query without a session ends.                                         *)
LEMMA RefuseQueryStep ==
  ASSUME SessionInv, NEW w \in Workers, RefuseQuery(w)
  PROVE  SessionInv'
<1> USE SessionAssumption DEF SessionInv, RefuseQuery, To, Leave, session, attempt,
                              Refuse
<1>1. TypeInv'
  BY DEF TypeInv, UiShape, TypeOK, Steps
<1>2. LockInv'
  BY DEF LockInv, Inside, TypeInv, TypeOK
<1>3. WholeInv'
  BY DEF WholeInv, Decided, Closing
<1>4. ApprovalInv'
  BY DEF ApprovalInv, Issued
<1>5. AttemptInv'
  BY DEF AttemptInv, Acceptable
<1>6. RecordInv'
  BY DEF RecordInv, Closing
<1> QED
  BY <1>1, <1>2, <1>3, <1>4, <1>5, <1>6

(* An answer may renew the identity, never take it away.                   *)
LEMMA AnswerStep ==
  ASSUME SessionInv, NEW w \in Workers, Answer(w)
  PROVE  SessionInv'
<1> USE SessionAssumption DEF SessionInv, Answer, To, Leave, session, attempt,
                              SameUnit, Connected
<1>1. TypeInv'
  BY DEF TypeInv, UiShape, TypeOK, Steps
<1>2. LockInv'
  BY DEF LockInv, Inside, TypeInv, TypeOK
<1>3. WholeInv'
  BY DEF WholeInv, Decided, Closing, LockInv, Inside, TypeInv, TypeOK
<1>4. ApprovalInv'
  BY DEF ApprovalInv, Issued
<1>5. AttemptInv'
  BY DEF AttemptInv, Acceptable
<1>6. RecordInv'
  BY DEF RecordInv, Closing
<1> QED
  BY <1>1, <1>2, <1>3, <1>4, <1>5, <1>6

(* What flash tests stays true while it holds the lock, but for _approval. *)
LEMMA CheckFlashStep ==
  ASSUME SessionInv, NEW w \in Workers, CheckFlash(w)
  PROVE  SessionInv'
<1> USE SessionAssumption DEF SessionInv, CheckFlash, To, Leave, session, attempt,
                              MayFlash, Refuse, Connected, CanFlash
<1>1. TypeInv'
  BY DEF TypeInv, UiShape, TypeOK, Steps
<1>2. LockInv'
  BY DEF LockInv, Inside, TypeInv, TypeOK, Steps
<1>3. WholeInv'
  BY DEF WholeInv, Decided, Closing, TypeInv, TypeOK
<1>4. ApprovalInv'
  BY DEF ApprovalInv, Issued, TypeInv, TypeOK
<1>5. AttemptInv'
  BY DEF AttemptInv, Acceptable, Closing, TypeInv, TypeOK
<1>6. RecordInv'
  BY DEF RecordInv, Closing, TypeInv, TypeOK
<1> QED
  BY <1>1, <1>2, <1>3, <1>4, <1>5, <1>6

(* The approval is now in two places, and its thread at "consume".         *)
LEMMA TakeApprovalStep ==
  ASSUME SessionInv, NEW w \in Workers, TakeApproval(w)
  PROVE  SessionInv'
<1> USE SessionAssumption DEF SessionInv, TakeApproval, To, session, attempt
<1>1. TypeInv'
  BY DEF TypeInv, UiShape, TypeOK, Steps
<1>2. LockInv'
  BY DEF LockInv, Inside, Steps
<1>3. WholeInv'
  BY DEF WholeInv, Decided
<1>4. ApprovalInv'
  <2>1. \A v \in Workers \ {w} : pc[v] # "consume" /\ pc'[v] = pc[v]
    BY DEF LockInv, Inside, Steps, TypeInv, TypeOK
  <2>2. /\ pc'[w] = "consume" /\ taken'[w] = approval
        /\ \A v \in Workers \ {w} : taken'[v] = taken[v]
    BY DEF TypeInv, TypeOK
  <2>3. pc[w] # "consume"
    OBVIOUS
  <2>4. Issued(approval)' /\ \A v \in Workers : Issued(taken[v])'
    BY <2>2 DEF ApprovalInv, Issued
  <2>5. \A v \in Workers \ {w} : Distinct(approval, taken[v])'
    BY <2>1, <2>2 DEF ApprovalInv, Distinct
  <2>6. \A v, u \in Workers : v # u => Distinct(taken[u], taken[v])'
    BY <2>1, <2>2, <2>3 DEF ApprovalInv, Distinct
  <2> QED
    BY <2>2, <2>4, <2>5, <2>6 DEF ApprovalInv
<1>5. AttemptInv'
  BY DEF AttemptInv, Acceptable, Closing
<1>6. RecordInv'
  BY DEF RecordInv, Closing, TypeInv, TypeOK
<1> QED
  BY <1>1, <1>2, <1>3, <1>4, <1>5, <1>6

(* The approval taken is in one place again, whatever is cleared.          *)
LEMMA ConsumeApprovalStep ==
  ASSUME SessionInv, NEW w \in Workers, ConsumeApproval(w)
  PROVE  SessionInv'
<1> USE SessionAssumption DEF SessionInv, ConsumeApproval, To, session, attempt,
                              ClearApproval
<1>1. TypeInv'
  BY DEF TypeInv, UiShape, TypeOK, Steps
<1>2. LockInv'
  BY DEF LockInv, Inside, Steps
<1>3. WholeInv'
  BY DEF WholeInv, Decided
<1>4. ApprovalInv'
  BY DEF ApprovalInv, Issued, Distinct
<1>5. AttemptInv'
  BY DEF AttemptInv, Acceptable, Closing
<1>6. RecordInv'
  BY DEF RecordInv, Closing, TypeInv, TypeOK
<1> QED
  BY <1>1, <1>2, <1>3, <1>4, <1>5, <1>6

(* No attempt without a transcript.                                        *)
LEMMA OpenTranscriptStep ==
  ASSUME SessionInv, NEW w \in Workers, OpenTranscript(w)
  PROVE  SessionInv'
<1> USE SessionAssumption DEF SessionInv, OpenTranscript, To, Leave, session,
                              attempt, EstablishTranscript
<1>1. TypeInv'
  BY DEF TypeInv, UiShape, TypeOK, Steps
<1>2. LockInv'
  BY DEF LockInv, Inside, TypeInv, TypeOK, Steps
<1>3. WholeInv'
  BY DEF WholeInv, Decided, TypeInv, TypeOK
<1>4. ApprovalInv'
  BY DEF ApprovalInv, Issued, TypeInv, TypeOK
<1>5. AttemptInv'
  BY DEF AttemptInv, Acceptable, Closing, TypeInv, TypeOK
<1>6. RecordInv'
  BY DEF RecordInv, Closing, TypeInv, TypeOK, Verdicts
<1> QED
  BY <1>1, <1>2, <1>3, <1>4, <1>5, <1>6

(* The flasher lets a matching approval through.                           *)
LEMMA EnterFlasherStep ==
  ASSUME SessionInv, NEW w \in Workers, EnterFlasher(w)
  PROVE  SessionInv'
<1> USE SessionAssumption DEF SessionInv, EnterFlasher, To, session, attempt
<1>1. TypeInv'
  <2>1. result' \in [Workers -> Verdicts \cup {None}]
    BY DEF TypeInv, TypeOK, Verdicts
  <2>2. accepted' \in [Workers -> BOOLEAN]
    BY DEF TypeInv, TypeOK
  <2>3. pc[w] = "flasher" /\ call' = call
    OBVIOUS
  <2>4. PICK step \in {"flashing", "truncate"} : pc' = [pc EXCEPT ![w] = step]
    OBVIOUS
  <2> HIDE DEF EnterFlasher, To
  <2>5. pc' \in [Workers -> Steps]
    BY <2>4 DEF TypeInv, TypeOK, Steps
  <2>6. \A v \in Workers : pc'[v] # "idle" => call'[v] \in Calls
    BY <2>3, <2>4 DEF TypeInv, TypeOK
  <2>7. TypeOK' /\ UiShape'
    BY <2>1, <2>2, <2>5 DEF TypeInv, UiShape, TypeOK, EnterFlasher
  <2> QED
    BY <2>6, <2>7 DEF TypeInv
<1>2. LockInv'
  BY DEF LockInv, Inside, TypeInv, TypeOK, Steps
<1>3. WholeInv'
  BY DEF WholeInv, Decided, TypeInv, TypeOK
<1>4. ApprovalInv'
  BY DEF ApprovalInv, Issued, TypeInv, TypeOK
<1>5. AttemptInv'
  BY DEF AttemptInv, Acceptable, Closing, TypeInv, TypeOK
<1>6. RecordInv'
  BY DEF RecordInv, Closing, TypeInv, TypeOK, Verdicts
<1> QED
  BY <1>1, <1>2, <1>3, <1>4, <1>5, <1>6

(* Boot entry, with the transcript in place.                               *)
LEMMA AttemptStep ==
  ASSUME SessionInv, NEW w \in Workers, Attempt(w)
  PROVE  SessionInv'
<1> USE SessionAssumption DEF SessionInv, Attempt, session, attempt
<1>1. TypeInv'
  BY DEF TypeInv, UiShape, TypeOK
<1>2. LockInv'
  BY DEF LockInv
<1>3. WholeInv'
  BY DEF WholeInv
<1>4. ApprovalInv'
  BY DEF ApprovalInv, Issued
<1>5. AttemptInv'
  BY DEF AttemptInv, Acceptable
<1>6. RecordInv'
  BY DEF RecordInv, Closing, TypeInv, TypeOK, Verdicts
<1> QED
  BY <1>1, <1>2, <1>3, <1>4, <1>5, <1>6

(* The flasher ends; it raises only if nothing was attempted.              *)
LEMMA EndFlasherStep ==
  ASSUME SessionInv, NEW w \in Workers, EndFlasher(w)
  PROVE  SessionInv'
<1> USE SessionAssumption DEF SessionInv, EndFlasher, To, session, attempt
<1>1. TypeInv'
  BY DEF TypeInv, UiShape, TypeOK, Steps, Verdicts
<1>2. LockInv'
  BY DEF LockInv, Inside, Steps
<1>3. WholeInv'
  BY DEF WholeInv, Decided
<1>4. ApprovalInv'
  BY DEF ApprovalInv, Issued
<1>5. AttemptInv'
  BY DEF AttemptInv, Acceptable, Closing
<1>6. RecordInv'
  BY DEF RecordInv, Closing, TypeInv, TypeOK, Verdicts
<1> QED
  BY <1>1, <1>2, <1>3, <1>4, <1>5, <1>6

(* The result is known when the transcript is truncated.                   *)
LEMMA TruncateTranscriptStep ==
  ASSUME SessionInv, NEW w \in Workers, TruncateTranscript(w)
  PROVE  SessionInv'
<1> USE SessionAssumption DEF SessionInv, TruncateTranscript, To, session, attempt
<1>1. TypeInv'
  BY DEF TypeInv, UiShape, TypeOK, Steps
<1>2. LockInv'
  BY DEF LockInv, Inside, Steps
<1>3. WholeInv'
  BY DEF WholeInv, Decided, Closing
<1>4. ApprovalInv'
  BY DEF ApprovalInv, Issued
<1>5. AttemptInv'
  BY DEF AttemptInv, Acceptable, Closing
<1>6. RecordInv'
  BY DEF RecordInv, Closing, TypeInv, TypeOK, Verdicts
<1> QED
  BY <1>1, <1>2, <1>3, <1>4, <1>5, <1>6

(* The transcript says what the result was.                                *)
LEMMA RewriteTranscriptStep ==
  ASSUME SessionInv, NEW w \in Workers, RewriteTranscript(w)
  PROVE  SessionInv'
<1> USE SessionAssumption DEF SessionInv, RewriteTranscript, To, session, attempt
<1>1. TypeInv'
  BY DEF TypeInv, UiShape, TypeOK, Steps, RecordInv
<1>2. LockInv'
  BY DEF LockInv, Inside, Steps
<1>3. WholeInv'
  BY DEF WholeInv, Decided, Closing
<1>4. ApprovalInv'
  BY DEF ApprovalInv, Issued
<1>5. AttemptInv'
  BY DEF AttemptInv, Acceptable, Closing
<1>6. RecordInv'
  BY DEF RecordInv, Closing, TypeInv, TypeOK, Verdicts
<1> QED
  BY <1>1, <1>2, <1>3, <1>4, <1>5, <1>6

(* The verified identity replaces the one there was.                       *)
LEMMA AdoptStep ==
  ASSUME SessionInv, NEW w \in Workers, Adopt(w)
  PROVE  SessionInv'
<1> USE SessionAssumption DEF SessionInv, Adopt, To, Leave, session, attempt,
                              AdoptIdentity
<1>1. TypeInv'
  BY DEF TypeInv, UiShape, TypeOK, Steps
<1>2. LockInv'
  BY DEF LockInv, Inside, TypeInv, TypeOK
<1>3. WholeInv'
  BY DEF WholeInv, Decided, Closing, LockInv, Inside, TypeInv, TypeOK
<1>4. ApprovalInv'
  BY DEF ApprovalInv, Issued
<1>5. AttemptInv'
  BY DEF AttemptInv, Acceptable
<1>6. RecordInv'
  BY DEF RecordInv, Closing
<1> QED
  BY <1>1, <1>2, <1>3, <1>4, <1>5, <1>6

(* The UI thread changes _approval and nothing else of the session.        *)
LEMMA UiKeeps ==
  ASSUME SessionInv, UNCHANGED workers, UiShape', approval' \in Approvals \cup {None}
  PROVE  TypeInv' /\ LockInv' /\ WholeInv' /\ AttemptInv' /\ RecordInv'
<1> USE SessionAssumption DEF SessionInv, workers, attempt
<1>1. TypeInv'
  <2>1. /\ ui'.step \in {"idle", "inspecting", "checked", "evaluated"}
        /\ ui'.calls \in 0 .. UiCalls
    BY DEF UiShape
  <2>2. TypeOK'
    BY <2>1 DEF TypeInv, TypeOK, Approvals
  <2> QED
    BY <2>2 DEF TypeInv
<1>2. LockInv'
  BY DEF LockInv
<1>3. WholeInv'
  BY DEF WholeInv
<1>4. AttemptInv'
  BY DEF AttemptInv, Acceptable
<1>5. RecordInv'
  BY DEF RecordInv
<1> QED
  BY <1>1, <1>2, <1>3, <1>4, <1>5

(* The steps that do not issue: an approval there is stays, or is          *)
(* forgotten, and the calls are counted before one is issued.              *)
LEMMA NoIssueStep ==
  ASSUME SessionInv,
         InspectStart \/ InspectEnd \/ PreflightStart \/ PreflightEvaluate
  PROVE  SessionInv'
<1> USE SessionAssumption
<1>1. UNCHANGED workers /\ approval' \in {None, approval}
  BY DEF InspectStart, InspectEnd, PreflightStart, PreflightEvaluate
<1>2. /\ UiShape' /\ ui.calls \in 0 .. UiCalls /\ ui'.calls \in 0 .. UiCalls
      /\ ui.calls <= ui'.calls
      /\ ui'.step \in {"checked", "evaluated"}
           => \/ ui.calls < ui'.calls
              \/ ui.step \in {"checked", "evaluated"} /\ ui'.calls = ui.calls
  <2>1. UiShape
    BY DEF SessionInv, TypeInv
  <2>2. CASE InspectStart
    <3>1. ui \in [step : {"idle", "inspecting"}, calls : 0 .. UiCalls] /\ ui.calls < UiCalls
      BY <2>1, <2>2 DEF InspectStart, UiAt, UiShape
    <3>2. PICK n \in 1 .. UiCalls : n = ui.calls + 1
      BY <3>1
    <3>3. ui' = [ui EXCEPT !.step = "inspecting", !.calls = n]
      BY <2>2, <3>2 DEF InspectStart
    <3>4. ui' = [step |-> "inspecting", calls |-> n]
      BY <3>1, <3>3
    <3> QED
      BY <3>1, <3>2, <3>4 DEF UiShape
  <2>3. CASE InspectEnd
    BY <2>1, <2>3 DEF InspectEnd, UiAt, UiShape
  <2>4. CASE PreflightStart
    <3>1. identity \in Identities
      BY <2>4 DEF PreflightStart, Connected, SessionInv, TypeInv, TypeOK
    <3> QED
      BY <2>1, <2>4, <3>1 DEF PreflightStart, UiAt, UiShape
  <2>5. CASE PreflightEvaluate
    BY <2>1, <2>5 DEF PreflightEvaluate, UiAt, UiShape
  <2> QED
    BY <2>2, <2>3, <2>4, <2>5
<1>3. approval' \in Approvals \cup {None}
  BY <1>1 DEF SessionInv, TypeInv, TypeOK
<1>4. TypeInv' /\ LockInv' /\ WholeInv' /\ AttemptInv' /\ RecordInv'
  BY <1>1, <1>2, <1>3, UiKeeps
<1>5. ASSUME NEW a \in Approvals \cup {None}, Issued(a)
      PROVE  Issued(a)'
  <2>1. a # None => a.issued \in Nat
    BY DEF Approvals
  <2> QED
    BY <1>2, <1>5, <2>1 DEF Issued
<1>6. ApprovalInv'
  <2> USE <1>1 DEF workers, attempt, SessionInv, TypeInv, TypeOK
  <2>1. Issued(approval)'
    BY <1>5 DEF ApprovalInv, Issued
  <2>2. ASSUME NEW w \in Workers PROVE Issued(taken[w])'
    <3>1. taken[w] \in Approvals \cup {None} /\ Issued(taken[w]) /\ taken' = taken
      BY DEF ApprovalInv
    <3> QED
      BY <1>5, <3>1
  <2> QED
    BY <2>1, <2>2 DEF ApprovalInv, Distinct
<1> QED
  BY <1>4, <1>6 DEF SessionInv

(* A new approval is younger than any that was taken.                     *)
LEMMA PreflightIssueStep ==
  ASSUME SessionInv, PreflightIssue
  PROVE  SessionInv'
<1> USE SessionAssumption
<1>1. /\ UNCHANGED workers /\ ui.step = "evaluated"
      /\ ui \in [step : {"evaluated"}, calls : 1 .. UiCalls,
                 identity : Identities, image : Images]
      /\ ui' = [step |-> "idle", calls |-> ui.calls]
  BY DEF PreflightIssue, UiAt, SessionInv, TypeInv, UiShape
<1>2. UiShape' /\ ui'.calls = ui.calls /\ ui'.step = "idle"
  BY <1>1 DEF UiShape
<1>3. approval' # None =>
        /\ approval' \in Approvals /\ approval'.issued = ui.calls
        /\ <<approval'.identity, approval'.image>> \in Allowed
  BY <1>1 DEF PreflightIssue, IssueApproval, Approvals
<1>4. TypeInv' /\ LockInv' /\ WholeInv' /\ AttemptInv' /\ RecordInv'
  BY <1>1, <1>2, <1>3, UiKeeps
<1>5. \A w \in Workers : taken[w] # None => taken[w].issued \in Nat /\ taken[w].issued < ui.calls
  <2> SUFFICES ASSUME NEW w \in Workers, taken[w] # None
               PROVE  taken[w].issued \in Nat /\ taken[w].issued < ui.calls
    OBVIOUS
  <2>1. taken[w] \in Approvals
    BY DEF SessionInv, TypeInv, TypeOK
  <2>2. Issued(taken[w])
    BY DEF SessionInv, ApprovalInv
  <2> QED
    BY <1>1, <2>1, <2>2 DEF Approvals, Issued
<1>6. ApprovalInv'
  <2> USE <1>1, <1>2, <1>3, <1>5 DEF workers, attempt, SessionInv, ApprovalInv
  <2>1. Issued(approval)'
    BY DEF Issued
  <2>2. \A w \in Workers : Issued(taken[w])'
    BY DEF Issued
  <2>3. \A w \in Workers : Distinct(approval, taken[w])'
    BY DEF Distinct
  <2>4. \A w \in Workers : \A v \in Workers \ {w} : Distinct(taken[v], taken[w])'
    BY DEF Distinct
  <2> QED
    BY <2>1, <2>2, <2>3, <2>4
<1> QED
  BY <1>4, <1>6 DEF SessionInv
-------------------------------------------------------------------------------
(* No call has begun.                                                      *)
LEMMA InitInv == Init => SessionInv
<1> SUFFICES ASSUME Init PROVE SessionInv
  OBVIOUS
<1> USE SessionAssumption DEF Init
<1>1. TypeInv
  BY DEF TypeInv, TypeOK, UiShape, Steps
<1>2. LockInv
  BY DEF LockInv, Inside
<1>3. WholeInv /\ ApprovalInv
  BY DEF WholeInv, Decided, Closing, ApprovalInv, Issued, Distinct
<1>4. AttemptInv /\ RecordInv
  BY DEF AttemptInv, RecordInv, Closing, Steps, Operations, Verdicts
<1> QED
  BY <1>1, <1>2, <1>3, <1>4 DEF SessionInv

(* Nothing changes.                                                        *)
LEMMA StutterStep ==
  ASSUME SessionInv, UNCHANGED vars
  PROVE  SessionInv'
BY DEF vars, session, attempt, SessionInv, TypeInv, TypeOK, UiShape, LockInv,
       WholeInv, ApprovalInv, Issued, Distinct, AttemptInv, Acceptable, RecordInv

(* SessionInv is inductive.                                                *)
LEMMA NextStep ==
  ASSUME SessionInv, [Next]_vars
  PROVE  SessionInv'
<1>1. CASE Ui
  BY <1>1, NoIssueStep, PreflightIssueStep DEF Ui
<1>2. ASSUME NEW w \in Workers, Begin(w) \/ Attempt(w) \/ Worker(w)
      PROVE  SessionInv'
  BY <1>2, BeginStep, AttemptStep, EnterStep, CloseStep, DisconnectStep, OpenPortStep,
     DiscoverStep, StartQueryStep, RefuseQueryStep, AnswerStep, CheckFlashStep,
     TakeApprovalStep, ConsumeApprovalStep, OpenTranscriptStep, EnterFlasherStep,
     EndFlasherStep, TruncateTranscriptStep, RewriteTranscriptStep, AdoptStep
     DEF Worker
<1>3. CASE Finished \/ UNCHANGED vars
  BY <1>3, StutterStep DEF Finished
<1> QED
  BY <1>1, <1>2, <1>3 DEF Next

(* The session, the lock, the approvals, the attempts and the transcripts  *)
(* are related as SessionInv says, whatever the threads do.                *)
THEOREM SessionInvariant == Spec => []SessionInv
BY InitInv, NextStep, PTL DEF Spec

(* The values of the session and the threads are the code's.               *)
THEOREM SessionTypes == Spec => []TypeOK
<1>1. SessionInv => TypeOK
  BY DEF SessionInv, TypeInv
<1> QED
  BY <1>1, SessionInvariant, PTL

(* _serial_lock keeps the wire to one thread, and the port is open.        *)
THEOREM ExclusiveWire == Spec => []WireIsExclusive
<1>1. SessionInv => WireIsExclusive
  <2> SUFFICES ASSUME SessionInv, NEW w \in Workers
               PROVE  /\ pc[w] = "discover" => lock = w /\ w \in handles
                      /\ pc[w] \in {"reading", "flashing"} => lock = w /\ transport \in handles
    BY DEF WireIsExclusive
  <2>1. pc[w] \in {"discover", "reading", "flashing"} => lock = w
    BY DEF SessionInv, LockInv, Inside, Steps
  <2>2. pc[w] = "discover" => w \in handles
    BY DEF SessionInv, WholeInv
  <2>3. pc[w] \in {"reading", "flashing"}
          => \A v \in Workers : pc[v] \notin {"open", "discover"}
    BY <2>1, SessionAssumption DEF SessionInv, LockInv, Inside, Steps
  <2>4. pc[w] \in {"reading", "flashing"} => transport \in handles
    BY <2>3 DEF SessionInv, WholeInv, Decided
  <2> QED
    BY <2>1, <2>2, <2>4
<1> QED
  BY <1>1, SessionInvariant, PTL

(* Between calls the open port is the session's, and has an identity.      *)
THEOREM WholeSession == Spec => []SessionIsWhole
<1>1. SessionInv => SessionIsWhole
  BY SessionAssumption
     DEF SessionInv, LockInv, Inside, Steps, WholeInv, SessionIsWhole
<1> QED
  BY <1>1, SessionInvariant, PTL

(* What the flasher lets through was approved for it, once.                *)
THEOREM ApprovedAttempts == Spec => []AttemptIsApproved
<1>1. SessionInv => AttemptIsApproved
  <2> SUFFICES ASSUME SessionInv PROVE AttemptIsApproved
    OBVIOUS
  <2>1. ASSUME NEW w \in Workers, accepted[w]
        PROVE  /\ taken[w] # None
               /\ taken[w].identity = call[w].identity /\ taken[w].image = call[w].image
    BY <2>1 DEF SessionInv, AttemptInv, Acceptable
  <2>2. ASSUME NEW w \in Workers, accepted[w]
        PROVE  <<call[w].identity, call[w].image>> \in Allowed
    BY <2>1, <2>2 DEF SessionInv, ApprovalInv, Issued
  <2>3. ASSUME NEW w \in Workers, pc[w] = "flashing"
        PROVE  identity = call[w].identity
    BY <2>3 DEF SessionInv, WholeInv, Decided
  <2>4. ASSUME NEW w \in Workers, accepted[w], NEW v \in Workers \ {w}, accepted[v]
        PROVE  taken[v].issued # taken[w].issued
    BY <2>1, <2>4 DEF SessionInv, ApprovalInv, Distinct
  <2> QED
    BY <2>1, <2>2, <2>3, <2>4 DEF AttemptIsApproved
<1> QED
  BY <1>1, SessionInvariant, PTL

(* Whatever is attempted is on record, and the record is true.             *)
THEOREM AttemptsOnRecord == Spec => []AttemptIsOnRecord
<1>1. SessionInv => AttemptIsOnRecord
  BY SessionAssumption
     DEF SessionInv, TypeInv, TypeOK, AttemptInv, RecordInv, Closing, Verdicts,
         AttemptIsOnRecord
<1> QED
  BY <1>1, SessionInvariant, PTL

(* Only an answer from the unit, or a flash of it, renews the identity.    *)
THEOREM UnitKept == Spec => SessionKeepsUnit
<1> DEFINE Kept == identity # None /\ identity' # None /\ transport' = transport
                     => Physical[identity'] = Physical[identity]
<1>1. ASSUME SessionInv, [Next]_vars
      PROVE  Kept
  <2>1. ASSUME NEW w \in Workers, Discover(w)
        PROVE  Kept
    BY <1>1, <2>1 DEF Discover, SessionInv, WholeInv, session
  <2>2. ASSUME NEW w \in Workers, Answer(w)
        PROVE  Kept
    BY <2>2 DEF Answer, SameUnit, Connected
  <2>3. ASSUME NEW w \in Workers, Adopt(w)
        PROVE  Kept
    BY <1>1, <2>3 DEF Adopt, AdoptIdentity, SessionInv, WholeInv, Decided, Closing
  <2>4. ASSUME NEW w \in Workers, Close(w) \/ Disconnect(w)
        PROVE  identity' \in {None, identity}
    BY <2>4 DEF Close, Disconnect, CloseLocked, Refuse, session
  <2>5. ASSUME Ui \/ Finished \/ UNCHANGED vars
        PROVE  identity' = identity
    BY <2>5 DEF Ui, InspectStart, InspectEnd, PreflightStart, PreflightEvaluate,
                PreflightIssue, Finished, workers, vars, session
  <2>6. ASSUME NEW w \in Workers,
               \/ Begin(w) \/ Attempt(w) \/ Enter(w) \/ OpenPort(w)
               \/ StartQuery(w) \/ RefuseQuery(w) \/ CheckFlash(w)
               \/ TakeApproval(w) \/ ConsumeApproval(w) \/ OpenTranscript(w)
               \/ EnterFlasher(w) \/ EndFlasher(w)
               \/ TruncateTranscript(w) \/ RewriteTranscript(w)
        PROVE  identity' = identity
    BY <2>6 DEF Begin, Attempt, Enter, OpenPort, StartQuery, RefuseQuery, Refuse,
                CheckFlash, TakeApproval, ConsumeApproval, OpenTranscript, EnterFlasher,
                EndFlasher, TruncateTranscript, RewriteTranscript, session
  <2> QED
    BY <1>1, <2>1, <2>2, <2>3, <2>4, <2>5, <2>6 DEF Next, Worker
<1> QED
  BY <1>1, SessionInvariant, PTL DEF Spec, SessionKeepsUnit
================================================================================
