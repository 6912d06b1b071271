----------------------------- MODULE FlasherProofs -----------------------------
(***************************************************************************)
(* What follows from FlashInv for flash(): its type correctness, its       *)
(* safety properties, and that it implements FlashContract.                *)
(***************************************************************************)
EXTENDS FlasherInductive

USE DEF Goto, job_vars, io_vars, unit

(* In every state of every attempt each variable has a value the code can  *)
(* give it; in particular no packet past the last one is ever counted.     *)
THEOREM FlashTypes == Spec => []TypeOK
  <1>1. FlashInv => TypeOK
    BY DEF FlashInv
  <1> QED
    BY <1>1, FlashInvariant, PTL

(* Boot entry is attempted only with approval, two matching identities,    *)
(* safe telemetry, the quiet interval and an open validity window.         *)
THEOREM FlashBootOnlyJustified == Spec => BootOnlyJustified
  <1>1. ASSUME FlashInv, [Next]_vars, attempted' # attempted
        PROVE  BootIsJustified
    <2>1. EnterBoot /\ ~Raise
      BY <1>1 DEF Next, Host, Unit, vars, host, Raise, PassTo, Notify, Finish, AwaitQuiet,
         CheckArguments, NotifyIdentities, ReadFirst, ReadSecond, NotifyEntering,
         NotifyTelemetry, ReadTelemetry, NotifyQuiet, AwaitPrebootQuiet, NotifyBoot,
         EnterBoot, SendEnterBootloader, StartTransfer, ReadBannerByte, NotifyReady,
         WritePacket, OpenReply, ReadAck, NotifyBlock, ReadCompletionPart,
         ReadCompletionEnd, ReadTimesOut,
         NotifyVerifying, AwaitBoot, ReadPostFirst, AwaitPostQuiet, ReadPostSecond,
         AwaitTelemetryQuiet, ReadPostTelemetry, FinishRecovery, FinishSuccess,
         UnitBoots, UnitRepeatsSync, UnitTakesPacket, Tick, Expire, Returned
    <2>2. pc = "boot_entry" /\ windowOpen
      BY <2>1 DEF EnterBoot
    <2>3. /\ ApprovalHolds /\ ImageBinds /\ first = {job.expected}
          /\ (\E p \in sample : ElectricallySafe(p)) /\ sinceQuery >= PrebootQuiet
      BY <1>1, <2>2 DEF FlashInv, BindingInv
    <2>4. job.approval = [sealed |-> TRUE, identity |-> job.expected, image |-> job.image]
      <3>1. job.approval \in Approvals /\ job.approval.sealed = TRUE
        BY <1>1, <2>3 DEF FlashInv, TypeOK, Jobs, Approvals, ApprovalHolds
      <3> QED
        BY <2>3, <3>1 DEF Approvals, ApprovalHolds
    <2>5. job.image.rebuilds /\ job.image.transfer_length > 0
      <3>1. job.image.transfer_length \in Nat
        BY <1>1, DataAssumption DEF FlashInv, TypeOK, Jobs
      <3> QED
        BY <2>3, <3>1 DEF ImageBinds
    <2> QED
      BY <2>2, <2>3, <2>4, <2>5 DEF BootIsJustified
  <1>2. FlashInv /\ [Next]_vars => [attempted' # attempted => BootIsJustified]_vars
    BY <1>1
  <1> QED
    BY <1>2, FlashInvariant, PTL DEF Spec, BootOnlyJustified

(* A result that flash() returns is true of the unit.                      *)
THEOREM FlashOutcomeIsTrue == Spec => []OutcomeIsTrue
  <1>1. FlashInv => OutcomeIsTrue
    BY DEF FlashInv, VerdictInv, OutcomeIsTrue, Updated
  <1> QED
    BY <1>1, FlashInvariant, PTL

(* Nothing is shown as transferred that the device has not stored.         *)
THEOREM FlashProgressIsAcknowledged == Spec => []ProgressIsAcknowledged
  <1>1. FlashInv => ProgressIsAcknowledged
    BY DEF FlashInv
  <1> QED
    BY <1>1, FlashInvariant, PTL

(* No read of the transfer can block past the transfer deadline.           *)
THEOREM FlashReadsEndByDeadline == Spec => []ReadsEndByDeadline
  <1>1. FlashInv => ReadsEndByDeadline
    BY DEF FlashInv, TimeInv
  <1> QED
    BY <1>1, FlashInvariant, PTL

(* transfer_read_timeout restores the prior timeout on every way out.      *)
THEOREM FlashOrdinaryTimeoutRestored == Spec => []OrdinaryTimeoutRestored
  <1>1. FlashInv => OrdinaryTimeoutRestored
    BY DEF FlashInv, TimeInv
  <1> QED
    BY <1>1, FlashInvariant, PTL

(***************************************************************************)
(* Escaping exceptions.                                                    *)
(***************************************************************************)
(* The docstring's promise holds as long as the two terminal notifications *)
(* do not raise: an exception that leaves flash() was raised before boot   *)
(* entry, by a unit nobody has touched.                                    *)
THEOREM FlashEscapeMeansNotBooted ==
  RaisingSinks \cap {"n_recovery", "n_success"} = {}
    => (Spec => []EscapeMeansNotBooted)
<1> SUFFICES ASSUME RaisingSinks \cap {"n_recovery", "n_success"} = {}
             PROVE  Spec => []EscapeMeansNotBooted
  OBVIOUS
<1> DEFINE Escaped == outcome = "raised" => attempted = FALSE
<1>1. Init => Escaped
  BY DEF Init
<1>2. ASSUME FlashInv, [Next]_vars, Escaped PROVE Escaped'
  <2>1. CASE outcome' = outcome
    <3>1. CASE outcome = "raised"
      <4>1. attempted = FALSE /\ pc = "returned"
        BY <1>2, <3>1 DEF FlashInv, ControlInv
      <4>2. attempted' = attempted \/ pc = "boot_entry"
        BY <1>2 DEF Next, Host, Unit, vars, host, Raise, PassTo, Notify, Finish,
         AwaitQuiet, CheckArguments, NotifyIdentities, ReadFirst, ReadSecond,
         NotifyEntering, NotifyTelemetry, ReadTelemetry, NotifyQuiet,
         AwaitPrebootQuiet, NotifyBoot, EnterBoot, SendEnterBootloader,
         StartTransfer, ReadBannerByte, NotifyReady, WritePacket, OpenReply, ReadAck,
         NotifyBlock, ReadCompletionPart, ReadCompletionEnd, ReadTimesOut,
         NotifyVerifying, AwaitBoot, ReadPostFirst, AwaitPostQuiet, ReadPostSecond,
         AwaitTelemetryQuiet, ReadPostTelemetry, FinishRecovery, FinishSuccess,
         UnitBoots, UnitRepeatsSync, UnitTakesPacket, Tick, Expire, Returned
      <4> QED
        BY <4>1, <4>2
    <3> QED
      BY <2>1, <3>1
  <2>2. CASE outcome' # outcome
    <3>1. Raise \/ FinishRecovery \/ FinishSuccess
      BY <1>2, <2>2 DEF Next, Host, Unit, vars, host, PassTo, Notify, AwaitQuiet,
         CheckArguments, NotifyIdentities, ReadFirst, ReadSecond, NotifyEntering,
         NotifyTelemetry, ReadTelemetry, NotifyQuiet, AwaitPrebootQuiet, NotifyBoot,
         EnterBoot, SendEnterBootloader, StartTransfer, ReadBannerByte, NotifyReady,
         WritePacket, OpenReply, ReadAck, NotifyBlock, ReadCompletionPart,
         ReadCompletionEnd, ReadTimesOut,
         NotifyVerifying, AwaitBoot, ReadPostFirst, AwaitPostQuiet, ReadPostSecond,
         AwaitTelemetryQuiet, ReadPostTelemetry,
         UnitBoots, UnitRepeatsSync, UnitTakesPacket, Tick, Expire, Returned
    <3>2. CASE Raise
      <4>1. attempted \in BOOLEAN
        BY <1>2 DEF FlashInv, TypeOK
      <4> QED
        BY <2>2, <3>2, <4>1 DEF Raise, Covered
    <3>3. CASE FinishRecovery \/ FinishSuccess
      BY <3>3 DEF FinishRecovery, FinishSuccess, Finish
    <3> QED
      BY <3>1, <3>2, <3>3
  <2> QED
    BY <2>1, <2>2
<1>3. ASSUME FlashInv, Escaped PROVE EscapeMeansNotBooted
  <2>1. CASE outcome = "raised"
    <3>1. attempted = FALSE /\ mode = "app" /\ written = 0
      BY <1>3, <2>1 DEF FlashInv, ControlInv
    <3>2. accepted \in Nat /\ accepted <= written
      BY <1>3, PacketTotalType DEF FlashInv, TypeOK, TransferInv
    <3>3. accepted = 0
      BY <3>1, <3>2
    <3> QED
      BY <3>1, <3>3 DEF EscapeMeansNotBooted
  <2> QED
    BY <2>1 DEF EscapeMeansNotBooted
<1> QED
  BY <1>1, <1>2, <1>3, FlashInvariant, PTL DEF Spec

(***************************************************************************)
(* Refinement.                                                             *)
(***************************************************************************)
(* An exception is a refusal before boot entry and a recovery after it.    *)
LEMMA RaiseRefines ==
  ASSUME FlashInv, Raise, pc \notin {"n_recovery", "n_success", "returned"},
         UNCHANGED <<PacketTotal, accepted>>
  PROVE  Contract!Refuse \/ Contract!Recover
  <1>1. /\ attempted \in BOOLEAN /\ verified = {} /\ Verdict = "open"
        /\ UNCHANGED <<attempted, written, verified>>
    BY DEF FlashInv, TypeOK, VerdictInv, Verdict, Raise
  <1>2. CASE attempted = TRUE
    BY <1>1, <1>2 DEF Raise, Covered, StopTarget, Verdict, Contract!Recover
  <1>3. CASE attempted = FALSE
    BY <1>1, <1>3 DEF Raise, Covered, Verdict, Contract!Refuse
  <1> QED
    BY <1>1, <1>2, <1>3

(* A step that moves neither packets nor the verdict is a stutter.         *)
LEMMA QuietRefines ==
  ASSUME FlashInv, pc \notin {"n_recovery", "n_success", "returned"},
         pc' \notin {"n_recovery", "n_success", "returned"},
         UNCHANGED <<PacketTotal, accepted, attempted, written, verified>>
  PROVE  UNCHANGED Contract!vars
  <1>1. verified = {}
    BY DEF FlashInv, VerdictInv
  <1>2. Verdict = "open" /\ Verdict' = "open"
    BY <1>1 DEF Verdict
  <1> QED
    BY <1>2 DEF Contract!vars

(* Every step is one of the contract's, or a stutter.                      *)
LEMMA StepRefines ==
  ASSUME FlashInv, [Next]_vars
  PROVE  [Contract!Next]_(Contract!vars)
<1> USE DEF PassTo, Notify, AwaitQuiet
<1>0. PacketTotal' = PacketTotal /\ PacketTotal \in Nat
  BY JobIsFixed, PacketTotalType DEF FlashInv, TypeOK
<1>1. ASSUME Raise, pc \notin {"n_recovery", "n_success", "returned"}, accepted' = accepted
      PROVE  Contract!Next
  BY <1>0, <1>1, RaiseRefines DEF Contract!Next
<1>2. ASSUME pc \notin {"n_recovery", "n_success", "returned"},
             pc' \notin {"n_recovery", "n_success", "returned"},
             UNCHANGED <<accepted, attempted, written, verified>>
      PROVE  UNCHANGED Contract!vars
  BY <1>0, <1>2, QuietRefines
<1>3. CASE StepsBefore
  <2>1. CASE EnterBoot
    <3>1. CASE Raise
      BY <1>1, <2>1, <3>1 DEF EnterBoot
    <3>2. CASE /\ pc = "boot_entry" /\ attempted' = TRUE /\ pc' = "send_boot"
               /\ UNCHANGED <<written, accepted, verified>>
      <4>1. attempted = FALSE /\ verified = {}
        BY <3>2 DEF FlashInv, ControlInv, BeforeBoot, VerdictInv
      <4>2. Verdict = "open" /\ Verdict' = "open"
        BY <3>2, <4>1 DEF Verdict
      <4> QED
        BY <1>0, <3>2, <4>1, <4>2 DEF Contract!Boot, Contract!Next
    <3> QED
      BY <2>1, <3>1, <3>2 DEF EnterBoot
  <2>2. CASE ~EnterBoot
    BY <1>1, <1>2, <1>3, <2>2 DEF StepsBefore, CheckArguments, NotifyIdentities, ReadFirst,
       ReadSecond, NotifyEntering, NotifyTelemetry, ReadTelemetry, NotifyQuiet,
       AwaitPrebootQuiet, NotifyBoot, SendEnterBootloader
  <2> QED
    BY <2>1, <2>2
<1>4. CASE StepsDuring
  <2>1. CASE WritePacket
    <3>1. CASE Raise
      BY <1>1, <2>1, <3>1 DEF WritePacket
    <3>2. CASE /\ pc = "write" /\ pc' = "open_reply" /\ written' = written + 1
               /\ UNCHANGED <<attempted, accepted, verified>>
      <4>1. attempted = TRUE /\ verified = {} /\ accepted = written /\ written < PacketTotal
        BY <3>2 DEF FlashInv, ControlInv, VerdictInv, TransferInv, Ready
      <4>2. Verdict = "open" /\ Verdict' = "open"
        BY <3>2, <4>1 DEF Verdict
      <4> QED
        BY <1>0, <3>2, <4>1, <4>2 DEF Contract!Send, Contract!Next
    <3> QED
      BY <2>1, <3>1, <3>2 DEF WritePacket
  <2>2. CASE ~WritePacket
    BY <1>1, <1>2, <1>4, <2>2 DEF StepsDuring, StartTransfer, ReadBannerByte, NotifyReady,
       OpenReply, ReadAck, NotifyBlock, ReadCompletionPart,
       ReadCompletionEnd, ReadTimesOut, TimeoutElapsed, Reading
  <2> QED
    BY <2>1, <2>2
<1>5. CASE StepsAfter
  <2>1. CASE ReadPostTelemetry
    <3>1. CASE Raise
      BY <1>1, <2>1, <3>1 DEF ReadPostTelemetry
    <3>2. CASE /\ pc = "post_telemetry" /\ pc' = "n_success" /\ verified' = post
               /\ UNCHANGED <<attempted, written, accepted>>
      <4>1. attempted = TRUE /\ verified = {} /\ accepted = PacketTotal /\ post # {}
        BY <3>2 DEF FlashInv, ControlInv, VerdictInv, TransferInv, Verifying
      <4>2. Verdict = "open" /\ Verdict' = "verified"
        BY <3>2, <4>1 DEF Verdict
      <4> QED
        BY <1>0, <3>2, <4>1, <4>2 DEF Contract!Verify, Contract!Next
    <3> QED
      BY <2>1, <3>1, <3>2 DEF ReadPostTelemetry
  <2>2. CASE FinishRecovery \/ FinishSuccess
    <3>1. /\ pc' = "returned" /\ pc \in {"n_recovery", "n_success"}
          /\ UNCHANGED <<attempted, written, accepted, verified>>
      BY <2>2 DEF FinishRecovery, FinishSuccess, Finish
    <3>2. attempted = TRUE /\ (pc = "n_success" => verified # {})
      BY <3>1 DEF FlashInv, ControlInv, VerdictInv, Verifying
    <3>3. Verdict' = Verdict
      BY <3>1, <3>2 DEF Verdict
    <3> QED
      BY <1>0, <3>1, <3>3 DEF Contract!vars
  <2>3. CASE ~ReadPostTelemetry /\ ~FinishRecovery /\ ~FinishSuccess
    BY <1>1, <1>2, <1>5, <2>3 DEF StepsAfter, NotifyVerifying, AwaitBoot, ReadPostFirst,
       AwaitPostQuiet, ReadPostSecond, AwaitTelemetryQuiet
  <2> QED
    BY <2>1, <2>2, <2>3
<1>6. CASE Surroundings
  <2>1. UNCHANGED <<pc, attempted, written, verified>>
    BY <1>6 DEF Surroundings, Unit, UnitBoots, UnitRepeatsSync, UnitTakesPacket,
       host, Tick, Expire, vars
  <2>2. Verdict' = Verdict
    BY <2>1 DEF Verdict
  <2>3. CASE accepted' = accepted
    BY <1>0, <2>1, <2>2, <2>3 DEF Contract!vars
  <2>4. CASE accepted' = wire /\ wire # 0
    <3>1. wire = written /\ written = accepted + 1 /\ accepted \in Nat
      BY <1>0, <2>4 DEF FlashInv, TransferInv, TypeOK
    <3> QED
      BY <1>0, <2>1, <2>2, <2>4, <3>1 DEF Contract!Hold, Contract!Next
  <2> QED
    BY <1>6, <2>3, <2>4 DEF Surroundings, Unit, UnitBoots, UnitRepeatsSync,
       UnitTakesPacket, Tick, Expire, vars
<1> QED
  BY <1>3, <1>4, <1>5, <1>6
     DEF Next, Host, Returned, StepsBefore, StepsDuring, StepsAfter, Surroundings

(* flash() is one attempt that never has more than one packet unanswered,  *)
(* repeats and skips none, and calls the flash verified only when every    *)
(* packet is stored: it implements FlashContract.                          *)
THEOREM FlashImplementsContract == Spec => ImplementsContract
  <1>1. Init => Contract!Init
    <2> SUFFICES ASSUME Init PROVE Contract!Init
      OBVIOUS
    <2>1. PacketTotal \in Nat
      BY PacketTotalType DEF Init
    <2> QED
      BY <2>1 DEF Init, Contract!Init, Verdict
  <1>2. FlashInv /\ [Next]_vars => [Contract!Next]_(Contract!vars)
    BY StepRefines
  <1> QED
    BY <1>1, <1>2, FlashInvariant, PTL DEF Spec, ImplementsContract, Contract!Spec
===============================================================================
