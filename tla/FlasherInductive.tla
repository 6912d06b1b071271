---------------------------- MODULE FlasherInductive ---------------------------
(***************************************************************************)
(* FlashInv is an invariant of flash(), for every set of devices, images,  *)
(* packs, sinks that raise and every timing.  One lemma per conjunct, and  *)
(* in each one step per group of actions that can disturb it.              *)
(***************************************************************************)
EXTENDS FlasherProperties, TLAPS

USE DEF Goto, job_vars, io_vars, unit

(***************************************************************************)
(* Arithmetic on the packet total and the deadline, after which neither    *)
(* definition is opened again.                                             *)
(***************************************************************************)

(* packetize_transfer_body: only the empty body has no packet.             *)
LEMMA PacketTotalType ==
  ASSUME job \in Jobs
  PROVE  /\ PacketTotal \in Nat
         /\ job.image.transfer_length # 0 => PacketTotal >= 1
  <1>1. job.image.transfer_length \in Nat
    BY DataAssumption DEF Jobs
  <1> QED
    BY <1>1 DEF PacketTotal, PacketCount, RegularCount, DATA_FIELD_SIZE

(* "max(300.0, len(packets) * 2.0)" is positive.                           *)
LEMMA DeadlineType ==
  ASSUME job \in Jobs
  PROVE  Deadline \in Nat \ {0}
  <1>1. PacketTotal \in Nat /\ DeadlinePerPacket \in Nat /\ DeadlineFloor \in Nat \ {0}
    BY PacketTotalType, TimeAssumption
  <1>2. PacketTotal * DeadlinePerPacket \in Nat
    BY <1>1
  <1> QED
    BY <1>1, <1>2 DEF Deadline, Larger

(* No step changes the arguments of the call.                              *)
LEMMA JobIsFixed ==
  ASSUME [Next]_vars
  PROVE  job' = job /\ PacketTotal' = PacketTotal /\ Deadline' = Deadline
  <1>1. job' = job
    BY DEF Next, Host, Unit, vars, host, Raise, PassTo, Notify, Finish, AwaitQuiet,
       CheckArguments, NotifyIdentities, ReadFirst, ReadSecond, NotifyEntering,
       NotifyTelemetry, ReadTelemetry, NotifyQuiet, AwaitPrebootQuiet, NotifyBoot,
       EnterBoot, SendEnterBootloader, StartTransfer, ReadBannerByte, NotifyReady,
       WritePacket, OpenReply, ReadAck, NotifyBlock, ReadCompletionPart,
       ReadCompletionEnd, ReadTimesOut,
       NotifyVerifying, AwaitBoot, ReadPostFirst, AwaitPostQuiet, ReadPostSecond,
       AwaitTelemetryQuiet, ReadPostTelemetry, FinishRecovery, FinishSuccess,
       UnitBoots, UnitRepeatsSync, UnitTakesPacket, Tick, Expire, Returned
  <1> QED
    BY <1>1 DEF PacketTotal, Deadline

(***************************************************************************)
(* Types.                                                                  *)
(***************************************************************************)
(* The arguments and the idle transport have their types.                  *)
LEMMA TypeInit == Init => TypeOK
  <1> SUFFICES ASSUME Init PROVE TypeOK
    OBVIOUS
  <1>1. PacketTotal \in Nat
    BY PacketTotalType DEF Init
  <1>2. shown \in [state : FlashStates, completed : 0 .. PacketTotal]
    BY <1>1 DEF Init, FlashStates
  <1>3. pc \in Locations
    BY DEF Init, Locations
  <1> QED
    BY <1>1, <1>2, <1>3, TimeAssumption DEF Init, TypeOK

(* No step gives a variable a value outside its type.                      *)
LEMMA TypeNext ==
  ASSUME FlashInv, [Next]_vars
  PROVE  TypeOK'
<1> USE TimeAssumption DEF Raise, PassTo, StopTarget, Covered, RestoreTimeout,
       Sinks, Reading, Locations, FlashStates, TypeOK
<1>0. PacketTotal' = PacketTotal /\ PacketTotal \in Nat /\ Deadline \in Nat \ {0} /\ TypeOK
  BY JobIsFixed, PacketTotalType, DeadlineType DEF FlashInv
<1>1. CASE CheckArguments
  BY <1>1, <1>0 DEF CheckArguments
<1>2. CASE NotifyIdentities
  BY <1>2, <1>0 DEF NotifyIdentities, Notify
<1>3. CASE ReadFirst
  BY <1>3, <1>0 DEF ReadFirst
<1>4. CASE ReadSecond
  BY <1>4, <1>0 DEF ReadSecond
<1>5. CASE NotifyEntering
  BY <1>5, <1>0 DEF NotifyEntering, Notify
<1>6. CASE NotifyTelemetry
  BY <1>6, <1>0 DEF NotifyTelemetry, Notify
<1>7. CASE ReadTelemetry
  BY <1>7, <1>0 DEF ReadTelemetry
<1>8. CASE NotifyQuiet
  BY <1>8, <1>0 DEF NotifyQuiet, Notify
<1>9. CASE AwaitPrebootQuiet
  BY <1>9, <1>0 DEF AwaitPrebootQuiet, AwaitQuiet
<1>10. CASE NotifyBoot
  BY <1>10, <1>0 DEF NotifyBoot, Notify
<1>11. CASE EnterBoot
  <2>1. CASE Raise
    BY <1>11, <1>0, <2>1 DEF EnterBoot
  <2>2. CASE /\ attempted' = TRUE /\ pc' = "send_boot" /\ waited' = 0
             /\ UNCHANGED <<job_vars, io_vars, written, outcome, shown, sinceQuery,
                            sinceStart, unit>>
    BY <1>0, <2>2
  <2> QED
    BY <1>11, <2>1, <2>2 DEF EnterBoot
<1>12. CASE SendEnterBootloader
  BY <1>12, <1>0 DEF SendEnterBootloader
<1>13. CASE StartTransfer
  BY <1>13, <1>0 DEF StartTransfer, OpenRead, CapReadTimeout, TimeRemains, Remaining, Smaller
<1>14. CASE ReadBannerByte
  BY <1>14, <1>0 DEF ReadBannerByte, OpenRead, CapReadTimeout, TimeRemains, Remaining, Smaller
<1>15. CASE NotifyReady
  BY <1>15, <1>0 DEF NotifyReady, Notify
<1>16. CASE WritePacket
  <2>1. pc = "write" => written + 1 \in 0 .. PacketTotal
    BY <1>0 DEF FlashInv, TransferInv, Ready
  <2> QED
    BY <1>16, <1>0, <2>1 DEF WritePacket
<1>17. CASE OpenReply
  <2>1. CASE Raise
    BY <1>17, <1>0, <2>1 DEF OpenReply
  <2>2. CASE ~Raise
    <3>1. /\ TimeRemains /\ OpenRead(Smaller(AckTimeout, Remaining))
          /\ pc' \in {"ack", "completion"} /\ waited' = 0
          /\ UNCHANGED <<job_vars, attempted, written, outcome, shown, sinceQuery,
                         sinceStart, unit>>
      BY <1>17, <2>2 DEF OpenReply
    <3>2. Smaller(AckTimeout, Remaining) \in Nat \ {0}
      BY <1>0, <3>1 DEF TimeRemains, Remaining, Smaller
    <3> QED
      BY <1>0, <3>1, <3>2 DEF OpenRead
  <2> QED
    BY <2>1, <2>2
<1>18. CASE ReadAck
  BY <1>18, <1>0 DEF ReadAck
<1>19. CASE NotifyBlock
  BY <1>19, <1>0 DEF NotifyBlock, Notify
<1>20. CASE ReadCompletionPart
  <2>1. CASE Raise
    BY <1>20, <1>0, <2>1 DEF ReadCompletionPart
  <2>2. CASE TimeRemains /\ ~Raise
    <3>1. Smaller(ceiling, Remaining) \in Nat \ {0}
      BY <1>0, <2>2 DEF TimeRemains, Remaining, Smaller
    <3>2. got' \in Nat
      BY <1>20, <1>0, <2>2 DEF ReadCompletionPart
    <3>3. clean' \in BOOLEAN
      BY <1>20, <2>2 DEF ReadCompletionPart
    <3> QED
      BY <1>20, <1>0, <2>2, <3>1, <3>2, <3>3 DEF ReadCompletionPart, CapReadTimeout
  <2> QED
    BY <1>20, <2>1, <2>2 DEF ReadCompletionPart
<1>21. CASE ReadCompletionEnd
  BY <1>21, <1>0 DEF ReadCompletionEnd, TimeRemains, Remaining
<1>22. CASE ReadTimesOut
  BY <1>22, <1>0 DEF ReadTimesOut
<1>23. CASE NotifyVerifying
  BY <1>23, <1>0 DEF NotifyVerifying, Notify
<1>24. CASE AwaitBoot
  BY <1>24, <1>0 DEF AwaitBoot
<1>25. CASE ReadPostFirst
  BY <1>25, <1>0 DEF ReadPostFirst
<1>26. CASE AwaitPostQuiet
  BY <1>26, <1>0 DEF AwaitPostQuiet, AwaitQuiet
<1>27. CASE ReadPostSecond
  BY <1>27, <1>0 DEF ReadPostSecond
<1>28. CASE AwaitTelemetryQuiet
  BY <1>28, <1>0 DEF AwaitTelemetryQuiet, AwaitQuiet
<1>29. CASE ReadPostTelemetry
  BY <1>29, <1>0 DEF ReadPostTelemetry
<1>30. CASE FinishRecovery
  BY <1>30, <1>0 DEF FinishRecovery, Finish
<1>31. CASE FinishSuccess
  BY <1>31, <1>0 DEF FinishSuccess, Finish
<1>32. CASE UnitBoots
  BY <1>32, <1>0 DEF UnitBoots, host
<1>33. CASE UnitRepeatsSync
  BY <1>33, <1>0 DEF UnitRepeatsSync, host
<1>34. CASE UnitTakesPacket
  BY <1>34, <1>0 DEF UnitTakesPacket, host
<1>35. CASE Tick
  BY <1>35, <1>0 DEF Tick, Counted
<1>36. CASE Expire
  <2>1. /\ windowOpen' \in BOOLEAN
        /\ UNCHANGED <<pc, job_vars, io_vars, attempted, written, outcome, shown, waited,
                       sinceQuery, sinceStart, mode, wire, accepted, reply>>
    BY <1>36 DEF Expire
  <2> QED
    BY <1>0, <2>1
<1>37. CASE Returned
  BY <1>37, <1>0 DEF Returned, vars
<1>38. CASE UNCHANGED vars
  BY <1>38, <1>0 DEF vars
<1> QED
  BY <1>1, <1>2, <1>3, <1>4, <1>5, <1>6, <1>7, <1>8, <1>9, <1>10, <1>11, <1>12,
     <1>13, <1>14, <1>15, <1>16, <1>17, <1>18, <1>19, <1>20, <1>21, <1>22, <1>23,
     <1>24, <1>25, <1>26, <1>27, <1>28, <1>29, <1>30, <1>31, <1>32, <1>33, <1>34,
     <1>35, <1>36, <1>37, <1>38 DEF Next, Host, Unit

(***************************************************************************)
(* Control.                                                                *)
(***************************************************************************)
(* The steps of flash() before, during and after the transfer.             *)
StepsBefore ==
  \/ CheckArguments \/ NotifyIdentities \/ ReadFirst \/ ReadSecond
  \/ NotifyEntering \/ NotifyTelemetry \/ ReadTelemetry \/ NotifyQuiet
  \/ AwaitPrebootQuiet \/ NotifyBoot \/ EnterBoot \/ SendEnterBootloader
StepsDuring ==
  \/ StartTransfer \/ ReadBannerByte \/ NotifyReady
  \/ WritePacket \/ OpenReply \/ ReadAck \/ NotifyBlock
  \/ ReadCompletionPart \/ ReadCompletionEnd \/ ReadTimesOut
StepsAfter ==
  \/ NotifyVerifying \/ AwaitBoot \/ ReadPostFirst \/ AwaitPostQuiet
  \/ ReadPostSecond \/ AwaitTelemetryQuiet \/ ReadPostTelemetry
  \/ FinishRecovery \/ FinishSuccess
Surroundings == Unit \/ Tick \/ Expire \/ UNCHANGED vars

(* Only boot entry sets boot_entry_attempted, and nothing clears it.       *)
LEMMA ControlNext ==
  ASSUME FlashInv, [Next]_vars
  PROVE  ControlInv'
<1> USE DEF Raise, PassTo, StopTarget, Covered, Notify, Finish, AwaitQuiet,
            ControlInv, BeforeBoot, Booting, Ready, Awaiting, Verifying, Reading
<1>0. ControlInv
  BY DEF FlashInv
<1>1. CASE StepsBefore
  BY <1>1, <1>0 DEF StepsBefore, CheckArguments, NotifyIdentities, ReadFirst, ReadSecond,
     NotifyEntering, NotifyTelemetry, ReadTelemetry, NotifyQuiet, AwaitPrebootQuiet,
     NotifyBoot, EnterBoot, SendEnterBootloader
<1>2. CASE StepsDuring
  BY <1>2, <1>0 DEF StepsDuring, StartTransfer, ReadBannerByte, NotifyReady,
     WritePacket, OpenReply, ReadAck, NotifyBlock, ReadCompletionPart,
     ReadCompletionEnd, ReadTimesOut, TimeoutElapsed
<1>3. CASE StepsAfter
  BY <1>3, <1>0 DEF StepsAfter, NotifyVerifying, AwaitBoot, ReadPostFirst,
     AwaitPostQuiet, ReadPostSecond, AwaitTelemetryQuiet, ReadPostTelemetry,
     FinishRecovery, FinishSuccess
<1>4. CASE Surroundings
  BY <1>4, <1>0 DEF Surroundings, Unit, UnitBoots, UnitRepeatsSync, UnitTakesPacket,
     host, Tick, Expire, vars
<1> QED
  BY <1>1, <1>2, <1>3, <1>4
     DEF Next, Host, Returned, StepsBefore, StepsDuring, StepsAfter, Surroundings

(* The handler's two ways out, before and after boot entry was attempted.  *)
LEMMA RaiseEffect ==
  ASSUME ControlInv, Raise
  PROVE  /\ pc' \in {"n_recovery", "returned"}
         /\ pc \in BeforeBoot => pc' = "returned"
         /\ UNCHANGED <<job_vars, attempted, written, shown, previous, ceiling, got,
                        clean, sinceQuery, sinceStart>>
BY DEF Raise, ControlInv, Covered, StopTarget

(* Each step of flash() keeps what was checked before it.                  *)
LEMMA BindingNext ==
  ASSUME FlashInv, [Next]_vars
  PROVE  BindingInv'
<1> USE RaiseEffect DEF PassTo, Notify, Finish, AwaitQuiet,
            BeforeBoot, Booting, Ready, Awaiting, Verifying, Reading, BindingInv
<1>0. /\ BindingInv /\ job' = job /\ ControlInv
      /\ (ApprovalHolds' <=> ApprovalHolds) /\ (ImageBinds' <=> ImageBinds)
      /\ sinceQuery \in Nat /\ PrebootQuiet \in Nat
  BY JobIsFixed, TimeAssumption DEF FlashInv, TypeOK, ApprovalHolds, ImageBinds
<1>1. CASE StepsBefore
  <2>1. CASE CheckArguments
    BY <2>1, <1>0 DEF CheckArguments
  <2>2. CASE ReadSecond
    BY <2>2, <1>0 DEF ReadSecond
  <2>3. CASE ReadTelemetry
    BY <2>3, <1>0 DEF ReadTelemetry
  <2>4. CASE AwaitPrebootQuiet
    BY <2>4, <1>0 DEF AwaitPrebootQuiet
  <2>5. CASE NotifyIdentities \/ ReadFirst \/ NotifyEntering \/ NotifyTelemetry
    BY <2>5, <1>0 DEF NotifyIdentities, ReadFirst, NotifyEntering, NotifyTelemetry
  <2>6. CASE NotifyQuiet \/ NotifyBoot \/ EnterBoot \/ SendEnterBootloader
    BY <2>6, <1>0 DEF NotifyQuiet, NotifyBoot, EnterBoot, SendEnterBootloader
  <2> QED
    BY <1>1, <2>1, <2>2, <2>3, <2>4, <2>5, <2>6 DEF StepsBefore
<1>2. CASE StepsDuring
  BY <1>2, <1>0 DEF StepsDuring, StartTransfer, ReadBannerByte, NotifyReady,
     WritePacket, OpenReply, ReadAck, NotifyBlock, ReadCompletionPart,
     ReadCompletionEnd, ReadTimesOut, TimeoutElapsed
<1>3. CASE StepsAfter
  BY <1>3, <1>0 DEF StepsAfter, NotifyVerifying, AwaitBoot, ReadPostFirst,
     AwaitPostQuiet, ReadPostSecond, AwaitTelemetryQuiet, ReadPostTelemetry,
     FinishRecovery, FinishSuccess
<1>4. CASE Surroundings
  <2>1. CASE Tick
    BY <2>1, <1>0 DEF Tick, Counted
  <2>2. CASE Unit \/ Expire \/ UNCHANGED vars
    BY <2>2, <1>0 DEF Unit, UnitBoots, UnitRepeatsSync, UnitTakesPacket, host, Expire, vars
  <2> QED
    BY <1>4, <2>1, <2>2 DEF Surroundings
<1> QED
  BY <1>1, <1>2, <1>3, <1>4
     DEF Next, Host, Returned, StepsBefore, StepsDuring, StepsAfter, Surroundings

(* Host and unit stay within one packet of each other.                     *)
LEMMA TransferNext ==
  ASSUME FlashInv, [Next]_vars
  PROVE  TransferInv'
<1> USE RaiseEffect DEF PassTo, Notify, Finish, AwaitQuiet,
            BeforeBoot, Booting, Ready, Awaiting, Verifying, Reading, TransferInv, ControlInv
<1>0. /\ TransferInv /\ ControlInv /\ PacketTotal' = PacketTotal
      /\ PacketTotal \in Nat /\ written \in Nat /\ accepted \in Nat /\ wire \in Nat
      /\ written <= PacketTotal
      /\ pc \notin {"check", "returned"} => PacketTotal >= 1
  BY JobIsFixed, PacketTotalType DEF FlashInv, TypeOK, BindingInv, ImageBinds
<1>1. CASE StepsBefore
  BY <1>1, <1>0 DEF StepsBefore, CheckArguments, NotifyIdentities, ReadFirst, ReadSecond,
     NotifyEntering, NotifyTelemetry, ReadTelemetry, NotifyQuiet, AwaitPrebootQuiet,
     NotifyBoot, EnterBoot, SendEnterBootloader
<1>2. CASE StepsDuring
  <2>1. CASE StartTransfer
    BY <2>1, <1>0 DEF StartTransfer
  <2>2. CASE ReadBannerByte
    <3>1. pc = "banner" /\ pc' \in {"banner", "n_ready", "n_recovery", "returned"}
          /\ UNCHANGED <<written, accepted, wire, reply>>
      BY <2>2, <1>0 DEF ReadBannerByte
    <3>2. accepted = 0 /\ written = 0 /\ reply = "none" /\ PacketTotal >= 1
      BY <1>0, <3>1
    <3> QED
      BY <1>0, <3>1, <3>2
  <2>3. CASE NotifyReady \/ NotifyBlock
    <3>1. pc \in {"n_ready", "n_block"} /\ pc' \in {"write", "n_recovery", "returned"}
          /\ UNCHANGED <<written, accepted, wire, reply>>
      BY <2>3, <1>0 DEF NotifyReady, NotifyBlock
    <3> QED
      BY <1>0, <3>1
  <2>4. CASE WritePacket
    <3>1. CASE Raise
      BY <2>4, <3>1, <1>0 DEF WritePacket
    <3>2. CASE /\ pc = "write" /\ pc' = "open_reply"
               /\ written' = written + 1 /\ wire' = written + 1
               /\ UNCHANGED <<accepted, reply>>
      <4>1. accepted = written /\ written < PacketTotal /\ reply \in {"none", "noise"}
        BY <1>0, <3>2
      <4> QED
        BY <1>0, <3>2, <4>1
    <3> QED
      BY <2>4, <3>1, <3>2 DEF WritePacket
  <2>5. CASE OpenReply
    <3>1. CASE Raise
      BY <2>5, <3>1, <1>0 DEF OpenReply
    <3>2. CASE /\ pc = "open_reply"
               /\ pc' = (IF written < PacketTotal THEN "ack" ELSE "completion")
               /\ UNCHANGED <<written, accepted, wire, reply>>
      BY <1>0, <3>2
    <3> QED
      BY <2>5, <3>1, <3>2 DEF OpenReply
  <2>6. CASE ReadAck
    BY <2>6, <1>0 DEF ReadAck, IsAck
  <2>7. CASE ReadCompletionPart
    BY <2>7, <1>0 DEF ReadCompletionPart
  <2>8. CASE ReadCompletionEnd
    BY <2>8, <1>0 DEF ReadCompletionEnd
  <2>9. CASE ReadTimesOut
    BY <2>9, <1>0 DEF ReadTimesOut, TimeoutElapsed
  <2> QED
    BY <1>2, <2>1, <2>2, <2>3, <2>4, <2>5, <2>6, <2>7, <2>8, <2>9 DEF StepsDuring
<1>3. CASE StepsAfter
  BY <1>3, <1>0 DEF StepsAfter, NotifyVerifying, AwaitBoot, ReadPostFirst,
     AwaitPostQuiet, ReadPostSecond, AwaitTelemetryQuiet, ReadPostTelemetry,
     FinishRecovery, FinishSuccess
<1>4. CASE Surroundings
  <2>1. CASE UnitTakesPacket
    BY <2>1, <1>0 DEF UnitTakesPacket, host
  <2>2. CASE UnitBoots \/ UnitRepeatsSync
    BY <2>2, <1>0 DEF UnitBoots, UnitRepeatsSync, Transferring, host
  <2>3. CASE Tick \/ Expire \/ UNCHANGED vars
    BY <2>3, <1>0 DEF Tick, Expire, vars
  <2> QED
    BY <1>4, <2>1, <2>2, <2>3 DEF Surroundings, Unit
<1> QED
  BY <1>1, <1>2, <1>3, <1>4
     DEF Next, Host, Returned, StepsBefore, StepsDuring, StepsAfter, Surroundings

(* A success is reported of the unit whose two answers were compared.      *)
LEMMA VerdictNext ==
  ASSUME FlashInv, [Next]_vars
  PROVE  VerdictInv'
<1> USE RaiseEffect DEF PassTo, Notify, Finish, AwaitQuiet, VerdictInv
<1>0. /\ VerdictInv /\ ControlInv /\ job' = job /\ PacketTotal' = PacketTotal
      /\ \A i : Updated(i)' <=> Updated(i)
      /\ (pc = "n_recovery" \/ pc \in Verifying) => attempted = TRUE
      /\ pc \in Verifying => first = {job.expected} /\ accepted = PacketTotal
  BY JobIsFixed DEF FlashInv, Updated, BindingInv, TransferInv, ControlInv, Verifying
<1>1. CASE StepsBefore
  <2>1. pc \in BeforeBoot \cup {"send_boot"} /\ UNCHANGED <<verified, accepted>>
        /\ pc' \in BeforeBoot \cup {"send_boot", "open_banner", "n_recovery", "returned"}
        /\ outcome' \in {outcome, "raised"}
    BY <1>1, <1>0 DEF StepsBefore, CheckArguments, NotifyIdentities, ReadFirst,
       ReadSecond, NotifyEntering, NotifyTelemetry, ReadTelemetry, NotifyQuiet,
       AwaitPrebootQuiet, NotifyBoot, EnterBoot, SendEnterBootloader, BeforeBoot, Raise
  <2>2. pc \notin {"n_success", "returned"} /\ verified = {} /\ outcome = "none"
    BY <1>0, <2>1 DEF BeforeBoot, ControlInv
  <2> QED
    BY <1>0, <2>1, <2>2 DEF BeforeBoot
<1>2. CASE StepsDuring
  <2>1. pc \in Transferring \cup {"open_banner"} /\ UNCHANGED verified
        /\ pc' \in Transferring \cup {"n_verifying", "n_recovery", "returned"}
        /\ outcome' \in {outcome, "raised"}
    BY <1>2, <1>0 DEF StepsDuring, StartTransfer, ReadBannerByte, NotifyReady,
       WritePacket, OpenReply, ReadAck, NotifyBlock, ReadCompletionPart,
       ReadCompletionEnd, ReadTimesOut, TimeoutElapsed, Transferring, Reading, Raise
  <2>2. pc \notin {"n_success", "returned"} /\ verified = {} /\ outcome = "none"
    BY <1>0, <2>1 DEF Transferring, Reading, ControlInv
  <2> QED
    BY <1>0, <2>1, <2>2 DEF Transferring, Reading
<1>3. CASE StepsAfter
  <2>1. CASE NotifyVerifying \/ AwaitBoot \/ ReadPostFirst \/ AwaitPostQuiet \/ AwaitTelemetryQuiet
    <3>1. pc \in {"n_verifying", "boot_delay", "post_first", "post_quiet", "telemetry_quiet"}
          /\ UNCHANGED verified
      BY <2>1 DEF NotifyVerifying, AwaitBoot, ReadPostFirst, AwaitPostQuiet,
         AwaitTelemetryQuiet, Raise
    <3>2. verified = {} /\ outcome = "none"
      BY <1>0, <3>1 DEF ControlInv
    <3>3. /\ pc' \in {"boot_delay", "post_first", "post_quiet", "post_second",
                     "post_telemetry", "n_recovery", "returned"}
          /\ outcome' \in {outcome, "raised"}
          /\ pc' = "post_telemetry" => pc = "telemetry_quiet" /\ post' = post
      BY <2>1, <1>0 DEF NotifyVerifying, AwaitBoot, ReadPostFirst, AwaitPostQuiet,
         AwaitTelemetryQuiet, Raise
    <3> QED
      BY <1>0, <3>1, <3>2, <3>3
  <2>2. CASE ReadPostSecond
    <3>1. /\ pc = "post_second" /\ UNCHANGED <<verified, post>>
          /\ \/ /\ pc' = "telemetry_quiet" /\ outcome' = outcome
                /\ \E i \in Identities : IsUpdated(i)
             \/ pc' \in {"n_recovery", "returned"} /\ outcome' \in {outcome, "raised"}
      BY <2>2, <1>0 DEF ReadPostSecond, Raise
    <3>2. verified = {} /\ outcome = "none" /\ first = {job.expected}
      BY <1>0, <3>1 DEF ControlInv, Verifying
    <3>3. \A i \in Identities : IsUpdated(i) => i \in post /\ Updated(i)
      BY <3>2 DEF IsUpdated, Updated
    <3>4. pc' = "telemetry_quiet" => \E i \in post' : Updated(i)'
      BY <1>0, <3>1, <3>3
    <3> QED
      BY <1>0, <3>1, <3>2, <3>4
  <2>3. CASE ReadPostTelemetry
    <3>1. pc = "post_telemetry" /\ verified = {} /\ outcome = "none" /\ attempted = TRUE
          /\ accepted = PacketTotal /\ (\E i \in post : Updated(i))
      BY <2>3, <1>0 DEF ReadPostTelemetry, ControlInv, Verifying
    <3>2. CASE Raise
      BY <2>3, <1>0, <3>1, <3>2 DEF ReadPostTelemetry, Raise
    <3>3. CASE /\ mode = "app" /\ verified' = post /\ pc' = "n_success"
               /\ UNCHANGED <<post, attempted, outcome, mode, accepted>>
      BY <1>0, <3>1, <3>3
    <3> QED
      BY <2>3, <3>2, <3>3 DEF ReadPostTelemetry
  <2>4. CASE FinishRecovery \/ FinishSuccess
    BY <2>4, <1>0 DEF FinishRecovery, FinishSuccess, ControlInv, Verifying
  <2> QED
    BY <1>3, <2>1, <2>2, <2>3, <2>4 DEF StepsAfter
<1>4. CASE Surroundings
  <2>1. UNCHANGED <<pc, post, verified, attempted, outcome>>
    BY <1>4 DEF Surroundings, Unit, UnitBoots, UnitRepeatsSync, UnitTakesPacket,
       host, Tick, Expire, vars
  <2>2. mode = "app" => UNCHANGED <<mode, accepted>>
    BY <1>4 DEF Surroundings, Unit, UnitBoots, UnitRepeatsSync, UnitTakesPacket,
       Tick, Expire, vars
  <2> QED
    BY <1>0, <2>1, <2>2
<1> QED
  BY <1>1, <1>2, <1>3, <1>4
     DEF Next, Host, Returned, StepsBefore, StepsDuring, StepsAfter, Surroundings

(* A read of the transfer is opened with the ordinary timeout in force and *)
(* puts it back; its own timeout never reaches past the deadline.          *)
LEMMA TimeNext ==
  ASSUME FlashInv, [Next]_vars
  PROVE  TimeInv'
<1> USE DEF PassTo, Notify, Finish, AwaitQuiet, TimeInv, ReadsEndByDeadline,
            OrdinaryTimeoutRestored
<1>0. /\ TimeInv /\ Deadline' = Deadline /\ Deadline \in Nat
      /\ read_timeout \in Nat /\ ceiling \in Nat /\ waited \in Nat /\ sinceStart \in Nat
      /\ AckTimeout \in Nat
  BY JobIsFixed, DeadlineType, TimeAssumption DEF FlashInv, TypeOK
<1>1. ASSUME Raise PROVE TimeInv'
  <2>1. pc' \in {"n_recovery", "returned"}
    BY <1>1, RaiseEffect DEF FlashInv
  <2>2. read_timeout' = ReadTimeout
    BY <1>0, <1>1 DEF Raise, RestoreTimeout
  <2> QED
    BY <2>1, <2>2 DEF Reading
<1>2. ASSUME pc \notin Reading, pc' \notin Reading, UNCHANGED read_timeout
      PROVE  TimeInv'
  BY <1>0, <1>2
<1>3. CASE StepsBefore
  BY <1>1, <1>2, <1>3 DEF StepsBefore, CheckArguments, NotifyIdentities, ReadFirst,
     ReadSecond, NotifyEntering, NotifyTelemetry, ReadTelemetry, NotifyQuiet,
     AwaitPrebootQuiet, NotifyBoot, EnterBoot, SendEnterBootloader, Reading
<1>4. CASE StepsDuring
  <2>1. CASE StartTransfer
    <3>1. /\ pc = "open_banner" /\ pc' = "banner" /\ waited' = 0 /\ sinceStart' = 0
          /\ previous' = read_timeout /\ read_timeout' = Smaller(AckTimeout, Deadline)
      BY <2>1 DEF StartTransfer, OpenRead
    <3>2. previous' = ReadTimeout
      BY <1>0, <3>1 DEF Reading
    <3>3. read_timeout' \in Nat /\ read_timeout' <= Deadline
      BY <1>0, <3>1 DEF Smaller
    <3> QED
      BY <1>0, <3>1, <3>2, <3>3 DEF Reading
  <2>2. CASE OpenReply
    <3>1. CASE TimeRemains /\ ~Raise
      <4>1. /\ pc = "open_reply" /\ pc' \in {"ack", "completion"} /\ waited' = 0
            /\ sinceStart' = sinceStart /\ previous' = read_timeout
            /\ read_timeout' = Smaller(AckTimeout, Remaining)
        BY <2>2, <3>1 DEF OpenReply, OpenRead
      <4>2. previous' = ReadTimeout
        BY <1>0, <4>1 DEF Reading
      <4>3. read_timeout' \in Int /\ sinceStart + read_timeout' <= Deadline
        BY <1>0, <4>1 DEF Smaller, Remaining
      <4> QED
        BY <1>0, <4>1, <4>2, <4>3 DEF Reading
    <3> QED
      BY <1>1, <2>2, <3>1 DEF OpenReply
  <2>3. ASSUME pc \in Reading, CapReadTimeout, UNCHANGED <<pc, sinceStart>>
        PROVE  TimeInv'
    <3>1. read_timeout' \in Int /\ sinceStart + read_timeout' <= Deadline
      BY <1>0, <2>3 DEF CapReadTimeout, Smaller, Remaining
    <3> QED
      BY <1>0, <2>3, <3>1 DEF CapReadTimeout
  <2>4. ASSUME pc \in Reading, pc' \notin Reading, RestoreTimeout
        PROVE  TimeInv'
    BY <1>0, <2>4 DEF RestoreTimeout
  <2>5. CASE ReadBannerByte \/ ReadCompletionPart
    BY <1>1, <2>3, <2>4, <2>5 DEF ReadBannerByte, ReadCompletionPart, Reading
  <2>6. CASE ReadAck \/ ReadCompletionEnd \/ ReadTimesOut
    BY <1>1, <2>4, <2>6 DEF ReadAck, ReadCompletionEnd, ReadTimesOut, Reading
  <2>7. CASE NotifyReady \/ NotifyBlock \/ WritePacket
    BY <1>1, <1>2, <2>7 DEF NotifyReady, NotifyBlock, WritePacket, Reading
  <2> QED
    BY <1>4, <2>1, <2>2, <2>5, <2>6, <2>7 DEF StepsDuring
<1>5. CASE StepsAfter
  BY <1>1, <1>2, <1>5 DEF StepsAfter, NotifyVerifying, AwaitBoot, ReadPostFirst,
     AwaitPostQuiet, ReadPostSecond, AwaitTelemetryQuiet, ReadPostTelemetry,
     FinishRecovery, FinishSuccess, Reading
<1>6. CASE Surroundings
  <2>1. CASE Tick
    <3>1. CASE pc \in Reading
      <4>1. /\ waited' = waited + 1 /\ UNCHANGED <<pc, previous, read_timeout>>
        BY <2>1, <3>1 DEF Tick
      <4>4. sinceStart' \in Nat /\ sinceStart' <= sinceStart + 1
        BY <1>0, <2>1 DEF Tick, Counted
      <4>2. sinceStart + (read_timeout - waited) <= Deadline
        BY <1>0, <3>1
      <4>3. sinceStart' + (read_timeout' - waited') <= Deadline
        <5>1. read_timeout \in Int /\ waited \in Int /\ sinceStart \in Int /\ Deadline \in Int
          BY <1>0
        <5>2. read_timeout' - waited' = (read_timeout - waited) - 1
          BY <5>1, <4>1
        <5> QED
          BY <5>1, <5>2, <4>2, <4>4
      <4> QED
        BY <1>0, <3>1, <4>1, <4>3
    <3>2. CASE pc \notin Reading
      BY <1>2, <2>1, <3>2 DEF Tick
    <3> QED
      BY <3>1, <3>2
  <2>2. CASE Unit \/ Expire \/ UNCHANGED vars
    <3>1. UNCHANGED <<pc, previous, read_timeout, waited, sinceStart>>
      BY <2>2 DEF Unit, UnitBoots, UnitRepeatsSync, UnitTakesPacket, host, Expire, vars
    <3> QED
      BY <1>0, <3>1
  <2> QED
    BY <1>6, <2>1, <2>2 DEF Surroundings
<1> QED
  BY <1>3, <1>4, <1>5, <1>6
     DEF Next, Host, Returned, StepsBefore, StepsDuring, StepsAfter, Surroundings

(* What the sink shows has been acknowledged when it is shown.             *)
LEMMA ProgressNext ==
  ASSUME FlashInv, [Next]_vars
  PROVE  ProgressIsAcknowledged'
<1> USE DEF ProgressIsAcknowledged
<1>0. /\ ProgressIsAcknowledged /\ PacketTotal' = PacketTotal /\ PacketTotal \in Nat
      /\ accepted \in 0 .. PacketTotal /\ accepted' \in 0 .. PacketTotal
      /\ shown.completed \in Nat
  BY JobIsFixed, PacketTotalType, TypeNext DEF FlashInv, TypeOK
<1>1. ASSUME shown' = shown, accepted' >= accepted PROVE ProgressIsAcknowledged'
  BY <1>0, <1>1
<1>2. ASSUME Raise, accepted' = accepted PROVE ProgressIsAcknowledged'
  BY <1>0, <1>1, <1>2 DEF Raise
<1>3. ASSUME NEW s \in {"PREFLIGHT", "ENTERING_BOOTLOADER", "TRANSFERRING",
                        "RECOVERY_REQUIRED"},
             NEW c \in {0, written}, c = 0 \/ accepted = written,
             shown' = [state |-> s, completed |-> c], accepted' = accepted
      PROVE  ProgressIsAcknowledged'
  BY <1>0, <1>3
<1>4. ASSUME NEW s \in {"VERIFYING", "SUCCEEDED"}, pc \in Verifying,
             shown' = [state |-> s, completed |-> PacketTotal], accepted' = accepted
      PROVE  ProgressIsAcknowledged'
  BY <1>0, <1>4 DEF FlashInv, TransferInv
<1>5. CASE StepsBefore
  BY <1>0, <1>1, <1>2, <1>3, <1>5 DEF StepsBefore, PassTo, Notify, AwaitQuiet, unit,
     CheckArguments, NotifyIdentities, ReadFirst,
     ReadSecond, NotifyEntering, NotifyTelemetry, ReadTelemetry, NotifyQuiet,
     AwaitPrebootQuiet, NotifyBoot, EnterBoot, SendEnterBootloader
<1>6. CASE StepsDuring
  <2>1. CASE NotifyReady
    BY <1>2, <1>3, <2>1 DEF NotifyReady, Notify
  <2>2. CASE NotifyBlock
    <3>1. accepted = written
      BY <2>2 DEF NotifyBlock, Notify, FlashInv, TransferInv, Ready
    <3> QED
      BY <1>2, <1>3, <2>2, <3>1 DEF NotifyBlock, Notify
  <2>3. CASE ~NotifyReady /\ ~NotifyBlock
    <3>1. (Raise \/ shown' = shown) /\ accepted' = accepted
      BY <1>6, <2>3 DEF StepsDuring, StartTransfer, ReadBannerByte, WritePacket,
         OpenReply, ReadAck, ReadCompletionPart, ReadCompletionEnd, ReadTimesOut
    <3> QED
      BY <1>0, <1>1, <1>2, <3>1
  <2> QED
    BY <2>1, <2>2, <2>3
<1>7. CASE StepsAfter
  <2>1. CASE NotifyVerifying
    BY <1>2, <1>4, <2>1 DEF NotifyVerifying, Notify, Verifying
  <2>2. CASE FinishRecovery
    BY <1>0, <1>1, <1>3, <2>2 DEF FinishRecovery, Finish
  <2>3. CASE FinishSuccess
    BY <1>0, <1>1, <1>4, <2>3 DEF FinishSuccess, Finish, Verifying
  <2>4. CASE ~NotifyVerifying /\ ~FinishRecovery /\ ~FinishSuccess
    <3>1. (Raise \/ shown' = shown) /\ accepted' = accepted
      BY <1>7, <2>4 DEF StepsAfter, PassTo, AwaitQuiet, AwaitBoot, ReadPostFirst,
         AwaitPostQuiet, ReadPostSecond, AwaitTelemetryQuiet, ReadPostTelemetry
    <3> QED
      BY <1>0, <1>1, <1>2, <3>1
  <2> QED
    BY <2>1, <2>2, <2>3, <2>4
<1>8. CASE Surroundings
  <2>1. shown' = shown
    BY <1>8 DEF Surroundings, Unit, UnitBoots, UnitRepeatsSync, UnitTakesPacket,
       host, Tick, Expire, vars
  <2>2. accepted' \in {accepted, wire} /\ (accepted' = accepted \/ wire # 0)
    BY <1>8 DEF Surroundings, Unit, UnitBoots, UnitRepeatsSync, UnitTakesPacket,
       Tick, Expire, vars, host
  <2>3. wire # 0 => wire = accepted + 1
    BY DEF FlashInv, TransferInv
  <2> QED
    BY <1>0, <1>1, <2>1, <2>2, <2>3
<1> QED
  BY <1>5, <1>6, <1>7, <1>8
     DEF Next, Host, Returned, StepsBefore, StepsDuring, StepsAfter, Surroundings

(***************************************************************************)
(* The invariant.                                                          *)
(***************************************************************************)
(* A call starts with nothing established, sent or shown.                  *)
LEMMA FlashInvInit == Init => FlashInv
  <1> SUFFICES ASSUME Init PROVE FlashInv
    OBVIOUS
  <1>1. TypeOK
    BY TypeInit
  <1>2. PacketTotal \in Nat
    BY <1>1, PacketTotalType DEF TypeOK
  <1>3. ControlInv
    BY DEF Init, ControlInv, Booting, Ready, Awaiting, Verifying
  <1>4. BindingInv
    BY DEF Init, BindingInv
  <1>5. TransferInv
    BY DEF Init, TransferInv, Ready, Verifying
  <1>6. VerdictInv
    BY DEF Init, VerdictInv
  <1>7. TimeInv
    BY DEF Init, TimeInv, Reading, ReadsEndByDeadline, OrdinaryTimeoutRestored
  <1>8. ProgressIsAcknowledged
    BY DEF Init, ProgressIsAcknowledged
  <1> QED
    BY <1>1, <1>3, <1>4, <1>5, <1>6, <1>7, <1>8 DEF FlashInv

(* Every reachable state of an attempt satisfies the strengthening.        *)
LEMMA FlashInvariant == Spec => []FlashInv
  <1>1. Init => FlashInv
    BY FlashInvInit
  <1>2. FlashInv /\ [Next]_vars => FlashInv'
    BY TypeNext, ControlNext, BindingNext, TransferNext, VerdictNext, TimeNext,
       ProgressNext DEF FlashInv
  <1> QED
    BY <1>1, <1>2, PTL DEF Spec
===============================================================================
