--------------------------- MODULE FlasherProperties ---------------------------
(***************************************************************************)
(* What flash() must guarantee, over the state of Flasher.                 *)
(***************************************************************************)
EXTENDS Flasher

Locations ==
  Sinks \cup Reading \cup
  {"check", "first", "second", "telemetry", "quiet", "boot_entry", "send_boot",
   "open_banner", "write", "open_reply", "boot_delay", "post_first",
   "post_quiet", "post_second", "telemetry_quiet", "post_telemetry", "returned"}

FlashStates == {"none", "PREFLIGHT", "ENTERING_BOOTLOADER", "TRANSFERRING",
                "VERIFYING", "RECOVERY_REQUIRED", "SUCCEEDED"}

(* Every variable of flash(), of the transport and of the unit has a value *)
(* the code can give it.                                                   *)
TypeOK ==
  /\ pc \in Locations
  /\ job \in Jobs
  /\ first \in SUBSET Identities /\ post \in SUBSET Identities
  /\ verified \in SUBSET Identities /\ sample \in SUBSET Packs
  /\ attempted \in BOOLEAN /\ clean \in BOOLEAN /\ windowOpen \in BOOLEAN
  /\ written \in 0 .. PacketTotal /\ accepted \in 0 .. PacketTotal
  /\ wire \in 0 .. PacketTotal /\ got \in Nat
  /\ outcome \in {"none", "raised", "RECOVERY_REQUIRED", "SUCCEEDED"}
  /\ shown \in [state : FlashStates, completed : 0 .. PacketTotal]
  /\ read_timeout \in Nat \ {0} /\ previous \in Nat \ {0} /\ ceiling \in Nat \ {0}
  /\ waited \in Nat /\ sinceQuery \in Nat /\ sinceStart \in Nat
  /\ mode \in {"app", "asked", "boot"}
  /\ reply \in {"none", "ack", "noise", "done"}

(***************************************************************************)
(* flash() may attempt boot entry only for a caller that holds a sealed    *)
(* approval of this identity and this image, once the device has twice     *)
(* answered with that identity and once, at least PrebootQuiet ago, with   *)
(* telemetry that is safe to flash under, and while the validity window of *)
(* the image is open.                                                      *)
(***************************************************************************)
BootIsJustified ==
  /\ job.approval = [sealed |-> TRUE, identity |-> job.expected, image |-> job.image]
  /\ job.image.rebuilds /\ job.image.transfer_length > 0
  /\ first = {job.expected}
  /\ \E p \in sample : ElectricallySafe(p)
  /\ sinceQuery >= PrebootQuiet
  /\ windowOpen

BootOnlyJustified == [][attempted' # attempted => BootIsJustified]_vars

(* What has become of the attempt, whether or not the sink has been told.  *)
Verdict ==
  IF verified # {} THEN "verified"
  ELSE IF pc \notin {"n_recovery", "returned"} THEN "open"
  ELSE IF attempted THEN "recovery" ELSE "refused"

(***************************************************************************)
(* flash() implements the contract: one packet unanswered at most, none    *)
(* repeated or skipped, nothing sent after the first uncertainty, and no   *)
(* success before every packet is stored.                                  *)
(***************************************************************************)
Contract == INSTANCE FlashContract
  WITH total <- PacketTotal, booted <- attempted, sent <- written,
       held <- accepted, verdict <- Verdict

ImplementsContract == Contract!Spec

(***************************************************************************)
(* A caller that is told SUCCEEDED has the expected physical unit, running *)
(* its application, with every packet stored and a software version that   *)
(* is the image's; one that is told RECOVERY_REQUIRED has no verified      *)
(* identity to go on with.                                                 *)
(***************************************************************************)
OutcomeIsTrue ==
  /\ outcome = "SUCCEEDED" =>
       /\ accepted = PacketTotal /\ mode = "app"
       /\ \E i \in verified :
            /\ i.unit = job.expected.unit
            /\ Canonical[i.software] = Canonical[job.image.version]
  /\ outcome = "RECOVERY_REQUIRED" => verified = {} /\ attempted

(***************************************************************************)
(* The class docstring of FirmwareFlasher and the comment at the worker of *)
(* the progress screen: an exception that leaves flash() means that boot   *)
(* entry was not attempted and the unit still runs what it ran before.     *)
(***************************************************************************)
EscapeMeansNotBooted ==
  outcome = "raised" => ~attempted /\ mode = "app" /\ accepted = 0

(***************************************************************************)
(* The operator is never shown progress the device has not acknowledged:   *)
(* a block counts as transferred only when stored, and VERIFYING or        *)
(* SUCCEEDED only when all are.                                            *)
(***************************************************************************)
ProgressIsAcknowledged ==
  /\ shown.completed <= accepted
  /\ shown.state \in {"VERIFYING", "SUCCEEDED"} => accepted = PacketTotal

(***************************************************************************)
(* transfer_deadline is a backstop for every read of the transfer: a read  *)
(* that blocks for its whole timeout still ends by the deadline, however   *)
(* slowly the bytes before it came.                                        *)
(***************************************************************************)
ReadsEndByDeadline ==
  pc \in Reading => sinceStart + (read_timeout - waited) <= Deadline

(***************************************************************************)
(* transfer_read_timeout "always restores the prior value": outside the    *)
(* reads of the transfer the port has its ordinary timeout, so that the    *)
(* queries of the verification and of later monitoring do not wait for the *)
(* two minutes of a bootloader acknowledgement.                            *)
(***************************************************************************)
OrdinaryTimeoutRestored == pc \notin Reading => read_timeout = ReadTimeout

(***************************************************************************)
(* flash() ends, whatever the bootloader answers or fails to answer.       *)
(***************************************************************************)
FlashEnds == <>(pc = "returned")
-------------------------------------------------------------------------------
(***************************************************************************)
(* The strengthening that makes the properties above inductive.            *)
(***************************************************************************)
BeforeBoot == {"check", "n_identities", "first", "second", "n_entering",
               "n_telemetry", "telemetry", "n_quiet", "quiet", "n_boot",
               "boot_entry"}
Booting    == {"send_boot", "open_banner", "banner"}
Ready      == {"n_ready", "write", "n_block"}
Awaiting   == {"open_reply", "ack", "completion"}
Verifying  == {"n_verifying", "boot_delay", "post_first", "post_quiet",
               "post_second", "telemetry_quiet", "post_telemetry", "n_success"}

(* Where flash() is, and what it has been told to do to the unit.          *)
ControlInv ==
  /\ pc \in BeforeBoot => attempted = FALSE
  /\ pc \in Booting \cup Ready \cup Awaiting \cup Verifying \cup {"n_recovery"}
       => attempted = TRUE
  /\ outcome = "none" <=> pc # "returned"
  /\ attempted = FALSE => mode = "app" /\ written = 0

(* What has been established about approval, identity and telemetry.       *)
BindingInv ==
  /\ pc \notin {"check", "returned"} => ApprovalHolds /\ ImageBinds
  /\ pc \notin {"check", "n_identities", "first", "second", "returned"}
       => first = {job.expected}
  /\ pc \in {"n_quiet", "quiet", "n_boot", "boot_entry"}
       => \E p \in sample : ElectricallySafe(p)
  /\ pc \in {"n_boot", "boot_entry"} => sinceQuery >= PrebootQuiet

(* How far host and unit can be apart.                                     *)
TransferInv ==
  /\ accepted <= written /\ written <= accepted + 1
  /\ wire # 0 => wire = written /\ written = accepted + 1
  /\ pc \in BeforeBoot \cup Booting => written = 0 /\ reply = "none"
  /\ pc \in Ready => /\ accepted = written /\ written < PacketTotal
                     /\ reply \in {"none", "noise"}
  /\ pc = "ack" => written < PacketTotal
  /\ pc = "completion" => written = PacketTotal
  /\ pc \in Verifying => accepted = PacketTotal /\ written = PacketTotal
  /\ reply = "ack"  => accepted = written /\ written < PacketTotal
  /\ reply = "done" => accepted = written /\ written = PacketTotal

(* What the verdict rests on.                                              *)
Updated(i) == /\ i.unit = job.expected.unit
              /\ Canonical[i.software] = Canonical[job.image.version]

VerdictInv ==
  /\ pc \in {"telemetry_quiet", "post_telemetry"} => \E i \in post : Updated(i)
  /\ pc = "n_success" => verified # {}
  /\ verified # {} => /\ pc \in {"n_success", "returned"}
                      /\ attempted = TRUE /\ mode = "app"
                      /\ accepted = PacketTotal
                      /\ \E i \in verified : Updated(i)
  /\ outcome = "SUCCEEDED" => verified # {}
  /\ outcome = "RECOVERY_REQUIRED" => verified = {} /\ attempted = TRUE

(* What the transport's timeout is, and when the current read ends.        *)
TimeInv ==
  /\ pc \in Reading => previous = ReadTimeout
  /\ ReadsEndByDeadline /\ OrdinaryTimeoutRestored

FlashInv == /\ TypeOK /\ ControlInv /\ BindingInv /\ TransferInv
            /\ VerdictInv /\ TimeInv /\ ProgressIsAcknowledged
===============================================================================
