-------------------------------- MODULE Flasher --------------------------------
(***************************************************************************)
(* FirmwareFlasher.flash, one action per call it makes (flasher.py), with  *)
(* the reads of JkProtocol that the transfer uses (protocol.py) and the    *)
(* unit at the other end of the serial line.                               *)
(*                                                                         *)
(* Data is abstracted to what the code compares: an identity is a physical *)
(* unit (address, model, hardware, serial, cell count) and a software      *)
(* string; an image is the length of its transfer body, its version, and   *)
(* whether body and suffix rebuild it and its suffix can expire; a byte of *)
(* the bootloader is what the reader of that byte tells apart.             *)
(*                                                                         *)
(* Clocks count ticks since the event the code stamps with now(), and stop *)
(* counting where no comparison can tell the difference any more.          *)
(***************************************************************************)
EXTENDS Packetizer

CONSTANTS
  Units, Versions,      \* physical devices; software strings
  Canonical,            \* software.strip().upper(), a function on Versions
  Images,               \* firmware images a caller may pass
  Packs,                \* telemetry snapshots a pack may report
  BlockingFaults,       \* the profile's flash_blocking_fault_mask, as a set
  MaxFlashCurrent, MinStateOfCharge,
  RaisingSinks,         \* the notifications whose event_sink may raise
  PrebootQuiet, PostQueryQuiet, PostBootDelay,
  ReadTimeout,          \* the transport's timeout outside the transfer
  AckTimeout, DeadlineFloor, DeadlinePerPacket,
  BannerLimit,          \* read_boot_ready's limit
  CompletionSize        \* len(FINAL_RESPONSE)

Sinks == {"n_identities", "n_entering", "n_telemetry", "n_quiet", "n_boot",
          "n_ready", "n_block", "n_verifying", "n_recovery", "n_success"}

ASSUME DataAssumption ==
  /\ Canonical \in [Versions -> Versions]
  /\ Images \subseteq [transfer_length : Nat, version : Versions,
                       rebuilds : BOOLEAN, expires : BOOLEAN]
  /\ \A p \in Packs : /\ p.plausible \in BOOLEAN
                      /\ p.current \in Int
                      /\ p.state_of_charge \in Int
  /\ MaxFlashCurrent \in Nat /\ MinStateOfCharge \in Int
  /\ RaisingSinks \subseteq Sinks

ASSUME TimeAssumption ==
  /\ PrebootQuiet \in Nat \ {0} /\ PostQueryQuiet \in Nat \ {0}
  /\ PostBootDelay \in Nat
  /\ ReadTimeout \in Nat \ {0} /\ AckTimeout \in Nat \ {0}
  /\ DeadlineFloor \in Nat \ {0} /\ DeadlinePerPacket \in Nat
  /\ BannerLimit \in Nat \ {0} /\ CompletionSize \in Nat \ {0}

Identities == [unit : Units, software : Versions]
Approvals  == [sealed : BOOLEAN, identity : Identities, image : Images]
Jobs       == [expected : Identities, image : Images, approval : Approvals]

VARIABLES
  pc,            \* the call flash() makes next
  job,           \* its arguments
  first, post,   \* identity read before and after the transfer, {} until read
  sample,        \* telemetry read before boot entry, {} until read
  attempted,     \* boot_entry_attempted
  written,       \* packets written
  got, clean,    \* bytes received by the current read loop; all as expected
  verified,      \* verified_identity, {} for None
  outcome,       \* "none" until flash() returns a state or raises
  shown,         \* the last event the sink took, "none" before the first
  read_timeout,  \* the transport's read timeout
  previous,      \* what transfer_read_timeout will put back
  ceiling,       \* timeout_ceiling of the current read loop
  waited,        \* ticks spent in the current blocking call
  sinceQuery,    \* ticks since the last stamped query answer
  sinceStart,    \* ticks since transfer_started
  mode,          \* the unit: "app", "asked" (command received) or "boot"
  wire,          \* packet on its way to the unit, 0 for none
  accepted,      \* packets the unit stored
  reply,         \* what the host would read next
  windowOpen     \* the validity window of the image is active

job_vars == <<job, first, post, sample, verified>>
io_vars  == <<read_timeout, previous, ceiling, got, clean>>
unit     == <<mode, wire, accepted, reply, windowOpen>>
vars == <<pc, job, first, post, sample, attempted, written, got, clean, verified,
          outcome, shown, read_timeout, previous, ceiling, waited, sinceQuery,
          sinceStart, mode, wire, accepted, reply, windowOpen>>

PacketTotal == PacketCount(job.image.transfer_length)

Larger(a, b)  == IF a >= b THEN a ELSE b
Smaller(a, b) == IF a <= b THEN a ELSE b

(* max(300.0, len(packets) * 2.0)                                          *)
Deadline == Larger(DeadlineFloor, PacketTotal * DeadlinePerPacket)

QuietCap == Larger(PrebootQuiet, PostQueryQuiet)

(* Inside "with transfer_read_timeout", and during the whole transfer.     *)
Reading      == {"banner", "ack", "completion"}
Transferring == Reading \cup {"n_ready", "write", "open_reply", "n_block"}

Init ==
  /\ pc = "check" /\ job \in Jobs
  /\ first = {} /\ post = {} /\ sample = {} /\ verified = {}
  /\ attempted = FALSE /\ written = 0 /\ got = 0 /\ clean = TRUE
  /\ outcome = "none" /\ shown = [state |-> "none", completed |-> 0]
  /\ read_timeout = ReadTimeout /\ previous = ReadTimeout /\ ceiling = ReadTimeout
  /\ waited = 0 /\ sinceQuery = 0 /\ sinceStart = 0
  /\ mode = "app" /\ wire = 0 /\ accepted = 0 /\ reply = "none"
  /\ windowOpen = TRUE
-------------------------------------------------------------------------------
(* Control.                                                                *)
Goto(next) == pc' = next /\ waited' = 0

(* The end of "with transfer_read_timeout", by return or by exception.     *)
RestoreOnReturnOnly == UNCHANGED read_timeout                 \* fault variant
RestoreTimeout ==
  read_timeout' = IF pc \in Reading THEN previous ELSE read_timeout

(* "if not boot_entry_attempted: raise"                                    *)
CoveredOnceWriting == written > 0                             \* fault variant
Covered == attempted

(* Where the handler goes on: no failure is retried.                       *)
RetryTarget == IF pc = "ack" THEN "write" ELSE "n_recovery"   \* fault variant
StopTarget  == "n_recovery"

(* An exception inside flash(): the handler turns it into RECOVERY_REQUIRED*)
(* once boot entry was attempted and lets it through before that.          *)
Raise ==
  /\ IF Covered
     THEN Goto(StopTarget) /\ UNCHANGED outcome
     ELSE Goto("returned") /\ outcome' = "raised"
  /\ RestoreTimeout
  /\ UNCHANGED <<job_vars, attempted, written, shown, previous, ceiling, got,
                 clean, sinceQuery, sinceStart>>

(* A call of event_sink that the exception handler covers.                 *)
Notify(here, next, state, completed) ==
  /\ pc = here
  /\ \/ /\ shown' = [state |-> state, completed |-> completed]
        /\ Goto(next)
        /\ UNCHANGED <<job_vars, io_vars, attempted, written, outcome,
                       sinceQuery, sinceStart>>
     \/ here \in RaisingSinks /\ Raise
  /\ UNCHANGED unit

(* A wait or a check that only moves on.                                   *)
PassTo(next) ==
  /\ Goto(next)
  /\ UNCHANGED <<job_vars, io_vars, attempted, written, outcome, shown,
                 sinceQuery, sinceStart>>
-------------------------------------------------------------------------------
(* Before boot entry.                                                      *)

(* _require_approval: the digests, length, model and version of an image   *)
(* are its content.                                                        *)
ApprovalOfIdentity ==                                         \* fault variant
  job.approval.sealed /\ job.approval.identity = job.expected
ApprovalHolds ==
  /\ job.approval.sealed
  /\ job.approval.identity = job.expected
  /\ job.approval.image = job.image

ImageBinds == job.image.rebuilds /\ job.image.transfer_length # 0

CheckArguments ==
  /\ pc = "check"
  /\ IF ApprovalHolds /\ ImageBinds THEN PassTo("n_identities") ELSE Raise
  /\ UNCHANGED unit

NotifyIdentities == Notify("n_identities", "first", "PREFLIGHT", 0)

(* A query is answered by a unit that runs its application; it can always  *)
(* end in a timeout, a bad frame or a bad acknowledgement.                 *)
ReadFirst ==
  /\ pc = "first"
  /\ \/ /\ mode = "app"
        /\ \E i \in Identities : first' = {i}
        /\ Goto("second")
        /\ UNCHANGED <<job, post, sample, verified, io_vars, attempted, written,
                       outcome, shown, sinceQuery, sinceStart>>
     \/ Raise
  /\ UNCHANGED unit

ReadSecond ==
  /\ pc = "second"
  /\ \/ /\ mode = "app"
        /\ \E i \in Identities :
             IF first = {i} /\ i = job.expected THEN PassTo("n_entering") ELSE Raise
     \/ Raise
  /\ UNCHANGED unit

NotifyEntering  == Notify("n_entering", "n_telemetry", "ENTERING_BOOTLOADER", 0)
NotifyTelemetry == Notify("n_telemetry", "telemetry", "PREFLIGHT", 0)

(* _verify_preflight_telemetry                                             *)
ElectricallySafe(p) ==
  /\ p.plausible
  /\ p.current \in -MaxFlashCurrent .. MaxFlashCurrent
  /\ p.faults \cap BlockingFaults = {}
  /\ p.state_of_charge >= MinStateOfCharge

ReadTelemetry ==
  /\ pc = "telemetry"
  /\ \/ /\ mode = "app"
        /\ \E p \in Packs :
             \/ /\ ElectricallySafe(p)
                /\ sample' = {p} /\ sinceQuery' = 0
                /\ Goto("n_quiet")
                /\ UNCHANGED <<job, first, post, verified, io_vars, attempted,
                               written, outcome, shown, sinceStart>>
             \/ ~ElectricallySafe(p) /\ Raise
     \/ Raise
  /\ UNCHANGED unit

NotifyQuiet == Notify("n_quiet", "quiet", "PREFLIGHT", 0)

(* _await_quiet_interval: sleep what is left of the interval, once.        *)
AwaitQuiet(here, next, interval) ==
  /\ pc = here /\ sinceQuery >= interval
  /\ PassTo(next)
  /\ UNCHANGED unit

AwaitPrebootQuiet == AwaitQuiet("quiet", "n_boot", PrebootQuiet)

NotifyBoot == Notify("n_boot", "boot_entry", "ENTERING_BOOTLOADER", 0)

(* validate_transfer_suffix, with nothing between it and the flag.         *)
EnterBoot ==
  /\ pc = "boot_entry"
  /\ \/ /\ windowOpen
        /\ attempted' = TRUE
        /\ Goto("send_boot")
        /\ UNCHANGED <<job_vars, io_vars, written, outcome, shown, sinceQuery,
                       sinceStart>>
     \/ ~windowOpen /\ Raise
  /\ UNCHANGED unit

(* A short write may still have put the command on the wire.               *)
SendEnterBootloader ==
  /\ pc = "send_boot"
  /\ \/ mode' = "asked" /\ PassTo("open_banner")
     \/ mode' \in {mode, "asked"} /\ Raise
  /\ UNCHANGED <<wire, accepted, reply, windowOpen>>
-------------------------------------------------------------------------------
(* The transfer.                                                           *)

(* _remaining_transfer_timeout raises when nothing remains.                *)
Remaining == Deadline - sinceStart
TimeNotNegative == Remaining >= 0                             \* fault variant
TimeRemains == Remaining > 0

(* Entering "with transfer_read_timeout(seconds)" and the read loop in it. *)
OpenRead(seconds) ==
  /\ previous' = read_timeout
  /\ read_timeout' = seconds /\ ceiling' = seconds
  /\ got' = 0 /\ clean' = TRUE

(* _cap_read_timeout, at the head of every further turn of a read loop.    *)
KeepReadTimeout == waited' = 0 /\ UNCHANGED <<read_timeout, previous, ceiling>> \* fault variant
CapReadTimeout ==
  /\ read_timeout' = Smaller(ceiling, Remaining)
  /\ waited' = 0
  /\ UNCHANGED <<previous, ceiling>>

StartTransfer ==
  /\ pc = "open_banner"
  /\ sinceStart' = 0
  /\ OpenRead(Smaller(AckTimeout, Deadline))
  /\ Goto("banner")
  /\ UNCHANGED <<job_vars, attempted, written, outcome, shown, sinceQuery, unit>>

(* One turn of read_boot_ready.  A text byte that leaves room and time     *)
(* turns the loop; a sync byte ends it, well only if the bootloader's      *)
(* whole banner came before it.                                            *)
ReadBannerByte ==
  /\ pc = "banner"
  /\ \/ /\ got + 1 < BannerLimit /\ TimeRemains
        /\ got' = got + 1
        /\ CapReadTimeout
        /\ UNCHANGED <<pc, job_vars, clean, attempted, written, outcome, shown,
                       sinceQuery, sinceStart>>
     \/ /\ mode = "boot"
        /\ RestoreTimeout
        /\ Goto("n_ready")
        /\ UNCHANGED <<job_vars, previous, ceiling, got, clean, attempted,
                       written, outcome, shown, sinceQuery, sinceStart>>
     \/ Raise
  /\ UNCHANGED unit

NotifyReady == Notify("n_ready", "write", "TRANSFERRING", 0)

(* _require_transfer_time and write_packet, which may fall short, or raise *)
(* after the last byte was handed over: OpenReply then raises.             *)
WritePacket ==
  /\ pc = "write"
  /\ \/ /\ TimeRemains
        /\ written' = written + 1 /\ wire' = written + 1
        /\ Goto("open_reply")
        /\ UNCHANGED <<job_vars, io_vars, attempted, outcome, shown, sinceQuery,
                       sinceStart>>
     \/ UNCHANGED wire /\ Raise
  /\ UNCHANGED <<mode, accepted, reply, windowOpen>>

(* The loop runs over packets[:-1]; the last packet awaits the completion. *)
OpenReply ==
  /\ pc = "open_reply"
  /\ \/ /\ TimeRemains
        /\ OpenRead(Smaller(AckTimeout, Remaining))
        /\ Goto(IF written < PacketTotal THEN "ack" ELSE "completion")
        /\ UNCHANGED <<job_vars, attempted, written, outcome, shown,
                       sinceQuery, sinceStart>>
     \/ Raise
  /\ UNCHANGED unit

AnyByteIsAck == reply # "none"                                \* fault variant
IsAck == reply = "ack"

ReadAck ==
  /\ pc = "ack" /\ reply # "none"
  /\ IF IsAck
     THEN /\ RestoreTimeout
          /\ Goto("n_block")
          /\ UNCHANGED <<job_vars, previous, ceiling, got, clean, attempted,
                         written, outcome, shown, sinceQuery, sinceStart>>
     ELSE Raise
  /\ reply' = "none"
  /\ UNCHANGED <<mode, wire, accepted, windowOpen>>

NotifyBlock == Notify("n_block", "write", "TRANSFERRING", written)

(* read_exact over the completion.  A chunk of k bytes that leaves some    *)
(* missing turns its loop, and the rest of the answer may never come.      *)
ReadCompletionPart ==
  /\ pc = "completion" /\ reply # "none"
  /\ \/ /\ TimeRemains
        /\ \E k \in 1 .. CompletionSize - got - 1 : got' = got + k
        /\ clean' = (clean /\ reply = "done")
        /\ CapReadTimeout
        /\ UNCHANGED <<pc, job_vars, attempted, written, outcome, shown,
                       sinceQuery, sinceStart>>
     \/ got + 1 < CompletionSize /\ ~TimeRemains /\ Raise
  /\ reply' \in {reply, "none"}
  /\ UNCHANGED <<mode, wire, accepted, windowOpen>>

(* The missing bytes arrive: once more the deadline, then the comparison.  *)
ReadCompletionEnd ==
  /\ pc = "completion" /\ reply # "none"
  /\ IF TimeRemains /\ clean /\ reply = "done"
     THEN /\ RestoreTimeout
          /\ Goto("n_verifying")
          /\ UNCHANGED <<job_vars, previous, ceiling, got, clean, attempted,
                         written, outcome, shown, sinceQuery, sinceStart>>
     ELSE Raise
  /\ reply' = "none"
  /\ UNCHANGED <<mode, wire, accepted, windowOpen>>

(* transport.read returns nothing: the timeout has run out.                *)
BannerTimeoutOnly == pc = "banner" /\ waited >= read_timeout  \* fault variant
TimeoutElapsed == pc \in Reading /\ waited >= read_timeout

ReadTimesOut ==
  /\ TimeoutElapsed
  /\ pc # "banner" => reply = "none"
  /\ Raise
  /\ UNCHANGED unit
-------------------------------------------------------------------------------
(* After the transfer.                                                     *)
NotifyVerifying == Notify("n_verifying", "boot_delay", "VERIFYING", PacketTotal)

AwaitBoot ==
  /\ pc = "boot_delay" /\ waited >= PostBootDelay
  /\ PassTo("post_first")
  /\ UNCHANGED unit

ReadPostFirst ==
  /\ pc = "post_first"
  /\ \/ /\ mode = "app"
        /\ \E i \in Identities : post' = {i}
        /\ sinceQuery' = 0
        /\ Goto("post_quiet")
        /\ UNCHANGED <<job, first, sample, verified, io_vars, attempted, written,
                       outcome, shown, sinceStart>>
     \/ Raise
  /\ UNCHANGED unit

AwaitPostQuiet == AwaitQuiet("post_quiet", "post_second", PostQueryQuiet)

(* _verify_post_identity                                                   *)
IsUpdatedAnyUnit(i) ==                                        \* fault variant
  post = {i} /\ Canonical[i.software] = Canonical[job.image.version]
IsUpdated(i) ==
  /\ post = {i}
  /\ i.unit \in {f.unit : f \in first}
  /\ Canonical[i.software] = Canonical[job.image.version]

ReadPostSecond ==
  /\ pc = "post_second"
  /\ \/ /\ mode = "app"
        /\ \E i \in Identities :
             \/ /\ IsUpdated(i)
                /\ sinceQuery' = 0
                /\ Goto("telemetry_quiet")
                /\ UNCHANGED <<job_vars, io_vars, attempted, written, outcome,
                               shown, sinceStart>>
             \/ ~IsUpdated(i) /\ Raise
     \/ Raise
  /\ UNCHANGED unit

AwaitTelemetryQuiet == AwaitQuiet("telemetry_quiet", "post_telemetry", PostQueryQuiet)

ReadPostTelemetry ==
  /\ pc = "post_telemetry"
  /\ \/ /\ mode = "app"
        /\ \E p \in Packs :
             \/ /\ p.plausible
                /\ verified' = post
                /\ Goto("n_success")
                /\ UNCHANGED <<job, first, post, sample, io_vars, attempted,
                               written, outcome, shown, sinceQuery, sinceStart>>
             \/ ~p.plausible /\ Raise
     \/ Raise
  /\ UNCHANGED unit

(* The two terminal notifications: an exception here meets no handler.     *)
Finish(here, result, completed) ==
  /\ pc = here
  /\ Goto("returned")
  /\ \/ /\ shown' = [state |-> result, completed |-> completed]
        /\ outcome' = result
     \/ /\ here \in RaisingSinks
        /\ outcome' = "raised"
        /\ UNCHANGED shown
  /\ UNCHANGED <<job_vars, io_vars, attempted, written, sinceQuery, sinceStart, unit>>

FinishRecovery == Finish("n_recovery", "RECOVERY_REQUIRED", 0)
FinishSuccess  == Finish("n_success", "SUCCEEDED", PacketTotal)

(* The call is over; the unit may still act on what it was sent.           *)
Returned == pc = "returned" /\ UNCHANGED vars
-------------------------------------------------------------------------------
(* Time.                                                                   *)
Counted(clock, cap) == IF clock < cap THEN clock + 1 ELSE clock

(* A tick passes anywhere, except that a blocked read ends at its timeout. *)
Tick ==
  /\ pc # "returned"
  /\ pc \in Reading => waited < read_timeout
  /\ waited' = IF pc \in Reading THEN waited + 1
               ELSE IF pc = "boot_delay" THEN Counted(waited, PostBootDelay)
               ELSE waited
  /\ sinceQuery' = Counted(sinceQuery, QuietCap)
  /\ sinceStart' = IF pc \in Transferring
                   THEN Counted(sinceStart, Deadline + 1) ELSE sinceStart
  /\ UNCHANGED <<pc, job_vars, io_vars, attempted, written, outcome, shown, unit>>

(* The validity window of the suffix closes.                               *)
Expire ==
  /\ job.image.expires /\ windowOpen
  /\ windowOpen' = FALSE
  /\ UNCHANGED <<pc, job_vars, io_vars, attempted, written, outcome, shown, waited,
                 sinceQuery, sinceStart, mode, wire, accepted, reply>>
-------------------------------------------------------------------------------
(* The unit, from what the code expects of it.                             *)
host == <<pc, job_vars, io_vars, attempted, written, outcome, shown, waited,
          sinceQuery, sinceStart>>

UnitBoots ==
  /\ mode = "asked"
  /\ mode' = "boot"
  /\ UNCHANGED <<host, wire, accepted, reply, windowOpen>>

(* It repeats its sync byte until it has a packet; a repetition after the  *)
(* one read_boot_ready stopped at stays in the input buffer.               *)
UnitRepeatsSync ==
  /\ mode = "boot" /\ accepted = 0 /\ reply = "none"
  /\ pc \in Transferring \ {"banner"}
  /\ reply' = "noise"
  /\ UNCHANGED <<host, mode, wire, accepted, windowOpen>>

(* It stores the packet and says so, or the answer is lost or garbled; or  *)
(* it drops the packet.  Having stored the last one it starts the new      *)
(* application, if it can.                                                 *)
UnitTakesPacket ==
  /\ mode = "boot" /\ wire # 0
  /\ wire' = 0
  /\ LET last == wire = PacketTotal
     IN  \/ /\ accepted' = wire
            /\ reply' \in (IF reply = "noise" THEN {"noise"}
                           ELSE {IF last THEN "done" ELSE "ack", "noise", "none"})
            /\ mode' \in {"boot", IF last THEN "app" ELSE "boot"}
         \/ /\ reply' \in (IF reply = "noise" THEN {"noise"} ELSE {"noise", "none"})
            /\ UNCHANGED <<accepted, mode>>
  /\ UNCHANGED <<host, windowOpen>>
-------------------------------------------------------------------------------
Host ==
  \/ CheckArguments \/ NotifyIdentities \/ ReadFirst \/ ReadSecond
  \/ NotifyEntering \/ NotifyTelemetry \/ ReadTelemetry \/ NotifyQuiet
  \/ AwaitPrebootQuiet \/ NotifyBoot \/ EnterBoot \/ SendEnterBootloader
  \/ StartTransfer \/ ReadBannerByte \/ NotifyReady
  \/ WritePacket \/ OpenReply \/ ReadAck \/ NotifyBlock
  \/ ReadCompletionPart \/ ReadCompletionEnd \/ ReadTimesOut
  \/ NotifyVerifying \/ AwaitBoot \/ ReadPostFirst \/ AwaitPostQuiet
  \/ ReadPostSecond \/ AwaitTelemetryQuiet \/ ReadPostTelemetry
  \/ FinishRecovery \/ FinishSuccess

Unit == UnitBoots \/ UnitRepeatsSync \/ UnitTakesPacket

Next == Host \/ Unit \/ Tick \/ Expire \/ Returned

Spec == Init /\ [][Next]_vars

(* flash() runs on one thread and every one of its calls returns; ticks    *)
(* keep coming.  Nothing is promised for the unit.                         *)
FairSpec == Spec /\ WF_vars(Host) /\ WF_vars(Tick)
===============================================================================
