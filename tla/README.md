# Verification of JK Flash

TLA+ models of JK Flash, the attended firmware updater for JK battery
management systems in this repository, with TLC runs on small instances and
TLAPS proofs for every value of the constants. Paths below are relative to
`src/jkflash/` of the repository.

The question behind all of it: a firmware transfer cannot be undone or retried.
Until the boot-entry command is sent every error must leave the device alone;
from then on every error must be reported as what it is, and the program must
neither send another byte nor claim more than it knows.

## The system

| component | state it keeps | operations | talks to |
|---|---|---|---|
| Packet codec (`flasher.py` 23-96) | none | `packetize_transfer_body`, `build_transfer_packet` | called by the flash procedure |
| Flash procedure (`flasher.py` 98-480) | locals of `flash()`, `verified_identity` | `FirmwareFlasher.flash` | event sink (callbacks), protocol, clock and sleep |
| Bootloader reads (`protocol.py` 324-422) | the transport's read timeout | `send_enter_bootloader`, `read_boot_ready`, `transfer_read_timeout`, `read_ack_byte`, `read_exact`, `write_packet` | transport |
| Native query protocol (`protocol.py` 60-320, 424-) | parser buffer | `read_identity`, `read_telemetry`, `_query`, `NativeFrameParser` | transport |
| Application session (`application.py`) | lock, port, protocol, identity, capability, approval | `connect`, `close`, `read_identity`, `read_dashboard`, `inspect_firmware`, `preflight`, `flash` | all of the above; called by UI thread and workers |
| Flash transcript (`audit.py`) | one file per attempt | `write_audit` | called by `flash` of the session |
| Terminal interface (`ui.py`) | stack of screens, workers, poll timer | keys, timer, worker reports | session, by worker threads and directly |
| Firmware inspection (`firmware.py`) | none | `inspect_firmware`, `decode_firmware_container`, `validate_transfer_suffix` | reads a file and the clock; called by the session, by compatibility and by `flash` |
| Compatibility (`safety.py`) | none | `evaluate_compatibility` | reads the clock; called by `preflight` |
| Serial adapters, domain types, profiles, command line | none | data and thin wrappers | |

What is hard about it:

- *Exceptions as control.* Everything in `flash()` may raise; what that means
  depends on one flag, `boot_entry_attempted`, and on whether the statement is
  inside the `try`.
- *Lost, late and stray bytes.* The bootloader repeats its sync byte; an
  acknowledgement may be lost after the packet was stored.
- *Time.* A read that gets one byte just before each timeout could go on for
  ever; quiet intervals, a deadline and an image's validity window interact.
- *No resynchronisation.* A query never empties the input buffer, so a late
  answer is read by whoever reads next; frames carry no question number.
- *The same thing decided twice.* Inspector and evaluator check the same limits
  in their own words, the firmware screen works out confirmations again from
  version texts, and the validity window is read against a clock four times.
- *Threads.* Workers take `_serial_lock`; `inspect_firmware` and `preflight`
  run on the UI thread and do not, yet write `_approval`.
- *Crashes.* The transcript must exist before the device is touched.
- *Screens.* A worker reports to a screen that may be covered or gone by then.

## Modules

| module | models | refers to |
|---|---|---|
| `Packetizer` | the arithmetic of cutting, numbering and padding packets | `flasher.py` 23-96 |
| `BlockStream` | `packetize_transfer_body` as a loop next to a receiver that only sees sequence numbers and the end marker | `flasher.py` 64-96 |
| `FlashContract` | abstract: what `flash()` promises, without clocks, frames or sinks | `FirmwareFlasher` |
| `Flasher` | `flash()`, one action per call it makes; the reads of the transfer; time; the unit | `flasher.py` 101-476, `protocol.py` 324-422 |
| `FlasherProperties` | properties of `Flasher`, the refinement mapping, the inductive invariant | |
| `QueryContract` | abstract: what `read_identity` and `read_telemetry` promise of their answers | `protocol.py` 312-322 |
| `NativeFrames` | `NativeFrameParser`, byte by byte | `protocol.py` 81-181 |
| `SerialLink` | `_query` over a line that delivers in chunks, late, damaged or not at all | `protocol.py` 60-78, 424-457, `transport.py` |
| `Firmware` | from a file to an image or an error; the validity window | `firmware.py` |
| `Compatibility` | the issues a device and an image give rise to | `safety.py` |
| `Preparation` | the firmware screen, inspection, preflight, approval and confirmation, up to boot entry | `ui.py` 437-697, `application.py` 191-320, `flasher.py` 113-146, 271-280 |
| `Session` | `JkApplication` shared by workers and the UI thread | `application.py`, `audit.py` |
| `Console` | the stack of screens, keys, poll timer, workers and their reports | `ui.py` 177-747 |
| `BlockStreamProofs`, `FlasherInductive`, `FlasherProofs`, `QueryContractProofs`, `SerialLinkProofs`, `PreparationProofs`, `SessionProofs`, `ConsoleProofs` | theorems | |
| `MCBlockStream`, `MCFlasher`, `MCSerialLink`, `MCPreparation`, `MCSession`, `MCConsole` | bounds for TLC | |

Composition: `Flasher` uses `Packetizer` for the number of packets and
implements `FlashContract` under `Contract == INSTANCE FlashContract WITH ...`.
`SerialLink` uses `NativeFrames` and implements `QueryContract`; `Preparation`
extends `Compatibility`, which extends `Firmware`.
`Session` contains the flasher only as that contract describes it (refused
before boot entry, or recovery or success after it), and `Console` contains
the session only as three facts: is there a connection that may flash, is there
an approval, who has the lock. So each level rests on a promise that the level
below was checked for.

Operators marked *fault variant* are not part of the models. Each is a way the
definition after it could have been written wrongly (a dropped mask, a missing
`finally`, an unconsumed approval); substituting it makes a run fail, which
shows that the property named beside it in PROJECT.json has something to say.

### How state and actions correspond to the code

`Flasher`. `pc` names the next call `flash()` makes; `n_...` are the calls of
`event_sink`, which may raise (`RaisingSinks`). `Raise` is the `except` clause
together with the `finally` of `transfer_read_timeout`. `attempted` is
`boot_entry_attempted`. An identity is a physical unit and a software string;
`Canonical` is `strip().upper()` on the latter. `wire`, `accepted`, `reply` and
`mode` belong to the unit: it may drop a packet, store it and not answer, answer
with something else, repeat its sync byte, and start the new application or not
after the last packet. Time is counted in ticks since the two events the code
stamps with `now()`; a blocked read ends at its timeout at the latest.

`SerialLink`. `line` is every byte the unit ever sent; `edge` says how far the
host has read it, `start` and `end` what of it is in the parser's buffer. A byte
carries the question it answers and its place in that answer, 0 if it did not
arrive as sent, so the tests of marker, code and checksum are tests on these. The unit
and the line are one action with the question: an answer, nothing, or an answer
that was cut, garbled, broken off and sent again, or that has a stray byte
before it, anywhere in it or after its acknowledgement (`Damaged`). Because a read returns any
part of what has been sent, or nothing, a late answer is one that a query did
not wait for.

`Preparation`. A file is a record of what the code looks at, an image what
`inspect_firmware` makes of it, a report its set of issue codes (every code is
an error but `downgrade` and `reinstall`). `button` is both `disabled` and
`label`. Inspection with the first preflight is one action, and so is
`start_flash` with the second; `now'` is the clock as the evaluator reads it.
`progress` is what a `ProgressScreen` was pushed with. The flash between
approval and boot entry, which `Flasher` has in full, is one step that may stop;
it holds the lock. One dashboard and what is pushed over it are followed step by
step. Another connect worker may close and replace the session under any of
these screens (`Disconnect`, `Connect`), so that the second preflight may raise
(`PreflightUnavailable`). What is then done from the dashboard it pushed is told
by its effect: a review, which needs no lock (`OtherReview`), or a whole flash
(`OtherFlash`). `disturbed` is a history variable: somebody else has had the
session since the last review of the screen that is followed. No guard reads it.

`Session`. A worker is one thread making one call with `_serial_lock` held, so
`pc` also says where in that call it is. The steps of `flash` around the
approval (test, take, clear) are separate, because the UI thread can write
`_approval` between any two of them; so are the steps of `preflight`.
`record` is what the transcript file would say if the process died now: opening
the file for writing empties it, hence `truncated`. The flash may raise after
boot entry too (a terminal notification of its sink), and what is then recorded
is that it was blocked.

`Console`. A handler of the UI thread is one action. A worker is *waiting* (for
the lock), *running* (in the service) and *reporting* (blocked in
`call_from_thread`). Textual's `exclusive=True` cancels the previous worker, but
a thread cannot be cancelled: it runs on and still reports, so `Connect` does
not stop the worker before it. `InheritedQuit` is Ctrl-Q and the command
palette's Quit, which come with Textual's `App` and leave from any screen.

### Abstractions worth knowing

- In `Flasher` and `Session` a native query is one step that returns some
  identity or telemetry, or raises. The unit may answer with *any* identity, so
  freshness is not assumed there; `SerialLink` says how fresh an answer is.
- In `SerialLink` a damaged answer is not by accident another valid frame
  (checksum collisions), answers are not duplicated or reordered as a whole, and
  a read returns no more than was asked for. An answer has one damage at most:
  one stray byte, one byte garbled. There are no bytes but with an answer, so a
  line that babbles without being asked is left out; such bytes have no place
  in an answer and the parser drops them like the strays that are modelled.
- In `Flasher` a `write_packet` that raises after its last byte was handed over
  is the same as one that returned and whose reply is never read: `OpenReply`
  may raise although time remains.
- In `Firmware` decryption, zlib and text fields are their outcomes: padding
  right or wrong, a stream whole, followed, cut or broken and the size of what is
  in it, names and versions as records. A model name is what is left of it
  without separators, and whether its syntax is valid; hardware is its major
  version. `SUPPORTED_PROFILES` has one profile that may flash; an identity that
  selects none, or the one that only monitors, is the same to the firmware
  screen, because `preflight` raises. That profile names no hardware and no
  firmware major, in `profiles.py` as in the run; the theorems are also about
  profiles that do.
- Of a second dashboard `Preparation` has no screens, so `ConfirmationIsTrue`
  and `PressFlashes` are about the screens over the first; `BootIsJustified` of
  a boot entry asked for from the second is the same run seen from there.
- `firmware_suffix_invalid` is left out of `Compatibility`: an inspected image
  has the suffix it was decoded with. `InRange`, `InRam` and their like are
  written once in the model where `firmware.py` and `safety.py` each write them;
  that they accept what really fits is `ImageIsSound`, which is stated without
  them.
- Digests, length, model and version of an image are its content, so
  `_require_approval` compares images. The checks of `_verify_preflight_telemetry`
  on plausibility (limits on cells, voltages, state of health) are one flag;
  the three limits that come from the profile are modelled.
- Closing a serial port is taken to succeed.
- The last five assignments of `_connect_locked` are one step. The UI thread
  reads those attributes in the order they are written and gives up at a
  `None`; the one mixture it could see, an approval issued just before the last
  assignment clears it, only loses an approval.
- `Session` has each thread make one call; `Console`, where calls repeat, has no
  detail of the session. No screen calls `close`; it is modelled because it is
  public.
- In `Console` a screen is suspended and resumed in the step that covers or
  uncovers it, although Textual delivers those events a little later, and
  `preflight` is one step (`Session` has its steps). The palette's own screen is
  not on the stack.
- Texts, tables, progress-bar arithmetic, the contents of lists and inputs, and
  the checksum byte are left out.

## Runs

| run | instance | checks |
|---|---|---|
| `block_stream` | body lengths around 0, 1, 2 blocks, and at both wraps of the sequence number | `TypeOK`, `ReceiverHoldsBody`, `OnlyEmptyRefused`, `WireSizes` |
| `flash_attempt` | two units, three software strings, four images, seven packs | `TypeOK`, `OutcomeIsTrue`, `EscapeMeansNotBooted`, `ProgressIsAcknowledged`, `BootOnlyJustified`, `ImplementsContract` |
| `flash_deadline` | images of one to three packets, timeouts longer than the transfer's slack | `ReadsEndByDeadline`, `OrdinaryTimeoutRestored`, `FlashEnds` |
| `serial_link` | frames of 4 bytes, a buffer of 8, acknowledgements of 2; up to three questions with a damaged answer, five that end in the reads before boot entry | `TypeOK`, `RoomForMore`, `NoFrameSkipped`, `FreshAnswerIsLast`, `PreBootFresh`, `ImplementsQueryContract`, `QueryEnds` |
| `preparation` | 40 files and 14 identities at the boundaries of a small memory map, four instants | `TypeOK`, `ImageIsSound`, `ApprovalIsJustified`, `ConfirmationIsTrue`, `PressFlashes`, `BootIsJustified` |
| `flash_escape` | as `flash_attempt`, with terminal notifications that may raise | `EscapeMeansNotBooted`, which fails |
| `session` | three workers, three identities of two units, three UI calls | `TypeOK`, `WireIsExclusive`, `SessionIsWhole`, `AttemptIsApproved`, `AttemptIsOnRecord`, `SessionKeepsUnit` |
| `session_calls_return` | two workers, one UI call | `CallsReturn` |
| `console` | five screens, three workers | `TypeOK`, `FlashIsWatched`, `InflightIsReal`, `FirmwareUndisturbed`, `ReturnsToDetails`, `ExitIsCovered` |
| `console_answered` | three screens, two workers | `FlashIsAnswered` |
| `console_notice`, `console_exit` | four screens, three workers | `RefusalIsTrue`, `NoExitDuringFlash`, which fail |

Why the bounds are enough to be interesting:

- *Packets.* One packet has no acknowledgement, two have one of each kind, three
  have two acknowledgements in a row. The theorems below cover any number.
- *Units, versions, packs.* The second unit is the one a wrong answer comes
  from; `newSpaced` differs from `new` only until it is normalised; the packs
  are at and just past each limit; approvals range over sealed and unsealed,
  of every identity and image.
- *Time.* Limits are a few ticks, with the acknowledgement timeout below the
  deadline of a short image and a packet's share of the deadline above one tick,
  so each comparison comes out both ways. Clocks stop one tick past the last
  value any guard tells apart (`QuietCap`, `Deadline + 1`).
- *Bytes.* A frame of four bytes with a marker of two is the shortest with bytes
  before, in and after the marker's second half, the buffer holds two frames, so
  it can be full of rejected ones, and an acknowledgement of two can be split.
  Three questions are needed for an answer that is two late, five for two that
  raise before the three reads of `flash()`.
- *Files, identities and instants.* Each differs from a good one in one respect,
  by one in each direction where it is a number; versions are older, equal,
  newer, of another major, with a letter or a V. The map's limit is one above
  what fits in flash, so the check of the size and that of the capacity differ.
  The instants are before, at both ends of, and after a validity window.
- *Threads.* Two flash calls and a third that reconnects is the least with which
  an approval can be used twice or outlive its session; `UiCalls = 3` lets an
  inspection or a second approval fall between. In `Console`, two connections
  and one flash, or a flash, a poll and a connection, exhaust the workers.
- *Screens.* Five names allow dashboard, firmware, progress and another
  dashboard on top with one more worker waiting. The liveness run has room for
  one dashboard, firmware and progress screen and a poll in front of the flash.
- Symmetry (workers; screen names and threads) is used only in runs without
  liveness.

### What the properties say

*Packets.* However long the body, a receiver that follows sequence numbers ends
with exactly the padded body; only the empty body is refused.

*Flash attempts.* Boot entry needs an approval sealed for exactly this identity
and image, two answers with that identity, safe telemetry at least the quiet
interval ago and an open validity window (`BootOnlyJustified`). SUCCEEDED means
that the same unit runs the new version with every packet stored
(`OutcomeIsTrue`). Progress shown never exceeds what the unit stored
(`ProgressIsAcknowledged`). A packet is never sent twice, never before the one
before it was stored, and nothing is sent after the first uncertainty
(`ImplementsContract`). No read can outlast the deadline, the port's timeout is
always restored, and the attempt ends.

*Queries.* No byte of a frame is given up however the line is split
(`NoFrameSkipped`), and the parser never fills up (`RoomForMore`), which makes
the branch of `feed` for a full buffer unreachable. A query returns an answer
to a question of its kind, later than any answered before, or raises
(`ImplementsQueryContract`), and ends (`QueryEnds`). What "two fresh device identities" (`flasher.py` 224) is
worth follows (`PreBootFresh`): each query that raised may leave one answer on
the line. If at most one raised since the line was last level, the second of the
two identities was asked for by this attempt; if at most two did, the telemetry
that permits boot entry is this attempt's own. After more of them the code
cannot tell an old answer from a new one: nothing short of reopening the port
empties the line. A query that returned its own answer has read all that was ever
answered (`FreshAnswerIsLast`): no part of an answer is left for the next query or
for `read_boot_ready`. A stray byte behind the acknowledgement may be left: when
frame and acknowledgement arrive in one read, nothing looks for more, and only
bytes that came with them are refused (`protocol.py` 442).

*Preparation.* An image on the screen is the whole of a file and lands in the
application's flash (`ImageIsSound`); an approval is for the connected unit, with
the software it has or had before a flash, and for an image made for it,
whatever was inspected, refused or flashed before and whatever the capability
that was selected at `connect` and kept when the software changed
(`ApprovalIsJustified`); a flash makes the change of version that the pressed
button named (`ConfirmationIsTrue`); and at boot entry all of it still holds,
for the connected identity, and the window is open (`BootIsJustified`).
`PressFlashes` says when an enabled button does not flash. While nobody else has
the session, the only reason is a validity window that has closed since the
review: at this press, or at an earlier one whose refusal left the button
enabled (`ui.py` 610, although the repository's README has it disabled when
checks fail), after which pressing it does nothing. When a second connect worker
had the session in between, the press may also end in an exception of
`preflight` (`ui.py` 607), or in a flash that finds no approval.

*Sessions.* One user of the wire at a time, on an open port; no half sessions
after a failed connect; an approval is used once and for what it was issued for;
while an attempt may touch the device there is a transcript of it, and one that
says it succeeded or needs recovery tells of an attempt that was made and ended
so (`AttemptIsOnRecord`); a session never drifts to another unit. A transcript
that says `flash_blocked` tells nothing of the device: see the first
disagreement below.

*Screens.* A flash in progress is always watched by a screen that waits for its
result, and gets one; a monitor's in-flight flag is never stuck; no dashboard,
covered by whatever, polls into the firmware workflow; Enter after the result
leads to a dashboard. Of q and Ctrl-C it holds that they leave the application
during a flash only from a screen that covers the progress screen
(`ExitIsCovered`), which `console_exit` shows to happen. Ctrl-Q needs no such
screen: see the last disagreement below.

### Fairness

- `Flasher!FairSpec`: `WF(Host)`, since `flash()` runs on one thread and each
  call it makes returns, and `WF(Tick)`, since time passes. Nothing is assumed of
  the unit, and a blocked read ends only by a byte or by its timeout.
- `SerialLink!FairSpec`: `WF(Query)`: `_query` runs on one thread and every read
  returns, by its timeout at the latest. A query ends because the unit sends
  finitely much: `QueryEnds` is about answers that stop. Against a line that
  never falls silent the loop of `protocol.py` 431 has no deadline; such a line
  is not in the model, and the property says nothing about it.
- `Session!FairSpec`: weak fairness of each worker's steps once its call began.
  The flasher's return is what `FlashEnds` shows. Weak fairness suffices
  although the lock is not fair, because every thread makes one call; a worker
  that never starts is no fault.
- `Console!FairSpec`: strong fairness of each worker. Here polls may come again
  and again, so a waiting flash needs a lock that does not starve it. Python's
  lock promises that no more than it promises order; polls are 0.8 s apart and
  stop when the firmware screen is opened, which is why it holds in practice. No
  key is ever assumed to be pressed.

## Disagreements between code and documents

1. **An exception after boot entry** (`flash_escape`). The two terminal calls of
   the sink (`flasher.py` 350 and 360) are outside the handler's reach. If one
   raises, `flash()` raises although the device was changed, against its
   docstring (`flasher.py` 153) and the comment that relies on it (`ui.py` 665).
   The application's sink is a `call_from_thread`, which raises when the
   interface is gone. The operator is then told that the update did not start,
   and the transcript says `flash_blocked` (`application.py` 300). With sinks that do not raise there the property holds and
   is proved.
2. **Quitting after the result** (`console_notice`). The README says q and
   Escape are disabled only while a transfer is active. They stay disabled
   after it, and pressing them overwrites the result, a recovery message
   included, with "Transfer is active". `tests/test_ui_additional.py` 171
   expects the refusal with a result on the screen, so that README and test
   disagree too.
3. **Quitting during a flash** (`console_exit`). Ctrl-C is refused only when the
   progress screen is on top. Enter pressed twice on the port list makes two
   connections; if the second one's report is handled after the flash was
   started, its dashboard covers the progress screen and Ctrl-C or q leaves the
   application during the transfer. The window is narrow (the second connection
   must succeed just before the flash button is pressed), but nothing closes it.
   The docstring (`ui.py` 741) honours Ctrl-C "except while firmware bytes may be
   in flight".
4. **The inherited quit** (no run). `JkFlashApp` (`ui.py` 714) and the
   progress screen bind Ctrl-C, q and Escape. Textual's `App` also binds Ctrl-Q,
   with priority, and offers Quit in its command palette; both leave from the
   progress screen itself, where `ui.py` 692 says that quit is disabled. This
   rests on the library's default bindings, which no file of the repository
   shows. `Console` has it as `InheritedQuit`, enabled on every screen; a run
   against it would find that one step.

## Proofs

All checked by TLAPS; no assumption but the ASSUMEs of the modules, which TLC
evaluates in the runs.

`BlockStreamProofs`: for every body length, `PacketsTile` (packets tile the body
without gap or overlap, each passes `build_transfer_packet`'s guards, numbers
follow one another modulo 256, exactly the last is final), from which
`StreamDeliversBody` and `StreamRefusesEmptyOnly` follow by an invariant that
says where the receiver is after each packet, as do `StreamTypes` and
`StreamWireSizes`.

`FlasherInductive` proves `FlashInvariant == Spec => []FlashInv`.
The properties are not inductive by themselves. "SUCCEEDED is true" is broken
by a step from a state with the right `pc` and too few stored packets; so
`FlashInv` adds, in named parts, what the program's position implies:
`ControlInv` (position and `attempted`), `BindingInv` (approval, identity and
telemetry established so far), `TransferInv` (how far host and unit may be
apart, and what a pending reply proves about the unit), `VerdictInv` (what a
verified identity rests on) and `TimeInv` (which timeout the port has, and when
the current read ends). There is one lemma for each group of actions, and
`Raise`, shared by nearly all, has lemmas of its own.

`FlasherProofs` concludes, for all units, images of any length, packs, limits,
timings and raising sinks: `FlashTypes`, `FlashOutcomeIsTrue`,
`FlashProgressIsAcknowledged`, `FlashReadsEndByDeadline`,
`FlashOrdinaryTimeoutRestored`, `FlashBootOnlyJustified` (an action property),
`FlashEscapeMeansNotBooted` (when the terminal notifications do not raise, the
premise that `flash_escape` shows to be needed) and `FlashImplementsContract`
(initial states map to initial states, every step to a step or a stutter).

`QueryContractProofs` proves of the abstract query, for sessions of any length,
that an answer lags by at most the queries that raised (`QueryLagBounded`), by
an invariant on where each answer stands among the questions, and from it
`QueryPreBootFresh`.

`SerialLinkProofs` proves `LinkInvariant` for any size of frame, marker,
buffer and acknowledgement and every damage of `Damaged`, stray bytes after
the acknowledgement included. `LinkInv` has four parts: `LineInv`
(the line is a sequence of answers in the order of the questions), `WindowInv`
(the buffer is one stretch of it), `QueryInv` (what a query has asked and holds
at each of its steps) and `FramesInv` (the frames found are whole frames on the
line, later than everything served before, and what was given up was no frame).
It concludes `LinkTypes`, `LinkRoomForMore`,
`LinkNoFrameSkipped`, `LinkFreshAnswerIsLast`, the refinement
`LinkImplementsContract`, and through it `LinkPreBootFresh`: the freshness proved
of the contract holds of the bytes.

`PreparationProofs` proves, for any profile, files, identities and clock, that an
inspected file lands in flash (`InspectedLands`) and an allowing report is about
an image made for the device (`AllowedIsMadeFor`), also where the profile names
majors. `TypedInv` comes first, because the other two rest on it: it needs that
`None` is no identity, image, report or flash (`NoneAssumption`), and that
adopting software keeps the unit (`DevicesAssumption`). `PreparationInv` carries
`AllowedIsMadeFor` through screens and sessions that change hands at any moment:
what is on the firmware screen is for the connected identity unless somebody
else had the session, an approval is for its unit, and a flash that goes on is
for the connected identity, which nobody replaces while the flash has the lock.
For the two properties on confirmations, `ButtonInv` says what an enabled button
stands for (the last report, or a refusal for the window alone) and `NoteInv`
what was pushed. `ScreensAreTyped`, `SoundImages`, `JustifiedApprovals`,
`JustifiedBoot`, `TrueConfirmations` and `PressesFlash` follow.

`SessionProofs` proves of `Session`, for any number of threads, identities,
images and calls of the UI thread, everything its run checks but that calls
return. `WireIsExclusive` and the rest are not inductive: nothing in them says
what the thread that holds the lock has already tested. `SessionInv` says it:
`LockInv` (a thread is past `Enter` and not done exactly when it holds
`_serial_lock`, so no two are), `WholeInv` (what is open while `connect` opens
and discovers, and that from the tests of `flash` on there is a port and the
identity is the one of the call), `ApprovalInv` (an approval is for an allowed
pair and older than any that may still be issued; no approval is in two places
except between the two statements that take and clear it, which is where the
lock is needed), `AttemptInv` and `RecordInv` (how far an attempt has come when
the transcript and the result say what they say). One lemma per action shows it
kept; the UI thread, which takes no lock, needs only that it writes nothing but
`_approval`. TLC checked `SessionInv` on the run's instance before the proof.
`SessionKeepsUnit` follows because only `Answer`, which compares the physical
unit, and `Adopt`, which `WholeInv` ties to the identity of the call, write an
identity over another.

`ConsoleProofs` proves, for any number of screens and workers, every property of
`Console` that holds and is not liveness. None of them is inductive: whether the
in-flight flag of a dashboard is real after it was covered, left and reached
again depends on which names may be used again. `ConsoleInv` says what does hold
in every step. `Tower`: the port list is at the bottom only, names differ, a
progress screen lies on the firmware screen that started it and that one on a
dashboard, and no covered dashboard polls. `WatchInv` and `PollInv` pair flashes
with open progress screens and polls with dashboards that await one, each one to
one; `ConnectInv` keeps the name of the dashboard to come from everybody else.
There are lemmas on the stack (`SetTopTower`, `PopTower`, `PushTower`), one for
all steps that leave the calls as they are and drop no screen that waits
(`KeptCallInv`), and one for each of the others. The last point is what
`ReturnDashboard` needs its check of the result for: popped without one, the
progress screen would leave a flash behind that no screen waits for.
`ScreensAreOfTheirKind`, `ProgressIsTrue`, `MonitorIsNeverStuck`,
`NoPollDuringUpgrade`, `EnterReturnsToDetails` and, for q and Ctrl-C, `LeftOnlyFromAbove` follow.

Only model-checked: liveness (`FlashEnds`, `QueryEnds`, `CallsReturn`,
`FlashIsAnswered`), which is out of the provers' reach. Every other property of
a passing run is stated by a theorem.

## Not modelled

- *Telemetry and identity frames*: offsets and scaling, data with no state. That
  a frame may not decode is in `SerialLink`.
- *Serial adapters*: reading and writing are in `SerialLink`, timeout and handles
  in `Flasher` and `Session`; listing ports is left out.
- *Domain types, profiles, command line*: data types, constants and argument
  parsing.
- *The order of keys and messages in the terminal library*: whether an Enter
  typed during an inspection reaches the flash button that then has the focus,
  and whether two presses of that button are both queued before the first is
  handled. `start_flash` (`ui.py` 616) does not ask whether a progress screen was
  pushed already, so two such presses would push two; the second flash would
  find the approval consumed, which `Session` has (`AttemptIsApproved`).

## Plan

Done, in this order: packets; the contract and `flash()`; the session; the
screens; proofs for packets and `flash()`; queries and their contract, with
proofs; firmware, compatibility and the way to boot entry, with proofs; proofs for
the session and for the screens.

Left:

1. That `Console`'s view of the session is one that `Session` provides, so that
   the composition is checked and not only argued.
