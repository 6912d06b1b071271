----------------------------- MODULE Preparation -------------------------------
(***************************************************************************)
(* From a file on disk to boot entry: the firmware screen of ui.py, the    *)
(* inspection and the preflight it asks of JkApplication, the approval     *)
(* they leave there, and what is checked again on the way to the           *)
(* bootloader.  The inspector and the evaluator are those of Firmware and  *)
(* Compatibility; the validity window of an image is read against the      *)
(* host's clock, which moves at any moment, in either direction.           *)
(*                                                                         *)
(* Of the screens one dashboard, with what is pushed over it, is followed  *)
(* step by step.  Another connect worker may replace the session under it  *)
(* and push a second dashboard over it; what is done from there is told by *)
(* its effect on the session: a review, or a whole flash.                  *)
(***************************************************************************)
EXTENDS Compatibility

CONSTANTS
  Devices,   \* the identities a device answers with when it is connected
  Files,     \* the files an operator may choose
  Times,     \* what the clock shows
  None       \* Python's None

(* The numbers in a file are numbers; it names its model in three places.  *)
ASSUME FilesAssumption ==
  \A f \in Files :
    /\ {f.declared, f.inflated, f.sp, f.reset} \subseteq Nat
    /\ f.version.numbers \in Seq(Nat)
    /\ DOMAIN f.models = 1 .. 3

(* _physical_identity: what a device keeps when its software changes.      *)
Unit(device) ==
  <<device.serial, device.model, device.max_cells, device.hardware>>

ASSUME DevicesAssumption ==
  \A device \in Devices :
    DOMAIN device = {"serial", "model", "max_cells", "hardware", "software"}

(* Identities of the session: those that devices answer with, and those    *)
(* adopted after a flash.                                                  *)
Adopted(device, version) == [device EXCEPT !.software = version]
Identities ==
  Devices \cup {Adopted(device, f.version) : device \in Devices, f \in Files}
Images  == {ImageOf(f) : f \in Files}
Changes == {"upgrade", "reinstall", "downgrade"}
Flashes ==
  [step : {"asked", "approved", "booted", "ended"}, identity : Identities,
   image : Images, note : Changes, offered : Changes]

(* It is no identity, no image, no report and no flash.                    *)
ASSUME NoneAssumption ==
  /\ None \notin Identities /\ None \notin Images /\ None \notin Flashes
  /\ \A device \in Identities, img \in Images,
        confirmed \in SUBSET {"reinstall", "downgrade"}, t \in Times :
       Issues(device, img, confirmed, t) # None

VARIABLES
  connected,  \* JkApplication._identity
  flashes,    \* _profile is one that supports flashing
  connecting, \* connect has closed the session and holds the lock
  second,     \* there has been another dashboard on top of this one
  approval,   \* _approval
  screen,     \* the screen on top
  shown,      \* FirmwareScreen.identity, and the dashboard's before it
  image, report,  \* FirmwareScreen.image and .report
  button,     \* what the flash button offers, "disabled" if it is
  progress,   \* ProgressScreen: what it was pushed with, how far it is
  now,        \* the clock
  disturbed   \* history: someone else had the session since the last review

session == <<connected, flashes, connecting, second, disturbed>>
review == <<image, report, button>>
vars == <<session, approval, screen, shown, review, progress, now>>

(* _select_profile; a version that starts with a V has no leading integer. *)
LeadingInteger(version) ==
  IF version.prefixed \/ version.numbers = <<>> THEN -1 ELSE Major(version)

Selects(device) ==
  /\ Canonical(device.model) \in Profile.models
  /\ ~WrongMajor(Profile.hardware_major, device.hardware)
  /\ ~WrongMajor(Profile.firmware_major, LeadingInteger(device.software))
  /\ device.max_cells <= Profile.max_supported_cells

Init ==
  /\ connected \in Devices /\ flashes = Selects(connected)
  /\ connecting = FALSE /\ second = FALSE /\ disturbed = FALSE
  /\ approval = None
  /\ screen = "dashboard" /\ shown = connected
  /\ image = None /\ report = None /\ button = "disabled"
  /\ progress = None
  /\ now \in Times

(* A flash has the lock until it returns, and so has connect.              *)
Locked ==
  connecting \/ (screen = "progress" /\ progress.step \in {"approved", "booted"})

(* Another connect worker (of a connect pressed twice, or of an earlier    *)
(* one that was not interrupted) gets the lock and closes the session.     *)
Disconnect ==
  /\ ~Locked
  /\ connected' = None /\ flashes' = FALSE /\ approval' = None
  /\ connecting' = TRUE /\ disturbed' = TRUE
  /\ UNCHANGED <<second, screen, shown, review, progress, now>>

(* A device answers, or none does.  Its dashboard is pushed over whatever  *)
(* is there: the one that is followed is then the new one or the old one.  *)
Connect ==
  /\ connecting /\ connecting' = FALSE
  /\ \/ /\ connected' \in Devices /\ flashes' = Selects(connected')
        /\ second' = TRUE /\ approval' = None
        /\ shown' \in IF screen = "dashboard" THEN {shown, connected'} ELSE {shown}
     \/ UNCHANGED <<connected, flashes, second, approval, shown>>
  /\ UNCHANGED <<disturbed, screen, review, progress, now>>

Tick ==
  /\ now' \in Times
  /\ UNCHANGED <<session, approval, screen, shown, review, progress>>
-------------------------------------------------------------------------------
(* The firmware screen.                                                    *)
KeepButton == image' = None /\ report' = None /\ UNCHANGED button \* fault variant
Forget == image' = None /\ report' = None /\ button' = "disabled"

(* The dashboard learns of other software of its unit, if it can read it.  *)
Readable(device) == flashes /\ Unit(device) = Unit(shown)

Upgrade ==
  /\ screen = "dashboard" /\ screen' = "firmware"
  /\ shown' \in {device \in {shown, connected} : device = shown \/ Readable(device)}
  /\ UNCHANGED <<session, approval, review, progress, now>>

Back ==
  /\ screen = "firmware" /\ screen' = "dashboard"
  /\ Forget
  /\ UNCHANGED <<session, approval, shown, progress, now>>

Reload ==
  /\ screen = "firmware"
  /\ Forget
  /\ UNCHANGED <<session, approval, screen, shown, progress, now>>

(* Nothing is selected: the image and its report stay.                     *)
SelectNothing ==
  /\ screen = "firmware"
  /\ button' = "disabled"
  /\ UNCHANGED <<session, approval, screen, shown, image, report, progress, now>>

(* The inspector raises, or there is no capability to inspect or flash     *)
(* with: an approval of another file is still there.                       *)
InspectFails(f) ==
  /\ screen = "firmware"
  /\ ~flashes \/ ~Inspects(f, now)
  /\ Forget
  /\ UNCHANGED <<session, approval, screen, shown, progress, now>>

(* "preflight identity is not the connected identity".                     *)
PreflightRaises(f) ==
  /\ screen = "firmware"
  /\ flashes /\ Inspects(f, now) /\ shown # connected
  /\ Forget
  /\ approval' = None
  /\ UNCHANGED <<session, screen, shown, progress, now>>

Approve(device, img, issues) ==
  approval' = IF Allowed(issues) THEN [identity |-> device, image |-> img] ELSE None

(* The label of the button.                                                *)
Offer(issues) ==
  CASE "downgrade_confirmation_required" \in issues -> "downgrade"
    [] "reinstall_confirmation_required" \in issues -> "reinstall"
    [] OTHER -> "upgrade"

(* The clock is read by the inspector, and again by the evaluator.         *)
InspectAndPreflight(f) ==
  /\ screen = "firmware"
  /\ flashes /\ Inspects(f, now) /\ shown = connected
  /\ image' = ImageOf(f)
  /\ now' \in Times
  /\ report' = Issues(shown, image', {}, now')
  /\ Approve(shown, image', report')
  /\ button' = IF Blocking(report') THEN "disabled" ELSE Offer(report')
  /\ disturbed' = FALSE
  /\ UNCHANGED <<connected, flashes, connecting, second, screen, shown, progress>>

(* The same on a firmware screen over the second dashboard.  It needs no   *)
(* lock, so that a flash may be going on.                                  *)
OtherReview(f) ==
  /\ second /\ flashes /\ Inspects(f, now)
  /\ now' \in Times
  /\ Approve(connected, ImageOf(f), Issues(connected, ImageOf(f), {}, now'))
  /\ disturbed' = TRUE
  /\ UNCHANGED <<connected, flashes, connecting, second, screen, shown, review, progress>>
-------------------------------------------------------------------------------
(* start_flash, of an enabled button.                                      *)

(* _numeric_version: digits and dots only, after a V.                      *)
Numeric(version) == version.numbers # <<>> /\ ~version.letter

Comparable == Numeric(shown.software) /\ Numeric(image.version)

NumbersOnly(codes, code) == FALSE                             \* fault variant
Required(codes, code) == code \in codes

SameVersion ==
  \/ Comparable /\ image.version.numbers = shown.software.numbers
  \/ Required(report, "reinstall_confirmation_required")

Downgraded ==
  \/ Comparable /\ Older(image.version.numbers, shown.software.numbers)
  \/ Required(report, "downgrade_confirmation_required")

Confirmed ==
  (IF SameVersion THEN {"reinstall"} ELSE {})
    \cup (IF Downgraded THEN {"downgrade"} ELSE {})

Note == CASE SameVersion -> "reinstall"
          [] Downgraded /\ ~SameVersion -> "downgrade"
          [] OTHER -> "upgrade"

PushProgress ==
  /\ screen' = "progress"
  /\ progress' = [step |-> "asked", identity |-> shown, image |-> image,
                  note |-> Note, offered |-> button]

(* The second preflight raises when the session is no longer the one that  *)
(* was reviewed, and nothing changes.  The button stays enabled when the   *)
(* image is refused; pressing it then does nothing.                        *)
Preflight ==
  /\ flashes /\ shown = connected
  /\ now' \in Times
  /\ report' = Issues(shown, image, Confirmed, now')
  /\ Approve(shown, image, report')
  /\ IF Allowed(report') THEN PushProgress ELSE UNCHANGED <<screen, progress>>

PreflightUnavailable ==
  /\ ~flashes \/ shown # connected
  /\ UNCHANGED <<report, approval, now, screen, progress>>

StartFlash ==
  /\ screen = "firmware" /\ button # "disabled"
  /\ image # None /\ report # None
  /\ \/ Blocking(report) /\ UNCHANGED <<report, approval, now, screen, progress>>
     \/ ~Blocking(report) /\ Confirmed # {} /\ (Preflight \/ PreflightUnavailable)
     \/ /\ ~Blocking(report) /\ Confirmed = {}
        /\ PushProgress /\ UNCHANGED <<report, approval, now>>
  /\ UNCHANGED <<session, shown, image, button>>
-------------------------------------------------------------------------------
(* The progress screen and the flash it asks for.                          *)
MayFlash == flashes /\ progress.identity = connected /\ approval # None

Accepted ==
  approval.identity = progress.identity /\ approval.image = progress.image

To(step) == progress' = [progress EXCEPT !.step = step]

(* _flash_locked up to _require_approval, or to whatever raises before.    *)
TakeApproval ==
  /\ screen = "progress" /\ progress.step = "asked" /\ ~Locked
  /\ IF MayFlash
     THEN /\ approval' = None
          /\ \/ Accepted /\ To("approved")
             \/ To("ended")
     ELSE To("ended") /\ UNCHANGED approval
  /\ UNCHANGED <<session, screen, shown, review, now>>

(* The last check before send_enter_bootloader.                            *)
NoLastCheck == TRUE                                           \* fault variant
StillValid == WindowOpen(progress.image.suffix, now)

Boot ==
  /\ screen = "progress" /\ progress.step = "approved"
  /\ StillValid
  /\ To("booted")
  /\ UNCHANGED <<session, approval, screen, shown, review, now>>

Stop ==
  /\ screen = "progress" /\ progress.step = "approved"
  /\ To("ended")
  /\ UNCHANGED <<session, approval, screen, shown, review, now>>

(* A verified identity, with the new software, becomes the session's.      *)
End ==
  /\ screen = "progress" /\ progress.step = "booted"
  /\ To("ended")
  /\ connected' \in {connected, Adopted(connected, progress.image.version)}
  /\ UNCHANGED <<flashes, connecting, second, disturbed>>
  /\ UNCHANGED <<approval, screen, shown, review, now>>

(* A flash asked for from the second dashboard consumes the approval       *)
(* there is, whichever screen asked for it, and may adopt its software.    *)
OtherFlash ==
  /\ second /\ flashes /\ ~Locked
  /\ approval # None /\ approval' = None
  /\ \/ UNCHANGED connected
     \/ /\ approval.identity = connected
        /\ connected' = Adopted(connected, approval.image.version)
  /\ disturbed' = TRUE
  /\ UNCHANGED <<flashes, connecting, second, screen, shown, review, progress, now>>

(* Both screens are popped.                                                *)
Return ==
  /\ screen = "progress" /\ progress.step = "ended"
  /\ screen' = "dashboard" /\ progress' = None
  /\ Forget
  /\ UNCHANGED <<session, approval, shown, now>>

Next ==
  \/ Disconnect \/ Connect \/ Tick
  \/ Upgrade \/ Back \/ Reload \/ SelectNothing
  \/ \E f \in Files : \/ InspectFails(f) \/ PreflightRaises(f)
                     \/ InspectAndPreflight(f) \/ OtherReview(f)
  \/ StartFlash \/ TakeApproval \/ Boot \/ Stop \/ End \/ OtherFlash \/ Return

Spec == Init /\ [][Next]_vars
-------------------------------------------------------------------------------
(* The screens and the approval have values the code can give them; a      *)
(* button that can be pressed has an image and a report behind it.         *)
TypeOK ==
  /\ screen \in {"dashboard", "firmware", "progress"}
  /\ {flashes, connecting, second, disturbed} \subseteq BOOLEAN /\ now \in Times
  /\ flashes => connected # None /\ ~connecting
  /\ button \in Changes \cup {"disabled"}
  /\ screen = "dashboard" => image = None /\ button = "disabled"
  /\ image = None <=> report = None
  /\ image = None => button = "disabled"
  /\ progress # None <=> screen = "progress"
  /\ progress # None => /\ progress.step \in {"asked", "approved", "booted", "ended"}
                        /\ {progress.note, progress.offered} \subseteq Changes

(***************************************************************************)
(* The image on the screen is the whole content of a file, not what a cut  *)
(* or damaged stream gave, and programming it lands in the application's   *)
(* flash and starts there, whatever sizes and addresses the profile names. *)
(***************************************************************************)
LandsInFlash(img) ==
  /\ img.transfer_body > 0 /\ img.transfer_body + SuffixSize = img.decoded
  /\ Profile.app_flash_start + img.transfer_body <= Profile.app_flash_end
  /\ \E start \in Profile.app_flash_start .. Profile.app_flash_end - 1 :
       img.reset_vector = start + 1 /\ (start % 2) = 0
  /\ img.initial_sp \in Profile.sram_start .. Profile.sram_end - 1

WholeContent(img) ==
  \E f \in Files :
    /\ f.stream = "whole" /\ f.declared = f.inflated /\ f.inflated = img.decoded
    /\ \A i \in DOMAIN f.models : Canonical(f.models[i]) = Canonical(img.model)

ImageIsSound == image # None => LandsInFlash(image) /\ WholeContent(image)

(***************************************************************************)
(* "Non-bypassable compatibility checks" (safety.py): whatever was         *)
(* inspected, confirmed and refused before, an approval is for the unit    *)
(* the session is connected to, with the software it has or had before a   *)
(* flash, and for an image made for it: its model in any spelling, its     *)
(* cells, and one major, the profile's if it names one, for the hardware   *)
(* and both versions of the software, whatever capability was selected     *)
(* when the unit was connected and kept after its software changed.        *)
(***************************************************************************)
MadeFor(device, img) ==
  /\ device.model.valid /\ img.model.valid
  /\ device.model.name = img.model.name /\ device.model.name \in Profile.models
  /\ device.max_cells \in 1 .. Profile.max_supported_cells
  /\ Encodes[device.model.name] \in {0, device.max_cells}
  /\ {Major(device.software), Major(img.version)} = {device.hardware}
  /\ {Profile.hardware_major, Profile.firmware_major} \subseteq {0, device.hardware}
  /\ Len(device.software.numbers) = Len(img.version.numbers)

ApprovalIsJustified ==
  approval # None => /\ connected # None /\ Unit(approval.identity) = Unit(connected)
                     /\ MadeFor(approval.identity, approval.image)
                     /\ LandsInFlash(approval.image)

(***************************************************************************)
(* "Downgrades and reinstalls are supported only when the flash button     *)
(* explicitly identifies that operation" (README.md): what the pressed     *)
(* button offered, and what the progress screen says was confirmed, is     *)
(* the change of version the flash makes.                                  *)
(***************************************************************************)
ChangeOf(device, img) ==
  CASE Older(img.version.numbers, device.software.numbers) -> "downgrade"
    [] img.version.numbers = device.software.numbers -> "reinstall"
    [] OTHER -> "upgrade"

ConfirmationIsTrue ==
  progress # None =>
    LET change == ChangeOf(progress.identity, progress.image)
    IN  progress.offered = change /\ progress.note = change

(***************************************************************************)
(* An enabled button does what it offers: pressing it leads to a flash     *)
(* with an approval for this unit and this image, although confirmations   *)
(* are computed twice, from the issues and from the version texts, and     *)
(* preflight runs again.  A press that leads to none was refused for the   *)
(* validity window of the image alone: it has closed since the review, at  *)
(* this press or at an earlier one that left the button enabled and the    *)
(* refusal behind it.  That is so while nobody else has had the session    *)
(* since the review: under a second connection the press may also be       *)
(* answered by an exception of preflight, or lead to a flash that finds    *)
(* no approval.                                                            *)
(***************************************************************************)
PressFlashes ==
  [][StartFlash /\ ~disturbed =>
       IF screen' = "progress"
       THEN approval' = [identity |-> connected, image |-> image]
       ELSE /\ report' \ Warnings = {"firmware_suffix_metadata_invalid"}
            /\ ~Blocking(report) => ~WindowOpen(image.suffix, now')]_vars

(***************************************************************************)
(* Boot entry is justified when it happens, not when it was approved: the  *)
(* image is for the session's unit, lands in flash, and its validity       *)
(* window is open at that moment, wherever the clock was at inspection,    *)
(* preflight and confirmation.                                             *)
(***************************************************************************)
BootIsJustified ==
  [][progress # None /\ progress' # None /\ progress.step # "booted" /\ progress'.step = "booted"
       => /\ progress.identity = connected
          /\ MadeFor(connected, progress.image) /\ LandsInFlash(progress.image)
          /\ WindowOpen(progress.image.suffix, now)]_vars
===============================================================================
