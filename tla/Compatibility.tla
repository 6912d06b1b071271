----------------------------- MODULE Compatibility -----------------------------
(***************************************************************************)
(* safety.py: evaluate_compatibility, the issues it reports for a device   *)
(* and an image.  An issue is its code; every one is an error but the two  *)
(* that tell of a change the operator has confirmed.                       *)
(***************************************************************************)
EXTENDS Firmware

CONSTANT
  Encodes       \* the number of cells a canonical name encodes, 0 if none
                \* (parse_model_components)

Warnings == {"downgrade", "reinstall"}
Confirmable == {"downgrade_confirmation_required", "reinstall_confirmation_required"}

(* ValidationReport.allowed.                                               *)
Allowed(issues) == issues \subseteq Warnings

Issue(code, holds) == IF holds THEN {code} ELSE {}

SyntaxOnly(device, image) ==                                  \* fault variant
  Issue("firmware_model_invalid", ~ValidModel(image.model))
ModelIssues(device, image) ==
  LET known == ValidModel(device.model)
  IN  Issue("device_model_invalid", ~known)
      \cup Issue("firmware_model_invalid", ~ValidModel(image.model))
      \cup Issue("model_not_supported",
                 known /\ Canonical(device.model) \notin Profile.models)
      \cup Issue("firmware_model_not_supported",
                 ValidModel(image.model) /\ Canonical(image.model) \notin Profile.models)
      \cup Issue("model_mismatch",
                 /\ known /\ ValidModel(image.model)
                 /\ Canonical(device.model) # Canonical(image.model))

CellIssues(device) ==
  LET known == ValidModel(device.model)
      encoded == Encodes[Canonical(device.model)]
  IN  Issue("cell_count_not_supported",
            known /\ device.max_cells \notin 1 .. Profile.max_supported_cells)
      \cup Issue("device_cell_count_mismatch",
                 known /\ encoded # 0 /\ device.max_cells # encoded)

(* _parse_hardware and _parse_release: a V before is allowed, a letter     *)
(* after is not compared.  Hardware is its major, -1 if it does not parse. *)
ValidHardware(hardware) == hardware >= 0
ValidRelease(version) == Len(version.numbers) = 2
Major(version) == version.numbers[1]

(* What the profile asks for, if it does: 0 stands for None.               *)
WrongMajor(required, major) == required # 0 /\ major # required

VersionIssues(device, image) ==
  LET hardware == ValidHardware(device.hardware)
      installed == ValidRelease(device.software)
      target == ValidRelease(image.version)
  IN  Issue("hardware_version_invalid", ~hardware)
      \cup Issue("device_software_version_invalid", ~installed)
      \cup Issue("firmware_version_invalid", ~target)
      \cup Issue("hardware_major_not_supported",
                 hardware /\ WrongMajor(Profile.hardware_major, device.hardware))
      \cup Issue("device_software_major_not_supported",
                 installed /\ WrongMajor(Profile.firmware_major, Major(device.software)))
      \cup Issue("firmware_major_not_supported",
                 target /\ WrongMajor(Profile.firmware_major, Major(image.version)))
      \cup Issue("device_major_mismatch",
                 hardware /\ installed /\ device.hardware # Major(device.software))
      \cup Issue("firmware_hardware_major_mismatch",
                 hardware /\ target /\ device.hardware # Major(image.version))

(* What the inspector has checked already, checked again.                  *)
WindowIssue(image, now) ==
  Issue("firmware_suffix_metadata_invalid", ~WindowOpen(image.suffix, now))

ImageIssues(image) ==
  Issue("image_size_out_of_range", ~InRange(image.decoded))
    \cup Issue("initial_sp_invalid", ~InRam(image.initial_sp) \/ ~Aligned(image.initial_sp))
    \cup Issue("reset_vector_not_thumb", ~Thumb(image.reset_vector))
    \cup Issue("reset_vector_out_of_range", ~InFlash(image.reset_vector))
    \cup Issue("transfer_body_invalid",
               image.transfer_body <= 0 \/ image.transfer_body + SuffixSize # image.decoded)
    \cup Issue("transfer_body_exceeds_flash",
               image.transfer_body > 0 /\ image.transfer_body > FlashCapacity)

(* _numeric_compare of versions of two numbers.                            *)
Older(a, b) == a[1] < b[1] \/ (a[1] = b[1] /\ a[2] < b[2])

NeverAsks(device, image, confirmed) == {}                     \* fault variant
DirectionIssues(device, image, confirmed) ==
  LET installed == device.software.numbers
      target == image.version.numbers
      parsed == ValidRelease(device.software) /\ ValidRelease(image.version)
      Change(happens, name, required) ==
        Issue(IF name \in confirmed THEN name ELSE required, parsed /\ happens)
  IN  Change(Older(target, installed), "downgrade", "downgrade_confirmation_required")
      \cup Change(target = installed, "reinstall", "reinstall_confirmation_required")

(* confirmed is the set of "reinstall", for same_version_confirmed, and    *)
(* "downgrade", for downgrade_confirmed.                                   *)
Issues(device, image, confirmed, now) ==
  ModelIssues(device, image) \cup CellIssues(device)
    \cup VersionIssues(device, image)
    \cup ImageIssues(image) \cup WindowIssue(image, now)
    \cup DirectionIssues(device, image, confirmed)

(* FirmwareScreen: what disables the flash button.                         *)
Blocking(issues) == ~(issues \subseteq Warnings \cup Confirmable)
===============================================================================
