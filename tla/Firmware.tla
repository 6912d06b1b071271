------------------------------- MODULE Firmware -------------------------------
(***************************************************************************)
(* firmware.py: from a file to a FirmwareImage, or to a FirmwareError.     *)
(*                                                                         *)
(* A file is a record of what the code looks at.  Its zlib stream is       *)
(* "whole", "followed" by more bytes, "cut" short or "broken", and what    *)
(* there is of it decompresses to `inflated' bytes.  A model is the name   *)
(* left of it without separators, whether its syntax is valid, and how it  *)
(* is written.  A version is its numbers, a letter after them and a V      *)
(* before.                                                                 *)
(***************************************************************************)
EXTENDS Integers, Sequences, FiniteSets

CONSTANTS
  Profile,      \* the DeviceProfile that supports flashing; its model_pattern
                \* is the set `models' of names, None is 0
  AesBlock,     \* AES.block_size
  Overhead,     \* MAX_CONTAINER_OVERHEAD
  SuffixSize,   \* TRANSFER_SUFFIX_SIZE
  Hour, Grace   \* an hour and the two hours before the window, in the unit
                \* of the clock

(* A memory map.  MAX_DECODED_SIZE is above every profile's limit, and the *)
(* smallest image has room for the vectors, the identity and the suffix.   *)
ASSUME ProfileAssumption ==
  /\ {Profile.min_decoded_size, Profile.max_decoded_size, Profile.sram_start,
      Profile.sram_end, Profile.app_flash_start, Profile.app_flash_end,
      Profile.max_supported_cells} \subseteq Nat
  /\ SuffixSize \in Nat /\ SuffixSize < Profile.min_decoded_size

Smaller(a, b) == IF a <= b THEN a ELSE b

(* decode_firmware_container.                                              *)
Limit == Profile.max_decoded_size

Encrypted(f) == 0 < f.length /\ f.length <= Limit + Overhead /\ (f.length % AesBlock) = 0

(* What inflater.decompress returns and sets, given room for one byte more *)
(* than the limit.                                                         *)
Output(f) == Smaller(f.inflated, Limit + 1)

AnyEnd(f) == TRUE                                             \* fault variant
Eof(f) == f.stream \in {"whole", "followed"} /\ f.inflated <= Limit + 1

Inflates(f) ==
  /\ f.stream # "broken"
  /\ Output(f) <= Limit
  /\ Eof(f)
  /\ f.stream # "followed"
  /\ Output(f) = f.declared

Decodes(f) ==
  /\ Encrypted(f)
  /\ f.padded                  \* PKCS#7, and room for the size field
  /\ f.declared <= Limit
  /\ Inflates(f)
-------------------------------------------------------------------------------
(* canonicalize_model, where it does not raise.                            *)
ValidModel(model) == model.valid
Canonical(model) == model.name

(* fullmatch of _VERSION_RE.                                               *)
DecodedVersion(version) == Len(version.numbers) = 2 /\ ~version.prefixed

Identified(f) ==
  /\ DecodedVersion(f.version)
  /\ \A i \in DOMAIN f.models : ValidModel(f.models[i])
  /\ Cardinality({Canonical(f.models[i]) : i \in DOMAIN f.models}) = 1

(* The vector table, little-endian words whose low bit selects Thumb.      *)
InRam(sp) == Profile.sram_start <= sp /\ sp < Profile.sram_end
Aligned(sp) == (sp % 4) = 0
Thumb(reset) == (reset % 2) = 1
InFlash(reset) ==
  LET address == reset - (reset % 2)
  IN  Profile.app_flash_start <= address /\ address < Profile.app_flash_end

InRange(size) == Profile.min_decoded_size <= size /\ size <= Profile.max_decoded_size
FlashCapacity == Profile.app_flash_end - Profile.app_flash_start

(* validate_transfer_suffix: the validity window.                          *)
WindowOpen(suffix, now) ==
  /\ suffix.hours >= 0
  /\ suffix.hours > 0 =>
       /\ suffix.timestamp > 0
       /\ suffix.timestamp - Grace <= now
       /\ now <= suffix.timestamp + suffix.hours * Hour

(* _validate_profile_image.                                                *)
AnyVector(f) == TRUE                                          \* fault variant
SoundVectors(f) ==
  InRam(f.sp) /\ Aligned(f.sp) /\ Thumb(f.reset) /\ InFlash(f.reset)

FitsProfile(f, now) ==
  /\ InRange(f.inflated)
  /\ Canonical(f.models[1]) \in Profile.models
  /\ SoundVectors(f)
  /\ f.inflated - SuffixSize <= FlashCapacity
  /\ WindowOpen(f.suffix, now)

(* inspect_firmware: a file that passes, and the image made of it: the     *)
(* size of what was decoded, the body without the suffix.                  *)
Inspects(f, now) == f.readable /\ Decodes(f) /\ Identified(f) /\ FitsProfile(f, now)

ImageOf(f) ==
  [decoded |-> Output(f), transfer_body |-> Output(f) - SuffixSize,
   suffix |-> f.suffix, model |-> f.models[1], version |-> f.version,
   initial_sp |-> f.sp, reset_vector |-> f.reset]
===============================================================================
