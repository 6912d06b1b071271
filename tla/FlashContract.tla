----------------------------- MODULE FlashContract -----------------------------
(***************************************************************************)
(* What FirmwareFlasher.flash promises, with no pc, clock, frame or sink:  *)
(* one attempt at sending `total' packets to a bootloader that may stop    *)
(* taking them at any moment.  The host leaves the device alone unless it  *)
(* enters the bootloader, never has more than one packet unanswered, never *)
(* sends a packet twice, ends in exactly one verdict, sends nothing after  *)
(* it, and calls the flash verified only when every packet is stored.      *)
(***************************************************************************)
EXTENDS Naturals

VARIABLES
  total,    \* packets of the image
  booted,   \* the boot-entry command may have reached the device
  sent,     \* packets sent
  held,     \* packets the device stored
  verdict   \* "open", "refused", "recovery" or "verified"

vars == <<total, booted, sent, held, verdict>>

Init ==
  /\ total \in Nat
  /\ booted = FALSE
  /\ sent = 0 /\ held = 0
  /\ verdict = "open"

(* Before boot entry every error is a refusal: nothing has changed.        *)
Refuse ==
  /\ verdict = "open" /\ ~booted
  /\ verdict' = "refused"
  /\ UNCHANGED <<total, booted, sent, held>>

Boot ==
  /\ verdict = "open" /\ ~booted
  /\ booted' = TRUE
  /\ UNCHANGED <<total, sent, held, verdict>>

Send ==
  /\ verdict = "open" /\ booted
  /\ held = sent /\ sent < total
  /\ sent' = sent + 1
  /\ UNCHANGED <<total, booted, held, verdict>>

(* The device stores what it was sent, perhaps after the host gave up.     *)
Hold ==
  /\ held < sent
  /\ held' = held + 1
  /\ UNCHANGED <<total, booted, sent, verdict>>

(* After boot entry every error is "recovery required".                    *)
Recover ==
  /\ verdict = "open" /\ booted
  /\ verdict' = "recovery"
  /\ UNCHANGED <<total, booted, sent, held>>

Verify ==
  /\ verdict = "open" /\ booted
  /\ held = total
  /\ verdict' = "verified"
  /\ UNCHANGED <<total, booted, sent, held>>

Next == Refuse \/ Boot \/ Send \/ Hold \/ Recover \/ Verify

Spec == Init /\ [][Next]_vars
===============================================================================
