------------------------------- MODULE MCFlasher -------------------------------
EXTENDS FlasherProperties

CONSTANTS u1, u2, old, new, newSpaced

(* "V1" as the image names it, and " v1 " as a device may report it.       *)
MCVersions  == {old, new, newSpaced}
MCCanonical == [v \in MCVersions |-> IF v = old THEN old ELSE new]

Image(length, rebuilds, expires) ==
  [transfer_length |-> length, version |-> new, rebuilds |-> rebuilds,
   expires |-> expires]

Pack(plausible, current, faults, charge) ==
  [plausible |-> plausible, current |-> current, faults |-> faults,
   state_of_charge |-> charge]

(* At each limit and just past it.                                         *)
MCPacks ==
  {Pack(TRUE, 0, {}, 2), Pack(TRUE, -1, {"wire_resistance"}, 1),
   Pack(TRUE, 2, {}, 2), Pack(TRUE, -2, {}, 2),
   Pack(TRUE, 0, {"overcurrent"}, 2), Pack(TRUE, 0, {}, 0),
   Pack(FALSE, 0, {}, 2)}

(* An aligned body of one packet, one of two packets; one that does not    *)
(* rebuild the image and an empty one.                                     *)
MCImages == {Image(128, TRUE, TRUE), Image(129, TRUE, FALSE),
             Image(129, FALSE, FALSE), Image(0, TRUE, FALSE)}

(* One, two and three packets, the last aligned.                           *)
MCLongImages == {Image(128, TRUE, FALSE), Image(256, TRUE, FALSE), Image(257, TRUE, FALSE)}

(* Where only the transfer's timing matters.                               *)
MCOneVersion    == {new}
MCSameCanonical == [v \in MCOneVersion |-> v]
MCOnePack       == {Pack(TRUE, 0, {}, 2)}

(* Every notification but the two terminal ones.                           *)
MCCoveredSinks == Sinks \ {"n_recovery", "n_success"}
===============================================================================
