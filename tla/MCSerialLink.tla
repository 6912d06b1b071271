----------------------------- MODULE MCSerialLink -----------------------------
EXTENDS SerialLink

(* Questions of length m that begin with an identity: the two kinds differ *)
(* in nothing else, so the other half is the same.                         *)
FirstIdentity(m) == {s \in [1 .. m -> Kinds] : m > 0 => s[1] = "identity"}

PreBoot == <<"identity", "identity", "telemetry">>

(* Three questions with one damaged answer, and any two questions before   *)
(* what flash() asks with answers that are only late or lost.              *)
MCSessions ==
  ((UNION {FirstIdentity(m) : m \in 0 .. 3}) \X {0, 1})
    \cup {<<SubSeq(before \o PreBoot, 1, n), 0>> : before \in [1 .. 2 -> Kinds], n \in 1 .. 5}
==============================================================================
