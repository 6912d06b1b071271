------------------------------- MODULE MCSession -------------------------------
(* Two software versions of one unit and one other unit; capabilities that *)
(* may flash, that may only monitor, and none.                             *)
EXTENDS Session, TLC

CONSTANTS w1, w2, w3, a1, a2, b, m1, m2, flashing, monitoring

MCPhysical  == [i \in Identities |-> IF i = b THEN b ELSE a1]
MCProfileOf == [i \in Identities |->
                  CASE i = a1 -> flashing [] i = a2 -> monitoring [] OTHER -> NoProfile]
MCAllowed   == {<<a1, m1>>, <<a2, m1>>}

(* Workers differ in nothing but their calls.                              *)
MCSymmetry == Permutations(Workers)
===============================================================================
