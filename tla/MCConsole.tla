------------------------------- MODULE MCConsole -------------------------------
(* Names of screens and threads are interchangeable.                       *)
EXTENDS Console, TLC

MCSymmetry == Permutations(Ids) \cup Permutations(Threads)
===============================================================================
