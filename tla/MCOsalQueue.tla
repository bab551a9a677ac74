---------------------------- MODULE MCOsalQueue ----------------------------
(* Instances of OsalQueue for TLC: threads are interchangeable. *)
EXTENDS OsalQueue, TLC

ThreadSymmetry == Permutations(Threads)
=============================================================================
