------------------------------- MODULE MCProc -------------------------------
(* Small instances of Proc for TLC.                                        *)
EXTENDS Proc, TLC

\* Slots other than init's, and CPUs, are interchangeable.
MCSymmetry == Permutations(Slots \ {initproc}) \cup Permutations(CPUs)
=============================================================================
