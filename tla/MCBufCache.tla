----------------------------- MODULE MCBufCache -----------------------------
(* Small instances of BufCache for TLC.                                    *)
EXTENDS BufCache, TLC

MCSymmetry ==
    Permutations(Procs) \cup Permutations(Blocks) \cup Permutations(Bufs)
=============================================================================
