------------------------------ MODULE MCVirtio ------------------------------
(* Small instances of Virtio for TLC.                                      *)
EXTENDS Virtio, TLC

MCSymmetry == Permutations(Bufs)
=============================================================================
