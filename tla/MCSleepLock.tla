---------------------------- MODULE MCSleepLock ----------------------------
(* A small instance of SleepLock for TLC, with the invariant of its proofs. *)
EXTENDS SleepLockProofs
=============================================================================
