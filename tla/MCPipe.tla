------------------------------- MODULE MCPipe -------------------------------
(* Small instances of Pipe for TLC.                                        *)
EXTENDS Pipe, TLC

MCSymmetry == Permutations(Readers) \cup Permutations(Writers)
=============================================================================
