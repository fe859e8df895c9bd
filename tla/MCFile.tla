------------------------------- MODULE MCFile -------------------------------
(* Small instances of File for TLC.                                        *)
EXTENDS File, TLC

CONSTANTS p1, p2

\* A process and the children it makes: programs that pass descriptors around while
\* both allocate files, that remove and truncate files the child is writing, and
\* that write and read through a shared file.
MCPrograms == {
    (p1 :> {"create", "unlink", "dup", "fork", "close"})
      @@ (p2 :> {"open", "dup", "close", "exit"}),
    (p1 :> {"open", "pipe", "fork", "close"}) @@ (p2 :> {"pipe", "dup", "close", "exit"}),
    (p1 :> {"create", "unlink", "fork"}) @@ (p2 :> {"write", "exit"}),
    (p1 :> {"open", "fork", "write"}) @@ (p2 :> {"read", "write", "exit"})}

\* O_RDWR and O_WRONLY | O_TRUNC.
MCOmodes == {[r |-> TRUE, w |-> TRUE, trunc |-> FALSE], [r |-> FALSE, w |-> TRUE, trunc |-> TRUE]}

\* mkfs with one file, of one byte or of three blocks.
MCImages == {<<1>>, <<5>>}

\* A write of several chunks, and a length that wraps when it is added to f->off.
MCLens == {7, -1}
=============================================================================
