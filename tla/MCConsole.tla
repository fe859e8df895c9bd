------------------------------ MODULE MCConsole ------------------------------
(* Small instances of Console for TLC.                                     *)
EXTENDS Console

\* Slots outside the ring's live part are overwritten before they are read.
MCView ==
    <<cons.r, cons.w, cons.e, cons.lock, Ready \o Line, tx, uart, th>>
=============================================================================
