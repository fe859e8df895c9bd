----------------------------- MODULE AtomicDisk -----------------------------
(***************************************************************************)
(* What the logging layer of xv6 promises to the file system calls above   *)
(* it: a disk whose updates become durable in groups of whole system       *)
(* calls.  Every call sees the newest contents of every block (view); a    *)
(* commit happens only while no call is in progress and makes the whole    *)
(* view durable in one step; a crash throws away exactly what has not been *)
(* committed.                                                              *)
(*                                                                         *)
(* Log.tla is shown to implement this specification.                       *)
(***************************************************************************)
CONSTANTS Procs, Blocks, Vals, InitVal

VARIABLES
    durable,    \* what a reboot now would bring back
    view,       \* what a system call reads now
    active      \* the system calls between begin_op() and end_op()

vars == <<durable, view, active>>

Init ==
    /\ durable = [b \in Blocks |-> InitVal]
    /\ view = durable
    /\ active = {}

Begin(p) ==
    /\ p \notin active
    /\ active' = active \cup {p}
    /\ UNCHANGED <<durable, view>>

Write(p, b, v) ==
    /\ p \in active
    /\ view' = [view EXCEPT ![b] = v]
    /\ UNCHANGED <<durable, active>>

End(p) ==
    /\ p \in active
    /\ active' = active \ {p}
    /\ UNCHANGED <<durable, view>>

Commit ==
    /\ active = {}
    /\ durable' = view
    /\ UNCHANGED <<view, active>>

Crash ==
    /\ view' = durable
    /\ active' = {}
    /\ UNCHANGED durable

Next ==
    \/ \E p \in Procs : Begin(p) \/ End(p)
    \/ \E p \in Procs, b \in Blocks, v \in Vals : Write(p, b, v)
    \/ Commit
    \/ Crash

Spec == Init /\ [][Next]_vars
=============================================================================
