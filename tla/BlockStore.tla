----------------------------- MODULE BlockStore -----------------------------
(***************************************************************************)
(* What the buffer cache promises its users: an array of disk blocks, each *)
(* with its own lock.  Between bread() and brelse() of a block a process   *)
(* owns it: it alone sees and changes its contents, and what it sees is    *)
(* what the last owner left.                                               *)
(***************************************************************************)
CONSTANTS Procs, Blocks, Vals, InitVal, None

VARIABLES contents, owner

vars == <<contents, owner>>

Init ==
    /\ contents = [b \in Blocks |-> InitVal]
    /\ owner = [b \in Blocks |-> None]

Lock(p, b) ==
    /\ owner[b] = None
    /\ owner' = [owner EXCEPT ![b] = p]
    /\ UNCHANGED contents

Store(p, b, v) ==
    /\ owner[b] = p
    /\ contents' = [contents EXCEPT ![b] = v]
    /\ UNCHANGED owner

Unlock(p, b) ==
    /\ owner[b] = p
    /\ owner' = [owner EXCEPT ![b] = None]
    /\ UNCHANGED contents

Next ==
    \E p \in Procs, b \in Blocks :
        Lock(p, b) \/ Unlock(p, b) \/ \E v \in Vals : Store(p, b, v)

Spec == Init /\ [][Next]_vars
=============================================================================
