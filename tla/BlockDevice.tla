----------------------------- MODULE BlockDevice -----------------------------
(***************************************************************************)
(* What virtio_disk_rw() promises the buffer cache: each request is carried *)
(* out exactly once, at one moment between the call and the return.        *)
(***************************************************************************)
CONSTANTS Bufs, Vals, InitVal, None

VARIABLES
    stage,      \* "idle", "asked" or "done", for each buffer
    req,        \* what is asked: "read" or "write"
    data,       \* b->data
    disk        \* the block of each buffer

vars == <<stage, req, data, disk>>

Init ==
    /\ stage = [b \in Bufs |-> "idle"]
    /\ req = [b \in Bufs |-> None]
    /\ data = [b \in Bufs |-> InitVal]
    /\ disk = [b \in Bufs |-> InitVal]

Ask(b) ==
    /\ stage[b] = "idle"
    /\ stage' = [stage EXCEPT ![b] = "asked"]
    /\ \E r \in {"read", "write"} : req' = [req EXCEPT ![b] = r]
    /\ \E v \in Vals : data' = [data EXCEPT ![b] = v]
    /\ UNCHANGED disk

Do(b) ==
    /\ stage[b] = "asked"
    /\ stage' = [stage EXCEPT ![b] = "done"]
    /\ IF req[b] = "write"
         THEN disk' = [disk EXCEPT ![b] = data[b]] /\ UNCHANGED data
         ELSE data' = [data EXCEPT ![b] = disk[b]] /\ UNCHANGED disk
    /\ UNCHANGED req

Return(b) ==
    /\ stage[b] = "done"
    /\ stage' = [stage EXCEPT ![b] = "idle"]
    /\ req' = [req EXCEPT ![b] = None]
    /\ data' = [data EXCEPT ![b] = InitVal]
    /\ UNCHANGED disk

Next == \E b \in Bufs : Ask(b) \/ Do(b) \/ Return(b)

Spec == Init /\ [][Next]_vars
=============================================================================
