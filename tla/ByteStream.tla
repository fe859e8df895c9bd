----------------------------- MODULE ByteStream -----------------------------
(***************************************************************************)
(* What a pipe promises: a bounded first-in first-out stream of bytes.     *)
(* Bytes come out in the order they went in, none is lost, invented or     *)
(* doubled, and never more than Capacity are in flight.                    *)
(***************************************************************************)
EXTENDS Naturals, Sequences

CONSTANTS Byte, Capacity

VARIABLE queue

Init == queue = <<>>

Put ==
    /\ Len(queue) < Capacity
    /\ \E b \in Byte : queue' = Append(queue, b)

Get ==
    /\ queue # <<>>
    /\ queue' = Tail(queue)

Next == Put \/ Get

Spec == Init /\ [][Next]_queue
=============================================================================
