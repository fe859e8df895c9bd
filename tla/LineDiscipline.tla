--------------------------- MODULE LineDiscipline ---------------------------
(***************************************************************************)
(* What the console promises its readers.  Characters collect in a line    *)
(* that only its typist edits, at its end.  A line becomes readable as a   *)
(* whole, when a newline or an end-of-file mark completes it or when the   *)
(* buffer is full, and readable characters are consumed once, in order.    *)
(***************************************************************************)
EXTENDS Naturals, Sequences

CONSTANTS Char,        \* the characters that can be stored
          Ends,        \* those that complete a line
          Capacity     \* of the line and the readable characters together

VARIABLES line, ready

Init == line = <<>> /\ ready = <<>>

Type(c) ==
    /\ Len(line) + Len(ready) < Capacity
    /\ IF c \in Ends \/ Len(line) + Len(ready) + 1 = Capacity
       THEN line' = <<>> /\ ready' = ready \o Append(line, c)
       ELSE line' = Append(line, c) /\ ready' = ready

Erase ==
    /\ line # <<>>
    /\ line' = SubSeq(line, 1, Len(line) - 1)
    /\ ready' = ready

Consume ==
    /\ ready # <<>>
    /\ ready' = Tail(ready)
    /\ line' = line

Next == Erase \/ Consume \/ \E c \in Char : Type(c)

Spec == Init /\ [][Next]_<<line, ready>>
=============================================================================
