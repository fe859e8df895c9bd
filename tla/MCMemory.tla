------------------------------ MODULE MCMemory ------------------------------
(* Small instances of Memory for TLC.                                      *)
EXTENDS Memory

MCSbrks == {-3, -1, 0, 1, 3}

Seg(v, n, w, f) == [vaddr |-> v, memsz |-> n, w |-> w, fault |-> f]

\* A program of one segment, one of read-only text and writable data with a gap
\* between, one whose second segment lies below the first, an empty one, and ones
\* that fail at each stage.
MCPrograms ==
    [elf : {TRUE}, segs : {<<Seg(0, 3, TRUE, "none")>>}, fits : BOOLEAN]
    \cup
    [elf : {TRUE},
     segs : {<<Seg(0, 1, FALSE, "none"), Seg(4, 1, TRUE, "none")>>,
             <<Seg(2, 2, TRUE, "none"), Seg(0, 1, TRUE, "none")>>,
             <<Seg(0, 0, TRUE, "none")>>, <<>>,
             <<Seg(0, 1, TRUE, "none"), Seg(2, 1, TRUE, "header")>>,
             <<Seg(0, 1, TRUE, "read")>>}, fits : {TRUE}]
    \cup
    [elf : {FALSE}, segs : {<<>>}, fits : {TRUE}]

\* Every program without arguments and with two, and argument vectors that fail at
\* the second one, or are too long.
MCExecs ==
    [prog : MCPrograms, argv : {<<>>, <<"string", "string">>}]
    \cup
    [prog : {[elf |-> TRUE, segs |-> <<>>, fits |-> TRUE]},
     argv : {<<"string", "noaddr">>, <<"string", "nostring">>,
             <<"string", "string", "string">>}]

\* Pages are interchangeable.  While each is in one place, a state is determined,
\* up to a renaming of pages, by what is mapped where.
Perms(pt) == [v \in DOMAIN pt.pte |-> <<pt.pte[v].u, pt.pte[v].w>>]

MCView ==
    <<[i \in Slots |->
        <<proc[i].sz, DOMAIN proc[i].pt.tab, Perms(proc[i].pt),
          Used(i) /\ TRAPFRAME \in DOMAIN proc[i].pt.pte
            /\ proc[i].pt.pte[TRAPFRAME].pa = proc[i].tf>>],
      Cardinality(free), PagesAccounted, panicked, ret>>
=============================================================================
