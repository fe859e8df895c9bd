\* Two concurrent calls of up to two blocks each over two blocks; the log on disk
\* holds fewer blocks than begin_op() reserves, as in mkfs.c, and fills up.
CONSTANTS
    Procs = {p1, p2}
    Blocks = {b1, b2}
    Vals = {0, 1}
    InitVal = 0
    Torn = Torn
    MAXOPBLOCKS = 2
    LOGSIZE = 4
    NLOG = 3
SPECIFICATION FairSpec
INVARIANTS CallsCounted SleeperHasWaker ReservationHolds
PROPERTIES ImplementsAtomicDisk WriteAhead SomeoneAdmitted
