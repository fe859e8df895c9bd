\* Two buffers for three blocks, so that blocks are recycled all the time.
CONSTANTS
    Procs = {p1, p2, p3}
    Bufs = {u1, u2}
    Blocks = {k1, k2, k3}
    Vals = {0, 1}
    InitVal = 0
    None = None
\* After a panic the system stops.
CHECK_DEADLOCK FALSE
SPECIFICATION Spec
SYMMETRY MCSymmetry
INVARIANT RefcntExact
PROPERTY ImplementsBlockStore
