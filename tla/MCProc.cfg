CONSTANTS
    Slots = {init, s1, s2, s3}
    initproc = init
    Killable = {s1, s2, s3}
    CPUs = {c1, c2}
    None = None
SPECIFICATION Spec
SYMMETRY MCSymmetry
INVARIANTS OneCpuPerStack SchedLocks ExitsSeen
