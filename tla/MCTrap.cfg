\* Two CPUs and a process that moves between them, ticks that wrap.
CONSTANTS
    CPUs = {"c0", "c1"}
    cpu0 = "c0"
    Procs = {"p"}
    UINT = 3
    SleepArgs = {1, 2}
SPECIFICATION Spec
INVARIANTS NoPanic InterruptStateKept
PROPERTY SleepExact
