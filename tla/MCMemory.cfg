\* Three processes compete for the pages of two.
CONSTANTS
    NPAGES = 18
    PGSIZE = 2
    FANOUT = 3
    Slots = {1, 2, 3}
    Sbrks <- MCSbrks
    Execs <- MCExecs
    MAXARG = 3
SPECIFICATION Spec
VIEW MCView
INVARIANTS PagesAccounted MapsMatchSize VmNeverPanics
PROPERTY FailedCallsUndone
