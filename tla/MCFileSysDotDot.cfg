\* Two processes, three inodes besides the unused number 0, two names.
CONSTANTS
    p1 = p1
    p2 = p2
    Procs = {p1, p2}
    NINODES = 4
    NINODE = 3
    Names = {"a", "b"}
    Calls <- MCCalls
    MaxNlink = 2
    None = None
SPECIFICATION Spec
INVARIANT NoTypePanic
CHECK_DEADLOCK FALSE
