\* Two processes at each end, two bytes of buffer, counters that wrap at 4,
\* requests of up to three bytes.
\* Writers are not killed: a killed writer forgets its wakeup.
CONSTANTS
    Readers = {r1, r2}
    Writers = {w1, w2}
    Killable = {r1, r2}
    Byte = {0, 1}
    PIPESIZE = 2
    UINT = 4
    MaxN = 3
    None = None
SPECIFICATION Spec
SYMMETRY MCSymmetry
CHECK_DEADLOCK FALSE
INVARIANTS NoUseAfterFree SleepersBlocked
PROPERTY IsByteStream
