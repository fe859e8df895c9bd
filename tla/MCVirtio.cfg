\* Descriptors for two of three requests and one left over, so that alloc3_desc()
\* fails with none left and halfway, and ring indices that wrap.
CONSTANTS
    Bufs = {b1, b2, b3}
    Vals = {0, 1}
    InitVal = 0
    NUM = 7
    UINT16 = 14
    None = None
SPECIFICATION Spec
SYMMETRY MCSymmetry
INVARIANTS DescriptorsAccounted NobodyForgotten
PROPERTY ImplementsBlockDevice
