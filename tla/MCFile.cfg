\* Two files compete for the blocks left; a write of seven bytes takes four
\* blocks, the indirect block and several transactions.  The images have one file
\* besides "." and "..": an even number of entries would fill the root directory's
\* last block, the case EntriesEndInside leaves out.
CONSTANTS
    p1 = p1
    p2 = p2
    Procs = {p1, p2}
    Programs <- MCPrograms
    BSIZE = 2
    NDIRECT = 2
    NINDIRECT = 2
    FSSIZE = 13
    NINODES = 4
    IPB = 4
    nlog = 1
    DIRENT = 1
    NFILE = 3
    NOFILE = 2
    Pipes = {1}
    MAXOPBLOCKS = 6
    Images <- MCImages
    Omodes <- MCOmodes
    UINTS = 16
    Lens <- MCLens
SPECIFICATION Spec
INVARIANTS FileRefsExact BlocksOwned BytesInPlace TransactionFits
