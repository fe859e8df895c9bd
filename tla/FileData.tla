------------------------------ MODULE FileData ------------------------------
(***************************************************************************)
(* The contents of inodes on disk: the free bit map, block addresses,      *)
(* readi, writei and itrunc of fs.c, and the image that mkfs.c builds, as  *)
(* operators on disks.  A disk is a record of                              *)
(*    used    the blocks whose bit is set in the free map                  *)
(*    node    size, addrs (0 for no block) and nlink of each inode, type 0 *)
(*            if it is free                                                *)
(*    blk     what each data block holds, BSIZE numbers                    *)
(*    panic   whether a panic has been reached                             *)
(* and, while a call works on it, the blocks it has logged (log), bmap's   *)
(* result (addr) and the bytes moved (tot).                                *)
(*                                                                         *)
(* Instead of data, the byte at offset o of inode i is always Tag(i, o),   *)
(* so that a byte in the wrong place shows.  The caller holds the inode's  *)
(* sleep lock, and the lock of a bit map block orders balloc and bfree, so *)
(* a call of writei is one step: calls on different inodes share only the  *)
(* bit map, and which free blocks they get there.                          *)
(***************************************************************************)
EXTENDS Integers, FiniteSets, SequencesExt

CONSTANTS BSIZE, NDIRECT, NINDIRECT,
          FSSIZE,      \* blocks on the disk
          NINODES,     \* inodes 1 .. NINODES - 1
          IPB,         \* inodes in a block
          nlog,        \* blocks of the log
          DIRENT,      \* the size of a directory entry
          UINTS        \* number of values of a uint

ROOTINO == 1
MAXFILE == NDIRECT + NINDIRECT

ASSUME Sizes ==
    /\ BSIZE % DIRENT = 0 /\ NINDIRECT = BSIZE
    /\ UINTS > MAXFILE * BSIZE

Uint(n) == n % UINTS
Inodes == 1 .. NINODES - 1

\* The layout of mkfs.c: boot block, super block, log, inodes, free map, data.
nbitmap == FSSIZE \div (BSIZE * 8) + 1
ninodeblocks == NINODES \div IPB + 1
nmeta == 2 + nlog + ninodeblocks + nbitmap

IBLOCK(i) == i \div IPB + 2 + nlog
BBLOCK(b) == b \div (BSIZE * 8) + 2 + nlog + ninodeblocks

Tag(i, o) == i * BSIZE * MAXFILE + o
Zeroes == [k \in 0 .. BSIZE - 1 |-> 0]
NoNode == [type |-> 0, nlink |-> 0, size |-> 0, addrs |-> [k \in 0 .. NDIRECT |-> 0]]

-----------------------------------------------------------------------------
(* fs.c.                                                                   *)

\* A call starts to work on a disk, and leaves it.  What is in free blocks is
\* forgotten: it may be anything.
Begin(d) == d @@ [log |-> {}, addr |-> 0, tot |-> 0, stop |-> FALSE]
Garbage == [k \in 0 .. BSIZE - 1 |-> -1]
End(w) == [used |-> w.used, node |-> w.node, panic |-> w.panic,
           blk |-> [b \in nmeta .. FSSIZE - 1 |-> IF b \in w.used THEN w.blk[b] ELSE Garbage]]

\* balloc: the first free block, zeroed; addr is 0 if there is none.
Balloc(w) ==
    LET free == (0 .. FSSIZE - 1) \ w.used
        b == Min(free)
    IN  IF free = {} THEN [w EXCEPT !.addr = 0]
        ELSE [w EXCEPT !.addr = b, !.used = @ \cup {b}, !.blk[b] = Zeroes,
                       !.log = @ \cup {BBLOCK(b), b}]

\* bfree of the blocks bs.
Bfree(w, bs) ==
    [w EXCEPT !.used = @ \ bs, !.panic = @ \/ ~(bs \subseteq w.used),
              !.log = @ \cup {BBLOCK(b) : b \in bs}]

\* The block in addrs[k], which is allocated if there is none.
Direct(w, i, k) ==
    LET a == Balloc(w) IN
    CASE w.node[i].addrs[k] # 0 -> [w EXCEPT !.addr = w.node[i].addrs[k]]
      [] w.node[i].addrs[k] = 0 /\ a.addr = 0 -> a
      [] OTHER -> [a EXCEPT !.node[i].addrs[k] = a.addr]

\* The block in entry k of the indirect block x.addr.
Indirect(x, k) ==
    LET a == Balloc(x) IN
    CASE x.blk[x.addr][k] # 0 -> [x EXCEPT !.addr = x.blk[x.addr][k]]
      [] x.blk[x.addr][k] = 0 /\ a.addr = 0 -> a
      [] OTHER -> [a EXCEPT !.blk[x.addr][k] = a.addr, !.log = @ \cup {x.addr}]

Bmap(w, i, bn) ==
    LET x == Direct(w, i, NDIRECT) IN
    CASE bn < NDIRECT -> Direct(w, i, bn)
      [] bn \in NDIRECT .. MAXFILE - 1 -> IF x.addr = 0 THEN x ELSE Indirect(x, bn - NDIRECT)
      [] OTHER -> [w EXCEPT !.panic = TRUE, !.addr = 0]

\* The blocks that inode i refers to.
BlocksOf(d, i) ==
    LET a == d.node[i].addrs IN
    ({a[k] : k \in 0 .. NDIRECT}
     \cup IF a[NDIRECT] = 0 THEN {} ELSE {d.blk[a[NDIRECT]][k] : k \in 0 .. NINDIRECT - 1}) \ {0}

\* Faulty variant: the indirect block itself is forgotten.
ItruncKeepsIndirect(w, i) ==
    [Bfree(w, BlocksOf(w, i) \ {w.node[i].addrs[NDIRECT]})
       EXCEPT !.node[i].size = 0, !.node[i].addrs = NoNode.addrs, !.log = @ \cup {IBLOCK(i)}]

Itrunc(w, i) ==
    [Bfree(w, BlocksOf(w, i))
       EXCEPT !.node[i].size = 0, !.node[i].addrs = NoNode.addrs, !.log = @ \cup {IBLOCK(i)}]

\* The bytes of one turn of the loops of readi and writei, n in all from off on.
Step(w, off, n) ==
    LET o == off + w.tot IN Min({n - w.tot, BSIZE - (o % BSIZE)})

\* One turn of writei's loop; the first good blocks can be copied in.
WriteTurn(i, off, n, good, w, turn) ==
    LET o == off + w.tot
        x == Bmap(w, i, o \div BSIZE)
        m == Step(w, off, n)
        here == (o % BSIZE) .. (o % BSIZE) + m - 1
    IN  CASE w.stop \/ w.tot = n -> w
          [] ~w.stop /\ w.tot < n /\ (x.addr = 0 \/ turn > good) -> [x EXCEPT !.stop = TRUE]
          [] OTHER -> [x EXCEPT !.tot = @ + m, !.log = @ \cup {x.addr},
                                !.blk[x.addr] = [k \in DOMAIN @ |->
                                    IF k \in here THEN Tag(i, (o \div BSIZE) * BSIZE + k) ELSE @[k]]]

Turns(n) == [k \in 1 .. n \div BSIZE + 2 |-> k]

\* Faulty variant: the inode is written back with the size asked for.
WriteiSize(w, i, off, n) == Max({w.node[i].size, off + n})

\* The size after writei's loop.
WriteiNewSize(w, i, off, n) == Max({w.node[i].size, off + w.tot})

\* writei of n bytes, a uint: tot is -1 if it refuses.
Writei(w, i, off, n, good) ==
    LET end == Uint(off + n)
        x == FoldLeft(LAMBDA v, turn : WriteTurn(i, off, n, good, v, turn), w, Turns(n))
    IN
    IF off > w.node[i].size \/ end < off \/ end > MAXFILE * BSIZE
    THEN [w EXCEPT !.tot = -1]
    ELSE [x EXCEPT !.node[i].size = WriteiNewSize(x, i, off, n), !.log = @ \cup {IBLOCK(i)}]

\* readi of n bytes, a uint; it calls bmap as well.  The first good blocks can be
\* copied out, and tot is -1 if one cannot.
Readi(w, i, off, n, good) ==
    LET size == w.node[i].size
        end == Uint(off + n)
        len == IF end > size THEN size - off ELSE n
        Turn(v, turn) ==
            LET x == Bmap(v, i, (off + v.tot) \div BSIZE) IN
            CASE v.stop \/ v.tot = len -> v
              [] ~v.stop /\ v.tot < len /\ x.addr = 0 -> [x EXCEPT !.stop = TRUE]
              [] ~v.stop /\ v.tot < len /\ x.addr # 0 /\ turn > good ->
                   [x EXCEPT !.stop = TRUE, !.tot = -1]
              [] OTHER -> [x EXCEPT !.tot = @ + Step(v, off, len)]
    IN  IF off > size \/ end < off THEN w ELSE FoldLeft(Turn, w, Turns(len))

-----------------------------------------------------------------------------
(* mkfs.c, whose image m has the first free block and inode.               *)

\* A block for entry k of addrs, the next one if there is none.
MkDirect(m, i, k) ==
    IF m.node[i].addrs[k] # 0 THEN [m EXCEPT !.addr = m.node[i].addrs[k]]
    ELSE [m EXCEPT !.addr = m.freeblock, !.node[i].addrs[k] = m.freeblock, !.freeblock = @ + 1]

MkIndirect(m, k) ==
    IF m.blk[m.addr][k] # 0 THEN [m EXCEPT !.addr = m.blk[m.addr][k]]
    ELSE [m EXCEPT !.addr = m.freeblock, !.blk[m.addr][k] = m.freeblock, !.freeblock = @ + 1]

\* One turn of iappend: the bytes of inode i from its size to the end of a
\* block, or to end.
IappendTurn(m, i, end) ==
    LET off == m.node[i].size
        fbn == off \div BSIZE
        x == IF fbn < NDIRECT THEN MkDirect(m, i, fbn)
             ELSE MkIndirect(MkDirect(m, i, NDIRECT), fbn - NDIRECT)
        next == Min({end, (fbn + 1) * BSIZE})
    IN  IF off >= end THEN m
        ELSE [x EXCEPT !.node[i].size = next,
                       !.blk[x.addr] = [k \in DOMAIN @ |->
                           IF fbn * BSIZE + k \in off .. next - 1 THEN Tag(i, fbn * BSIZE + k) ELSE @[k]]]

Iappend(m, i, n) ==
    FoldLeft(LAMBDA v, turn : IappendTurn(v, i, m.node[i].size + n), m, Turns(n))

Ialloc(m, type) ==
    [m EXCEPT !.node[m.freeinode] = [NoNode EXCEPT !.type = type, !.nlink = 1],
              !.freeinode = @ + 1]

\* A file of n bytes, and its entry in the root directory.
MkFile(m, n) == Iappend(Iappend(Ialloc(m, 2), ROOTINO, DIRENT), m.freeinode, n)

\* main: "." and "..", the files, the root's size rounded up to the next block
\* boundary, and balloc, which marks everything below freeblock as used.
Mkfs(sizes) ==
    LET empty == [node |-> [i \in Inodes |-> NoNode], blk |-> [b \in nmeta .. FSSIZE - 1 |-> Zeroes],
                  freeblock |-> nmeta, freeinode |-> 1, addr |-> 0]
        root == Iappend(Ialloc(empty, 1), ROOTINO, 2 * DIRENT)
        m == FoldLeft(MkFile, root, sizes)
    IN  End([used |-> 0 .. m.freeblock - 1, blk |-> m.blk, panic |-> FALSE,
             node |-> [m.node EXCEPT ![ROOTINO].size = (@ \div BSIZE + 1) * BSIZE]])
=============================================================================
