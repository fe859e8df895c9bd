-------------------------------- MODULE File --------------------------------
(***************************************************************************)
(* The open-file table and file descriptors (file.c and the system calls   *)
(* of sysfile.c on descriptors, with the parts of fork, exit, pipealloc    *)
(* and pipeclose that concern them) over the file contents of FileData.    *)
(*                                                                         *)
(* ftable.lock makes filealloc, filedup and fileclose atomic; ofile is its *)
(* process's own.  An inode's lock is held from the read of f->off to its  *)
(* update, so a chunk of filewrite is one step, and other processes run    *)
(* between chunks.  open and pipe are one step per allocation that can     *)
(* fail.  Names are left to module FileSys: here an open finds a file that *)
(* has a link, or makes a new one.  What a pipe carries is in module Pipe, *)
(* and devices are in module Console.                                      *)
(***************************************************************************)
EXTENDS FileData

CONSTANTS Procs, NFILE, NOFILE,
          Pipes,          \* the pages a pipe can get
          MAXOPBLOCKS,    \* the blocks a transaction may log
          Images,         \* the files mkfs is given: sequences of sizes
          Programs,       \* the system calls each process makes: functions to sets
          Omodes,         \* the modes to open files in
          Lens            \* the lengths of reads and writes

ASSUME Reserve == MAXOPBLOCKS >= 6

\* mkfs rounds the root directory's size up to the next block boundary even from a
\* boundary, which leaves a block of the root without an address (and readi would
\* allocate it).  The images are those whose entries end inside a block, as the 25
\* of the Makefile's fs.img do.
ASSUME EntriesEndInside == \A s \in Images : (2 + Len(s)) * DIRENT % BSIZE # 0

VARIABLES calls,     \* the one of Programs that runs
          disk,
          ftable,    \* ref, type, ip, off and mode of each file, and the pipe
                     \* it is an end of
          ofile,     \* the descriptors of each process; 0 for none
          pipe,      \* the ends open of each pipe
          th,        \* each process: where it is; the file and bytes it writes; the
                     \* files it has allocated that have no descriptor yet; the
                     \* inode it opens and has locked, and the blocks logged
          overrun    \* whether a transaction logged too many blocks

vars == <<calls, disk, ftable, ofile, pipe, th, overrun>>

NoFile == [ref |-> 0, type |-> "none", ip |-> 0, off |-> 0,
           r |-> FALSE, w |-> FALSE, pipe |-> 0]
User == [pc |-> "user", f |-> 0, n |-> 0, own |-> <<>>, ip |-> 0, log |-> {}]
Unused == [User EXCEPT !.pc = "unused"]
Files == 1 .. NFILE
Fds == 1 .. NOFILE

Init ==
    /\ \E sizes \in Images : disk = Mkfs(sizes)
    /\ ftable = [f \in Files |-> NoFile]
    /\ ofile = [p \in Procs |-> [fd \in Fds |-> 0]]
    /\ pipe = [k \in Pipes |-> {}]
    /\ calls \in Programs
    /\ th = [p \in Procs |-> IF "exit" \in calls[p] THEN Unused ELSE User]
    /\ overrun = FALSE

At(p, l) == th[p].pc = l
May(p, call) == At(p, "user") /\ call \in calls[p]

\* A call's work w on the disk is done: its transaction ends.
Commit(w) ==
    /\ disk' = End(w)
    /\ overrun' = (overrun \/ Cardinality(w.log) > MAXOPBLOCKS)

NoDisk == UNCHANGED <<disk, overrun>>

\* No open has inode i locked; other calls hold its lock for one step only.
Unlocked(i) == \A p \in Procs : At(p, "open") => th[p].ip # i

-----------------------------------------------------------------------------
(* file.c.                                                                 *)

\* argfd: the descriptor is open.
Argfd(p, fd) == ofile[p][fd] # 0

\* filealloc and fdalloc: the first free file and descriptor, 0 if none.
First(s) == IF s = {} THEN 0 ELSE Min(s)
Filealloc(ft) == First({f \in Files : ft[f].ref = 0})
Fdalloc(of) == First({fd \in Fds : of[fd] = 0})

\* The descriptors of with f in fd, if there is such an fd.
Put(of, fd, f) == [x \in Fds |-> IF x = fd THEN f ELSE of[x]]

\* Inode i has a reference from one of the files ft or from an open in Q.
Held(ft, Q, i) ==
    \/ \E f \in Files : ft[f].ref > 0 /\ ft[f].type = "inode" /\ ft[f].ip = i
    \/ \E q \in Q : At(q, "open") /\ th[q].ip = i

\* iput of inode i, when the files left open are ft: without links and without
\* references it is freed.
Iput(w, ft, Q, i) ==
    IF w.node[i].nlink = 0 /\ ~Held(ft, Q, i)
    THEN [Itrunc(w, i) EXCEPT !.node[i] = NoNode] ELSE w

\* The end that pipeclose(ff.pipe, ff.writable) closes.
EndOf(ff) == IF ff.w THEN "w" ELSE "r"

LastClose(f) == ftable[f].ref = 1

\* fileclose, with the pipeclose or iput of the last reference.
Fileclose(f) ==
    LET ff == ftable[f]
        ft == IF LastClose(f) THEN [ftable EXCEPT ![f] = NoFile]
              ELSE [ftable EXCEPT ![f].ref = @ - 1]
    IN  /\ ftable' = ft
        /\ IF LastClose(f) /\ ff.type = "pipe"
           THEN pipe' = [pipe EXCEPT ![ff.pipe] = @ \ {EndOf(ff)}]
           ELSE UNCHANGED pipe
        /\ IF LastClose(f) /\ ff.type = "inode"
           THEN Commit(Iput(Begin(disk), ft, Procs, ff.ip)) ELSE NoDisk

\* f->off after readi or writei returned r.
Advance(off, r) == IF r > 0 THEN off + r ELSE off

\* either_copyout fails after good blocks.
Fileread(p, fd, n) ==
    LET f == ofile[p][fd]
        i == ftable[f].ip
    IN  /\ May(p, "read") /\ Argfd(p, fd) /\ ftable[f].type = "inode" /\ ftable[f].r
        /\ Unlocked(i)
        /\ \E good \in 0 .. MAXFILE :
              LET w == Readi(Begin(disk), i, ftable[f].off, Uint(n), good)
              IN  /\ Commit([w EXCEPT !.log = {}])
                  /\ ftable' = [ftable EXCEPT ![f].off = Advance(@, w.tot)]
        /\ UNCHANGED <<ofile, pipe, th>>

\* filewrite; its loop does not start for n <= 0.
Filewrite(p, fd, n) ==
    LET f == ofile[p][fd]
    IN  /\ May(p, "write") /\ Argfd(p, fd) /\ n > 0
        /\ ftable[f].type = "inode" /\ ftable[f].w
        /\ th' = [th EXCEPT ![p] = [User EXCEPT !.pc = "write", !.f = f, !.n = n]]
        /\ UNCHANGED <<disk, overrun, ftable, ofile, pipe>>

\* Faulty variant: the write is not cut into chunks.
ChunkAll(n) == n

\* filewrite's n1: max bytes at a time.
Chunk(n) == Min({n, ((MAXOPBLOCKS - 1 - 1 - 2) \div 2) * BSIZE})

\* One turn of filewrite's loop; either_copyin fails after good blocks.
WriteChunk(p) ==
    LET f == th[p].f
        n1 == Chunk(th[p].n)
    IN  /\ At(p, "write") /\ Unlocked(ftable[f].ip)
        /\ \E good \in 0 .. n1 \div BSIZE + 2 :
              LET w == Writei(Begin(disk), ftable[f].ip, ftable[f].off, n1, good)
              IN  /\ Commit(w)
                  /\ ftable' = [ftable EXCEPT ![f].off = Advance(@, w.tot)]
                  /\ th' = [th EXCEPT ![p] = IF w.tot # n1 \/ n1 = th[p].n THEN User
                                             ELSE [@ EXCEPT !.n = @ - n1]]
        /\ UNCHANGED <<ofile, pipe>>

-----------------------------------------------------------------------------
(* System calls on descriptors.                                            *)

Dup(p, fd) ==
    LET f == ofile[p][fd]
        new == Fdalloc(ofile[p])
    IN  /\ May(p, "dup") /\ Argfd(p, fd) /\ new # 0
        /\ ofile' = [ofile EXCEPT ![p][new] = f]
        /\ ftable' = [ftable EXCEPT ![f].ref = @ + 1]
        /\ UNCHANGED <<disk, overrun, pipe, th>>

\* sys_close, and one turn of the loop of exit.
Close(p, fd) ==
    /\ May(p, "close") \/ At(p, "exit")
    /\ Argfd(p, fd)
    /\ ofile' = [ofile EXCEPT ![p][fd] = 0]
    /\ Fileclose(ofile[p][fd])
    /\ UNCHANGED th

\* sys_open has found or made inode i, work w, and locked it: filealloc.  Without a
\* file it gives the inode up; what O_CREATE made stays.
Open(p, i, w) ==
    LET f == Filealloc(ftable) IN
    /\ IF f = 0
       THEN Commit(Iput(w, ftable, Procs, i)) /\ UNCHANGED <<ftable, th>>
       ELSE /\ ftable' = [ftable EXCEPT ![f].ref = 1]
            /\ th' = [th EXCEPT ![p] = [User EXCEPT !.pc = "open", !.own = <<f>>,
                                                    !.ip = i, !.log = w.log]]
            /\ disk' = End(w) /\ UNCHANGED overrun
    /\ UNCHANGED <<ofile, pipe>>

SysOpen(p) ==
    /\ May(p, "open")
    /\ \E i \in Inodes :
          /\ disk.node[i].nlink > 0 /\ disk.node[i].type = 2 /\ Unlocked(i)
          /\ Open(p, i, Begin(disk))

\* What writei logs when it changes a directory entry in the root directory.
EntryLog == {IBLOCK(ROOTINO), disk.node[ROOTINO].addrs[0]}

\* sys_open with O_CREATE of a name that is not there.
SysCreate(p) ==
    LET free == {i \in Inodes : disk.node[i].type = 0}
        i == Min(free)
        w == Begin([disk EXCEPT !.node[i] = [NoNode EXCEPT !.type = 2, !.nlink = 1]])
    IN  /\ May(p, "create") /\ free # {}
        /\ Open(p, i, [w EXCEPT !.log = EntryLog \cup {IBLOCK(i)}])

\* fdalloc finds no descriptor: the file is closed, while it has no type, and the
\* inode is given up.
OpenFails(p) ==
    LET w == [Begin(disk) EXCEPT !.log = th[p].log]
        ft == [ftable EXCEPT ![th[p].own[1]] = NoFile]
    IN  /\ At(p, "open") /\ Fdalloc(ofile[p]) = 0
        /\ ftable' = ft
        /\ Commit(Iput(w, ft, Procs \ {p}, th[p].ip))
        /\ th' = [th EXCEPT ![p] = User]
        /\ UNCHANGED <<ofile, pipe>>

\* The rest of sys_open, in mode m.
OpenFd(p, m) ==
    LET w == [Begin(disk) EXCEPT !.log = th[p].log]
        f == th[p].own[1]
        i == th[p].ip
        fd == Fdalloc(ofile[p])
    IN  /\ At(p, "open") /\ fd # 0
        /\ ftable' = [ftable EXCEPT ![f] = [NoFile EXCEPT !.ref = ftable[f].ref, !.ip = i,
                                            !.type = "inode", !.r = m.r, !.w = m.w]]
        /\ ofile' = [ofile EXCEPT ![p] = Put(@, fd, f)]
        /\ Commit(IF m.trunc /\ w.node[i].type = 2 THEN Itrunc(w, i) ELSE w)
        /\ th' = [th EXCEPT ![p] = User]
        /\ UNCHANGED pipe

\* sys_unlink of a file's only name.
SysUnlink(p, i) ==
    LET w == Begin([disk EXCEPT !.node[i].nlink = 0]) IN
    /\ May(p, "unlink") /\ disk.node[i].nlink > 0 /\ disk.node[i].type = 2
    /\ Unlocked(i)
    /\ Commit(Iput([w EXCEPT !.log = EntryLog \cup {IBLOCK(i)}], ftable, Procs, i))
    /\ UNCHANGED <<ftable, ofile, pipe, th>>

\* pipealloc: the read end's file; without one sys_pipe returns.
PipeRf(p) ==
    LET f == Filealloc(ftable) IN
    /\ May(p, "pipe") /\ f # 0
    /\ ftable' = [ftable EXCEPT ![f].ref = 1]
    /\ th' = [th EXCEPT ![p] = [User EXCEPT !.pc = "pipe_wf", !.own = <<f>>]]
    /\ UNCHANGED <<disk, overrun, ofile, pipe>>

\* pipealloc: the write end's file.
PipeWf(p) ==
    LET f == Filealloc(ftable) IN
    /\ At(p, "pipe_wf")
    /\ IF f = 0
       THEN th' = [th EXCEPT ![p].pc = "undo"] /\ UNCHANGED ftable
       ELSE /\ ftable' = [ftable EXCEPT ![f].ref = 1]
            /\ th' = [th EXCEPT ![p].pc = "pipe_page", ![p].own = Append(@, f)]
    /\ UNCHANGED <<disk, overrun, ofile, pipe>>

\* pipealloc: kalloc of the pipe, which fails when others have the memory.
PipePage(p) ==
    LET rf == th[p].own[1]
        wf == th[p].own[2]
        end(f, k) == [NoFile EXCEPT !.ref = ftable[f].ref, !.type = "pipe", !.pipe = k]
    IN  /\ At(p, "pipe_page")
        /\ \/ /\ th' = [th EXCEPT ![p].pc = "undo"]
              /\ UNCHANGED <<ftable, pipe>>
           \/ \E k \in Pipes :
                 /\ pipe[k] = {}
                 /\ pipe' = [pipe EXCEPT ![k] = {"r", "w"}]
                 /\ ftable' = [ftable EXCEPT ![rf] = [end(rf, k) EXCEPT !.r = TRUE],
                                             ![wf] = [end(wf, k) EXCEPT !.w = TRUE]]
                 /\ th' = [th EXCEPT ![p].pc = "pipe_fds"]
        /\ UNCHANGED <<disk, overrun, ofile>>

\* Faulty variant: the first descriptor is forgotten.
TakeBackOne(of, fd0, fd1) == Put(of, fd1, 0)

\* sys_pipe takes its descriptors back, as far as it had got them.
TakeBack(of, fd0, fd1) == Put(Put(of, fd0, 0), fd1, 0)

\* sys_pipe: two descriptors and the copyout of their numbers.
PipeFds(p) ==
    LET rf == th[p].own[1]
        wf == th[p].own[2]
        fd0 == Fdalloc(ofile[p])
        of0 == Put(ofile[p], fd0, rf)
        fd1 == Fdalloc(of0)
        of1 == Put(of0, fd1, wf)
    IN  /\ At(p, "pipe_fds")
        /\ \/ /\ fd0 # 0 /\ fd1 # 0
              /\ ofile' = [ofile EXCEPT ![p] = of1]
              /\ th' = [th EXCEPT ![p] = User]
           \/ /\ ofile' = [ofile EXCEPT ![p] = TakeBack(of1, fd0, fd1)]
              /\ th' = [th EXCEPT ![p].pc = "undo"]
        /\ UNCHANGED <<disk, overrun, ftable, pipe>>

\* The failing paths of pipealloc and sys_pipe: fileclose of the files got so far.
PipeUndo(p) ==
    LET own == th[p].own IN
    /\ At(p, "undo")
    /\ Fileclose(Head(own))
    /\ th' = [th EXCEPT ![p] = IF Len(own) = 1 THEN User ELSE [@ EXCEPT !.own = Tail(own)]]
    /\ UNCHANGED ofile

\* fork: the child's descriptors are filedup'ed.
Fork(p, q) ==
    /\ May(p, "fork") /\ At(q, "unused")
    /\ th' = [th EXCEPT ![q] = User]
    /\ ofile' = [ofile EXCEPT ![q] = ofile[p]]
    /\ ftable' = [f \in Files |->
                    [ftable[f] EXCEPT !.ref = @ + Cardinality({fd \in Fds : ofile[p][fd] = f})]]
    /\ UNCHANGED <<disk, overrun, pipe>>

\* exit closes every descriptor; then the slot is free again.
Exit(p) ==
    /\ May(p, "exit")
    /\ th' = [th EXCEPT ![p].pc = "exit"]
    /\ UNCHANGED <<disk, overrun, ftable, ofile, pipe>>

Exited(p) ==
    /\ At(p, "exit") /\ \A fd \in Fds : ofile[p][fd] = 0
    /\ th' = [th EXCEPT ![p] = Unused]
    /\ UNCHANGED <<disk, overrun, ftable, ofile, pipe>>

Next ==
    /\ \E p \in Procs :
        \/ \E fd \in Fds : Dup(p, fd) \/ Close(p, fd)
        \/ \E fd \in Fds, n \in Lens : Fileread(p, fd, n) \/ Filewrite(p, fd, n)
        \/ WriteChunk(p)
        \/ SysOpen(p) \/ SysCreate(p)
        \/ OpenFails(p) \/ \E m \in Omodes : OpenFd(p, m)
        \/ PipeRf(p) \/ PipeWf(p) \/ PipePage(p) \/ PipeFds(p) \/ PipeUndo(p)
        \/ \E i \in Inodes : SysUnlink(p, i)
        \/ \E q \in Procs : Fork(p, q)
        \/ Exit(p) \/ Exited(p)
    /\ UNCHANGED calls

Spec == Init /\ [][Next]_vars

-----------------------------------------------------------------------------
(* Properties.                                                             *)

\* f->ref is the number of descriptors that refer to the file, over all
\* processes, and of calls of open and pipe that have it without a descriptor yet:
\* through dup, fork, exit and failures of open and pipe at each of their
\* allocations and copies, no reference is lost, none is dropped twice and no
\* descriptor stays behind.  What an open file stands for is there: its inode is
\* not freed, unlinked or not, and an end of a pipe is open exactly as long as some
\* file stands for it, so that a pipe is freed once, by the last close of its last
\* end, and never leaked.
FileRefsExact ==
    /\ \A f \in Files :
        /\ ftable[f].ref = Cardinality({x \in Procs \X Fds : ofile[x[1]][x[2]] = f})
                           + Cardinality({p \in Procs : Contains(th[p].own, f)})
        /\ ftable[f].type = "inode" => disk.node[ftable[f].ip].type # 0
    /\ \A k \in Pipes :
        pipe[k] = {e \in {"r", "w"} : \E f \in Files :
                     ftable[f].type = "pipe" /\ ftable[f].pipe = k /\ (e = "w") = ftable[f].w}

\* The free map is exact: a block is marked exactly if it is metadata or belongs
\* to an inode, to one inode, and there once.  Out of blocks, out of files, a
\* failed copy and a file unlinked while open lose no block and share none, and the
\* panics "freeing free block" and "bmap: out of range" are not reached.
BlocksOwned ==
    LET owned == UNION {{<<i, b>> : b \in BlocksOf(disk, i)} : i \in Inodes}
        refs(i) == Cardinality({k \in 0 .. NDIRECT : disk.node[i].addrs[k] # 0})
                   + LET ind == disk.node[i].addrs[NDIRECT] IN
                     IF ind = 0 THEN 0
                     ELSE Cardinality({k \in 0 .. NINDIRECT - 1 : disk.blk[ind][k] # 0})
    IN  /\ ~disk.panic
        /\ disk.used = 0 .. nmeta - 1 \cup {x[2] : x \in owned}
        /\ \A x, y \in owned : x[2] = y[2] => x = y
        /\ \A i \in Inodes : refs(i) = Cardinality(BlocksOf(disk, i))

\* The block of byte o of inode i; 0 if there is none.
BlockOf(i, o) ==
    LET bn == o \div BSIZE
        a == disk.node[i].addrs
    IN  CASE bn < NDIRECT -> a[bn]
          [] bn >= NDIRECT /\ a[NDIRECT] = 0 -> 0
          [] OTHER -> disk.blk[a[NDIRECT]][bn - NDIRECT]

\* Every byte below an inode's size is in a block of the inode (so readi never
\* allocates), and is the byte last written there: no write of another file,
\* at another offset or by mkfs shows through.  This is for the images of
\* EntriesEndInside; in another one the root directory lacks its last block.
BytesInPlace ==
    \A i \in Inodes : \A o \in 0 .. disk.node[i].size - 1 :
        /\ BlockOf(i, o) # 0
        /\ disk.blk[BlockOf(i, o)][o % BSIZE]
              \in {Tag(i, o)} \cup {0 : r \in {i} \cap {ROOTINO}}

\* filewrite's chunks keep each transaction within MAXOPBLOCKS blocks.
TransactionFits == ~overrun
=============================================================================
