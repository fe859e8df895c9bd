------------------------------ MODULE FileSys ------------------------------
(***************************************************************************)
(* Inodes, directories and path names (kernel/fs.c), and the system calls  *)
(* that change the directory tree (kernel/sysfile.c): open, mkdir, mknod,  *)
(* unlink, link, chdir and close.                                          *)
(*                                                                         *)
(* An inode has three counts that must agree: the directory entries that   *)
(* name it (nlink on disk), the pointers to its entry of the inode table   *)
(* (ref), and its sleep lock.  Every call takes several references and     *)
(* locks, one after the other, while other calls do the same; the freeing  *)
(* of an inode hides in whichever iput() happens to be the last one.       *)
(*                                                                         *)
(* One step is what a process does while it holds one inode lock (or the   *)
(* itable lock): only the steps between which another process can see or   *)
(* change something are apart.  File contents are in module FileData; a    *)
(* directory's contents are a function from names to inode numbers.  A     *)
(* call is one transaction of the log (module Log), so a crash returns the *)
(* disk to a moment at which no call was running.                          *)
(***************************************************************************)
EXTENDS Naturals, Sequences, FiniteSets, TLC
LOCAL INSTANCE FiniteSetsExt

CONSTANTS
    Procs,      \* processes that make file system calls
    NINODES,    \* superblock's ninodes: inode numbers are 1 .. NINODES - 1
    NINODE,     \* param.h: entries of the in-memory inode table
    Names,      \* directory entry names other than "." and ".."
    Calls,      \* Calls[p]: the calls process p may make, [op, path, new]
    MaxNlink,   \* bound on link counts, which are shorts in the code
    None

ROOTINO == 1
Inums == 1 .. NINODES - 1
CreateType == [create |-> "FILE", mkdir |-> "DIR", mknod |-> "DEVICE"]
Ops == DOMAIN CreateType \cup {"open", "unlink", "link", "chdir"}
Paths == [abs : BOOLEAN, el : Seq(Names \cup {".", ".."})]

ASSUME FileSysConstants ==
    /\ NINODES \in Nat /\ ROOTINO \in Inums
    /\ NINODE \in Nat /\ MaxNlink \in Nat
    /\ None \notin Procs
    /\ \A p \in Procs : \A c \in Calls[p] :
        c.op \in Ops /\ c.path \in Paths /\ c.new \in Paths

VARIABLES
    disk,       \* disk[i]: dinode i (type, nlink) and, of a directory, its entries
    itable,     \* itable[i]: the table's entry for inode i; ref = 0: it has none
    lock,       \* lock[i]: the process that holds the entry's sleep lock
    cwd, ofile, \* each process's current directory and open file (0: none)
    loc,        \* what a process's call has in its local variables, see Idle
    stray,      \* history: an entry was made in a directory already removed
    panicked    \* the message of the panic() that stopped the kernel, or None

vars == <<disk, itable, lock, cwd, ofile, loc, stray, panicked>>

\* pc: where the call is; call: its arguments; el: path elements still to walk;
\* ip, dp: inodes referenced; put, ph: the inode being iput() and how far it is.
Idle == [pc |-> "out", call |-> None, el |-> <<>>, ip |-> 0, dp |-> 0,
         put |-> 0, ph |-> "test"]

NoEntries == [n \in Names \cup {".", ".."} |-> 0]
FreeInode == [type |-> "none", nlink |-> 0, dir |-> NoEntries]
NoEntry == [ref |-> 0, valid |-> FALSE, type |-> "none", nlink |-> 0]

\* A booted kernel on the disk mkfs made: every process is in the root directory.
BootTable ==
    [i \in Inums |->
        IF i = ROOTINO THEN [NoEntry EXCEPT !.ref = Cardinality(Procs)] ELSE NoEntry]

Init ==
    /\ disk = [i \in Inums |->
                 IF i = ROOTINO
                 THEN [type |-> "DIR", nlink |-> 1,
                       dir |-> [NoEntries EXCEPT !["."] = i, ![".."] = i]]
                 ELSE FreeInode]
    /\ itable = BootTable
    /\ lock = [i \in Inums |-> None]
    /\ cwd = [p \in Procs |-> ROOTINO]
    /\ ofile = [p \in Procs |-> 0]
    /\ loc = [p \in Procs |-> Idle]
    /\ stray = FALSE
    /\ panicked = None
-----------------------------------------------------------------------------
(* The inode layer.                                                        *)

Set(p, r) == loc' = [loc EXCEPT ![p] = r @@ @]

\* p is at label l, and is not in the middle of an iput().
At(p, l) == panicked = None /\ loc[p].pc = l /\ loc[p].put = 0

\* iget(): a reference to inode i, in its entry or in a recycled one.
Iget(t, i) ==
    [t EXCEPT ![i] = IF @.ref > 0 THEN [@ EXCEPT !.ref = @ + 1]
                                  ELSE [NoEntry EXCEPT !.ref = 1]]

TableFull(i) ==
    itable[i].ref = 0 /\ Cardinality({j \in Inums : itable[j].ref > 0}) >= NINODE

IgetPanic(i) == IF TableFull(i) THEN "iget: no inodes" ELSE None

\* The entry as ilock() leaves it: read from the disk unless valid.
Loaded(i) ==
    IF itable[i].valid THEN itable[i]
    ELSE [ref |-> itable[i].ref, valid |-> TRUE,
          type |-> disk[i].type, nlink |-> disk[i].nlink]

Ilocked(i) == [itable EXCEPT ![i] = Loaded(i)]

\* iupdate(): disk d with the fields of the in-memory inode ip copied to inode i.
Iupdate(d, i, ip) == [d EXCEPT ![i].type = ip.type, ![i].nlink = ip.nlink]

\* ialloc(): the first free inode gets the type.
FreeInums == {i \in Inums : disk[i].type = "none"}
Ialloc(i, type) == [disk EXCEPT ![i] = [FreeInode EXCEPT !.type = type]]

IlockPanic(i) ==
    CASE itable[i].ref < 1 -> "ilock"
      [] Loaded(i).type = "none" -> "ilock: no type"
      [] OTHER -> None

\* ilock(i) neither waits nor panics; the panic is an action of its own.
Ilockable(i) == lock[i] = None /\ IlockPanic(i) = None

\* The label the call goes on with once a reference is dropped; "end" is end_op().
AfterPut(p) == IF loc[p].pc = "end" THEN Idle
               ELSE [put |-> 0, ph |-> "test"] @@ loc[p]

\* Faulty variant: the test forgets that others may hold a reference.
LastRefAny(t) == t.valid /\ t.nlink = 0

\* iput()'s test: the last reference to an inode without links.
LastRef(t) == t.ref = 1 /\ t.valid /\ t.nlink = 0

\* iput(), up to the release of itable.lock: drop the reference, or lock the inode
\* in order to free it.  To wait for the lock here is to sleep with a spinlock held.
IputTest(p) ==
    LET i == loc[p].put  t == itable[i] IN
    /\ panicked = None /\ i # 0 /\ loc[p].ph = "test"
    /\ IF LastRef(t)
       THEN /\ lock' = [lock EXCEPT ![i] = p]
            /\ panicked' = IF lock[i] = None THEN None ELSE "sched locks"
            /\ Set(p, [ph |-> "free"])
            /\ UNCHANGED itable
       ELSE /\ itable' = [itable EXCEPT ![i].ref = @ - 1]
            /\ loc' = [loc EXCEPT ![p] = AfterPut(p)]
            /\ UNCHANGED <<lock, panicked>>
    /\ UNCHANGED <<disk, cwd, ofile, stray>>

\* itrunc(ip); ip->type = 0; iupdate(ip): from here on ialloc() may take the inode.
IputFree(p) ==
    LET i == loc[p].put IN
    /\ panicked = None /\ i # 0 /\ loc[p].ph = "free"
    /\ disk' = [disk EXCEPT ![i] = FreeInode]
    /\ itable' = [itable EXCEPT ![i].type = "none"]
    /\ Set(p, [ph |-> "unlock"])
    /\ UNCHANGED <<lock, cwd, ofile, stray, panicked>>

\* ip->valid = 0; releasesleep(&ip->lock).
IputUnlock(p) ==
    LET i == loc[p].put IN
    /\ panicked = None /\ i # 0 /\ loc[p].ph = "unlock"
    /\ itable' = [itable EXCEPT ![i].valid = FALSE]
    /\ lock' = [lock EXCEPT ![i] = None]
    /\ Set(p, [ph |-> "drop"])
    /\ UNCHANGED <<disk, cwd, ofile, stray, panicked>>

\* ip->ref-- of an inode just freed.
IputDrop(p) ==
    LET i == loc[p].put IN
    /\ panicked = None /\ i # 0 /\ loc[p].ph = "drop"
    /\ itable' = [itable EXCEPT ![i].ref = @ - 1]
    /\ loc' = [loc EXCEPT ![p] = AfterPut(p)]
    /\ UNCHANGED <<disk, lock, cwd, ofile, stray, panicked>>
-----------------------------------------------------------------------------
(* Directories and path names.                                             *)

\* dirlookup(): the inode number in directory d's entry for name, 0 if it has none.
Dirlookup(d, name) == disk[d].dir[name]

\* dirlink(): disk s with an entry for inode i in directory d.
Dirlink(s, d, name, i) == [s EXCEPT ![d].dir[name] = i]

\* Where namex() starts on path: the root or the current directory, referenced.
NamexStart(p, path) == IF path.abs THEN ROOTINO ELSE cwd[p]

\* nameiparent() rather than namei(): all but open, chdir and link's first path.
\* Between its two paths, link keeps the inode of the first one in dp.
WantsParent(p) ==
    \/ loc[p].call.op \in DOMAIN CreateType \cup {"unlink"}
    \/ loc[p].call.op = "link" /\ loc[p].dp # 0

\* The element the call is about: the last one of its path.
Name(p) ==
    LET c == loc[p].call  path == IF c.op = "link" THEN c.new ELSE c.path
    IN  path.el[Len(path.el)]

\* Where the walk goes on when el is left of the path: "ret" is namex()'s return.
WalkOn(el) == IF el = <<>> THEN "ret" ELSE "namex"

\* A system call: begin_op(), then the first inode of its path.
Call(p, c) ==
    LET i == NamexStart(p, c.path) IN
    /\ At(p, "out")
    /\ itable' = Iget(itable, i)
    /\ panicked' = IgetPanic(i)
    /\ Set(p, [pc |-> WalkOn(c.path.el), call |-> c, el |-> c.path.el, ip |-> i])
    /\ UNCHANGED <<disk, lock, cwd, ofile, stray>>

\* The call's path leads nowhere: end_op() and return -1, or link's bad: label.
NotFound(p) == IF loc[p].dp = 0 THEN "end" ELSE "bad"

\* One turn of namex()'s loop, with ip locked: it is not a directory, or it is
\* the parent, or it has no such entry, or the walk moves on to the entry's inode.
\* What the walk leaves behind is unlocked before it is put.
Namex(p) ==
    LET i == loc[p].ip
        isdir == Loaded(i).type = "DIR"
        stop == WantsParent(p) /\ Len(loc[p].el) = 1
        next == Dirlookup(i, Head(loc[p].el))
    IN
    /\ At(p, "namex") /\ Ilockable(i)
    /\ \/ /\ ~isdir \/ (~stop /\ next = 0)
          /\ itable' = Ilocked(i)
          /\ Set(p, [pc |-> NotFound(p), ip |-> 0, put |-> i])
          /\ UNCHANGED panicked
       \/ /\ isdir /\ stop
          /\ itable' = Ilocked(i)
          /\ Set(p, [pc |-> "ret"])
          /\ UNCHANGED panicked
       \/ /\ isdir /\ ~stop /\ next # 0
          /\ itable' = Iget(Ilocked(i), next)
          /\ panicked' = IgetPanic(next)
          /\ Set(p, [pc |-> WalkOn(Tail(loc[p].el)), el |-> Tail(loc[p].el),
                     ip |-> next, put |-> i])
    /\ UNCHANGED <<disk, lock, cwd, ofile, stray>>

\* A path without an element has no parent: nameiparent() puts what it has.
NoParent(p) ==
    /\ At(p, "ret") /\ WantsParent(p) /\ loc[p].ip # 0 /\ loc[p].el = <<>>
    /\ Set(p, [pc |-> NotFound(p), ip |-> 0, put |-> loc[p].ip])
    /\ UNCHANGED <<disk, itable, lock, cwd, ofile, stray, panicked>>
-----------------------------------------------------------------------------
(* open, close and chdir.                                                  *)

\* namei() or nameiparent() has returned an inode to a call of one of ops.
Returned(p, ops) ==
    /\ At(p, "ret") /\ loc[p].call.op \in ops
    /\ ~(WantsParent(p) /\ loc[p].el = <<>>)

\* sys_open() without O_CREATE: ilock(ip); a directory opens for reading only.
OpenLock(p) ==
    LET i == loc[p].ip IN
    /\ Returned(p, {"open"}) /\ Ilockable(i)
    /\ itable' = Ilocked(i)
    /\ \E omode \in {"O_RDONLY", "O_RDWR"} :
         IF Loaded(i).type = "DIR" /\ omode # "O_RDONLY"
         THEN Set(p, [pc |-> "end", ip |-> 0, put |-> i]) /\ UNCHANGED lock
         ELSE Set(p, [pc |-> "open"]) /\ lock' = [lock EXCEPT ![i] = p]
    /\ UNCHANGED <<disk, cwd, ofile, stray, panicked>>

\* The rest of sys_open(), with ip locked: fails for a device without a driver and
\* when there is no descriptor, else the open file keeps the reference.
OpenFile(p) ==
    LET i == loc[p].ip IN
    /\ At(p, "open")
    /\ lock' = [lock EXCEPT ![i] = None]
    /\ \E ok \in IF ofile[p] # 0 THEN {FALSE}
                 ELSE IF itable[i].type = "DEVICE" THEN BOOLEAN ELSE {TRUE} :
         IF ok THEN /\ ofile' = [ofile EXCEPT ![p] = i]
                    /\ loc' = [loc EXCEPT ![p] = Idle]
               ELSE /\ Set(p, [pc |-> "end", ip |-> 0, put |-> i])
                    /\ UNCHANGED ofile
    /\ UNCHANGED <<disk, itable, cwd, stray, panicked>>

\* fileclose() of the last reference to an inode's file: begin_op(), iput().
Close(p) ==
    /\ At(p, "out") /\ ofile[p] # 0
    /\ ofile' = [ofile EXCEPT ![p] = 0]
    /\ Set(p, [pc |-> "end", put |-> ofile[p]])
    /\ UNCHANGED <<disk, itable, lock, cwd, stray, panicked>>

\* sys_chdir(): on a directory, put the old one, and only then set p->cwd.
Chdir(p) ==
    LET i == loc[p].ip IN
    /\ Returned(p, {"chdir"}) /\ Ilockable(i)
    /\ itable' = Ilocked(i)
    /\ Set(p, IF Loaded(i).type = "DIR" THEN [pc |-> "chdir", put |-> cwd[p]]
              ELSE [pc |-> "end", ip |-> 0, put |-> i])
    /\ UNCHANGED <<disk, lock, cwd, ofile, stray, panicked>>

ChdirDone(p) ==
    /\ At(p, "chdir")
    /\ cwd' = [cwd EXCEPT ![p] = loc[p].ip]
    /\ loc' = [loc EXCEPT ![p] = Idle]
    /\ UNCHANGED <<disk, itable, lock, ofile, stray, panicked>>
-----------------------------------------------------------------------------
(* create() for open(O_CREATE), mkdir and mknod.                           *)

\* ilock(dp), then dirlookup(): the name exists, or an inode is allocated, or none
\* is left.  dp stays locked in the second case only.
CreateLock(p) ==
    LET d == loc[p].ip
        old == Dirlookup(d, Name(p))
        new == Min(FreeInums)
    IN
    /\ Returned(p, DOMAIN CreateType) /\ Ilockable(d)
    /\ \/ /\ old # 0
          /\ itable' = Iget(Ilocked(d), old)
          /\ panicked' = IgetPanic(old)
          /\ Set(p, [pc |-> "exists", ip |-> old, put |-> d])
          /\ UNCHANGED <<disk, lock>>
       \/ /\ old = 0 /\ FreeInums = {}
          /\ itable' = Ilocked(d)
          /\ Set(p, [pc |-> "end", ip |-> 0, put |-> d])
          /\ UNCHANGED <<disk, lock, panicked>>
       \/ /\ old = 0 /\ FreeInums # {}
          /\ disk' = Ialloc(new, CreateType[loc[p].call.op])
          /\ itable' = Iget(Ilocked(d), new)
          /\ panicked' = IgetPanic(new)
          /\ lock' = [lock EXCEPT ![d] = p]
          /\ Set(p, [pc |-> "new", ip |-> new, dp |-> d])
    /\ UNCHANGED <<cwd, ofile, stray>>

\* The name exists: only open(O_CREATE) of a file or device goes on with it.
CreateExists(p) ==
    LET i == loc[p].ip IN
    /\ At(p, "exists") /\ Ilockable(i)
    /\ itable' = Ilocked(i)
    /\ IF loc[p].call.op = "create" /\ Loaded(i).type \in {"FILE", "DEVICE"}
       THEN Set(p, [pc |-> "open"]) /\ lock' = [lock EXCEPT ![i] = p]
       ELSE Set(p, [pc |-> "end", ip |-> 0, put |-> i]) /\ UNCHANGED lock
    /\ UNCHANGED <<disk, cwd, ofile, stray, panicked>>

\* Faulty variant: the parent's link count does not follow the new "..".
ParentLinkNone(type, n) == n

\* dp->nlink++ for the ".." of a new directory.
ParentLink(type, n) == IF type = "DIR" THEN n + 1 ELSE n

\* ilock(ip) of the new inode, nlink = 1, the entries of a new directory, the
\* entry in the parent, the parent's count.  dp and ip are locked: one step.
CreateNew(p) ==
    LET i == loc[p].ip  d == loc[p].dp  type == disk[i].type IN
    /\ At(p, "new") /\ Ilockable(i)
    /\ disk' = [disk EXCEPT
                  ![i].nlink = 1,
                  ![i].dir = IF type = "DIR" THEN [@ EXCEPT !["."] = i, ![".."] = d] ELSE @,
                  ![d].dir[Name(p)] = i,
                  ![d].nlink = ParentLink(type, @)]
    /\ itable' = [Ilocked(i) EXCEPT ![i].nlink = 1, ![d].nlink = ParentLink(type, @)]
    /\ lock' = [lock EXCEPT ![i] = p, ![d] = None]
    /\ Set(p, [pc |-> IF loc[p].call.op = "create" THEN "open" ELSE "made",
               dp |-> 0, put |-> d])
    /\ stray' = (stray \/ disk[d].nlink = 0)
    /\ UNCHANGED <<cwd, ofile, panicked>>

\* One of the dirlink()s finds no block for its entry: fail: takes back the inode.
\* What the new directory holds by then goes with it.
CreateFail(p) ==
    LET i == loc[p].ip IN
    /\ At(p, "new") /\ Ilockable(i)
    /\ itable' = [Ilocked(i) EXCEPT ![i].nlink = 0]
    /\ disk' = Iupdate(disk, i, [Loaded(i) EXCEPT !.nlink = 0])
    /\ Set(p, [pc |-> "unlockdp", ip |-> 0, put |-> i])
    /\ UNCHANGED <<lock, cwd, ofile, stray, panicked>>

\* Faulty variant: dp is unlocked but not put.
UnlockDpNoPut(p) ==
    /\ At(p, "unlockdp")
    /\ lock' = [lock EXCEPT ![loc[p].dp] = None]
    /\ loc' = [loc EXCEPT ![p] = Idle]
    /\ UNCHANGED <<disk, itable, cwd, ofile, stray, panicked>>

\* iunlockput(dp); end_op() of a call that failed with dp locked.
UnlockDp(p) ==
    /\ At(p, "unlockdp")
    /\ lock' = [lock EXCEPT ![loc[p].dp] = None]
    /\ Set(p, [pc |-> "end", dp |-> 0, put |-> loc[p].dp])
    /\ UNCHANGED <<disk, itable, cwd, ofile, stray, panicked>>

\* sys_mkdir(), sys_mknod(): iunlockput(ip); end_op().
Made(p) ==
    /\ At(p, "made")
    /\ lock' = [lock EXCEPT ![loc[p].ip] = None]
    /\ Set(p, [pc |-> "end", ip |-> 0, put |-> loc[p].ip])
    /\ UNCHANGED <<disk, itable, cwd, ofile, stray, panicked>>
-----------------------------------------------------------------------------
(* unlink.                                                                 *)

\* Faulty variant: the check for "." and ".." is missing.
UndeletableNone == {}

\* Cannot unlink "." or "..".
Undeletable == {".", ".."}

\* ilock(dp) and dirlookup(); dp stays locked if there is something to unlink.
UnlinkLock(p) ==
    LET d == loc[p].ip
        i == Dirlookup(d, Name(p))
    IN
    /\ Returned(p, {"unlink"}) /\ Ilockable(d)
    /\ IF Name(p) \in Undeletable \/ i = 0
       THEN /\ itable' = Ilocked(d)
            /\ Set(p, [pc |-> "end", ip |-> 0, put |-> d])
            /\ UNCHANGED <<lock, panicked>>
       ELSE /\ itable' = Iget(Ilocked(d), i)
            /\ panicked' = IgetPanic(i)
            /\ lock' = [lock EXCEPT ![d] = p]
            /\ Set(p, [pc |-> "unlink", ip |-> i, dp |-> d])
    /\ UNCHANGED <<disk, cwd, ofile, stray>>

IsDirEmpty(i) == \A n \in Names : disk[i].dir[n] = 0

\* ilock(ip): not an empty directory, or the entry is erased and dp unlocked.
UnlinkErase(p) ==
    LET i == loc[p].ip  d == loc[p].dp  dir == Loaded(i).type = "DIR" IN
    /\ At(p, "unlink") /\ Ilockable(i)
    /\ CASE Loaded(i).nlink < 1 ->
              /\ panicked' = "unlink: nlink < 1"
              /\ UNCHANGED <<disk, itable, lock, loc>>
         [] Loaded(i).nlink >= 1 /\ dir /\ ~IsDirEmpty(i) ->
              /\ itable' = Ilocked(i)
              /\ Set(p, [pc |-> "unlockdp", ip |-> 0, put |-> i])
              /\ UNCHANGED <<disk, lock, panicked>>
         [] OTHER ->
              /\ disk' = [disk EXCEPT ![d].dir[Name(p)] = 0,
                                      ![d].nlink = IF dir THEN @ - 1 ELSE @]
              /\ itable' = [Ilocked(i) EXCEPT ![d].nlink = IF dir THEN @ - 1 ELSE @]
              /\ lock' = [lock EXCEPT ![d] = None, ![i] = p]
              /\ Set(p, [pc |-> "unlinked", dp |-> 0, put |-> d])
              /\ UNCHANGED panicked
    /\ UNCHANGED <<cwd, ofile, stray>>

\* Faulty variant: iupdate() is missing.
UnlinkedNoUpdate(p) ==
    LET i == loc[p].ip IN
    /\ At(p, "unlinked")
    /\ itable' = [itable EXCEPT ![i].nlink = @ - 1]
    /\ lock' = [lock EXCEPT ![i] = None]
    /\ Set(p, [pc |-> "end", ip |-> 0, put |-> i])
    /\ UNCHANGED <<disk, cwd, ofile, stray, panicked>>

\* ip->nlink--; iupdate(ip); iunlockput(ip); end_op().
Unlinked(p) ==
    LET i == loc[p].ip IN
    /\ At(p, "unlinked")
    /\ itable' = [itable EXCEPT ![i].nlink = @ - 1]
    /\ disk' = Iupdate(disk, i, [itable[i] EXCEPT !.nlink = @ - 1])
    /\ lock' = [lock EXCEPT ![i] = None]
    /\ Set(p, [pc |-> "end", ip |-> 0, put |-> i])
    /\ UNCHANGED <<cwd, ofile, stray, panicked>>
-----------------------------------------------------------------------------
(* link.                                                                   *)

\* The first path: not of a directory.  The count goes up before the entry is made.
\* The walk of the second path begins.
LinkOld(p) ==
    LET i == loc[p].ip  new == loc[p].call.new  start == NamexStart(p, new) IN
    /\ Returned(p, {"link"}) /\ loc[p].dp = 0 /\ Ilockable(i)
    /\ Loaded(i).nlink < MaxNlink
    /\ IF Loaded(i).type = "DIR"
       THEN /\ itable' = Ilocked(i)
            /\ Set(p, [pc |-> "end", ip |-> 0, put |-> i])
            /\ UNCHANGED <<disk, panicked>>
       ELSE /\ itable' = Iget([Ilocked(i) EXCEPT ![i].nlink = @ + 1], start)
            /\ disk' = Iupdate(disk, i, [Loaded(i) EXCEPT !.nlink = @ + 1])
            /\ panicked' = IgetPanic(start)
            /\ Set(p, [pc |-> WalkOn(new.el), el |-> new.el, ip |-> start, dp |-> i])
    /\ UNCHANGED <<lock, cwd, ofile, stray>>

\* ilock(dp), dirlink(): the name is taken, and dirlink() puts the inode it found
\* while dp stays locked; or the entry is made; or there is no block for it.
LinkNew(p) ==
    LET d == loc[p].ip  i == loc[p].dp  old == Dirlookup(d, Name(p)) IN
    /\ Returned(p, {"link"}) /\ loc[p].dp # 0 /\ Ilockable(d)
    /\ \/ /\ old # 0
          /\ itable' = Iget(Ilocked(d), old)
          /\ panicked' = IgetPanic(old)
          /\ lock' = [lock EXCEPT ![d] = p]
          /\ Set(p, [pc |-> "taken", put |-> old])
          /\ UNCHANGED <<disk, stray>>
       \/ /\ old = 0
          /\ disk' = Dirlink(disk, d, Name(p), i)
          /\ itable' = Ilocked(d)
          /\ stray' = (stray \/ disk[d].nlink = 0)
          /\ Set(p, [pc |-> "linked", ip |-> 0, put |-> d])
          /\ UNCHANGED <<lock, panicked>>
       \/ /\ old = 0
          /\ itable' = Ilocked(d)
          /\ Set(p, [pc |-> "bad", ip |-> 0, put |-> d])
          /\ UNCHANGED <<disk, lock, stray, panicked>>
    /\ UNCHANGED <<cwd, ofile>>

\* dirlink() returns -1 for a name that is taken: iunlockput(dp), then bad:.
LinkTaken(p) ==
    LET d == loc[p].ip IN
    /\ At(p, "taken")
    /\ lock' = [lock EXCEPT ![d] = None]
    /\ Set(p, [pc |-> "bad", ip |-> 0, put |-> d])
    /\ UNCHANGED <<disk, itable, cwd, ofile, stray, panicked>>

Linked(p) ==
    /\ At(p, "linked")
    /\ Set(p, [pc |-> "end", dp |-> 0, put |-> loc[p].dp])
    /\ UNCHANGED <<disk, itable, lock, cwd, ofile, stray, panicked>>

\* bad: ilock(ip); ip->nlink--; iupdate(ip); iunlockput(ip); end_op().
LinkBad(p) ==
    LET i == loc[p].dp IN
    /\ At(p, "bad") /\ Ilockable(i)
    /\ itable' = [Ilocked(i) EXCEPT ![i].nlink = @ - 1]
    /\ disk' = Iupdate(disk, i, [Loaded(i) EXCEPT !.nlink = @ - 1])
    /\ Set(p, [pc |-> "end", dp |-> 0, put |-> i])
    /\ UNCHANGED <<lock, cwd, ofile, stray, panicked>>
-----------------------------------------------------------------------------
(* Panics, crashes and the specification.                                  *)

\* The inode p's next step locks, or 0.
Wants(p) ==
    LET l == loc[p] IN
    CASE l.put # 0 \/ l.pc \in {"out", "open", "made", "unlinked", "chdir",
                                "unlockdp", "linked", "taken", "end"} -> 0
      [] l.pc = "ret" /\ WantsParent(p) /\ l.el = <<>> -> 0
      [] l.pc = "bad" -> l.dp
      [] OTHER -> l.ip

\* ilock() of an inode that is not allocated stops the kernel.
Panic(p) ==
    /\ panicked = None /\ Wants(p) # 0
    /\ lock[Wants(p)] = None /\ IlockPanic(Wants(p)) # None
    /\ panicked' = IlockPanic(Wants(p))
    /\ UNCHANGED <<disk, itable, lock, cwd, ofile, loc, stray>>

\* Power fails; the log brings back a disk on which no call was half done.
Crash ==
    /\ \A p \in Procs : loc[p].pc = "out"
    /\ itable' = BootTable
    /\ cwd' = [p \in Procs |-> ROOTINO]
    /\ ofile' = [p \in Procs |-> 0]
    /\ UNCHANGED <<disk, lock, loc, stray, panicked>>

Walk(p) == (\E c \in Calls[p] : Call(p, c)) \/ Namex(p) \/ NoParent(p)
Iput(p) == IputTest(p) \/ IputFree(p) \/ IputUnlock(p) \/ IputDrop(p)
Open(p) == OpenLock(p) \/ OpenFile(p) \/ Close(p) \/ Chdir(p) \/ ChdirDone(p)
Create(p) == \/ CreateLock(p) \/ CreateExists(p) \/ CreateNew(p) \/ CreateFail(p)
             \/ UnlockDp(p) \/ Made(p)
Unlink(p) == UnlinkLock(p) \/ UnlinkErase(p) \/ Unlinked(p)
Link(p) == LinkOld(p) \/ LinkNew(p) \/ LinkTaken(p) \/ Linked(p) \/ LinkBad(p)

Next ==
    \/ \E p \in Procs : \/ Walk(p) \/ Iput(p) \/ Open(p) \/ Create(p)
                        \/ Unlink(p) \/ Link(p) \/ Panic(p)
    \/ Crash

Spec == Init /\ [][Next]_vars
-----------------------------------------------------------------------------
(* Properties.                                                             *)

\* The references to inode i, by process and by what holds it.  Once chdir has
\* begun to put the old directory, p->cwd no longer counts.
Refs(i) ==
    {r \in Procs \X {"cwd", "ofile", "ip", "dp", "put"} :
        i = CASE r[2] = "cwd" -> IF loc[r[1]].pc = "chdir" THEN 0 ELSE cwd[r[1]]
              [] r[2] = "ofile" -> ofile[r[1]]
              [] OTHER -> loc[r[1]][r[2]]}

\* An entry's ref is exactly the number of pointers to it that current directories,
\* open files and running calls hold, and who holds its lock holds one of them: no
\* entry is recycled in use, and none is lost from the table (iget, idup, iput).
RefExact ==
    \A i \in Inums :
        /\ itable[i].ref = Cardinality(Refs(i))
        /\ lock[i] # None => \E r \in Refs(i) : r[1] = lock[i]

\* An unlocked valid entry agrees with the disk, whatever call changed it last:
\* "Must be called after every change to an ip->xxx field" (iupdate).
CacheCoherent ==
    \A i \in Inums :
        itable[i].ref > 0 /\ itable[i].valid /\ lock[i] = None =>
            /\ itable[i].type = disk[i].type
            /\ itable[i].nlink = disk[i].nlink

\* Entries of directories other than "." and "..": <<directory, name>> pairs.
EntriesOf(i) ==
    {e \in Inums \X Names : disk[e[1]].type = "DIR" /\ disk[e[1]].dir[e[2]] = i}

\* What a directory entry, a current directory or an open file refers to is never
\* free: an inode outlives its last name as long as it is in use, and no longer
\* has a name when it goes (iput, unlink, create's fail path).  So iput() never has
\* to wait for the inode's lock ("this acquiresleep() won't block"), an entry's inode
\* has a link ("unlink: nlink < 1"), a locked inode is referenced ("ilock"), and a
\* table as large as the number of inodes in use suffices ("iget: no inodes").
NoDangling ==
    /\ \A i \in Inums : EntriesOf(i) # {} => disk[i].type # "none"
    /\ \A p \in Procs :
        /\ ofile[p] # 0 => disk[ofile[p]].type # "none"
        /\ loc[p].pc # "chdir" => disk[cwd[p]].type # "none"
    /\ panicked \in {None, "ilock: no type"}

\* The links to i that nlink should count: its entries, and the ".." of the
\* directories in it.  The root is its own parent and counts that once.
Links(i) ==
    Cardinality(EntriesOf(i)) + (IF i = ROOTINO THEN 1 ELSE 0)
    + IF disk[i].type # "DIR" THEN 0
      ELSE Cardinality({n \in Names : disk[i].dir[n] # 0 /\
                                      disk[disk[i].dir[n]].type = "DIR"})

\* When no call is running, and so after every crash, no link count is too small,
\* and none is too large unless an entry was made in a removed directory (create
\* and link do not look at dp->nlink): such an entry is never unlinked.
LinkCounts ==
    (\A p \in Procs : loc[p].pc = "out") =>
        \A i \in Inums : disk[i].type # "none" =>
            /\ disk[i].nlink >= Links(i)
            /\ ~stray => disk[i].nlink = Links(i)

\* No set of processes waits for one another's inode locks: a call that holds two
\* locks took a directory's before that of something in it (unlink, create).
NoLockCycle ==
    \A S \in SUBSET Procs \ {{}} :
        \E p \in S : Wants(p) = 0 \/ lock[Wants(p)] \notin S

\* The remaining assertion, panic("ilock: no type"): an inode that a path leads to
\* is allocated.
NoTypePanic == panicked # "ilock: no type"
=============================================================================
