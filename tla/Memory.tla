------------------------------- MODULE Memory -------------------------------
(***************************************************************************)
(* Physical pages and user address spaces: the page allocator              *)
(* (kernel/kalloc.c), page tables (kernel/vm.c), and the operations of     *)
(* processes that build, grow, copy, replace and free them (allocproc,     *)
(* fork, growproc, freeproc in kernel/proc.c, exec in kernel/exec.c).      *)
(*                                                                         *)
(* Every one of them takes pages one at a time and may find none left at   *)
(* any of them; it must then give back what it took so far, and only that. *)
(* The free list is the only thing two of them share, and one that has     *)
(* failed to get a page asks for no other: running each as one step, in    *)
(* every state of the free list, gives all their outcomes.                 *)
(*                                                                         *)
(* Operators on a record m (the memory a piece of code works on) stand for *)
(* the C functions: m.free is the free list, m.pt the page table at hand,  *)
(* m.sz a size in bytes, m.ok whether the code is still on its success     *)
(* path, m.panic whether a panic() was reached, m.args the pages that      *)
(* sys_exec() holds for the arguments.                                     *)
(***************************************************************************)
EXTENDS Integers, Sequences, FiniteSets, TLC
LOCAL INSTANCE FiniteSetsExt
LOCAL INSTANCE SequencesExt

CONSTANTS
    NPAGES,     \* physical pages that kinit() frees and kvmmake() leaves
    PGSIZE,     \* bytes per page
    FANOUT,     \* entries of a page table page (512)
    Slots,      \* the process table, 1 .. NPROC; slot 1 is initproc
    Sbrks,      \* arguments of sbrk
    Execs,      \* arguments of exec: an executable [elf, segs, fits] (see ExecImage)
                \* and an argument vector, a sequence over ArgKinds
    MAXARG      \* entries of sys_exec's argv[], the final 0 included (32)

\* What sys_exec() meets at an entry of the user's vector: a string, an entry it
\* cannot read, or an entry that points to no string of at most a page.
ArgKinds == {"string", "noaddr", "nostring"}

Pages == 1 .. NPAGES

\* Virtual pages.  The two highest are the same in every address space.
NVA == FANOUT * FANOUT * FANOUT
TRAMPOLINE == NVA - 1
TRAPFRAME == NVA - 2

\* Memory runs out before an address space does, so no size reaches TRAPFRAME.
ASSUME MemoryConstants ==
    /\ PGSIZE \in Nat \ {0} /\ FANOUT \in Nat \ {0, 1}
    /\ NPAGES \in Nat /\ NPAGES < TRAPFRAME
    /\ 1 \in Slots
    /\ \A e \in Execs : \A i \in DOMAIN e.argv : e.argv[i] \in ArgKinds

VARIABLES
    free,       \* kmem.freelist, as the set of its pages
    proc,       \* proc[i]: trap frame page, size and page table of slot i
    panicked,   \* a panic() was reached
    ret         \* [p, ok] of the last system call: the caller, and not -1

vars == <<free, proc, panicked, ret>>

\* A page table: the page of its root, the pages of its lower levels by the virtual
\* addresses they cover, and the leaf entries (physical page, PTE_U, PTE_W).
NoPT == [root |-> 0, tab |-> <<>>, pte |-> <<>>]
Unused == [tf |-> 0, sz |-> 0, pt |-> NoPT]
Used(p) == proc[p].pt.root # 0

PGROUNDUP(n) == ((n + PGSIZE - 1) \div PGSIZE) * PGSIZE
NPagesOf(n) == PGROUNDUP(n) \div PGSIZE
-----------------------------------------------------------------------------
(* kalloc.c and vm.c.                                                      *)

Mem(f, pt) ==
    [free |-> f, pt |-> pt, sz |-> 0, ok |-> TRUE, panic |-> FALSE, args |-> {}]

\* kalloc(): some page of the list (the code takes the one freed last).
Page(m) == Min(m.free)
Kalloc(m) == [m EXCEPT !.free = @ \ {Page(m)}]
Fail(m) == [m EXCEPT !.ok = FALSE]

\* kfree() of a page that is on the list already corrupts it.
Kfree(m, pages) ==
    [m EXCEPT !.free = @ \cup pages, !.panic = @ \/ pages \cap m.free # {}]

\* walk() with alloc: the page tables of levels 1 and 0 on the way to va.
WalkLevel(m, key) ==
    CASE ~m.ok \/ key \in DOMAIN m.pt.tab -> m
      [] m.ok /\ key \notin DOMAIN m.pt.tab /\ m.free = {} -> Fail(m)
      [] OTHER -> [Kalloc(m) EXCEPT !.pt.tab = (key :> Page(m)) @@ @]

Walk(m, va) ==
    WalkLevel(WalkLevel(m, <<1, va \div (FANOUT * FANOUT)>>), <<0, va \div FANOUT>>)

\* Permissions of a leaf entry: user pages with and without PTE_W, kernel pages.
UserPage(w) == [u |-> TRUE, w |-> w]
KernelPage(w) == [u |-> FALSE, w |-> w]

\* mappages() of one page.
Mappages(m, va, pa, perm) ==
    LET w == Walk(m, va) IN
    IF ~w.ok THEN w
    ELSE [w EXCEPT !.pt.pte = (va :> [pa |-> pa, u |-> perm.u, w |-> perm.w]) @@ @,
                   !.panic = @ \/ va \in DOMAIN w.pt.pte]

\* uvmunmap(): the mappings must exist.
Uvmunmap(m, vas, dofree) ==
    LET pte == m.pt.pte
        pas == {pte[v].pa : v \in vas \cap DOMAIN pte}
        u == [m EXCEPT !.pt.pte = [v \in DOMAIN pte \ vas |-> pte[v]],
                       !.panic = @ \/ ~(vas \subseteq DOMAIN pte)]
    IN  IF dofree THEN Kfree(u, pas) ELSE u

\* uvmdealloc(): sizes in bytes, pages from the one after the new size.
Uvmdealloc(m, oldsz, newsz) ==
    IF newsz >= oldsz THEN [m EXCEPT !.sz = oldsz]
    ELSE [Uvmunmap(m, NPagesOf(newsz) .. NPagesOf(oldsz) - 1, TRUE) EXCEPT !.sz = newsz]

\* Faulty variant: a page that cannot be mapped is not given back.
UvmPageLeaks(m, va, perm) ==
    IF ~m.ok \/ m.free = {} THEN Fail(m)
    ELSE Mappages(Kalloc(m), va, Page(m), perm)

\* One turn of the loops of uvmalloc() and uvmcopy(): a page, mapped or given back.
UvmPage(m, va, perm) ==
    IF ~m.ok \/ m.free = {} THEN Fail(m)
    ELSE LET n == Mappages(Kalloc(m), va, Page(m), perm)
         IN  IF n.ok THEN n ELSE Kfree(n, {Page(m)})

\* uvmalloc() after its loop, before which n pages were mapped: all pages are there,
\* or the new ones are unmapped.  0 is its error value, whatever it returns it for.
UvmallocEnd(m, n, oldsz, newsz) ==
    LET a == NPagesOf(oldsz) + Cardinality(DOMAIN m.pt.pte) - n
    IN  IF m.ok THEN [m EXCEPT !.sz = newsz, !.ok = newsz # 0]
        ELSE [Uvmdealloc(m, a * PGSIZE, PGROUNDUP(oldsz)) EXCEPT !.sz = 0]

\* w: PTE_W of the new pages.
Uvmalloc(m, oldsz, newsz, w) ==
    LET first == NPagesOf(oldsz)
        vas == [k \in 1 .. NPagesOf(newsz) - first |-> first + k - 1]
    IN  IF newsz < oldsz THEN [m EXCEPT !.sz = oldsz]
        ELSE UvmallocEnd(FoldLeft(LAMBDA n, va : UvmPage(n, va, UserPage(w)), m, vas),
                         Cardinality(DOMAIN m.pt.pte), oldsz, newsz)

\* freewalk() panics at a leaf; uvmfree() removes those below sz first.
Freewalk(m) ==
    Kfree([m EXCEPT !.panic = @ \/ m.pt.pte # <<>>, !.pt = NoPT],
          {m.pt.tab[k] : k \in DOMAIN m.pt.tab} \cup {m.pt.root})

Uvmfree(m, sz) == Freewalk(Uvmunmap(m, 0 .. NPagesOf(sz) - 1, TRUE))

\* uvmcopy(): every page below sz; on error, the pages copied so far are unmapped.
UvmcopyEnd(m, sz) ==
    IF m.ok THEN m
    ELSE Uvmunmap(m, {v \in DOMAIN m.pt.pte : v < NPagesOf(sz)}, TRUE)

Uvmcopy(m, old, sz) ==
    LET vas == [k \in 1 .. NPagesOf(sz) |-> k - 1]
        Copy(n, va) == IF va \notin DOMAIN old.pte THEN [n EXCEPT !.panic = TRUE]
                       ELSE UvmPage(n, va, [u |-> old.pte[va].u, w |-> old.pte[va].w])
    IN  UvmcopyEnd(FoldLeft(Copy, m, vas), sz)

\* uvmclear(): no user access to the page.
Uvmclear(m, va) == [m EXCEPT !.pt.pte[va].u = FALSE]

\* Faulty variant: the PTE_U check is missing.
WalkaddrAny(pt, va) == IF va \in DOMAIN pt.pte THEN pt.pte[va].pa ELSE 0

\* walkaddr(): the physical page of a user page, or 0.
Walkaddr(pt, va) ==
    IF va \in DOMAIN pt.pte THEN (IF pt.pte[va].u THEN pt.pte[va].pa ELSE 0) ELSE 0

\* copyout() looks the page up by itself, and wants PTE_W as well.
CopyoutAddr(pt, va) ==
    IF va \in DOMAIN pt.pte
    THEN (IF pt.pte[va].u /\ pt.pte[va].w THEN pt.pte[va].pa ELSE 0) ELSE 0

\* The pages touched for len bytes at va, page by page up to the first one that is
\* not below MAXVA or whose address is 0.
Touched(addr, va, len) ==
    LET first == va \div PGSIZE
        last == Min({(va + len - 1) \div PGSIZE, NVA - 1})
    IN  {addr[v] : v \in {w \in first .. last : \A x \in first .. w : addr[x] # 0}}

\* copyin(), copyinstr(): what they may read; copyout(): what it may write.
Copyin(pt, va, len) == Touched([v \in 0 .. NVA - 1 |-> Walkaddr(pt, v)], va, len)
Copyout(pt, va, len) == Touched([v \in 0 .. NVA - 1 |-> CopyoutAddr(pt, v)], va, len)
-----------------------------------------------------------------------------
(* Address spaces of processes.                                            *)

\* proc_pagetable(): a root, then the trampoline and the trap frame.
ProcPagetable(m, tf) ==
    IF m.free = {} THEN Fail(m)
    ELSE LET c == [Kalloc(m) EXCEPT !.pt = [NoPT EXCEPT !.root = Page(m)]]
             t == Mappages(c, TRAMPOLINE, 0, KernelPage(FALSE))
             f == Mappages(t, TRAPFRAME, tf, KernelPage(TRUE))
         IN  CASE ~t.ok -> Uvmfree(t, 0)
               [] t.ok /\ ~f.ok -> Uvmfree(Uvmunmap(f, {TRAMPOLINE}, FALSE), 0)
               [] OTHER -> f

ProcFreepagetable(m, sz) ==
    Uvmfree(Uvmunmap(m, {TRAMPOLINE, TRAPFRAME}, FALSE), sz)

\* allocproc(), and its freeproc() when memory runs out: m.pt is the new table.
Allocproc(f) ==
    LET m == Mem(f, NoPT) IN
    IF f = {} THEN Fail(m)
    ELSE LET n == ProcPagetable(Kalloc(m), Page(m))
         IN  IF n.ok THEN n ELSE Kfree(n, {Page(m)})

\* The trap frame Allocproc(f) takes.
Trapframe(f) == Min(f)

\* freeproc() of a process with trap frame tf, size sz and page table m.pt.
Freeproc(m, tf, sz) == ProcFreepagetable(Kfree(m, {tf}), sz)

\* userinit() with uvmfirst(): initcode in one page at address 0.
Userinit ==
    LET m == Allocproc(Pages) IN UvmPage(m, 0, UserPage(TRUE))

Init ==
    /\ free = Userinit.free
    /\ proc = [i \in Slots |->
                 IF i = 1 THEN [tf |-> Trapframe(Pages), sz |-> PGSIZE, pt |-> Userinit.pt]
                 ELSE Unused]
    /\ panicked = ~Userinit.ok \/ Userinit.panic
    /\ ret = [p |-> 1, ok |-> TRUE]

Return(p, m) ==
    /\ free' = m.free
    /\ panicked' = (panicked \/ m.panic)
    /\ ret' = [p |-> p, ok |-> m.ok]

\* Faulty variant: the size is stored before the result is looked at.
NewSizeAlways(sz, g) == g.sz

\* p->sz after growproc().
NewSize(sz, g) == IF g.ok THEN g.sz ELSE sz

\* growproc() of a process of size sz.  A shrink by more than the size wraps around
\* and is no shrink at all.
Growproc(m, sz, n) ==
    CASE n > 0 -> Uvmalloc(m, sz, sz + n, TRUE)
      [] n < 0 -> Uvmdealloc(m, sz, IF sz + n < 0 THEN sz ELSE sz + n)
      [] OTHER -> [m EXCEPT !.sz = sz]

\* sys_sbrk().
Sbrk(p, n) ==
    LET sz == proc[p].sz
        g == Growproc(Mem(free, proc[p].pt), sz, n)
    IN
    /\ Used(p) /\ ~panicked
    /\ Return(p, g)
    /\ proc' = [proc EXCEPT ![p].pt = g.pt, ![p].sz = NewSize(sz, g)]

\* fork(): a slot, its trap frame and page table, then the copy; freeproc() of a
\* process whose size is still 0 if that fails.
Fork(p, q) ==
    /\ Used(p) /\ ~Used(q) /\ ~panicked
    /\ \E a \in {Allocproc(free)} : \E c \in {Uvmcopy(a, proc[p].pt, proc[p].sz)} :
       IF a.ok /\ c.ok
       THEN /\ Return(p, c)
            /\ proc' = [proc EXCEPT ![q] = [tf |-> Trapframe(free), sz |-> proc[p].sz,
                                            pt |-> c.pt]]
       ELSE /\ Return(p, IF a.ok THEN Freeproc(c, Trapframe(free), 0) ELSE a)
            /\ UNCHANGED proc

\* loadseg() of a segment into m, where exec had the size sz before uvmalloc(): it
\* panics if an address is not mapped, and fails if the file cannot be read.
Loadseg(m, sz, seg) ==
    LET vas == seg.vaddr \div PGSIZE .. NPagesOf(seg.vaddr + seg.memsz) - 1
    IN  IF ~m.ok THEN [m EXCEPT !.sz = sz]
        ELSE [m EXCEPT !.ok = seg.fault # "read",
                       !.panic = @ \/ \E v \in vas : Walkaddr(m.pt, v) = 0]

\* One program header: refused, or memory for it and its contents.
Segment(m, seg) ==
    IF ~m.ok \/ seg.fault = "header" THEN Fail(m)
    ELSE Loadseg(Uvmalloc(m, m.sz, seg.vaddr + seg.memsz, seg.w), m.sz, seg)

\* The stack at base: of its two pages the lower is the guard, and the arguments may
\* not fit in the other one.
Stack(m, base, fits) ==
    IF m.ok THEN [Uvmclear(m, base \div PGSIZE) EXCEPT !.ok = fits]
    ELSE [m EXCEPT !.sz = base]

WithStack(m, base, fits) ==
    IF m.ok THEN Stack(Uvmalloc(m, base, base + 2 * PGSIZE, TRUE), base, fits) ELSE m

\* The new image: its segments, then the stack.  m.sz is exec's sz throughout.
Image(m, prog) ==
    LET Then(l) == WithStack(l, PGROUNDUP(l.sz), prog.fits)
    IN  Then(FoldLeft(Segment, m, prog.segs))

\* Faulty variant: on failure the old size is used to free the new image.
ExecBadOld(m, oldsz) == Fail(ProcFreepagetable(m, oldsz))

\* bad: the new page table goes, with the memory below exec's sz.
ExecBad(m, oldsz) == Fail(ProcFreepagetable(m, m.sz))

\* One turn of sys_exec()'s loop, at an entry of the user's vector that is not 0: a
\* page for the string, and the string.
FetchArg(m, kind) ==
    CASE ~m.ok -> m
      [] m.ok /\ (kind = "noaddr" \/ m.free = {}) -> Fail(m)
      [] OTHER -> [Kalloc(m) EXCEPT !.args = @ \cup {Page(m)}, !.ok = kind # "nostring"]

\* The end of sys_exec(), good or bad: the pages of the arguments go.
FreeArgs(m) == Kfree(m, m.args)

\* The arguments, or a failure after some of them: the vector must leave an entry of
\* argv[] for the final 0.
FetchArgs(m, argv) ==
    LET n == FoldLeft(FetchArg, m, SubSeq(argv, 1, Min({Len(argv), MAXARG})))
    IN  IF Len(argv) < MAXARG THEN n ELSE Fail(n)

\* exec() with the arguments in a.args: the new image replaces the old one, or is
\* freed.  ~prog.elf: there is no such file, or it has no ELF header.
ExecImage(p, prog, a) ==
    \E t \in {IF prog.elf THEN ProcPagetable(a, proc[p].tf) ELSE Fail(a)} :
    \E m \in {IF t.ok THEN Image(t, prog) ELSE t} :
        IF m.ok
        THEN /\ Return(p, FreeArgs(ProcFreepagetable([m EXCEPT !.pt = proc[p].pt], proc[p].sz)))
             /\ proc' = [proc EXCEPT ![p].pt = m.pt, ![p].sz = m.sz]
        ELSE /\ Return(p, FreeArgs(IF t.ok THEN ExecBad(m, proc[p].sz) ELSE t))
             /\ UNCHANGED proc

\* sys_exec().
Exec(p, prog, argv) ==
    /\ Used(p) /\ ~panicked
    /\ \E a \in {FetchArgs(Mem(free, NoPT), argv)} :
          \/ ~a.ok /\ Return(p, FreeArgs(a)) /\ UNCHANGED proc
          \/ a.ok /\ ExecImage(p, prog, a)

\* exit() and the parent's wait(): freeproc().
Reap(p) ==
    /\ Used(p) /\ p # 1 /\ ~panicked
    /\ Return(p, Freeproc(Mem(free, proc[p].pt), proc[p].tf, proc[p].sz))
    /\ proc' = [proc EXCEPT ![p] = Unused]

Next ==
    \E p \in Slots :
        \/ \E n \in Sbrks : Sbrk(p, n)
        \/ \E q \in Slots : Fork(p, q)
        \/ \E e \in Execs : Exec(p, e.prog, e.argv)
        \/ Reap(p)

Spec == Init /\ [][Next]_vars
-----------------------------------------------------------------------------
(* Properties.                                                             *)

\* The pages slot i holds, as <<what for, page>>: page tables by level, the root's
\* being 2, user pages as 3, the trap frame as 4.
Holds(i) ==
    LET pr == proc[i]  pt == pr.pt IN
    {<<<<4, 0>>, pr.tf>>, <<<<2, 0>>, pt.root>>}
    \cup {<<k, pt.tab[k]>> : k \in DOMAIN pt.tab}
    \cup {<<<<3, v>>, pt.pte[v].pa>> : v \in DOMAIN pt.pte \ {TRAMPOLINE, TRAPFRAME}}

\* Every page is in exactly one place: on the free list, or one page of one process.
\* No page is lost and none is used twice, whatever call failed at whatever page.
PagesAccounted ==
    LET held == UNION {{<<i, h>> : h \in Holds(i)} : i \in {s \in Slots : Used(s)}} IN
    /\ Cardinality(held) + Cardinality(free) = NPAGES
    /\ {h[2][2] : h \in held} \cup free = Pages

\* What is mapped is what the size says: the pages below sz, the trampoline and the
\* process's own trap frame; this is what fork copies and freeproc frees by.  What
\* copyin, copyinstr and copyout touch on behalf of a process is its own memory: a
\* page below its size, never a page table, a trap frame, a free page or a page of
\* another process.
MapsMatchSize ==
    \A i \in Slots : Used(i) =>
        LET pt == proc[i].pt
            own == {pt.pte[v].pa : v \in DOMAIN pt.pte \ {TRAMPOLINE, TRAPFRAME}}
            touched == UNION {Copyin(pt, v * PGSIZE, PGSIZE + 1)
                              \cup Copyout(pt, v * PGSIZE, PGSIZE + 1) : v \in 0 .. NVA - 1}
            others == UNION {{h[2] : h \in Holds(j)} : j \in Slots \ {i}}
        IN  /\ DOMAIN pt.pte = 0 .. NPagesOf(proc[i].sz) - 1 \cup {TRAMPOLINE, TRAPFRAME}
            /\ pt.pte[TRAPFRAME].pa = proc[i].tf
            /\ touched \subseteq own \ (others \cup free \cup {proc[i].tf})

\* The panics of kalloc.c and vm.c are not reached: nothing is mapped twice, unmapped
\* when absent, freed twice, or left behind for freewalk().
VmNeverPanics == ~panicked

\* A call that returns -1 has changed nothing but perhaps added page table pages to
\* the caller's own table: fork, exec and sbrk undo what they did.
FailedCallsUndone ==
    [][ ~ret'.ok =>
          \A i \in Slots :
            /\ proc'[i].sz = proc[i].sz /\ proc'[i].tf = proc[i].tf
            /\ proc'[i].pt.pte = proc[i].pt.pte
            /\ \A k \in DOMAIN proc[i].pt.tab : proc'[i].pt.tab[k] = proc[i].pt.tab[k] ]_vars
=============================================================================
