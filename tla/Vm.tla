--------------------------------- MODULE Vm ---------------------------------
(***************************************************************************)
(* Physical pages (kalloc.c), page tables (vm.c) and the calls that build, *)
(* copy and free them: exec, fork, sbrk and wait.  A step is one turn of   *)
(* one of their loops, with at most one kalloc or kfree, so that processes *)
(* on several CPUs compete for the last pages.  A directory and a table    *)
(* have the same number of entries; the last entry of a directory is the   *)
(* kernel's.  Addresses count units of which PGSIZE make a page.           *)
(***************************************************************************)
EXTENDS Integers, Sequences, FiniteSets, TLC

CONSTANTS
    VProc,           \* the process slots
    VInitProc,       \* initproc, which forks the others
    NFRAME,          \* pages of physical memory
    NENTRIES,        \* NPDENTRIES and NPTENTRIES
    PGSIZE, VWRAP,   \* page size, modulus of an unsigned address
    Images,          \* the programs each process executes: the ends of their segments, readable
                     \* or not, and the size of the arguments
    Sbrks            \* each process's arguments of sbrk

VARIABLES
    freelist,        \* kmem.freelist: which free page comes first does not matter here
    entry,           \* what a page contains when it is a directory or a table
    guard,           \* pages whose PTE_U is clear
    vproc,           \* state, pgdir, sz and kstack of struct proc
    job,             \* the call a process is in, and its local variables
    lost,            \* pages that the code forgets when a page table cannot be allocated
    vmPanic

vmVars == <<freelist, entry, guard, vproc, job, lost, vmPanic>>

Frame    == 1 .. NFRAME
Entries  == 0 .. NENTRIES - 1
Kern     == NENTRIES - 1                         \* the kernel's entry of a directory
KERNBASE == (NENTRIES - 1) * NENTRIES * PGSIZE
Zeros    == [i \in Entries |-> 0]
Junk     == [i \in Entries |-> -1]               \* what kfree fills a page with

\* wrong: rounds down
PGROUNDDOWN(n) == (n \div PGSIZE) * PGSIZE
PGROUNDUP(n) == ((n + PGSIZE - 1) \div PGSIZE) * PGSIZE
PDX(a) == a \div (PGSIZE * NENTRIES)
PTX(a) == (a \div PGSIZE) % NENTRIES

kalloc == CHOOSE f \in freelist : \A g \in freelist : f <= g

\* kfree of a set of pages, and the entries of directory or table t cleared or not
Freed(fs, e) == [f \in Frame |-> IF f \in fs THEN Junk ELSE e[f]]
kfree(fs) ==
    /\ freelist' = freelist \union fs
    /\ guard' = guard \ fs

Goto(p, r) == job' = [job EXCEPT ![p] = r @@ @]
InUser == [pc |-> "user", op |-> "none", d |-> 0, a |-> 0, end |-> 0, lo |-> 0, mem |-> 0,
         segs |-> <<>>, args |-> 0, child |-> 0]
VReturn(p) == job' = [job EXCEPT ![p] = InUser]
\* bad: of exec and of copyuvm, on to freevm; wrong when the directory is just dropped
freevmNot(p) == VReturn(p)
freevm(p) == Goto(p, [pc |-> "shrink", a |-> 0, end |-> KERNBASE])
VmCrash == vmPanic' = TRUE

\* walkpgdir without alloc: the table for address a, or 0
walkpgdir(d, a) == entry[d][PDX(a)]
Present(d, a) == walkpgdir(d, a) # 0 /\ entry[walkpgdir(d, a)][PTX(a)] # 0
PageAt(d, a) == entry[walkpgdir(d, a)][PTX(a)]

\* userinit and inituvm: a directory, the kernel's table, a table, a page and a stack
VInit ==
    /\ freelist = Frame \ (1 .. 5)
    /\ entry = [f \in Frame |-> CASE f = 1 -> [Zeros EXCEPT ![Kern] = 2, ![0] = 3]
                                  [] f = 3 -> [Zeros EXCEPT ![0] = 4]
                                  [] f \in {2, 4} -> Zeros
                                  [] OTHER -> Junk]
    /\ guard = {}
    /\ vproc = [p \in VProc |-> IF p = VInitProc
                                THEN [state |-> "used", pgdir |-> 1, sz |-> PGSIZE, kstack |-> 5]
                                ELSE [state |-> "unused", pgdir |-> 0, sz |-> 0, kstack |-> 0]]
    /\ job = [p \in VProc |-> InUser]
    /\ lost = {} /\ vmPanic = FALSE

Running(p, where) == vproc[p].state = "used" /\ job[p].pc = where
\* in user mode, with the page at address 0 that it runs in: without it trap kills it
User(p) == Running(p, "user") /\ Present(vproc[p].pgdir, 0)

-----------------------------------------------------------------------------
\* sys_sbrk and growproc, up to the loop of allocuvm or deallocuvm; where the sum wraps past
\* the other end they return the old size, and no step is taken
Sbrk(p) ==
    \E n \in Sbrks[p] :
        LET sz  == vproc[p].sz
            new == (sz + n) % VWRAP
        IN  /\ User(p)
            /\ \/ /\ n > 0 /\ new < KERNBASE /\ sz <= new
                  /\ Goto(p, [pc |-> "grow", op |-> "sbrk", d |-> vproc[p].pgdir,
                            a |-> PGROUNDUP(sz), end |-> new, lo |-> sz])
               \/ /\ n < 0 /\ new < sz
                  /\ Goto(p, [pc |-> "shrink", op |-> "sbrk", d |-> vproc[p].pgdir,
                            a |-> PGROUNDUP(new), end |-> sz, lo |-> new])
            /\ UNCHANGED <<freelist, entry, guard, vproc, lost, vmPanic>>

\* fork: allocproc's stack, and on to copyuvm
VFork(p) ==
    \E c \in VProc :
        /\ User(p) /\ p = VInitProc
        /\ vproc[c].state = "unused" /\ freelist # {}
        /\ freelist' = freelist \ {kalloc}
        /\ vproc' = [vproc EXCEPT ![c] = [state |-> "embryo", pgdir |-> 0, sz |-> 0, kstack |-> kalloc]]
        /\ Goto(p, [pc |-> "setup", op |-> "fork", end |-> vproc[p].sz, child |-> c])
        /\ UNCHANGED <<entry, guard, lost, vmPanic>>

\* exec: the header is read, and on to setupkvm
Exec(p) ==
    \E img \in Images[p] :
        /\ User(p)
        /\ Goto(p, [pc |-> "setup", op |-> "exec", segs |-> img.segs, args |-> img.args])
        /\ UNCHANGED <<freelist, entry, guard, vproc, lost, vmPanic>>

\* setupkvm: the directory, then the kernel's tables; a failure forgets the directory
SetupDir(p) ==
    /\ Running(p, "setup")
    /\ IF freelist = {}
       THEN Goto(p, [pc |-> "failed"]) /\ UNCHANGED <<freelist, entry>>
       ELSE /\ freelist' = freelist \ {kalloc}
            /\ entry' = [entry EXCEPT ![kalloc] = Zeros]
            /\ Goto(p, [pc |-> "kmap", d |-> kalloc])
    /\ UNCHANGED <<guard, vproc, lost, vmPanic>>

SetupKern(p) ==
    /\ Running(p, "kmap")
    /\ IF freelist = {}
       THEN /\ lost' = lost \union {job[p].d}
            /\ Goto(p, [pc |-> "failed", d |-> 0])
            /\ UNCHANGED <<freelist, entry>>
       ELSE /\ freelist' = freelist \ {kalloc}
            /\ entry' = [entry EXCEPT ![kalloc] = Zeros, ![job[p].d][Kern] = kalloc]
            /\ Goto(p, [pc |-> IF job[p].op = "fork" THEN "copy" ELSE "segment", a |-> 0, lo |-> 0])
            /\ UNCHANGED lost
    /\ UNCHANGED <<guard, vproc, vmPanic>>

\* copyuvm: the next page of the parent, or the child is done
Copy(p) ==
    LET j == job[p]
        src == vproc[p].pgdir
    IN  /\ Running(p, "copy")
        /\ \/ /\ j.a >= j.end                       \* fork goes on: the child runs
              /\ vproc' = [vproc EXCEPT ![j.child] = [@ EXCEPT !.state = "used", !.pgdir = j.d, !.sz = j.end]]
              /\ VReturn(p)
              /\ UNCHANGED <<freelist, entry, guard, vmPanic>>
           \/ /\ j.a < j.end /\ ~Present(src, j.a)
              /\ VmCrash /\ UNCHANGED <<freelist, entry, guard, vproc, job>>
           \/ /\ j.a < j.end /\ Present(src, j.a) /\ freelist = {}
              /\ freevm(p)
              /\ UNCHANGED <<freelist, entry, guard, vproc, vmPanic>>
           \/ /\ j.a < j.end /\ Present(src, j.a) /\ freelist # {}
              /\ freelist' = freelist \ {kalloc}
              /\ entry' = [entry EXCEPT ![kalloc] = Zeros]
              /\ guard' = IF PageAt(src, j.a) \in guard THEN guard \union {kalloc} ELSE guard
              /\ Goto(p, [pc |-> "map", mem |-> kalloc])
              /\ UNCHANGED <<vproc, vmPanic>>
        /\ UNCHANGED lost

\* allocuvm: the next page, the end of the loop, or no memory
Grow(p) ==
    LET j == job[p]
    IN  /\ Running(p, "grow")
        /\ \/ /\ j.a >= j.end
              /\ Goto(p, [pc |-> IF j.op = "sbrk" THEN "grown" ELSE "load"])
              /\ UNCHANGED <<freelist, entry>>
           \/ /\ j.a < j.end /\ freelist = {}
              /\ Goto(p, [pc |-> "undo", a |-> PGROUNDUP(j.lo)])
              /\ UNCHANGED <<freelist, entry>>
           \/ /\ j.a < j.end /\ freelist # {}
              /\ freelist' = freelist \ {kalloc}
              /\ entry' = [entry EXCEPT ![kalloc] = Zeros]
              /\ Goto(p, [pc |-> "map", mem |-> kalloc])
        /\ UNCHANGED <<guard, vproc, lost, vmPanic>>

\* mappages of one page, with walkpgdir's table; allocuvm does not look at its result
MapPage(p) ==
    LET j   == job[p]
        tab == walkpgdir(j.d, j.a)
        f   == IF tab # 0 THEN tab ELSE kalloc
        old == IF tab # 0 THEN entry ELSE [entry EXCEPT ![f] = Zeros, ![j.d][PDX(j.a)] = f]
    IN  /\ Running(p, "map")
        /\ \/ /\ tab = 0 /\ freelist = {}
              /\ lost' = lost \union {j.mem}
              /\ guard' = guard \ {j.mem}
              /\ IF j.op = "fork" THEN Goto(p, [pc |-> "shrink", a |-> 0, end |-> KERNBASE, mem |-> 0])
                                  ELSE Goto(p, [pc |-> "grow", a |-> j.a + PGSIZE, mem |-> 0])
              /\ UNCHANGED <<freelist, entry, vmPanic>>
           \/ /\ tab # 0 /\ Present(j.d, j.a)                     \* remap
              /\ VmCrash /\ UNCHANGED <<freelist, entry, guard, lost, job>>
           \/ /\ IF tab = 0 THEN freelist # {} ELSE ~Present(j.d, j.a)
              /\ freelist' = freelist \ {f}
              /\ entry' = [old EXCEPT ![f][PTX(j.a)] = j.mem]
              /\ Goto(p, [pc |-> IF j.op = "fork" THEN "copy" ELSE "grow", a |-> j.a + PGSIZE, mem |-> 0])
              /\ UNCHANGED <<guard, lost, vmPanic>>
        /\ UNCHANGED vproc

\* growproc returns
GrowEnd(p) ==
    /\ Running(p, "grown")
    /\ vproc' = [vproc EXCEPT ![p].sz = job[p].end]
    /\ VReturn(p)
    /\ UNCHANGED <<freelist, entry, guard, lost, vmPanic>>

\* one turn of deallocuvm's loop: from sbrk, from allocuvm without memory, from freevm
Dealloc(p) ==
    LET j   == job[p]
        tab == walkpgdir(j.d, j.a)
    IN  /\ Running(p, "shrink") \/ Running(p, "undo")
        /\ j.a < j.end
        /\ \/ /\ tab = 0
              /\ Goto(p, [a |-> j.a + NENTRIES * PGSIZE])
              /\ UNCHANGED <<freelist, entry, guard>>
           \/ /\ tab # 0 /\ ~Present(j.d, j.a)
              /\ Goto(p, [a |-> j.a + PGSIZE])
              /\ UNCHANGED <<freelist, entry, guard>>
           \/ /\ tab # 0 /\ Present(j.d, j.a)
              /\ kfree({PageAt(j.d, j.a)})
              /\ entry' = [Freed({PageAt(j.d, j.a)}, entry) EXCEPT ![tab][PTX(j.a)] = 0]
              /\ Goto(p, [a |-> j.a + PGSIZE])
        /\ UNCHANGED <<vproc, lost, vmPanic>>

\* deallocuvm returns: to growproc, which takes a size of 0 for an error, to allocuvm and on
\* to its callers' error paths, or to freevm
Deallocated(p) ==
    LET j == job[p]
    IN  /\ j.a >= j.end
        /\ \/ /\ Running(p, "shrink") /\ j.op = "sbrk"
              /\ vproc' = IF j.lo = 0 THEN vproc ELSE [vproc EXCEPT ![p].sz = j.lo]
              /\ VReturn(p)
           \/ /\ Running(p, "undo") /\ j.op = "sbrk"
              /\ VReturn(p) /\ UNCHANGED vproc
           \/ /\ Running(p, "undo") /\ j.op = "exec"
              /\ freevm(p) /\ UNCHANGED vproc
           \/ /\ Running(p, "shrink") /\ j.op # "sbrk"
              /\ Goto(p, [pc |-> "tables"]) /\ UNCHANGED vproc
        /\ UNCHANGED <<freelist, entry, guard, lost, vmPanic>>

\* freevm: a table, or at last the directory itself
FreeTables(p) ==
    LET j == job[p]
        tabs == {i \in Entries : entry[j.d][i] # 0}
        i == CHOOSE k \in tabs : \A h \in tabs : k <= h
    IN  /\ Running(p, "tables")
        /\ IF tabs # {}
           THEN /\ kfree({entry[j.d][i]})
                /\ entry' = [Freed({entry[j.d][i]}, entry) EXCEPT ![j.d][i] = 0]
                /\ UNCHANGED job
           ELSE /\ kfree({j.d})
                /\ entry' = Freed({j.d}, entry)
                /\ Goto(p, [pc |-> "freed", d |-> 0])
        /\ UNCHANGED <<vproc, lost, vmPanic>>

\* what follows freevm, or a setupkvm that returned 0: fork gives the stack back, exec and
\* wait return
Finish(p) ==
    LET c == job[p].child
    IN  /\ Running(p, "freed") \/ Running(p, "failed")
        /\ IF job[p].op = "exec"
           THEN UNCHANGED <<freelist, guard, entry, vproc>>
           ELSE /\ kfree({vproc[c].kstack} \ {0})
                /\ entry' = Freed({vproc[c].kstack} \ {0}, entry)
                /\ vproc' = [vproc EXCEPT ![c] = [state |-> "unused", pgdir |-> 0, sz |-> 0, kstack |-> 0]]
        /\ VReturn(p)
        /\ UNCHANGED <<lost, vmPanic>>

-----------------------------------------------------------------------------
\* exec: the next segment, which may be unreadable, or the two pages of the stack
Segment(p) ==
    LET j == job[p]
    IN  /\ Running(p, "segment")
        /\ \/ /\ j.segs # <<>> /\ (j.lo > Head(j.segs).end \/ Head(j.segs).end >= KERNBASE)
              /\ IF Head(j.segs).end >= KERNBASE
                 THEN freevm(p)
                 ELSE Goto(p, [pc |-> "load", end |-> j.lo])
           \/ /\ j.segs # <<>> /\ j.lo <= Head(j.segs).end /\ Head(j.segs).end < KERNBASE
              /\ Goto(p, [pc |-> "grow", a |-> PGROUNDUP(j.lo), end |-> Head(j.segs).end])
           \/ /\ j.segs = <<>>
              /\ IF PGROUNDUP(j.lo) + 2 * PGSIZE >= KERNBASE
                 THEN freevm(p)
                 ELSE Goto(p, [pc |-> "grow", a |-> PGROUNDUP(j.lo), lo |-> PGROUNDUP(j.lo),
                             end |-> PGROUNDUP(j.lo) + 2 * PGSIZE])
        /\ UNCHANGED <<freelist, entry, guard, vproc, lost, vmPanic>>

\* loaduvm of a segment; allocuvm's 0 for a segment of no size counts as an error
LoadSeg(p) ==
    LET j == job[p]
        s == Head(j.segs)
        addrs == {a \in 0 .. s.end - 1 : a >= s.vaddr /\ a % PGSIZE = 0}
    IN  /\ Running(p, "load") /\ j.segs # <<>>
        /\ \/ /\ j.end # 0 /\ \E a \in addrs : walkpgdir(j.d, a) = 0
              /\ VmCrash /\ UNCHANGED job
           \/ /\ j.end = 0 \/ ~s.ok
              /\ freevm(p) /\ UNCHANGED vmPanic
           \/ /\ j.end # 0 /\ s.ok /\ \A a \in addrs : walkpgdir(j.d, a) # 0
              /\ Goto(p, [pc |-> "segment", segs |-> Tail(j.segs), lo |-> j.end]) /\ UNCHANGED vmPanic
        /\ UNCHANGED <<freelist, entry, guard, vproc, lost>>

\* clearpteu of the page below the stack, copyout of the arguments with uva2ka, and the
\* commit, after which the old address space is freed; uva2ka reads through the null
\* pointer walkpgdir returns when there is no table, which counts as a panic here
Commit(p) ==
    LET j     == job[p]
        below == j.end - 2 * PGSIZE
        g     == IF Present(j.d, below) THEN guard \union {PageAt(j.d, below)} ELSE guard
        addrs == {a \in 0 .. j.end - 1 : a >= j.end - j.args}
    IN  /\ Running(p, "load") /\ j.segs = <<>>
        /\ IF walkpgdir(j.d, below) = 0 \/ \E a \in addrs : walkpgdir(j.d, a) = 0
           THEN VmCrash /\ UNCHANGED <<guard, vproc, job>>
           ELSE /\ guard' = g
                /\ UNCHANGED vmPanic
                /\ IF \E a \in addrs : ~Present(j.d, a) \/ PageAt(j.d, a) \in g
                   THEN freevm(p) /\ UNCHANGED vproc
                   ELSE /\ vproc' = [vproc EXCEPT ![p] = [@ EXCEPT !.pgdir = j.d, !.sz = j.end]]
                        /\ Goto(p, [pc |-> "shrink", d |-> vproc[p].pgdir, a |-> 0, end |-> KERNBASE])
        /\ UNCHANGED <<freelist, entry, lost>>

\* exit, by choice or because the page it runs in is gone, and wait of the parent
VExit(p) ==
    /\ Running(p, "user") /\ p # VInitProc
    /\ vproc' = [vproc EXCEPT ![p].state = "zombie"]
    /\ UNCHANGED <<freelist, entry, guard, job, lost, vmPanic>>

VWait(p) ==
    \E c \in VProc :
        /\ User(p) /\ p = VInitProc /\ vproc[c].state = "zombie"
        /\ kfree({vproc[c].kstack})
        /\ entry' = Freed({vproc[c].kstack}, entry)
        /\ vproc' = [vproc EXCEPT ![c].kstack = 0]
        /\ Goto(p, [pc |-> "shrink", op |-> "wait", d |-> vproc[c].pgdir, a |-> 0, end |-> KERNBASE, child |-> c])
        /\ UNCHANGED <<lost, vmPanic>>

VNext ==
    /\ ~vmPanic
    /\ \E p \in VProc :
          \/ Sbrk(p) \/ VFork(p) \/ Exec(p) \/ SetupDir(p) \/ SetupKern(p) \/ Copy(p) \/ Grow(p)
          \/ MapPage(p) \/ GrowEnd(p) \/ Dealloc(p) \/ Deallocated(p) \/ FreeTables(p) \/ Finish(p)
          \/ Segment(p) \/ LoadSeg(p) \/ Commit(p) \/ VExit(p) \/ VWait(p)

VSpec == VInit /\ [][VNext]_vmVars

-----------------------------------------------------------------------------
(* Properties *)

\* Types of the pages, the processes and the calls they are in.
VmTypeOK ==
    /\ freelist \subseteq Frame /\ guard \subseteq Frame /\ lost \subseteq Frame
    /\ entry \in [Frame -> [Entries -> -1 .. NFRAME]]
    /\ \A p \in VProc : /\ vproc[p].state \in {"unused", "embryo", "used", "zombie"}
                        /\ vproc[p].pgdir \in 0 .. NFRAME /\ vproc[p].kstack \in 0 .. NFRAME
                        /\ vproc[p].sz \in 0 .. KERNBASE

\* the directories in use: of processes not being waited for, and of calls
Dirs == ({vproc[p].pgdir : p \in {q \in VProc : ~\E w \in VProc : job[w].op = "wait" /\ job[w].child = q}}
         \union {job[p].d : p \in VProc}) \ {0}

\* every use of a page: what for, where, which page
Refs == LET tabs == {x \in Dirs \X Entries : entry[x[1]][x[2]] # 0}
        IN  {<<"dir", d, 0, d>> : d \in Dirs}
            \union {<<"table", x[1], x[2], entry[x[1]][x[2]]>> : x \in tabs}
            \union UNION {{<<"page", x[1], NENTRIES * x[2] + k, entry[entry[x[1]][x[2]]][k]>> : k \in Entries} :
                             x \in {y \in tabs : y[2] # Kern}}
            \union {<<"held", p, 0, job[p].mem>> : p \in VProc}
            \union {<<"stack", p, 0, vproc[p].kstack>> : p \in VProc}

\* Every page has exactly one place: it is free, or one directory, one table, one address of
\* one process, or one kernel stack.  Each error path of exec, fork and sbrk gives back all it
\* took, whatever the other CPUs allocate meanwhile, except the pages setupkvm, allocuvm and
\* copyuvm forget when a page table cannot be allocated.
PagesAccounted ==
    LET used == {r \in Refs : r[4] # 0}
    IN  /\ VmTypeOK
        /\ \A r \in used : r[4] \in Frame \ (freelist \union lost)
        /\ \A r, s \in used : r[4] = s[4] => r = s
        /\ freelist \intersect lost = {}
        /\ Frame = freelist \union lost \union {r[4] : r \in used}

\* A process that runs has every page below its size, unless it has just given its memory
\* away with sbrk; so while no page table allocation has failed, copyuvm, loaduvm, clearpteu
\* and mappages never panic.
SizeMapped ==
    lost = {} =>
        /\ ~vmPanic
        /\ \A p \in VProc : Running(p, "user") =>
              \/ \A a \in 0 .. vproc[p].sz - 1 : Present(vproc[p].pgdir, a)
              \/ ~Present(vproc[p].pgdir, 0)
=============================================================================
