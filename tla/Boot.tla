-------------------------------- MODULE Boot --------------------------------
(***************************************************************************)
(* The start of the machine: main() on the boot processor, startothers()   *)
(* and the others' way through entryother.S, mpenter() and mpmain(), and   *)
(* the page allocator, which takes no lock until kinit2() says so.         *)
(*                                                                         *)
(* A step is one access to what the processors share: the word below the   *)
(* entry code that holds the next stack, the started flags, the free list  *)
(* and its lock.  Once a processor schedules, a process on it may fork.    *)
(***************************************************************************)
EXTENDS Integers, Sequences, FiniteSets

CONSTANTS
    NCPU,
    LowFrames,    \* pages below 4 MB, for kinit1
    HighFrames    \* the other pages, for kinit2; numbered behind the low ones

ASSUME FramesAssumption == NCPU \in Nat \ {0} /\ LowFrames \in Nat /\ LowFrames >= NCPU
                            /\ HighFrames \in Nat /\ HighFrames >= 2

VARIABLES
    bcpu,         \* per processor: pc, r of kalloc, pages to allocate, where to return, stack
    codeStack,    \* the word at code-4
    startedCpu,   \* processors whose started flag is set
    klist,        \* kmem.freelist
    use_lock, kmemLock,
    inUse,        \* pages that kalloc has returned
    kpgdirSet,
    ready         \* RUNNABLE processes

bootVars == <<bcpu, codeStack, startedCpu, klist, use_lock, kmemLock, inUse, kpgdirSet, ready>>

CPU   == 1 .. NCPU
BootCPU == 1
Low   == 1 .. LowFrames
High  == LowFrames + 1 .. LowFrames + HighFrames
NoPage == 0
NoCPU  == 0

BootInit ==
    /\ bcpu = [c \in CPU |-> [pc |-> IF c = BootCPU THEN "kinit1" ELSE "off",
                              r |-> NoPage, left |-> 0, return |-> "", stack |-> NoPage, next |-> 2]]
    /\ codeStack = NoPage /\ startedCpu = {}
    /\ klist = <<>> /\ use_lock = FALSE /\ kmemLock = NoCPU
    /\ inUse = {} /\ kpgdirSet = FALSE /\ ready = 0

Goes(c, pc) == bcpu' = [bcpu EXCEPT ![c].pc = pc]
CallKalloc(c, n, return) ==
    bcpu' = [bcpu EXCEPT ![c].pc = "kalloc", ![c].left = n, ![c].return = return]

-----------------------------------------------------------------------------
(* kalloc() *)

KallocLock(c) ==
    /\ bcpu[c].pc = "kalloc"
    /\ use_lock => kmemLock = NoCPU
    /\ kmemLock' = IF use_lock THEN c ELSE kmemLock
    /\ Goes(c, "kread")
    /\ UNCHANGED <<codeStack, startedCpu, klist, use_lock, inUse, kpgdirSet, ready>>

KallocRead(c) ==
    /\ bcpu[c].pc = "kread"
    /\ bcpu' = [bcpu EXCEPT ![c].pc = "kwrite", ![c].r = IF klist = <<>> THEN NoPage ELSE Head(klist)]
    /\ UNCHANGED <<codeStack, startedCpu, klist, use_lock, kmemLock, inUse, kpgdirSet, ready>>

\* r->next: the list behind r (when another processor has taken r, which BootSound excludes,
\* it has left the list there)
Behind(r) == LET at == {k \in DOMAIN klist : klist[k] = r}
             IN  IF at = {} THEN klist ELSE SubSeq(klist, (CHOOSE k \in at : TRUE) + 1, Len(klist))

\* kmem.freelist = r->next
KallocWrite(c) ==
    LET r == bcpu[c].r
    IN  /\ bcpu[c].pc = "kwrite"
        /\ klist' = IF r # NoPage THEN Behind(r) ELSE klist
        /\ inUse' = inUse \union ({r} \ {NoPage})
        /\ Goes(c, "kunlock")
        /\ UNCHANGED <<codeStack, startedCpu, use_lock, kmemLock, kpgdirSet, ready>>

\* use_lock is read again; the caller goes on, or asks for its next page
KallocUnlock(c) ==
    /\ bcpu[c].pc = "kunlock"
    /\ kmemLock' = IF use_lock THEN NoCPU ELSE kmemLock
    /\ bcpu' = [bcpu EXCEPT ![c].left = @ - 1, ![c].pc = IF bcpu[c].left > 1 THEN "kalloc" ELSE bcpu[c].return]
    /\ UNCHANGED <<codeStack, startedCpu, klist, use_lock, inUse, kpgdirSet, ready>>

Kalloc(c) == KallocLock(c) \/ KallocRead(c) \/ KallocWrite(c) \/ KallocUnlock(c)

-----------------------------------------------------------------------------
(* main() *)

\* kinit1, alone on the machine; one page stands for the directory and the tables of kvmalloc
Kinit1 ==
    /\ bcpu[BootCPU].pc = "kinit1"
    /\ klist' = [k \in Low |-> LowFrames + 1 - k]
    /\ use_lock' = FALSE
    /\ CallKalloc(BootCPU, 1, "kvm")
    /\ UNCHANGED <<codeStack, startedCpu, kmemLock, inUse, kpgdirSet, ready>>

Kvmalloc ==
    /\ bcpu[BootCPU].pc = "kvm"
    /\ kpgdirSet' = TRUE
    /\ Goes(BootCPU, "others")
    /\ UNCHANGED <<codeStack, startedCpu, klist, use_lock, kmemLock, inUse, ready>>

\* a round of startothers' loop: the stack, the word for entryother.S, the STARTUP, and the
\* wait for cpu->started
StartStack ==
    /\ bcpu[BootCPU].pc = "others"
    /\ IF bcpu[BootCPU].next \in CPU THEN CallKalloc(BootCPU, 1, "ap") ELSE Goes(BootCPU, "kinit2")
    /\ UNCHANGED <<codeStack, startedCpu, klist, use_lock, kmemLock, inUse, kpgdirSet, ready>>

StartAp ==
    LET c == bcpu[BootCPU].next
    IN  /\ bcpu[BootCPU].pc = "ap"
        /\ codeStack' = bcpu[BootCPU].r
        /\ bcpu' = [bcpu EXCEPT ![c].pc = "entry", ![BootCPU].pc = "wait"]
        /\ UNCHANGED <<startedCpu, klist, use_lock, kmemLock, inUse, kpgdirSet, ready>>

\* mutant: does not wait for cpu->started
IsUpAlways(c) == c \in CPU
IsUp(c) == c \in startedCpu
WaitAp ==
    /\ bcpu[BootCPU].pc = "wait" /\ IsUp(bcpu[BootCPU].next)
    /\ bcpu' = [bcpu EXCEPT ![BootCPU].pc = "others", ![BootCPU].next = @ + 1]
    /\ UNCHANGED <<codeStack, startedCpu, klist, use_lock, kmemLock, inUse, kpgdirSet, ready>>

\* the pages that kinit2 has still to free
Fresh == High \ ({klist[k] : k \in DOMAIN klist} \union inUse)

\* kfree of each page reads the list and then writes it, without the lock
KfreeRead ==
    /\ bcpu[BootCPU].pc = "kinit2" /\ Fresh # {}
    /\ Goes(BootCPU, "kfree")
    /\ UNCHANGED <<codeStack, startedCpu, klist, use_lock, kmemLock, inUse, kpgdirSet, ready>>

KfreeWrite ==
    /\ bcpu[BootCPU].pc = "kfree"
    /\ klist' = <<CHOOSE f \in Fresh : \A g \in Fresh : f <= g>> \o klist
    /\ Goes(BootCPU, "kinit2")
    /\ UNCHANGED <<codeStack, startedCpu, use_lock, kmemLock, inUse, kpgdirSet, ready>>

\* the end of kinit2, and userinit's calls: a page for the kernel stack and one for the memory of init
UseLock ==
    /\ bcpu[BootCPU].pc = "kinit2" /\ Fresh = {}
    /\ use_lock' = TRUE
    /\ CallKalloc(BootCPU, 2, "userinit")
    /\ UNCHANGED <<codeStack, startedCpu, klist, kmemLock, inUse, kpgdirSet, ready>>

Kinit2 == KfreeRead \/ KfreeWrite \/ UseLock

Userinit ==
    /\ bcpu[BootCPU].pc = "userinit"
    /\ ready' = 1
    /\ Goes(BootCPU, "mpmain")
    /\ UNCHANGED <<codeStack, startedCpu, klist, use_lock, kmemLock, inUse, kpgdirSet>>

\* entryother.S takes the stack
EntryOther(c) ==
    /\ bcpu[c].pc = "entry"
    /\ bcpu' = [bcpu EXCEPT ![c].pc = "mpenter", ![c].stack = codeStack]
    /\ UNCHANGED <<codeStack, startedCpu, klist, use_lock, kmemLock, inUse, kpgdirSet, ready>>

Mpenter(c) ==
    /\ bcpu[c].pc = "mpenter"
    /\ Goes(c, "mpmain")
    /\ UNCHANGED <<codeStack, startedCpu, klist, use_lock, kmemLock, inUse, kpgdirSet, ready>>

Mpmain(c) ==
    /\ bcpu[c].pc = "mpmain"
    /\ startedCpu' = startedCpu \union {c}
    /\ Goes(c, "sched")
    /\ UNCHANGED <<codeStack, klist, use_lock, kmemLock, inUse, kpgdirSet, ready>>

\* scheduler() runs a process, which forks: a page for the child's kernel stack, or failure
Schedule(c) ==
    /\ bcpu[c].pc = "sched" /\ ready > 0
    /\ ready' = ready - 1
    /\ CallKalloc(c, 1, "forked")
    /\ UNCHANGED <<codeStack, startedCpu, klist, use_lock, kmemLock, inUse, kpgdirSet>>

Forked(c) ==
    /\ bcpu[c].pc = "forked"
    /\ ready' = ready + (IF bcpu[c].r = NoPage THEN 1 ELSE 2)
    /\ Goes(c, "sched")
    /\ UNCHANGED <<codeStack, startedCpu, klist, use_lock, kmemLock, inUse, kpgdirSet>>

BootNext ==
    \/ Kinit1 \/ Kvmalloc \/ StartStack \/ StartAp \/ WaitAp \/ Kinit2 \/ Userinit
    \/ \E c \in CPU : Kalloc(c) \/ EntryOther(c) \/ Mpenter(c) \/ Mpmain(c) \/ Schedule(c) \/ Forked(c)
BootSpec == BootInit /\ [][BootNext]_bootVars

-----------------------------------------------------------------------------
(* Properties *)

\* between reading kmem.freelist and writing it
OnList(c) == bcpu[c].pc \in {"kwrite", "kfree"}
UpAndRunning(c) == bcpu[c].pc \notin {"off", "entry"}

\* Starting the processors one at a time keeps them apart: each runs on a stack of its own,
\* taken from the allocator once, and with kpgdir in place; and although the allocator takes
\* no lock at first and looks at use_lock twice, no two processors are ever inside it, no page
\* is handed out twice, and the lock is released by its holder ("must come after
\* startothers()", main.c:38).
BootSound ==
    /\ \A c \in CPU \ {BootCPU} : UpAndRunning(c) => bcpu[c].stack \in inUse /\ kpgdirSet
    /\ \A c, d \in CPU \ {BootCPU} : UpAndRunning(c) /\ UpAndRunning(d) /\ bcpu[c].stack = bcpu[d].stack => c = d
    /\ \A c, d \in CPU : OnList(c) /\ OnList(d) => c = d
    /\ \A c \in CPU : bcpu[c].pc = "kwrite" => bcpu[c].r \notin inUse
    /\ \A c \in CPU : use_lock /\ bcpu[c].pc \in {"kread", "kwrite", "kunlock"} => kmemLock = c
    /\ \A k \in DOMAIN klist : klist[k] \notin inUse
=============================================================================
