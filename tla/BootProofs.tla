----------------------------- MODULE BootProofs -----------------------------
(***************************************************************************)
(* Proofs about module Boot, for any number of processors and of pages:    *)
(* the processors start one by one on stacks of their own, and the page    *)
(* allocator is safe before and after it has its lock.                     *)
(***************************************************************************)
EXTENDS Boot, SequenceTheorems, WellFoundedInduction, TLAPS

Page == 1 .. LowFrames + HighFrames

\* Where a processor is inside kalloc, and from where on it keeps others out.
KallocPc  == {"kalloc", "kread", "kwrite", "kunlock"}
LockedPc  == {"kread", "kwrite", "kunlock"}
\* The boot processor on its own, and the others until a process runs on them.
AlonePc   == {"kinit1", "kvm", "others", "ap", "wait", "kinit2", "kfree"}
ApPc      == {"off", "entry", "mpenter", "mpmain", "sched"}
LatePc    == {"mpmain", "sched", "forked"}

CpuRec == [pc : KallocPc \union AlonePc \union ApPc \union {"userinit", "forked"},
           r : Page \union {NoPage}, left : Nat, return : {"", "kvm", "ap", "userinit", "forked"},
           stack : Page \union {NoPage}, next : Nat]

\* The types; a page is on the free list once, or in use.
BootTyped ==
    /\ bcpu \in [CPU -> CpuRec]
    /\ bcpu[BootCPU].next \in 2 .. NCPU + 1
    /\ \A c \in CPU : bcpu[c].pc \in KallocPc => bcpu[c].left > 0
    /\ codeStack \in Page \union {NoPage}
    /\ startedCpu \subseteq CPU
    /\ use_lock \in BOOLEAN /\ kpgdirSet \in BOOLEAN
    /\ ready \in Nat
    /\ inUse \subseteq Page
    /\ klist \in Seq(Page)
    /\ \A k, l \in 1 .. Len(klist) : klist[k] = klist[l] => k = l
    /\ \A k \in 1 .. Len(klist) : klist[k] \notin inUse

\* The boot processor is alone until kinit2 sets use_lock: the others run no process.
Alone ==
    LET b == bcpu[BootCPU]
    IN  /\ ~use_lock => /\ b.pc \in AlonePc \/ (b.pc \in KallocPc /\ b.return \in {"kvm", "ap"} /\ b.left = 1)
                        /\ \A c \in CPU \ {BootCPU} : bcpu[c].pc \in ApPc
                        /\ ready = 0
        /\ use_lock => b.pc \in LatePc \union {"userinit"}
                          \/ (b.pc \in KallocPc /\ b.return \in {"userinit", "forked"})
        /\ \A c \in CPU \ {BootCPU} : bcpu[c].pc \in ApPc \union {"forked"}
                                         \/ (bcpu[c].pc \in KallocPc /\ bcpu[c].return = "forked")

\* With use_lock set, kmem.lock belongs to the one processor inside kalloc; the page it has
\* read is the head of the list.
Inside ==
    /\ \A c \in CPU : use_lock /\ bcpu[c].pc \in LockedPc => kmemLock = c
    /\ \A c \in CPU : bcpu[c].pc = "kwrite" =>
          IF klist = <<>> THEN bcpu[c].r = NoPage ELSE bcpu[c].r = klist[1]

\* Pages enough for the stacks still to come, and a page for kinit2 to free.
Enough ==
    LET b == bcpu[BootCPU]
    IN  /\ b.pc \in {"kalloc", "kread", "kwrite"} /\ b.return = "kvm" => b.next = 2 /\ Len(klist) >= NCPU
        /\ (b.pc = "kunlock" /\ b.return = "kvm") \/ b.pc \in {"kvm", "others"} => Len(klist) >= NCPU + 1 - b.next
        /\ b.pc \in {"kalloc", "kread", "kwrite"} /\ b.return = "ap" =>
              b.next \in CPU /\ Len(klist) >= NCPU + 1 - b.next
        /\ (b.pc = "kunlock" /\ b.return = "ap") \/ b.pc \in {"ap", "wait"} =>
              b.next \in CPU /\ Len(klist) >= NCPU - b.next
        /\ b.pc = "kinit1" => b.next = 2 /\ inUse = {}
        /\ b.pc = "kfree" => \E f \in High : f \notin inUse /\ \A k \in 1 .. Len(klist) : klist[k] # f

\* The processor with the stack s.
Taken(s) == \E c \in CPU \ {BootCPU} : UpAndRunning(c) /\ bcpu[c].stack = s

\* One processor starts at a time, with the stack that was allocated for it.
OneByOne ==
    LET b == bcpu[BootCPU]
    IN  /\ ~use_lock => \A c \in CPU : c >= b.next /\ (b.pc = "wait" => c > b.next) => bcpu[c].pc = "off"
        /\ \A c \in startedCpu : UpAndRunning(c)
        /\ b.pc = "kinit1" \/ b.pc = "kvm" \/ (b.pc \in KallocPc /\ b.return = "kvm") \/ kpgdirSet
        /\ (b.pc = "kunlock" /\ b.return = "ap") \/ b.pc = "ap" => b.r \in inUse /\ ~Taken(b.r)
        /\ \A c \in CPU : bcpu[c].pc = "entry" =>
              c = b.next /\ b.pc = "wait" /\ codeStack \in inUse /\ ~Taken(codeStack)
        /\ \A c \in CPU \ {BootCPU} : UpAndRunning(c) => bcpu[c].stack \in inUse /\ kpgdirSet
        /\ \A c, d \in CPU \ {BootCPU} : UpAndRunning(c) /\ UpAndRunning(d) /\ bcpu[c].stack = bcpu[d].stack => c = d

BootInv == BootTyped /\ Alone /\ Inside /\ Enough /\ OneByOne

-----------------------------------------------------------------------------
(* Facts about the operators of the model *)

\* The boot processor and its number.
LEMMA BootCpuIs == BootCPU \in CPU /\ \A c \in CPU : c \in Nat \ {0} /\ c <= NCPU
  BY FramesAssumption DEF BootCPU, CPU

\* A processor goes on to another place.
LEMMA GoesIs ==
    ASSUME BootTyped, NEW c \in CPU, NEW x, Goes(c, x),
           x \in KallocPc \union AlonePc \union ApPc \union {"userinit", "forked"}
    PROVE  /\ bcpu' \in [CPU -> CpuRec] /\ \A d \in CPU \ {c} : bcpu'[d] = bcpu[d]
           /\ bcpu'[c].pc = x /\ bcpu'[c].r = bcpu[c].r /\ bcpu'[c].left = bcpu[c].left
           /\ bcpu'[c].return = bcpu[c].return /\ bcpu'[c].stack = bcpu[c].stack
           /\ bcpu'[c].next = bcpu[c].next
  <1>1. bcpu[c] \in CpuRec
    BY Zenon DEF BootTyped
  <1>2. PICK f : f = [bcpu[c] EXCEPT !.pc = x]
    BY Zenon
  <1>3. /\ f \in CpuRec /\ f.pc = x /\ f.r = bcpu[c].r /\ f.left = bcpu[c].left
        /\ f.return = bcpu[c].return /\ f.stack = bcpu[c].stack /\ f.next = bcpu[c].next
    BY <1>1, <1>2 DEF CpuRec
  <1>4. bcpu' = [bcpu EXCEPT ![c] = f]
    BY <1>2 DEF Goes
  <1> QED
    BY <1>3, <1>4 DEF BootTyped

\* A processor calls kalloc for n pages.
LEMMA CallIs ==
    ASSUME BootTyped, NEW c \in CPU, NEW n \in Nat, NEW to \in {"kvm", "ap", "userinit", "forked"},
           CallKalloc(c, n, to)
    PROVE  /\ bcpu' \in [CPU -> CpuRec] /\ \A d \in CPU \ {c} : bcpu'[d] = bcpu[d]
           /\ bcpu'[c].pc = "kalloc" /\ bcpu'[c].r = bcpu[c].r /\ bcpu'[c].left = n
           /\ bcpu'[c].return = to /\ bcpu'[c].stack = bcpu[c].stack
           /\ bcpu'[c].next = bcpu[c].next
  <1>1. bcpu[c] \in CpuRec
    BY Zenon DEF BootTyped
  <1>2. PICK f : f = [bcpu[c] EXCEPT !.pc = "kalloc", !.left = n, !.return = to]
    BY Zenon
  <1>3. /\ f \in CpuRec /\ f.pc = "kalloc" /\ f.r = bcpu[c].r /\ f.left = n
        /\ f.return = to /\ f.stack = bcpu[c].stack /\ f.next = bcpu[c].next
    BY <1>1, <1>2 DEF CpuRec, KallocPc
  <1>4. bcpu' = [bcpu EXCEPT ![c] = f]
    BY <1>2, Zenon DEF CallKalloc
  <1> QED
    BY <1>3, <1>4 DEF BootTyped

\* What is behind the head of the list.
LEMMA BehindHead ==
    ASSUME BootTyped, klist # <<>>
    PROVE  /\ Behind(klist[1]) \in Seq(Page) /\ Len(Behind(klist[1])) = Len(klist) - 1
           /\ \A k \in 1 .. Len(klist) - 1 : Behind(klist[1])[k] = klist[k + 1]
  <1>1. klist \in Seq(Page) /\ Len(klist) \in Nat \ {0} /\ DOMAIN klist = 1 .. Len(klist) /\ 1 \in 1 .. Len(klist)
    BY DEF BootTyped
  <1>2. {k \in DOMAIN klist : klist[k] = klist[1]} = {1}
    BY <1>1, Zenon DEF BootTyped
  <1>3. (CHOOSE k \in {1} : TRUE) = 1
    BY Zenon
  <1>4. PICK t : t = SubSeq(klist, 2, Len(klist))
    BY Zenon
  <1>5. Behind(klist[1]) = t
    BY <1>2, <1>3, <1>4 DEF Behind
  <1>6. \A k \in 2 .. Len(klist) : klist[k] \in Page
    BY <1>1
  <1>7. /\ t \in Seq(Page) /\ Len(t) = IF 2 <= Len(klist) THEN Len(klist) - 2 + 1 ELSE 0
        /\ \A k \in 1 .. Len(klist) - 2 + 1 : t[k] = klist[2 + k - 1]
    BY <1>1, <1>4, <1>6, SubSeqProperties
  <1>8. Len(t) = Len(klist) - 1 /\ \A k \in 1 .. Len(klist) - 1 : t[k] = klist[k + 1]
    <2>1. Len(klist) \in Nat \ {0} /\ Len(klist) - 2 + 1 = Len(klist) - 1
      BY <1>1
    <2>2. Len(t) = Len(klist) - 1
      <3>1. Len(t) = IF 2 <= Len(klist) THEN Len(klist) - 2 + 1 ELSE 0
        BY <1>7, Zenon
      <3>2. PICK n \in Nat \ {0} : n = Len(klist)
        BY <2>1, Zenon
      <3> QED
        BY <3>1, <3>2
    <2>3. \A k \in 1 .. Len(klist) - 1 : t[k] = klist[k + 1]
      <3> TAKE k \in 1 .. Len(klist) - 1
      <3>1. k \in 1 .. Len(klist) - 2 + 1 /\ 2 + k - 1 = k + 1
        BY <2>1
      <3> QED
        BY <1>7, <3>1, Zenon
    <2> QED
      BY <2>2, <2>3, Zenon
  <1> QED
    BY <1>5, <1>7, <1>8, Zenon

\* Only one processor at a time is inside the allocator.
LEMMA OneInside ==
    ASSUME BootInv, NEW c \in CPU, NEW d \in CPU, bcpu[c].pc \in LockedPc \union {"kfree", "kinit1", "kinit2"},
           bcpu[d].pc \in LockedPc \union {"kfree", "kinit1", "kinit2"}
    PROVE  c = d
  BY DEF BootInv, Alone, Inside, LockedPc, ApPc, LatePc, AlonePc, KallocPc

\* What the start of the processors needs of a step in which no processor starts.
LEMMA StartsKept ==
    ASSUME BootInv,
           \A c \in CPU \ {BootCPU} : /\ bcpu'[c].stack = bcpu[c].stack
                                      /\ \/ bcpu'[c].pc = bcpu[c].pc
                                         \/ bcpu[c].pc \notin {"off", "entry"} /\ bcpu'[c].pc \notin {"off", "entry"},
           \A c \in startedCpu' : c \in startedCpu \/ (c \in CPU /\ bcpu'[c].pc \notin {"off", "entry"}),
           UNCHANGED codeStack, inUse \subseteq inUse', kpgdirSet => kpgdirSet',
           bcpu'[BootCPU].next = bcpu[BootCPU].next, ~use_lock' => ~use_lock,
           bcpu'[BootCPU].pc \notin {"off", "entry"},
           bcpu'[BootCPU].pc = "wait" <=> bcpu[BootCPU].pc = "wait",
           \/ bcpu'[BootCPU].pc \in {"kinit1", "kvm"} \/ kpgdirSet'
           \/ bcpu'[BootCPU].pc \in KallocPc /\ bcpu'[BootCPU].return = "kvm",
           (bcpu'[BootCPU].pc = "kunlock" /\ bcpu'[BootCPU].return = "ap") \/ bcpu'[BootCPU].pc = "ap" =>
               bcpu'[BootCPU].r \in inUse' /\ ~Taken(bcpu'[BootCPU].r)
    PROVE  OneByOne'
  <1>1. \A c \in CPU \ {BootCPU} : UpAndRunning(c)' <=> UpAndRunning(c)
    BY Zenon DEF UpAndRunning
  <1>2. \A s : ~Taken(s) => \A c \in CPU \ {BootCPU} : UpAndRunning(c)' => bcpu'[c].stack # s
    BY <1>1, Zenon DEF Taken
  <1>3. bcpu[BootCPU].next \in Nat /\ bcpu[BootCPU].next >= 2 /\ BootCPU = 1
    BY FramesAssumption DEF BootInv, BootTyped, BootCPU
  <1>4. ~use_lock' => \A c \in CPU : /\ c >= bcpu'[BootCPU].next
                                     /\ bcpu'[BootCPU].pc = "wait" => c > bcpu'[BootCPU].next
                                     => bcpu'[c].pc = "off"
    BY <1>3 DEF BootInv, OneByOne
  <1>5. \A c \in startedCpu' : UpAndRunning(c)'
    BY <1>1, Zenon DEF BootInv, BootTyped, OneByOne, UpAndRunning
  <1>6. \A c \in CPU : bcpu'[c].pc = "entry" =>
           /\ c = bcpu'[BootCPU].next /\ bcpu'[BootCPU].pc = "wait"
           /\ codeStack' \in inUse' /\ ~Taken(codeStack')
    BY Zenon DEF BootInv, OneByOne
  <1>7. \A c \in CPU \ {BootCPU} : UpAndRunning(c)' => bcpu'[c].stack \in inUse' /\ kpgdirSet'
    BY <1>1, Zenon DEF BootInv, OneByOne
  <1>8. \A c, d \in CPU \ {BootCPU} : UpAndRunning(c)' /\ UpAndRunning(d)' /\ bcpu'[c].stack = bcpu'[d].stack => c = d
    BY <1>1, Zenon DEF BootInv, OneByOne
  <1>9. /\ \A c \in CPU : bcpu'[c].pc = "entry" => ~Taken(codeStack)'
        /\ (bcpu'[BootCPU].pc = "kunlock" /\ bcpu'[BootCPU].return = "ap") \/ bcpu'[BootCPU].pc = "ap" =>
               ~Taken(bcpu[BootCPU].r)'
    BY <1>2, <1>6, Zenon DEF Taken
  <1> QED
    BY <1>4, <1>5, <1>6, <1>7, <1>8, <1>9, Zenon DEF OneByOne

\* When the machine starts only the boot processor runs.
LEMMA BootInitInv == BootInit => BootInv
  <1> SUFFICES ASSUME BootInit PROVE BootInv
    BY Zenon
  <1> USE FramesAssumption
  <1>1. \A c \in CPU : /\ bcpu[c] \in CpuRec /\ bcpu[c].next = 2
                       /\ bcpu[c].pc = IF c = BootCPU THEN "kinit1" ELSE "off"
    BY Zenon DEF BootInit, CpuRec, KallocPc, AlonePc, ApPc
  <1>2. BootCPU \in CPU
    BY BootCpuIs, Zenon
  <1>3. BootTyped
    <2>1. klist \in Seq(Page) /\ 1 .. Len(klist) = {}
      <3>1. <<>> \in Seq(Page) /\ Len(<<>>) = 0
        BY EmptySeq, Zenon
      <3>2. klist = <<>>
        BY Zenon DEF BootInit
      <3>3. 1 .. 0 = {}
        <4>1. \A k : k \notin 1 .. 0
          OBVIOUS
        <4> QED
          BY <4>1, Zenon
      <3> QED
        BY <3>1, <3>2, <3>3, Zenon
    <2>2. bcpu \in [CPU -> CpuRec] /\ bcpu[BootCPU].next \in 2 .. NCPU + 1
      <3>1. bcpu = [c \in CPU |-> bcpu[c]]
        BY Zenon DEF BootInit
      <3> QED
        BY <1>1, <1>2, <3>1
    <2>3. /\ codeStack \in Page \union {NoPage} /\ startedCpu \subseteq CPU /\ inUse \subseteq Page
          /\ use_lock \in BOOLEAN /\ kpgdirSet \in BOOLEAN /\ ready \in Nat
      BY Zenon DEF BootInit
    <2>4. \A c \in CPU : bcpu[c].pc \notin KallocPc
      BY <1>1, Zenon DEF KallocPc
    <2> QED
      BY <2>1, <2>2, <2>3, <2>4, Zenon DEF BootTyped
  <1>4. Alone /\ Inside /\ Enough
    BY <1>1, <1>2, Zenon DEF BootInit, Alone, Inside, Enough, AlonePc, ApPc, KallocPc, LockedPc
  <1>5. OneByOne
    <2>1. \A c \in CPU : bcpu[c].pc # "entry" /\ (c >= 2 => bcpu[c].pc = "off")
      BY <1>1 DEF BootCPU
    <2>2. \A c \in CPU \ {BootCPU} : ~UpAndRunning(c)
      BY <1>1, Zenon DEF UpAndRunning
    <2> QED
      BY <1>1, <1>2, <2>1, <2>2, Zenon DEF BootInit, OneByOne
  <1> QED
    BY <1>3, <1>4, <1>5, Zenon DEF BootInv

-----------------------------------------------------------------------------
(* The steps of kalloc *)

\* kalloc takes kmem.lock, once there is one to take.
LEMMA KallocLockStep ==
    ASSUME BootInv, NEW c \in CPU, KallocLock(c)
    PROVE  BootInv'
  <1> USE BootCpuIs
  <1>t. BootTyped
    BY Zenon DEF BootInv
  <1>1. /\ bcpu' \in [CPU -> CpuRec] /\ \A d \in CPU \ {c} : bcpu'[d] = bcpu[d]
        /\ bcpu'[c].pc = "kread" /\ bcpu'[c].r = bcpu[c].r /\ bcpu'[c].left = bcpu[c].left
        /\ bcpu'[c].return = bcpu[c].return /\ bcpu'[c].stack = bcpu[c].stack
        /\ bcpu'[c].next = bcpu[c].next
    BY <1>t, GoesIs, Zenon DEF KallocLock, KallocPc
  <1>2. /\ bcpu[c].pc = "kalloc" /\ (use_lock => kmemLock = NoCPU /\ kmemLock' = c)
        /\ UNCHANGED <<codeStack, startedCpu, klist, use_lock, inUse, kpgdirSet, ready>>
    BY Zenon DEF KallocLock
  <1>3. BootTyped'
    <2>1. bcpu'[BootCPU].next \in 2 .. NCPU + 1
      BY <1>t, <1>1, Zenon DEF BootTyped
    <2>2. \A d \in CPU : bcpu'[d].pc \in KallocPc => bcpu'[d].left > 0
      BY <1>t, <1>1, <1>2, Zenon DEF BootTyped, KallocPc
    <2> QED
      BY <1>t, <1>1, <1>2, <2>1, <2>2, Zenon DEF BootTyped
  <1>4. Alone'
    BY <1>1, <1>2 DEF BootInv, Alone, KallocPc, AlonePc, ApPc, LatePc
  <1>5. Inside'
    <2>1. NoCPU \notin CPU
      BY Zenon DEF NoCPU
    <2> QED
      BY <1>1, <1>2, <2>1 DEF BootInv, Inside, LockedPc
  <1>6. Enough'
    BY <1>1, <1>2 DEF BootInv, Enough
  <1>7. OneByOne'
    <2>1. /\ bcpu'[BootCPU].next = bcpu[BootCPU].next /\ bcpu'[BootCPU].return = bcpu[BootCPU].return
          /\ bcpu'[BootCPU].r = bcpu[BootCPU].r
          /\ \/ bcpu'[BootCPU].pc = bcpu[BootCPU].pc
             \/ bcpu[BootCPU].pc = "kalloc" /\ bcpu'[BootCPU].pc = "kread"
      BY <1>1, <1>2, Zenon
    <2>2. bcpu'[BootCPU].pc \notin {"off", "entry"}
      BY <1>4, Zenon DEF Alone, KallocPc, AlonePc, LatePc
    <2>3. \/ bcpu'[BootCPU].pc \in {"kinit1", "kvm"} \/ kpgdirSet'
          \/ bcpu'[BootCPU].pc \in KallocPc /\ bcpu'[BootCPU].return = "kvm"
      BY <1>2, <2>1, Zenon DEF BootInv, OneByOne, KallocPc
    <2>4. (bcpu'[BootCPU].pc = "kunlock" /\ bcpu'[BootCPU].return = "ap") \/ bcpu'[BootCPU].pc = "ap" =>
               bcpu'[BootCPU].r \in inUse' /\ ~Taken(bcpu'[BootCPU].r)
      BY <1>2, <2>1, Zenon DEF BootInv, OneByOne
    <2> QED
      BY <1>1, <1>2, <2>1, <2>2, <2>3, <2>4, StartsKept, Zenon
  <1> QED
    BY <1>3, <1>4, <1>5, <1>6, <1>7, Zenon DEF BootInv

\* kalloc reads the head of the list.
LEMMA KallocReadStep ==
    ASSUME BootInv, NEW c \in CPU, KallocRead(c)
    PROVE  BootInv'
  <1> USE BootCpuIs
  <1>t. BootTyped
    BY Zenon DEF BootInv
  <1>0. PICK r \in Page \union {NoPage} : r = (IF klist = <<>> THEN NoPage ELSE klist[1])
    BY <1>t DEF BootTyped
  <1>1. /\ bcpu' \in [CPU -> CpuRec] /\ \A d \in CPU \ {c} : bcpu'[d] = bcpu[d]
        /\ bcpu'[c].pc = "kwrite" /\ bcpu'[c].r = r /\ bcpu'[c].left = bcpu[c].left
        /\ bcpu'[c].return = bcpu[c].return /\ bcpu'[c].stack = bcpu[c].stack
        /\ bcpu'[c].next = bcpu[c].next
    <2>1. bcpu[c] \in CpuRec
      BY <1>t, Zenon DEF BootTyped
    <2>2. PICK f : f = [bcpu[c] EXCEPT !.pc = "kwrite", !.r = r]
      BY Zenon
    <2>3. /\ f \in CpuRec /\ f.pc = "kwrite" /\ f.r = r /\ f.left = bcpu[c].left
          /\ f.return = bcpu[c].return /\ f.stack = bcpu[c].stack /\ f.next = bcpu[c].next
      BY <2>1, <2>2, Zenon DEF CpuRec, KallocPc
    <2>4. r = IF klist = <<>> THEN NoPage ELSE Head(klist)
      BY <1>t, <1>0 DEF BootTyped
    <2>5. bcpu' = [bcpu EXCEPT ![c] = f]
      BY <2>2, <2>4, Zenon DEF KallocRead
    <2> QED
      BY <1>t, <2>3, <2>5, Zenon DEF BootTyped
  <1>2. /\ bcpu[c].pc = "kread"
        /\ UNCHANGED <<codeStack, startedCpu, klist, use_lock, kmemLock, inUse, kpgdirSet, ready>>
    BY Zenon DEF KallocRead
  <1>3. BootTyped'
    <2>1. bcpu'[BootCPU].next \in 2 .. NCPU + 1
      BY <1>t, <1>1, Zenon DEF BootTyped
    <2>2. \A d \in CPU : bcpu'[d].pc \in KallocPc => bcpu'[d].left > 0
      BY <1>t, <1>1, <1>2, Zenon DEF BootTyped, KallocPc
    <2> QED
      BY <1>t, <1>1, <1>2, <2>1, <2>2, Zenon DEF BootTyped
  <1>4. Alone'
    BY <1>1, <1>2 DEF BootInv, Alone, KallocPc, AlonePc, ApPc, LatePc
  <1>5. Inside'
    <2>1. \A d \in CPU : use_lock' /\ bcpu'[d].pc \in LockedPc => kmemLock' = d
      BY <1>1, <1>2, Zenon DEF BootInv, Inside, LockedPc
    <2>2. \A d \in CPU : bcpu'[d].pc = "kwrite" => IF klist' = <<>> THEN bcpu'[d].r = NoPage ELSE bcpu'[d].r = klist'[1]
      BY <1>0, <1>1, <1>2 DEF BootInv, Inside
    <2> QED
      BY <2>1, <2>2, Zenon DEF Inside
  <1>6. Enough'
    BY <1>1, <1>2 DEF BootInv, Enough
  <1>7. OneByOne'
    <2>1. /\ bcpu'[BootCPU].next = bcpu[BootCPU].next /\ bcpu'[BootCPU].return = bcpu[BootCPU].return
          /\ \/ bcpu'[BootCPU] = bcpu[BootCPU]
             \/ bcpu[BootCPU].pc = "kread" /\ bcpu'[BootCPU].pc = "kwrite"
      BY <1>1, <1>2
    <2>2. bcpu'[BootCPU].pc \notin {"off", "entry"}
      BY <1>4, Zenon DEF Alone, KallocPc, AlonePc, LatePc
    <2>3. \/ bcpu'[BootCPU].pc \in {"kinit1", "kvm"} \/ kpgdirSet'
          \/ bcpu'[BootCPU].pc \in KallocPc /\ bcpu'[BootCPU].return = "kvm"
      BY <1>2, <2>1 DEF BootInv, OneByOne, KallocPc
    <2>4. (bcpu'[BootCPU].pc = "kunlock" /\ bcpu'[BootCPU].return = "ap") \/ bcpu'[BootCPU].pc = "ap" =>
               bcpu'[BootCPU].r \in inUse' /\ ~Taken(bcpu'[BootCPU].r)
      BY <1>2, <2>1 DEF BootInv, OneByOne
    <2> QED
      BY <1>1, <1>2, <2>1, <2>2, <2>3, <2>4, StartsKept, Zenon
  <1> QED
    BY <1>3, <1>4, <1>5, <1>6, <1>7, Zenon DEF BootInv

\* kalloc takes the page it has read off the list.
LEMMA KallocWriteStep ==
    ASSUME BootInv, NEW c \in CPU, KallocWrite(c)
    PROVE  BootInv'
  <1> USE BootCpuIs
  <1>t. BootTyped
    BY Zenon DEF BootInv
  <1>1. /\ bcpu' \in [CPU -> CpuRec] /\ \A d \in CPU \ {c} : bcpu'[d] = bcpu[d]
        /\ bcpu'[c].pc = "kunlock" /\ bcpu'[c].r = bcpu[c].r /\ bcpu'[c].left = bcpu[c].left
        /\ bcpu'[c].return = bcpu[c].return /\ bcpu'[c].stack = bcpu[c].stack
        /\ bcpu'[c].next = bcpu[c].next
    BY <1>t, GoesIs, Zenon DEF KallocWrite, KallocPc
  <1>2. /\ bcpu[c].pc = "kwrite"
        /\ UNCHANGED <<codeStack, startedCpu, use_lock, kmemLock, kpgdirSet, ready>>
    BY Zenon DEF KallocWrite
  <1>3. PICK r \in Page \union {NoPage} : r = bcpu[c].r /\ r = (IF klist = <<>> THEN NoPage ELSE klist[1])
    BY <1>t, <1>2 DEF BootInv, Inside, BootTyped, CpuRec
  <1>4. NoPage \notin Page
    BY DEF NoPage, Page
  <1>5. klist = <<>> => klist' = klist /\ inUse' = inUse
    BY <1>3, Zenon DEF KallocWrite
  <1>6. klist # <<>> =>
           /\ r \in Page /\ r \notin inUse /\ inUse' = inUse \union {r}
           /\ klist' \in Seq(Page) /\ Len(klist) \in Nat \ {0} /\ Len(klist') = Len(klist) - 1
           /\ \A k \in 1 .. Len(klist) - 1 : klist'[k] = klist[k + 1]
    <2>1. SUFFICES ASSUME klist # <<>>
                   PROVE  /\ r \in Page /\ r \notin inUse /\ inUse' = inUse \union {r}
                          /\ klist' \in Seq(Page) /\ Len(klist) \in Nat \ {0} /\ Len(klist') = Len(klist) - 1
                          /\ \A k \in 1 .. Len(klist) - 1 : klist'[k] = klist[k + 1]
      OBVIOUS
    <2>2. Len(klist) \in Nat \ {0} /\ 1 \in 1 .. Len(klist)
      BY <1>t, <2>1 DEF BootTyped
    <2>3. r \in Page /\ r \notin inUse
      BY <1>t, <1>3, <2>1, <2>2 DEF BootTyped
    <2>4. klist' = Behind(klist[1]) /\ inUse' = inUse \union {r}
      BY <1>3, <1>4, <2>1, <2>3 DEF KallocWrite
    <2> QED
      BY <1>t, <2>1, <2>2, <2>3, <2>4, BehindHead
  <1>7. inUse \subseteq inUse'
    BY <1>5, <1>6
  <1>8. BootTyped'
    <2>0. \A d \in CPU : bcpu'[d].pc \in KallocPc => bcpu'[d].left > 0
      BY <1>t, <1>1, <1>2 DEF BootTyped, KallocPc
    <2>1. CASE klist = <<>>
      BY <1>t, <1>1, <1>2, <1>5, <2>0, <2>1 DEF BootTyped
    <2>2. CASE klist # <<>>
      <3>1. PICK n \in Nat \ {0} : n = Len(klist) /\ n - 1 = Len(klist')
        BY <1>6, <2>2, Zenon
      <3>2. \A k \in 1 .. n - 1 : k + 1 \in 1 .. n /\ k + 1 # 1 /\ klist'[k] = klist[k + 1]
        BY <1>6, <2>2, <3>1
      <3>3. \A k, l \in 1 .. n - 1 : klist'[k] = klist'[l] => k = l
        <4>1. \A k, l \in 1 .. n - 1 : klist'[k] = klist'[l] => k + 1 = l + 1
          BY <1>t, <3>1, <3>2 DEF BootTyped
        <4> QED
          BY <4>1
      <3>4. \A k \in 1 .. n - 1 : klist'[k] \notin inUse'
        <4>1. 1 \in 1 .. n
          OBVIOUS
        <4>2. \A k \in 1 .. n - 1 : klist[k + 1] # klist[1] /\ klist[k + 1] \notin inUse
          BY <1>t, <3>1, <3>2, <4>1, Zenon DEF BootTyped
        <4> QED
          BY <1>3, <1>6, <2>2, <3>2, <4>2
      <3>5. inUse' \subseteq Page /\ klist' \in Seq(Page)
        BY <1>t, <1>6, <2>2, Zenon DEF BootTyped
      <3>6. bcpu'[BootCPU].next = bcpu[BootCPU].next
        BY <1>1, Zenon
      <3> QED
        BY <1>t, <1>1, <1>2, <2>0, <3>1, <3>3, <3>4, <3>5, <3>6, Zenon DEF BootTyped
    <2> QED
      BY <2>1, <2>2
  <1>9. Alone'
    BY <1>1, <1>2 DEF BootInv, Alone, KallocPc, AlonePc, ApPc, LatePc
  <1>10. Inside'
    <2>1. \A d \in CPU : use_lock' /\ bcpu'[d].pc \in LockedPc => kmemLock' = d
      BY <1>1, <1>2, Zenon DEF BootInv, Inside, LockedPc
    <2>2. \A d \in CPU : bcpu[d].pc = "kwrite" => d = c
      BY <1>2, OneInside, Zenon DEF LockedPc
    <2>3. \A d \in CPU : bcpu'[d].pc # "kwrite"
      BY <1>1, <2>2, Zenon
    <2> QED
      BY <2>1, <2>3, Zenon DEF Inside
  <1>11. Enough'
    <2>1. CASE c # BootCPU
      <3>1. use_lock
        BY <1>2, <2>1, Zenon DEF BootInv, Alone, ApPc
      <3>2. bcpu'[BootCPU] = bcpu[BootCPU]
        BY <1>1, <2>1, Zenon
      <3>3. /\ bcpu[BootCPU].pc \notin {"kvm", "others", "ap", "wait", "kinit1", "kfree"}
            /\ ~(bcpu[BootCPU].pc \in KallocPc /\ bcpu[BootCPU].return \in {"kvm", "ap"})
        BY <3>1, Zenon DEF BootInv, Alone, KallocPc, LatePc
      <3> QED
        BY <3>2, <3>3, Zenon DEF Enough, KallocPc
    <2>2. CASE c = BootCPU
      <3>1. /\ bcpu[BootCPU].return = "kvm" => bcpu[BootCPU].next = 2 /\ Len(klist) >= NCPU
            /\ bcpu[BootCPU].return = "ap" => bcpu[BootCPU].next \in CPU /\ Len(klist) >= NCPU + 1 - bcpu[BootCPU].next
        BY <1>2, <2>2, Zenon DEF BootInv, Enough
      <3>2. Len(klist) \in Nat /\ bcpu[BootCPU].next \in Nat /\ NCPU \in Nat \ {0}
        BY <1>t, FramesAssumption DEF BootTyped
      <3>3. bcpu[BootCPU].return \in {"kvm", "ap"} => Len(klist') = Len(klist) - 1
        <4>1. bcpu[BootCPU].return \in {"kvm", "ap"} => Len(klist) >= 1
          BY <3>1, <3>2
        <4>2. Len(klist) >= 1 => klist # <<>>
          OBVIOUS
        <4> QED
          BY <1>6, <4>1, <4>2, Zenon
      <3>4. /\ bcpu[BootCPU].return = "kvm" => Len(klist') >= NCPU + 1 - bcpu[BootCPU].next
            /\ bcpu[BootCPU].return = "ap" => Len(klist') >= NCPU - bcpu[BootCPU].next
        BY <3>1, <3>2, <3>3
      <3> QED
        BY <1>1, <2>2, <3>1, <3>4 DEF Enough
    <2> QED
      BY <2>1, <2>2, Zenon
  <1>12. OneByOne'
    <2>1. /\ bcpu'[BootCPU].next = bcpu[BootCPU].next /\ bcpu'[BootCPU].return = bcpu[BootCPU].return
          /\ bcpu'[BootCPU].r = bcpu[BootCPU].r
          /\ \/ bcpu'[BootCPU] = bcpu[BootCPU] /\ c # BootCPU
             \/ bcpu[BootCPU].pc = "kwrite" /\ bcpu'[BootCPU].pc = "kunlock" /\ c = BootCPU
      BY <1>1, <1>2, Zenon
    <2>2. bcpu'[BootCPU].pc \notin {"off", "entry"}
      BY <1>9, Zenon DEF Alone, KallocPc, AlonePc, LatePc
    <2>3. \/ bcpu'[BootCPU].pc \in {"kinit1", "kvm"} \/ kpgdirSet'
          \/ bcpu'[BootCPU].pc \in KallocPc /\ bcpu'[BootCPU].return = "kvm"
      BY <1>2, <2>1, Zenon DEF BootInv, OneByOne, KallocPc
    <2>4. (bcpu'[BootCPU].pc = "kunlock" /\ bcpu'[BootCPU].return = "ap") \/ bcpu'[BootCPU].pc = "ap" =>
               bcpu'[BootCPU].r \in inUse' /\ ~Taken(bcpu'[BootCPU].r)
      <3>1. CASE c # BootCPU
        BY <1>7, <2>1, <3>1, Zenon DEF BootInv, OneByOne
      <3>2. CASE c = BootCPU
        <4>1. SUFFICES ASSUME bcpu[BootCPU].return = "ap" PROVE r \in inUse' /\ ~Taken(r)
          BY <1>1, <1>3, <3>2, Zenon
        <4>2. Len(klist) >= NCPU + 1 - bcpu[BootCPU].next /\ bcpu[BootCPU].next \in CPU
          BY <1>2, <3>2, <4>1, Zenon DEF BootInv, Enough
        <4>3. klist # <<>>
          <5>1. NCPU + 1 - bcpu[BootCPU].next >= 1
            BY <4>2, FramesAssumption DEF CPU
          <5> QED
            BY <4>2, <5>1, FramesAssumption DEF CPU
        <4>4. r \in inUse' /\ r \notin inUse
          BY <1>6, <4>3, Zenon
        <4>5. \A d \in CPU \ {BootCPU} : UpAndRunning(d) => bcpu[d].stack \in inUse
          BY DEF BootInv, OneByOne
        <4> QED
          BY <4>4, <4>5, Zenon DEF Taken
      <3> QED
        BY <3>1, <3>2, Zenon
    <2> QED
      BY <1>1, <1>2, <1>7, <2>1, <2>2, <2>3, <2>4, StartsKept
  <1> QED
    BY <1>8, <1>9, <1>10, <1>11, <1>12 DEF BootInv

\* kalloc releases the lock it has taken and returns, or allocates the next page.
LEMMA KallocUnlockStep ==
    ASSUME BootInv, NEW c \in CPU, KallocUnlock(c)
    PROVE  BootInv'
  <1> USE BootCpuIs
  <1>t. BootTyped
    BY Zenon DEF BootInv
  <1>0. /\ bcpu[c].pc = "kunlock" /\ (use_lock => kmemLock = c) /\ bcpu[c].left \in Nat \ {0}
        /\ UNCHANGED <<codeStack, startedCpu, klist, use_lock, inUse, kpgdirSet, ready>>
    <2>1. /\ bcpu[c].pc = "kunlock" /\ "kunlock" \in KallocPc /\ "kunlock" \in LockedPc
          /\ UNCHANGED <<codeStack, startedCpu, klist, use_lock, inUse, kpgdirSet, ready>>
      BY Zenon DEF KallocUnlock, KallocPc, LockedPc
    <2>2. bcpu[c].left \in Nat /\ bcpu[c].left > 0
      BY <1>t, <2>1, Zenon DEF BootTyped, CpuRec
    <2> QED
      BY <2>1, <2>2 DEF BootInv, Inside
  <1>a. /\ ~use_lock => c = BootCPU /\ bcpu[c].return \in {"kvm", "ap"} /\ bcpu[c].left = 1
        /\ use_lock => bcpu[c].return \in {"userinit", "forked"} /\ (c # BootCPU => bcpu[c].return = "forked")
    BY <1>0 DEF BootInv, Alone, AlonePc, ApPc, LatePc, KallocPc
  <1>b. PICK x : x = IF bcpu[c].left > 1 THEN "kalloc" ELSE bcpu[c].return
    BY Zenon
  <1>c. x = bcpu[c].return \/ (x = "kalloc" /\ bcpu[c].left > 1 /\ use_lock)
    BY <1>0, <1>a, <1>b
  <1>1. /\ bcpu' \in [CPU -> CpuRec] /\ \A d \in CPU \ {c} : bcpu'[d] = bcpu[d]
        /\ bcpu'[c].pc = x /\ bcpu'[c].r = bcpu[c].r /\ bcpu'[c].left = bcpu[c].left - 1
        /\ bcpu'[c].return = bcpu[c].return /\ bcpu'[c].stack = bcpu[c].stack
        /\ bcpu'[c].next = bcpu[c].next
    <2>1. bcpu[c] \in CpuRec
      BY <1>t, Zenon DEF BootTyped
    <2>2. PICK f : f = [bcpu[c] EXCEPT !.left = @ - 1, !.pc = x]
      BY Zenon
    <2>3. x \in KallocPc \union AlonePc \union {"userinit", "forked"}
      BY <1>a, <1>c, Zenon DEF KallocPc, AlonePc
    <2>4. bcpu[c].left - 1 \in Nat
      BY <1>0
    <2>5. /\ f \in CpuRec /\ f.pc = x /\ f.r = bcpu[c].r /\ f.left = bcpu[c].left - 1
          /\ f.return = bcpu[c].return /\ f.stack = bcpu[c].stack /\ f.next = bcpu[c].next
      BY <2>1, <2>2, <2>3, <2>4 DEF CpuRec
    <2>6. bcpu' = [bcpu EXCEPT ![c] = f]
      BY <1>b, <2>2, Zenon DEF KallocUnlock
    <2> QED
      BY <1>t, <2>5, <2>6, Zenon DEF BootTyped
  <1>2. x \in {"kvm", "ap", "userinit", "forked", "kalloc"} /\ (x # "kalloc" => x = bcpu[c].return)
    BY <1>a, <1>c, Zenon
  <1>3. BootTyped'
    <2>1. \A d \in CPU : bcpu'[d].pc \in KallocPc => bcpu'[d].left > 0
      <3>1. bcpu'[c].pc \in KallocPc => bcpu'[c].left > 0
        BY <1>0, <1>1, <1>a, <1>c DEF KallocPc
      <3> QED
        BY <1>t, <1>1, <3>1 DEF BootTyped
    <2> QED
      BY <1>t, <1>0, <1>1, <2>1 DEF BootTyped
  <1>4. Alone'
    <2>1. CASE ~use_lock
      BY <1>0, <1>1, <1>a, <1>c, <2>1 DEF BootInv, Alone, KallocPc, AlonePc
    <2>2. CASE use_lock
      BY <1>0, <1>1, <1>a, <1>c, <2>2 DEF BootInv, Alone, KallocPc, AlonePc, LatePc, ApPc
    <2> QED
      BY <2>1, <2>2, Zenon
  <1>5. Inside'
    <2>1. \A d \in CPU \ {c} : bcpu[d].pc \notin LockedPc
      BY <1>0, OneInside, Zenon DEF LockedPc
    <2> QED
      BY <1>1, <1>2, <2>1, Zenon DEF Inside, LockedPc
  <1>6. Enough'
    <2>1. CASE c # BootCPU
      BY <1>0, <1>1, <2>1 DEF BootInv, Enough
    <2>2. CASE c = BootCPU
      BY <1>0, <1>1, <1>a, <1>c, <2>2, Zenon DEF BootInv, Enough
    <2> QED
      BY <2>1, <2>2, Zenon
  <1>7. OneByOne'
    <2>1. bcpu'[BootCPU].pc \notin {"off", "entry"}
      BY <1>4, Zenon DEF Alone, KallocPc, AlonePc, LatePc
    <2>2. \A d \in CPU \ {BootCPU} : /\ bcpu'[d].stack = bcpu[d].stack
                                     /\ \/ bcpu'[d].pc = bcpu[d].pc
                                        \/ bcpu[d].pc \notin {"off", "entry"} /\ bcpu'[d].pc \notin {"off", "entry"}
      BY <1>0, <1>1, <1>a, <1>2, Zenon
    <2>3. /\ bcpu'[BootCPU].next = bcpu[BootCPU].next /\ (~use_lock' => ~use_lock)
          /\ bcpu'[BootCPU].pc = "wait" <=> bcpu[BootCPU].pc = "wait"
      BY <1>0, <1>1, <1>a, <1>2, Zenon
    <2>4. \/ bcpu'[BootCPU].pc \in {"kinit1", "kvm"} \/ kpgdirSet'
          \/ bcpu'[BootCPU].pc \in KallocPc /\ bcpu'[BootCPU].return = "kvm"
      BY <1>0, <1>1, <1>a, <1>2, Zenon DEF BootInv, OneByOne, KallocPc
    <2>5. (bcpu'[BootCPU].pc = "kunlock" /\ bcpu'[BootCPU].return = "ap") \/ bcpu'[BootCPU].pc = "ap" =>
               bcpu'[BootCPU].r \in inUse' /\ ~Taken(bcpu'[BootCPU].r)
      BY <1>0, <1>1, <1>a, <1>2, Zenon DEF BootInv, OneByOne
    <2>6. \A d \in startedCpu' : d \in startedCpu \/ (d \in CPU /\ bcpu'[d].pc \notin {"off", "entry"})
      BY <1>0, <1>1, <1>a, <1>2, Zenon
    <2>7. codeStack' = codeStack /\ inUse \subseteq inUse' /\ (kpgdirSet => kpgdirSet')
      BY <1>0, Zenon
    <2> QED
      BY <2>1, <2>2, <2>3, <2>4, <2>5, <2>6, <2>7, StartsKept
  <1> QED
    BY <1>3, <1>4, <1>5, <1>6, <1>7 DEF BootInv

-----------------------------------------------------------------------------
(* The steps of main *)

\* kinit1 frees the low pages, before anything is allocated.
LEMMA Kinit1Step ==
    ASSUME BootInv, Kinit1
    PROVE  BootInv'
  <1> USE BootCpuIs
  <1>t. BootTyped
    BY Zenon DEF BootInv
  <1>1. /\ bcpu' \in [CPU -> CpuRec] /\ \A d \in CPU \ {BootCPU} : bcpu'[d] = bcpu[d]
        /\ bcpu'[BootCPU].pc = "kalloc" /\ bcpu'[BootCPU].r = bcpu[BootCPU].r /\ bcpu'[BootCPU].left = 1
        /\ bcpu'[BootCPU].return = "kvm" /\ bcpu'[BootCPU].stack = bcpu[BootCPU].stack
        /\ bcpu'[BootCPU].next = bcpu[BootCPU].next
    BY <1>t, CallIs, Zenon DEF Kinit1
  <1>2. /\ bcpu[BootCPU].pc = "kinit1" /\ use_lock' = FALSE /\ klist' = [k \in Low |-> LowFrames + 1 - k]
        /\ UNCHANGED <<codeStack, startedCpu, kmemLock, inUse, kpgdirSet, ready>>
    BY Zenon DEF Kinit1
  <1>0. inUse = {} /\ bcpu[BootCPU].next = 2 /\ ~use_lock
    BY <1>2, Zenon DEF BootInv, Enough, Alone, LatePc, KallocPc
  <1>3. BootTyped'
    <2>1. klist' \in Seq(Page) /\ Len(klist') = LowFrames
      <3>1. \A k \in 1 .. LowFrames : LowFrames + 1 - k \in Page
        BY FramesAssumption DEF Page
      <3> QED
        BY <1>2, <3>1, FramesAssumption DEF Low
    <2>2. \A k, l \in 1 .. LowFrames : klist'[k] = klist'[l] => k = l
      BY <1>2, FramesAssumption DEF Low
    <2>3. \A d \in CPU : bcpu'[d].pc \in KallocPc => bcpu'[d].left > 0
      BY <1>t, <1>1 DEF BootTyped
    <2> QED
      <3>1. /\ codeStack' \in Page \union {NoPage} /\ startedCpu' \subseteq CPU /\ inUse' \subseteq Page
            /\ use_lock' \in BOOLEAN /\ kpgdirSet' \in BOOLEAN /\ ready' \in Nat
            /\ bcpu'[BootCPU].next \in 2 .. NCPU + 1
        BY <1>t, <1>1, <1>2, Zenon DEF BootTyped
      <3>2. \A k \in 1 .. Len(klist') : klist'[k] \notin inUse'
        BY <1>0, <1>2
      <3> QED
        BY <1>1, <2>1, <2>2, <2>3, <3>1, <3>2, Zenon DEF BootTyped
  <1>4. Alone'
    BY <1>0, <1>1, <1>2, Zenon DEF BootInv, Alone, KallocPc
  <1>5. Inside'
    <2>1. \A d \in CPU \ {BootCPU} : bcpu[d].pc \notin LockedPc
      BY <1>2, OneInside, Zenon DEF LockedPc
    <2>2. \A d \in CPU : bcpu'[d].pc \notin LockedPc /\ bcpu'[d].pc # "kwrite"
      BY <1>1, <2>1, Zenon DEF LockedPc
    <2> QED
      BY <2>2, Zenon DEF Inside
  <1>6. Enough'
    <2>1. Len(klist') = LowFrames
      BY <1>2, FramesAssumption DEF Low
    <2> QED
      BY <1>0, <1>1, <2>1, FramesAssumption, Zenon DEF Enough
  <1>7. OneByOne'
    <2>1. bcpu'[BootCPU].pc \notin {"off", "entry"}
      BY <1>4, Zenon DEF Alone, KallocPc, AlonePc, LatePc
    <2>2. \A d \in CPU \ {BootCPU} : /\ bcpu'[d].stack = bcpu[d].stack
                                     /\ \/ bcpu'[d].pc = bcpu[d].pc
                                        \/ bcpu[d].pc \notin {"off", "entry"} /\ bcpu'[d].pc \notin {"off", "entry"}
      BY <1>0, <1>1, <1>2, Zenon
    <2>3. /\ bcpu'[BootCPU].next = bcpu[BootCPU].next /\ ~use_lock
          /\ bcpu'[BootCPU].pc = "wait" <=> bcpu[BootCPU].pc = "wait"
      BY <1>0, <1>1, <1>2
    <2>4. \/ bcpu'[BootCPU].pc \in {"kinit1", "kvm"} \/ kpgdirSet'
          \/ bcpu'[BootCPU].pc \in KallocPc /\ bcpu'[BootCPU].return = "kvm"
      BY <1>0, <1>1, <1>2, Zenon DEF BootInv, OneByOne, KallocPc
    <2>5. (bcpu'[BootCPU].pc = "kunlock" /\ bcpu'[BootCPU].return = "ap") \/ bcpu'[BootCPU].pc = "ap" =>
               bcpu'[BootCPU].r \in inUse' /\ ~Taken(bcpu'[BootCPU].r)
      BY <1>0, <1>1, <1>2, Zenon DEF BootInv, OneByOne
    <2>6. \A d \in startedCpu' : d \in startedCpu \/ (d \in CPU /\ bcpu'[d].pc \notin {"off", "entry"})
      BY <1>0, <1>1, <1>2
    <2>7. codeStack' = codeStack /\ inUse \subseteq inUse' /\ (kpgdirSet => kpgdirSet')
      BY <1>2
    <2> QED
      BY <2>1, <2>2, <2>3, <2>4, <2>5, <2>6, <2>7, StartsKept
  <1> QED
    BY <1>3, <1>4, <1>5, <1>6, <1>7 DEF BootInv

\* kvmalloc sets kpgdir.
LEMMA KvmallocStep ==
    ASSUME BootInv, Kvmalloc
    PROVE  BootInv'
  <1> USE BootCpuIs
  <1>t. BootTyped
    BY Zenon DEF BootInv
  <1>1. /\ bcpu' \in [CPU -> CpuRec] /\ \A d \in CPU \ {BootCPU} : bcpu'[d] = bcpu[d]
        /\ bcpu'[BootCPU].pc = "others" /\ bcpu'[BootCPU].r = bcpu[BootCPU].r /\ bcpu'[BootCPU].left = bcpu[BootCPU].left
        /\ bcpu'[BootCPU].return = bcpu[BootCPU].return /\ bcpu'[BootCPU].stack = bcpu[BootCPU].stack
        /\ bcpu'[BootCPU].next = bcpu[BootCPU].next
    BY <1>t, GoesIs DEF Kvmalloc, KallocPc, AlonePc, ApPc
  <1>2. /\ bcpu[BootCPU].pc = "kvm" /\ kpgdirSet'
        /\ kpgdirSet' \in BOOLEAN
        /\ UNCHANGED <<codeStack, startedCpu, klist, use_lock, kmemLock, inUse, ready>>
    BY Zenon DEF Kvmalloc
  <1>3. BootTyped'
    <2>1. bcpu'[BootCPU].next \in 2 .. NCPU + 1
      BY <1>t, <1>1, Zenon DEF BootTyped
    <2>2. \A d \in CPU : bcpu'[d].pc \in KallocPc => bcpu'[d].left > 0
      BY <1>t, <1>1, <1>2, Zenon DEF BootTyped, KallocPc
    <2> QED
      BY <1>t, <1>1, <1>2, <2>1, <2>2, Zenon DEF BootTyped
  <1>4. Alone'
    BY <1>1, <1>2, Zenon DEF BootInv, Alone, KallocPc, AlonePc, ApPc, LatePc
  <1>5. Inside'
    BY <1>1, <1>2 DEF BootInv, Inside, LockedPc
  <1>6. Enough'
    BY <1>1, <1>2, Zenon DEF BootInv, Enough, Alone, KallocPc, AlonePc, LatePc
  <1>7. OneByOne'
    <2>1. bcpu'[BootCPU].pc \notin {"off", "entry"}
      BY <1>4, Zenon DEF Alone, KallocPc, AlonePc, LatePc
    <2>2. \A d \in CPU \ {BootCPU} : /\ bcpu'[d].stack = bcpu[d].stack
                                     /\ \/ bcpu'[d].pc = bcpu[d].pc
                                        \/ bcpu[d].pc \notin {"off", "entry"} /\ bcpu'[d].pc \notin {"off", "entry"}
      BY <1>1, <1>2, Zenon
    <2>3. /\ bcpu'[BootCPU].next = bcpu[BootCPU].next /\ (~use_lock' => ~use_lock)
          /\ bcpu'[BootCPU].pc = "wait" <=> bcpu[BootCPU].pc = "wait"
      BY <1>1, <1>2, Zenon
    <2>4. \/ bcpu'[BootCPU].pc \in {"kinit1", "kvm"} \/ kpgdirSet'
          \/ bcpu'[BootCPU].pc \in KallocPc /\ bcpu'[BootCPU].return = "kvm"
      BY <1>1, <1>2, Zenon DEF BootInv, OneByOne, KallocPc
    <2>5. (bcpu'[BootCPU].pc = "kunlock" /\ bcpu'[BootCPU].return = "ap") \/ bcpu'[BootCPU].pc = "ap" =>
               bcpu'[BootCPU].r \in inUse' /\ ~Taken(bcpu'[BootCPU].r)
      BY <1>1, <1>2, Zenon DEF BootInv, OneByOne
    <2>6. \A d \in startedCpu' : d \in startedCpu \/ (d \in CPU /\ bcpu'[d].pc \notin {"off", "entry"})
      BY <1>1, <1>2, Zenon
    <2>7. codeStack' = codeStack /\ inUse \subseteq inUse' /\ (kpgdirSet => kpgdirSet')
      BY <1>2
    <2> QED
      BY <2>1, <2>2, <2>3, <2>4, <2>5, <2>6, <2>7, StartsKept, Zenon
  <1> QED
    BY <1>3, <1>4, <1>5, <1>6, <1>7 DEF BootInv

\* startothers asks for the stack of the next processor, if there is one.
LEMMA StartStackStep ==
    ASSUME BootInv, StartStack
    PROVE  BootInv'
  <1> USE BootCpuIs
  <1>t. BootTyped
    BY Zenon DEF BootInv
  <1>a. PICK x \in {"kalloc", "kinit2"} : x = "kalloc" <=> bcpu[BootCPU].next \in CPU
    BY Zenon
  <1>1. /\ bcpu' \in [CPU -> CpuRec] /\ \A d \in CPU \ {BootCPU} : bcpu'[d] = bcpu[d]
        /\ bcpu'[BootCPU].pc = x /\ (x = "kalloc" => bcpu'[BootCPU].return = "ap" /\ bcpu'[BootCPU].left = 1)
        /\ bcpu'[BootCPU].stack = bcpu[BootCPU].stack /\ bcpu'[BootCPU].next = bcpu[BootCPU].next
    <2>1. CASE bcpu[BootCPU].next \in CPU
      <3>1. CallKalloc(BootCPU, 1, "ap") /\ x = "kalloc"
        BY <1>a, <2>1, Zenon DEF StartStack
      <3> QED
        BY <1>t, <3>1, CallIs, Zenon
    <2>2. CASE bcpu[BootCPU].next \notin CPU
      <3>1. Goes(BootCPU, "kinit2") /\ x = "kinit2"
        BY <1>a, <2>2, Zenon DEF StartStack
      <3> QED
        BY <1>t, <3>1, GoesIs, Zenon DEF AlonePc
    <2> QED
      BY <2>1, <2>2, Zenon
  <1>2. /\ bcpu[BootCPU].pc = "others" /\ x \in {"kalloc", "kinit2"}
        /\ UNCHANGED <<codeStack, startedCpu, klist, use_lock, kmemLock, inUse, kpgdirSet, ready>>
    BY Zenon DEF StartStack
  <1>3. BootTyped'
    <2>1. bcpu'[BootCPU].next \in 2 .. NCPU + 1
      BY <1>t, <1>1, Zenon DEF BootTyped
    <2>2. \A d \in CPU : bcpu'[d].pc \in KallocPc => bcpu'[d].left > 0
      <3>1. 1 > 0
        OBVIOUS
      <3> QED
        BY <1>a, <1>t, <1>1, <1>2, <3>1, Zenon DEF BootTyped, KallocPc
    <2> QED
      BY <1>t, <1>1, <1>2, <2>1, <2>2, Zenon DEF BootTyped
  <1>4. Alone'
    BY <1>1, <1>2, Zenon DEF BootInv, Alone, KallocPc, AlonePc, ApPc, LatePc
  <1>5. Inside'
    BY <1>1, <1>2 DEF BootInv, Inside, LockedPc
  <1>6. Enough'
    BY <1>a, <1>1, <1>2, Zenon DEF BootInv, Enough, Alone, KallocPc, AlonePc, LatePc
  <1>7. OneByOne'
    <2>1. bcpu'[BootCPU].pc \notin {"off", "entry"}
      BY <1>4, Zenon DEF Alone, KallocPc, AlonePc, LatePc
    <2>2. \A d \in CPU \ {BootCPU} : /\ bcpu'[d].stack = bcpu[d].stack
                                     /\ \/ bcpu'[d].pc = bcpu[d].pc
                                        \/ bcpu[d].pc \notin {"off", "entry"} /\ bcpu'[d].pc \notin {"off", "entry"}
      BY <1>1, <1>2, Zenon
    <2>3. /\ bcpu'[BootCPU].next = bcpu[BootCPU].next /\ (~use_lock' => ~use_lock)
          /\ bcpu'[BootCPU].pc = "wait" <=> bcpu[BootCPU].pc = "wait"
      BY <1>1, <1>2, Zenon
    <2>4. \/ bcpu'[BootCPU].pc \in {"kinit1", "kvm"} \/ kpgdirSet'
          \/ bcpu'[BootCPU].pc \in KallocPc /\ bcpu'[BootCPU].return = "kvm"
      BY <1>1, <1>2, Zenon DEF BootInv, OneByOne, KallocPc
    <2>5. (bcpu'[BootCPU].pc = "kunlock" /\ bcpu'[BootCPU].return = "ap") \/ bcpu'[BootCPU].pc = "ap" =>
               bcpu'[BootCPU].r \in inUse' /\ ~Taken(bcpu'[BootCPU].r)
      BY <1>1, <1>2, Zenon DEF BootInv, OneByOne
    <2>6. \A d \in startedCpu' : d \in startedCpu \/ (d \in CPU /\ bcpu'[d].pc \notin {"off", "entry"})
      BY <1>1, <1>2, Zenon
    <2>7. codeStack' = codeStack /\ inUse \subseteq inUse' /\ (kpgdirSet => kpgdirSet')
      BY <1>2, Zenon
    <2> QED
      BY <2>1, <2>2, <2>3, <2>4, <2>5, <2>6, <2>7, StartsKept
  <1> QED
    BY <1>3, <1>4, <1>5, <1>6, <1>7 DEF BootInv

\* startothers leaves the stack for the next processor and starts it.
LEMMA StartApStep ==
    ASSUME BootInv, StartAp
    PROVE  BootInv'
  <1> USE BootCpuIs
  <1>t. BootTyped
    BY Zenon DEF BootInv
  <1>a. PICK n \in CPU : n = bcpu[BootCPU].next /\ n # BootCPU
    <2>1. bcpu[BootCPU].next \in CPU
      BY Zenon DEF BootInv, Enough, StartAp
    <2>2. bcpu[BootCPU].next # BootCPU
      BY <1>t, FramesAssumption DEF BootTyped, BootCPU
    <2> QED
      BY <2>1, <2>2, Zenon
  <1>1. /\ bcpu' \in [CPU -> CpuRec] /\ \A d \in CPU \ {BootCPU, n} : bcpu'[d] = bcpu[d]
        /\ bcpu'[n].pc = "entry" /\ bcpu'[n].stack = bcpu[n].stack
        /\ bcpu'[BootCPU].pc = "wait" /\ bcpu'[BootCPU].next = n
    <2>1. bcpu[n] \in CpuRec /\ bcpu[BootCPU] \in CpuRec
      BY <1>t, Zenon DEF BootTyped
    <2>2. PICK f : f = [bcpu[n] EXCEPT !.pc = "entry"]
      BY Zenon
    <2>3. PICK g : g = [bcpu[BootCPU] EXCEPT !.pc = "wait"]
      BY Zenon
    <2>4. f \in CpuRec /\ f.pc = "entry" /\ f.stack = bcpu[n].stack
      BY <2>1, <2>2, Zenon DEF CpuRec, ApPc
    <2>5. g \in CpuRec /\ g.pc = "wait" /\ g.next = n
      BY <1>a, <2>1, <2>3, Zenon DEF CpuRec, AlonePc
    <2>6. bcpu' = [bcpu EXCEPT ![n] = f, ![BootCPU] = g]
      BY <1>a, <1>t, <2>2, <2>3, Zenon DEF StartAp, BootTyped
    <2> QED
      BY <1>a, <1>t, <2>4, <2>5, <2>6, Zenon DEF BootTyped
  <1>2. /\ bcpu[BootCPU].pc = "ap" /\ codeStack' = bcpu[BootCPU].r
        /\ UNCHANGED <<startedCpu, klist, use_lock, kmemLock, inUse, kpgdirSet, ready>>
    BY Zenon DEF StartAp
  <1>b. ~use_lock
    BY <1>2, Zenon DEF BootInv, Alone, LatePc, KallocPc
  <1>3. BootTyped'
    <2>1. codeStack' \in Page \union {NoPage} /\ bcpu'[BootCPU].next \in 2 .. NCPU + 1
      BY <1>a, <1>t, <1>1, <1>2 DEF BootTyped, CpuRec
    <2>2. \A d \in CPU : bcpu'[d].pc \in KallocPc => bcpu'[d].left > 0
      BY <1>t, <1>1, Zenon DEF BootTyped, KallocPc
    <2> QED
      BY <1>t, <1>1, <1>2, <2>1, <2>2, Zenon DEF BootTyped
  <1>4. Alone'
    BY <1>a, <1>b, <1>1, <1>2 DEF BootInv, Alone, AlonePc, ApPc
  <1>5. Inside'
    BY <1>a, <1>1, <1>2 DEF BootInv, Inside, LockedPc
  <1>6. Enough'
    BY <1>a, <1>1, <1>2, Zenon DEF BootInv, Enough
  <1>7. OneByOne'
    <2>1. \A d \in CPU : d >= n => bcpu[d].pc = "off"
      BY <1>a, <1>b, <1>2, Zenon DEF BootInv, OneByOne
    <2>2. bcpu[n].pc = "off"
      BY <2>1
    <2>3. \A d \in CPU \ {BootCPU} : UpAndRunning(d)' <=> UpAndRunning(d) /\ d # n
      BY <1>1, <2>2, Zenon DEF UpAndRunning
    <2>4. \A d \in CPU : bcpu[d].pc # "entry"
      BY <1>2, Zenon DEF BootInv, OneByOne
    <2>5. ~use_lock' => \A d \in CPU : /\ d >= bcpu'[BootCPU].next
                                       /\ bcpu'[BootCPU].pc = "wait" => d > bcpu'[BootCPU].next
                                       => bcpu'[d].pc = "off"
      <3> SUFFICES ASSUME NEW d \in CPU, d > n PROVE bcpu'[d].pc = "off"
        BY <1>1, Zenon
      <3>1. d \in CPU \ {BootCPU, n} /\ d >= n
        BY <1>a, FramesAssumption DEF CPU, BootCPU
      <3> QED
        BY <1>1, <2>1, <3>1, Zenon
    <2>6. \A d \in startedCpu' : UpAndRunning(d)'
      BY <1>t, <1>1, <1>2, <2>2 DEF BootInv, BootTyped, OneByOne, UpAndRunning
    <2>7. kpgdirSet'
      BY <1>2, Zenon DEF BootInv, OneByOne, KallocPc
    <2>8. codeStack' \in inUse' /\ ~Taken(codeStack)'
      <3>1. bcpu[BootCPU].r \in inUse /\ ~Taken(bcpu[BootCPU].r)
        BY <1>2, Zenon DEF BootInv, OneByOne
      <3>2. \A d \in CPU \ {BootCPU} : UpAndRunning(d)' => bcpu'[d].stack = bcpu[d].stack /\ bcpu[d].stack # bcpu[BootCPU].r
        BY <1>1, <2>3, <3>1, Zenon DEF Taken
      <3> QED
        BY <1>2, <3>1, <3>2, Zenon DEF Taken
    <2>9. \A d \in CPU : bcpu'[d].pc = "entry" => d = n
      BY <1>1, <2>4, Zenon
    <2>10. \A d \in CPU \ {BootCPU} : UpAndRunning(d)' => bcpu'[d].stack \in inUse'
      BY <1>1, <1>2, <2>3, Zenon DEF BootInv, OneByOne
    <2>11. \A d, e \in CPU \ {BootCPU} : UpAndRunning(d)' /\ UpAndRunning(e)' /\ bcpu'[d].stack = bcpu'[e].stack => d = e
      BY <1>1, <2>3 DEF BootInv, OneByOne
    <2> QED
      BY <1>1, <2>5, <2>6, <2>7, <2>8, <2>9, <2>10, <2>11 DEF OneByOne
  <1> QED
    BY <1>3, <1>4, <1>5, <1>6, <1>7, Zenon DEF BootInv

\* startothers has seen the started flag of the processor it waits for.
LEMMA WaitApStep ==
    ASSUME BootInv, WaitAp
    PROVE  BootInv'
  <1> USE BootCpuIs
  <1>t. BootTyped
    BY Zenon DEF BootInv
  <1>2. /\ bcpu[BootCPU].pc = "wait" /\ bcpu[BootCPU].next \in startedCpu
        /\ UNCHANGED <<codeStack, startedCpu, klist, use_lock, kmemLock, inUse, kpgdirSet, ready>>
    BY Zenon DEF WaitAp, IsUp
  <1>a. PICK n \in CPU : n = bcpu[BootCPU].next /\ n # BootCPU /\ n + 1 \in 2 .. NCPU + 1
    <2>1. bcpu[BootCPU].next \in CPU
      BY <1>t, <1>2, Zenon DEF BootTyped
    <2> QED
      BY <1>t, <2>1, FramesAssumption DEF BootTyped, BootCPU, CPU
  <1>1. /\ bcpu' \in [CPU -> CpuRec] /\ \A d \in CPU \ {BootCPU} : bcpu'[d] = bcpu[d]
        /\ bcpu'[BootCPU].pc = "others" /\ bcpu'[BootCPU].next = n + 1
    <2>1. bcpu[BootCPU] \in CpuRec /\ n + 1 \in Nat
      BY <1>t DEF BootTyped
    <2>2. PICK f : f = [bcpu[BootCPU] EXCEPT !.pc = "others", !.next = n + 1]
      BY Zenon
    <2>3. f \in CpuRec /\ f.pc = "others" /\ f.next = n + 1
      BY <2>1, <2>2, Zenon DEF CpuRec, AlonePc
    <2>4. bcpu' = [bcpu EXCEPT ![BootCPU] = f]
      BY <1>a, <2>2, Zenon DEF WaitAp
    <2> QED
      BY <1>t, <2>3, <2>4, Zenon DEF BootTyped
  <1>b. ~use_lock
    BY <1>2, Zenon DEF BootInv, Alone, LatePc, KallocPc
  <1>3. BootTyped'
    <2>1. \A d \in CPU : bcpu'[d].pc \in KallocPc => bcpu'[d].left > 0
      BY <1>t, <1>1, Zenon DEF BootTyped, KallocPc
    <2> QED
      BY <1>a, <1>t, <1>1, <1>2, <2>1 DEF BootTyped
  <1>4. Alone'
    BY <1>b, <1>1, <1>2, Zenon DEF BootInv, Alone, AlonePc
  <1>5. Inside'
    BY <1>1, <1>2, Zenon DEF BootInv, Inside, LockedPc
  <1>6. Enough'
    <2>1. Len(klist) >= NCPU - n
      BY <1>a, <1>2, Zenon DEF BootInv, Enough
    <2>2. NCPU + 1 - (n + 1) = NCPU - n
      BY FramesAssumption
    <2> QED
      BY <1>1, <1>2, <2>1, <2>2, Zenon DEF Enough
  <1>7. OneByOne'
    <2>1. \A d \in CPU \ {BootCPU} : UpAndRunning(d)' <=> UpAndRunning(d)
      BY <1>1, Zenon DEF UpAndRunning
    <2>2. \A d \in CPU : bcpu'[d].pc # "entry"
      BY <1>a, <1>1, <1>2 DEF BootInv, OneByOne, UpAndRunning
    <2>3. \A d \in CPU : d >= n + 1 => bcpu'[d].pc = "off"
      <3> SUFFICES ASSUME NEW d \in CPU, d >= n + 1 PROVE bcpu'[d].pc = "off"
        BY Zenon
      <3>1. d \in CPU \ {BootCPU} /\ d > n /\ d >= n
        BY <1>a, FramesAssumption DEF CPU, BootCPU
      <3> QED
        BY <1>a, <1>b, <1>1, <1>2, <3>1 DEF BootInv, OneByOne
    <2>4. \A d \in startedCpu' : UpAndRunning(d)'
      BY <1>t, <1>1, <1>2, <2>1 DEF BootInv, BootTyped, OneByOne, UpAndRunning
    <2>5. kpgdirSet'
      BY <1>2, Zenon DEF BootInv, OneByOne, KallocPc
    <2>6. \A d \in CPU \ {BootCPU} : UpAndRunning(d)' => bcpu'[d].stack \in inUse'
      BY <1>1, <1>2, <2>1, Zenon DEF BootInv, OneByOne
    <2>7. \A d, e \in CPU \ {BootCPU} : UpAndRunning(d)' /\ UpAndRunning(e)' /\ bcpu'[d].stack = bcpu'[e].stack => d = e
      BY <1>1, <2>1, Zenon DEF BootInv, OneByOne
    <2> QED
      BY <1>1, <2>2, <2>3, <2>4, <2>5, <2>6, <2>7 DEF OneByOne
  <1> QED
    BY <1>3, <1>4, <1>5, <1>6, <1>7, Zenon DEF BootInv

\* userinit makes the first process ready, when use_lock is set.
LEMMA UserinitStep ==
    ASSUME BootInv, Userinit
    PROVE  BootInv'
  <1> USE BootCpuIs
  <1>t. BootTyped
    BY Zenon DEF BootInv
  <1>1. /\ bcpu' \in [CPU -> CpuRec] /\ \A d \in CPU \ {BootCPU} : bcpu'[d] = bcpu[d]
        /\ bcpu'[BootCPU].pc = "mpmain" /\ bcpu'[BootCPU].r = bcpu[BootCPU].r /\ bcpu'[BootCPU].left = bcpu[BootCPU].left
        /\ bcpu'[BootCPU].return = bcpu[BootCPU].return /\ bcpu'[BootCPU].stack = bcpu[BootCPU].stack
        /\ bcpu'[BootCPU].next = bcpu[BootCPU].next
    BY <1>t, GoesIs, Zenon DEF Userinit, KallocPc, AlonePc, ApPc
  <1>2. /\ bcpu[BootCPU].pc = "userinit" /\ ready' = 1
        /\ UNCHANGED <<codeStack, startedCpu, klist, use_lock, kmemLock, inUse, kpgdirSet>>
    BY Zenon DEF Userinit
  <1>3. BootTyped'
    <2>1. bcpu'[BootCPU].next \in 2 .. NCPU + 1
      BY <1>t, <1>1, Zenon DEF BootTyped
    <2>2. \A d \in CPU : bcpu'[d].pc \in KallocPc => bcpu'[d].left > 0
      BY <1>t, <1>1, <1>2, Zenon DEF BootTyped, KallocPc
    <2> QED
      BY <1>t, <1>1, <1>2, <2>1, <2>2, Zenon DEF BootTyped
  <1>4. Alone'
    BY <1>1, <1>2 DEF BootInv, Alone, KallocPc, AlonePc, ApPc, LatePc
  <1>5. Inside'
    BY <1>1, <1>2 DEF BootInv, Inside, LockedPc
  <1>6. Enough'
    BY <1>1, <1>2, Zenon DEF BootInv, Enough, Alone, KallocPc, AlonePc, LatePc
  <1>7. OneByOne'
    <2>1. bcpu'[BootCPU].pc \notin {"off", "entry"}
      BY <1>4, Zenon DEF Alone, KallocPc, AlonePc, LatePc
    <2>2. \A d \in CPU \ {BootCPU} : /\ bcpu'[d].stack = bcpu[d].stack
                                     /\ \/ bcpu'[d].pc = bcpu[d].pc
                                        \/ bcpu[d].pc \notin {"off", "entry"} /\ bcpu'[d].pc \notin {"off", "entry"}
      BY <1>1, <1>2
    <2>3. /\ bcpu'[BootCPU].next = bcpu[BootCPU].next /\ (~use_lock' => ~use_lock)
          /\ bcpu'[BootCPU].pc = "wait" <=> bcpu[BootCPU].pc = "wait"
      BY <1>1, <1>2, Zenon
    <2>4. \/ bcpu'[BootCPU].pc \in {"kinit1", "kvm"} \/ kpgdirSet'
          \/ bcpu'[BootCPU].pc \in KallocPc /\ bcpu'[BootCPU].return = "kvm"
      BY <1>1, <1>2, Zenon DEF BootInv, OneByOne, KallocPc
    <2>5. (bcpu'[BootCPU].pc = "kunlock" /\ bcpu'[BootCPU].return = "ap") \/ bcpu'[BootCPU].pc = "ap" =>
               bcpu'[BootCPU].r \in inUse' /\ ~Taken(bcpu'[BootCPU].r)
      BY <1>1, <1>2, Zenon DEF BootInv, OneByOne
    <2>6. \A d \in startedCpu' : d \in startedCpu \/ (d \in CPU /\ bcpu'[d].pc \notin {"off", "entry"})
      BY <1>1, <1>2, Zenon
    <2>7. codeStack' = codeStack /\ inUse \subseteq inUse' /\ (kpgdirSet => kpgdirSet')
      BY <1>2
    <2> QED
      BY <2>1, <2>2, <2>3, <2>4, <2>5, <2>6, <2>7, StartsKept
  <1> QED
    BY <1>3, <1>4, <1>5, <1>6, <1>7, Zenon DEF BootInv

-----------------------------------------------------------------------------
(* The steps of the other processors, and of processes *)

\* A processor takes the stack that startothers has left for it.
LEMMA EntryOtherStep ==
    ASSUME BootInv, NEW c \in CPU, EntryOther(c)
    PROVE  BootInv'
  <1> USE BootCpuIs
  <1>t. BootTyped
    BY DEF BootInv
  <1>2. /\ bcpu[c].pc = "entry"
        /\ UNCHANGED <<codeStack, startedCpu, klist, use_lock, kmemLock, inUse, kpgdirSet, ready>>
    BY Zenon DEF EntryOther
  <1>a. c # BootCPU
    BY <1>2, Zenon DEF BootInv, Alone, AlonePc, LatePc, KallocPc
  <1>1. /\ bcpu' \in [CPU -> CpuRec] /\ \A d \in CPU \ {c} : bcpu'[d] = bcpu[d]
        /\ bcpu'[c].pc = "mpenter" /\ bcpu'[c].stack = codeStack
    <2>1. bcpu[c] \in CpuRec /\ codeStack \in Page \union {NoPage}
      BY <1>t DEF BootTyped
    <2>2. PICK f : f = [bcpu[c] EXCEPT !.pc = "mpenter", !.stack = codeStack]
      OBVIOUS
    <2>3. f \in CpuRec /\ f.pc = "mpenter" /\ f.stack = codeStack
      BY <2>1, <2>2 DEF CpuRec, ApPc
    <2>4. bcpu' = [bcpu EXCEPT ![c] = f]
      BY <2>2, Zenon DEF EntryOther
    <2> QED
      BY <1>t, <2>3, <2>4, Zenon DEF BootTyped
  <1>3. BootTyped'
    <2>1. \A d \in CPU : bcpu'[d].pc \in KallocPc => bcpu'[d].left > 0
      BY <1>t, <1>1, Zenon DEF BootTyped, KallocPc
    <2> QED
      BY <1>a, <1>t, <1>1, <1>2, <2>1 DEF BootTyped
  <1>4. Alone'
    BY <1>a, <1>1, <1>2, Zenon DEF BootInv, Alone, ApPc
  <1>5. Inside'
    BY <1>1, <1>2 DEF BootInv, Inside, LockedPc
  <1>6. Enough'
    BY <1>a, <1>1, <1>2 DEF BootInv, Enough
  <1>7. OneByOne'
    <2>0. bcpu'[BootCPU] = bcpu[BootCPU]
      BY <1>a, <1>1, Zenon
    <2>1. c = bcpu[BootCPU].next /\ bcpu[BootCPU].pc = "wait" /\ codeStack \in inUse /\ ~Taken(codeStack)
      BY <1>2, Zenon DEF BootInv, OneByOne
    <2>2. \A d \in CPU \ {BootCPU} : UpAndRunning(d)' <=> UpAndRunning(d) \/ d = c
      BY <1>a, <1>1, Zenon DEF UpAndRunning
    <2>3. ~UpAndRunning(c)
      BY <1>2, Zenon DEF UpAndRunning
    <2>4. \A d \in CPU : bcpu'[d].pc # "entry"
      BY <1>1, <2>1, Zenon DEF BootInv, OneByOne
    <2>5. ~use_lock' => \A d \in CPU : d > c => bcpu'[d].pc = "off"
      <3> SUFFICES ASSUME ~use_lock, NEW d \in CPU, d > c PROVE bcpu'[d].pc = "off"
        BY <1>2, Zenon
      <3>1. d # c /\ d >= c
        OBVIOUS
      <3> QED
        BY <1>1, <2>1, <3>1, Zenon DEF BootInv, OneByOne
    <2>6. \A d \in startedCpu' : UpAndRunning(d)'
      BY <1>t, <1>1, <1>2, Zenon DEF BootInv, BootTyped, OneByOne, UpAndRunning
    <2>7. kpgdirSet'
      BY <1>2, <2>1, Zenon DEF BootInv, OneByOne, KallocPc
    <2>8. \A d \in CPU \ {BootCPU} : UpAndRunning(d)' => bcpu'[d].stack \in inUse'
      BY <1>1, <1>2, <2>1, <2>2, Zenon DEF BootInv, OneByOne
    <2>9. \A d, e \in CPU \ {BootCPU} : UpAndRunning(d)' /\ UpAndRunning(e)' /\ bcpu'[d].stack = bcpu'[e].stack => d = e
      <3>1. \A d \in CPU \ {BootCPU, c} : UpAndRunning(d)' => UpAndRunning(d) /\ bcpu'[d].stack = bcpu[d].stack /\ bcpu[d].stack # codeStack
        BY <1>1, <2>1, <2>2, Zenon DEF Taken
      <3> QED
        BY <1>1, <3>1 DEF BootInv, OneByOne
    <2> QED
      BY <2>0, <2>1, <2>4, <2>5, <2>6, <2>7, <2>8, <2>9, Zenon DEF OneByOne
  <1> QED
    BY <1>3, <1>4, <1>5, <1>6, <1>7 DEF BootInv

\* mpenter goes on to mpmain.
LEMMA MpenterStep ==
    ASSUME BootInv, NEW c \in CPU, Mpenter(c)
    PROVE  BootInv'
  <1> USE BootCpuIs
  <1>t. BootTyped
    BY Zenon DEF BootInv
  <1>1. /\ bcpu' \in [CPU -> CpuRec] /\ \A d \in CPU \ {c} : bcpu'[d] = bcpu[d]
        /\ bcpu'[c].pc = "mpmain" /\ bcpu'[c].r = bcpu[c].r /\ bcpu'[c].left = bcpu[c].left
        /\ bcpu'[c].return = bcpu[c].return /\ bcpu'[c].stack = bcpu[c].stack
        /\ bcpu'[c].next = bcpu[c].next
    BY <1>t, GoesIs, Zenon DEF Mpenter, KallocPc, AlonePc, ApPc
  <1>2. /\ bcpu[c].pc = "mpenter" /\ c # BootCPU
        /\ UNCHANGED <<codeStack, startedCpu, klist, use_lock, kmemLock, inUse, kpgdirSet, ready>>
    BY Zenon DEF Mpenter, BootInv, Alone, AlonePc, LatePc, KallocPc
  <1>3. BootTyped'
    BY <1>t, <1>1, <1>2, Zenon DEF BootTyped, KallocPc
  <1>4. Alone'
    BY <1>1, <1>2, Zenon DEF BootInv, Alone, KallocPc, AlonePc, ApPc, LatePc
  <1>5. Inside'
    BY <1>1, <1>2 DEF BootInv, Inside, LockedPc
  <1>6. Enough'
    BY <1>1, <1>2 DEF BootInv, Enough, Alone, KallocPc, AlonePc, LatePc
  <1>7. OneByOne'
    <2>1. bcpu'[BootCPU].pc \notin {"off", "entry"}
      BY <1>4, Zenon DEF Alone, KallocPc, AlonePc, LatePc
    <2>2. \A d \in CPU \ {BootCPU} : /\ bcpu'[d].stack = bcpu[d].stack
                                     /\ \/ bcpu'[d].pc = bcpu[d].pc
                                        \/ bcpu[d].pc \notin {"off", "entry"} /\ bcpu'[d].pc \notin {"off", "entry"}
      BY <1>1, <1>2, Zenon
    <2>3. /\ bcpu'[BootCPU].next = bcpu[BootCPU].next /\ (~use_lock' => ~use_lock)
          /\ bcpu'[BootCPU].pc = "wait" <=> bcpu[BootCPU].pc = "wait"
      BY <1>1, <1>2, Zenon
    <2>4. \/ bcpu'[BootCPU].pc \in {"kinit1", "kvm"} \/ kpgdirSet'
          \/ bcpu'[BootCPU].pc \in KallocPc /\ bcpu'[BootCPU].return = "kvm"
      BY <1>1, <1>2, Zenon DEF BootInv, OneByOne, KallocPc
    <2>5. (bcpu'[BootCPU].pc = "kunlock" /\ bcpu'[BootCPU].return = "ap") \/ bcpu'[BootCPU].pc = "ap" =>
               bcpu'[BootCPU].r \in inUse' /\ ~Taken(bcpu'[BootCPU].r)
      BY <1>1, <1>2, Zenon DEF BootInv, OneByOne
    <2>6. \A d \in startedCpu' : d \in startedCpu \/ (d \in CPU /\ bcpu'[d].pc \notin {"off", "entry"})
      BY <1>1, <1>2, Zenon
    <2>7. codeStack' = codeStack /\ inUse \subseteq inUse' /\ (kpgdirSet => kpgdirSet')
      BY <1>2, Zenon
    <2> QED
      BY <2>1, <2>2, <2>3, <2>4, <2>5, <2>6, <2>7, StartsKept, Zenon
  <1> QED
    BY <1>3, <1>4, <1>5, <1>6, <1>7, Zenon DEF BootInv

\* mpmain sets the started flag and schedules.
LEMMA MpmainStep ==
    ASSUME BootInv, NEW c \in CPU, Mpmain(c)
    PROVE  BootInv'
  <1> USE BootCpuIs
  <1>t. BootTyped
    BY Zenon DEF BootInv
  <1>1. /\ bcpu' \in [CPU -> CpuRec] /\ \A d \in CPU \ {c} : bcpu'[d] = bcpu[d]
        /\ bcpu'[c].pc = "sched" /\ bcpu'[c].r = bcpu[c].r /\ bcpu'[c].left = bcpu[c].left
        /\ bcpu'[c].return = bcpu[c].return /\ bcpu'[c].stack = bcpu[c].stack
        /\ bcpu'[c].next = bcpu[c].next
    BY <1>t, GoesIs, Zenon DEF Mpmain, KallocPc, AlonePc, ApPc
  <1>2. /\ bcpu[c].pc = "mpmain" /\ startedCpu' = startedCpu \union {c}
        /\ UNCHANGED <<codeStack, klist, use_lock, kmemLock, inUse, kpgdirSet, ready>>
    BY Zenon DEF Mpmain
  <1>3. BootTyped'
    BY <1>t, <1>1, <1>2, Zenon DEF BootTyped, KallocPc
  <1>4. Alone'
    BY <1>1, <1>2 DEF BootInv, Alone, KallocPc, AlonePc, ApPc, LatePc
  <1>5. Inside'
    BY <1>1, <1>2 DEF BootInv, Inside, LockedPc
  <1>6. Enough'
    BY <1>1, <1>2 DEF BootInv, Enough, Alone, KallocPc, AlonePc, LatePc
  <1>7. OneByOne'
    <2>1. bcpu'[BootCPU].pc \notin {"off", "entry"}
      BY <1>4, Zenon DEF Alone, KallocPc, AlonePc, LatePc
    <2>2. \A d \in CPU \ {BootCPU} : /\ bcpu'[d].stack = bcpu[d].stack
                                     /\ \/ bcpu'[d].pc = bcpu[d].pc
                                        \/ bcpu[d].pc \notin {"off", "entry"} /\ bcpu'[d].pc \notin {"off", "entry"}
      BY <1>1, <1>2, Zenon
    <2>3. /\ bcpu'[BootCPU].next = bcpu[BootCPU].next /\ (~use_lock' => ~use_lock)
          /\ bcpu'[BootCPU].pc = "wait" <=> bcpu[BootCPU].pc = "wait"
      BY <1>1, <1>2, Zenon
    <2>4. \/ bcpu'[BootCPU].pc \in {"kinit1", "kvm"} \/ kpgdirSet'
          \/ bcpu'[BootCPU].pc \in KallocPc /\ bcpu'[BootCPU].return = "kvm"
      BY <1>1, <1>2, Zenon DEF BootInv, OneByOne, KallocPc
    <2>5. (bcpu'[BootCPU].pc = "kunlock" /\ bcpu'[BootCPU].return = "ap") \/ bcpu'[BootCPU].pc = "ap" =>
               bcpu'[BootCPU].r \in inUse' /\ ~Taken(bcpu'[BootCPU].r)
      BY <1>1, <1>2, Zenon DEF BootInv, OneByOne
    <2>6. \A d \in startedCpu' : d \in startedCpu \/ (d \in CPU /\ bcpu'[d].pc \notin {"off", "entry"})
      BY <1>1, <1>2, Zenon
    <2>7. codeStack' = codeStack /\ inUse \subseteq inUse' /\ (kpgdirSet => kpgdirSet')
      BY <1>2, Zenon
    <2> QED
      BY <2>1, <2>2, <2>3, <2>4, <2>5, <2>6, <2>7, StartsKept, Zenon
  <1> QED
    BY <1>3, <1>4, <1>5, <1>6, <1>7, Zenon DEF BootInv

\* A process that a processor runs forks; there is none before use_lock is set.
LEMMA ScheduleStep ==
    ASSUME BootInv, NEW c \in CPU, Schedule(c)
    PROVE  BootInv'
  <1> USE BootCpuIs
  <1>t. BootTyped
    BY Zenon DEF BootInv
  <1>1. /\ bcpu' \in [CPU -> CpuRec] /\ \A d \in CPU \ {c} : bcpu'[d] = bcpu[d]
        /\ bcpu'[c].pc = "kalloc" /\ bcpu'[c].r = bcpu[c].r /\ bcpu'[c].left = 1
        /\ bcpu'[c].return = "forked" /\ bcpu'[c].stack = bcpu[c].stack
        /\ bcpu'[c].next = bcpu[c].next
    BY <1>t, CallIs, Zenon DEF Schedule
  <1>2. /\ bcpu[c].pc = "sched" /\ ready' \in Nat /\ use_lock
        /\ UNCHANGED <<codeStack, startedCpu, klist, use_lock, kmemLock, inUse, kpgdirSet>>
    BY <1>t DEF Schedule, BootInv, Alone, BootTyped
  <1>3. BootTyped'
    <2>1. bcpu'[BootCPU].next \in 2 .. NCPU + 1
      BY <1>t, <1>1, Zenon DEF BootTyped
    <2>2. \A d \in CPU : bcpu'[d].pc \in KallocPc => bcpu'[d].left > 0
      <3>1. 1 > 0
        OBVIOUS
      <3> QED
        BY <1>t, <1>1, <3>1, Zenon DEF BootTyped
    <2> QED
      BY <1>t, <1>1, <1>2, <2>1, <2>2, Zenon DEF BootTyped
  <1>4. Alone'
    BY <1>1, <1>2 DEF BootInv, Alone, KallocPc, AlonePc, ApPc, LatePc
  <1>5. Inside'
    BY <1>1, <1>2 DEF BootInv, Inside, LockedPc
  <1>6. Enough'
    BY <1>1, <1>2, Zenon DEF BootInv, Enough, Alone, KallocPc, AlonePc, LatePc
  <1>7. OneByOne'
    <2>1. bcpu'[BootCPU].pc \notin {"off", "entry"}
      BY <1>4, Zenon DEF Alone, KallocPc, AlonePc, LatePc
    <2>2. \A d \in CPU \ {BootCPU} : /\ bcpu'[d].stack = bcpu[d].stack
                                     /\ \/ bcpu'[d].pc = bcpu[d].pc
                                        \/ bcpu[d].pc \notin {"off", "entry"} /\ bcpu'[d].pc \notin {"off", "entry"}
      BY <1>1, <1>2, Zenon
    <2>3. /\ bcpu'[BootCPU].next = bcpu[BootCPU].next /\ (~use_lock' => ~use_lock)
          /\ bcpu'[BootCPU].pc = "wait" <=> bcpu[BootCPU].pc = "wait"
      BY <1>1, <1>2, Zenon
    <2>4. \/ bcpu'[BootCPU].pc \in {"kinit1", "kvm"} \/ kpgdirSet'
          \/ bcpu'[BootCPU].pc \in KallocPc /\ bcpu'[BootCPU].return = "kvm"
      BY <1>1, <1>2, Zenon DEF BootInv, OneByOne, KallocPc
    <2>5. (bcpu'[BootCPU].pc = "kunlock" /\ bcpu'[BootCPU].return = "ap") \/ bcpu'[BootCPU].pc = "ap" =>
               bcpu'[BootCPU].r \in inUse' /\ ~Taken(bcpu'[BootCPU].r)
      BY <1>1, <1>2, Zenon DEF BootInv, OneByOne
    <2>6. \A d \in startedCpu' : d \in startedCpu \/ (d \in CPU /\ bcpu'[d].pc \notin {"off", "entry"})
      BY <1>1, <1>2, Zenon
    <2>7. codeStack' = codeStack /\ inUse \subseteq inUse' /\ (kpgdirSet => kpgdirSet')
      BY <1>2
    <2> QED
      BY <2>1, <2>2, <2>3, <2>4, <2>5, <2>6, <2>7, StartsKept, Zenon
  <1> QED
    BY <1>3, <1>4, <1>5, <1>6, <1>7, Zenon DEF BootInv

\* The process is ready again, with its child if there was a page for it.
LEMMA ForkedStep ==
    ASSUME BootInv, NEW c \in CPU, Forked(c)
    PROVE  BootInv'
  <1> USE BootCpuIs
  <1>t. BootTyped
    BY Zenon DEF BootInv
  <1>1. /\ bcpu' \in [CPU -> CpuRec] /\ \A d \in CPU \ {c} : bcpu'[d] = bcpu[d]
        /\ bcpu'[c].pc = "sched" /\ bcpu'[c].r = bcpu[c].r /\ bcpu'[c].left = bcpu[c].left
        /\ bcpu'[c].return = bcpu[c].return /\ bcpu'[c].stack = bcpu[c].stack
        /\ bcpu'[c].next = bcpu[c].next
    BY <1>t, GoesIs, Zenon DEF Forked, KallocPc, AlonePc, ApPc
  <1>2. /\ bcpu[c].pc = "forked" /\ ready' \in Nat /\ use_lock
        /\ UNCHANGED <<codeStack, startedCpu, klist, use_lock, kmemLock, inUse, kpgdirSet>>
    BY <1>t DEF Forked, BootInv, Alone, BootTyped, AlonePc, KallocPc, ApPc
  <1>3. BootTyped'
    BY <1>t, <1>1, <1>2, Zenon DEF BootTyped, KallocPc
  <1>4. Alone'
    BY <1>1, <1>2, Zenon DEF BootInv, Alone, KallocPc, AlonePc, ApPc, LatePc
  <1>5. Inside'
    BY <1>1, <1>2 DEF BootInv, Inside, LockedPc
  <1>6. Enough'
    BY <1>1, <1>2 DEF BootInv, Enough, Alone, KallocPc, AlonePc, LatePc
  <1>7. OneByOne'
    <2>1. bcpu'[BootCPU].pc \notin {"off", "entry"}
      BY <1>4, Zenon DEF Alone, KallocPc, AlonePc, LatePc
    <2>2. \A d \in CPU \ {BootCPU} : /\ bcpu'[d].stack = bcpu[d].stack
                                     /\ \/ bcpu'[d].pc = bcpu[d].pc
                                        \/ bcpu[d].pc \notin {"off", "entry"} /\ bcpu'[d].pc \notin {"off", "entry"}
      BY <1>1, <1>2, Zenon
    <2>3. /\ bcpu'[BootCPU].next = bcpu[BootCPU].next /\ (~use_lock' => ~use_lock)
          /\ bcpu'[BootCPU].pc = "wait" <=> bcpu[BootCPU].pc = "wait"
      BY <1>1, <1>2, Zenon
    <2>4. \/ bcpu'[BootCPU].pc \in {"kinit1", "kvm"} \/ kpgdirSet'
          \/ bcpu'[BootCPU].pc \in KallocPc /\ bcpu'[BootCPU].return = "kvm"
      BY <1>1, <1>2, Zenon DEF BootInv, OneByOne, KallocPc
    <2>5. (bcpu'[BootCPU].pc = "kunlock" /\ bcpu'[BootCPU].return = "ap") \/ bcpu'[BootCPU].pc = "ap" =>
               bcpu'[BootCPU].r \in inUse' /\ ~Taken(bcpu'[BootCPU].r)
      BY <1>1, <1>2, Zenon DEF BootInv, OneByOne
    <2>6. \A d \in startedCpu' : d \in startedCpu \/ (d \in CPU /\ bcpu'[d].pc \notin {"off", "entry"})
      BY <1>1, <1>2, Zenon
    <2>7. codeStack' = codeStack /\ inUse \subseteq inUse' /\ (kpgdirSet => kpgdirSet')
      BY <1>2
    <2> QED
      BY <2>1, <2>2, <2>3, <2>4, <2>5, <2>6, <2>7, StartsKept, Zenon
  <1> QED
    BY <1>3, <1>4, <1>5, <1>6, <1>7, Zenon DEF BootInv

-----------------------------------------------------------------------------
(* The steps of kinit2 *)

\* The page that kfree puts on the list is neither there nor in use.
LEMMA SmallestFresh ==
    ASSUME NEW F, F \subseteq Nat, F # {}
    PROVE  (CHOOSE f \in F : \A g \in F : f <= g) \in F
  <1>1. \E x \in F : \A y \in F : ~(<<y, x>> \in OpToRel(<, Nat))
    BY NatLessThanWellFounded, WFMin, Zenon
  <1>2. PICK x \in F : \A y \in F : ~(<<y, x>> \in OpToRel(<, Nat))
    BY <1>1
  <1>3. \A y \in F : x <= y
    <2> SUFFICES ASSUME NEW y \in F PROVE x <= y
      BY Zenon
    <2>1. x \in Nat /\ y \in Nat
      BY Zenon
    <2>2. ~(y < x)
      BY <1>2, <2>1, Zenon DEF OpToRel
    <2> QED
      BY <2>1, <2>2
  <1> QED
    BY <1>3, Zenon

\* kinit2 begins to free a page.
LEMMA KfreeReadStep ==
    ASSUME BootInv, KfreeRead
    PROVE  BootInv'
  <1> USE BootCpuIs
  <1>t. BootTyped
    BY Zenon DEF BootInv
  <1>1. /\ bcpu' \in [CPU -> CpuRec] /\ \A d \in CPU \ {BootCPU} : bcpu'[d] = bcpu[d]
        /\ bcpu'[BootCPU].pc = "kfree" /\ bcpu'[BootCPU].r = bcpu[BootCPU].r /\ bcpu'[BootCPU].left = bcpu[BootCPU].left
        /\ bcpu'[BootCPU].return = bcpu[BootCPU].return /\ bcpu'[BootCPU].stack = bcpu[BootCPU].stack
        /\ bcpu'[BootCPU].next = bcpu[BootCPU].next
    BY <1>t, GoesIs, Zenon DEF KfreeRead, AlonePc
  <1>2. /\ bcpu[BootCPU].pc = "kinit2"
        /\ UNCHANGED <<codeStack, startedCpu, klist, use_lock, kmemLock, inUse, kpgdirSet, ready>>
    BY Zenon DEF KfreeRead
  <1>3. BootTyped'
    <2>1. bcpu'[BootCPU].next \in 2 .. NCPU + 1
      BY <1>t, <1>1, Zenon DEF BootTyped
    <2>2. \A d \in CPU : bcpu'[d].pc \in KallocPc => bcpu'[d].left > 0
      BY <1>t, <1>1, <1>2, Zenon DEF BootTyped, KallocPc
    <2> QED
      BY <1>t, <1>1, <1>2, <2>1, <2>2, Zenon DEF BootTyped
  <1>4. Alone'
    BY <1>1, <1>2, Zenon DEF BootInv, Alone, KallocPc, AlonePc, ApPc, LatePc
  <1>5. Inside'
    BY <1>1, <1>2 DEF BootInv, Inside, LockedPc
  <1>6. Enough'
    <2>1. PICK f \in High : f \notin inUse /\ \A k \in DOMAIN klist : klist[k] # f
      BY Zenon DEF KfreeRead, Fresh
    <2>2. DOMAIN klist = 1 .. Len(klist)
      BY <1>t DEF BootTyped
    <2>3. f \notin inUse' /\ \A k \in 1 .. Len(klist') : klist'[k] # f
      BY <1>2, <2>1, <2>2, Zenon
    <2> QED
      BY <1>1, <2>3, Zenon DEF Enough
  <1>7. OneByOne'
    <2>1. bcpu'[BootCPU].pc \notin {"off", "entry"}
      BY <1>4, Zenon DEF Alone, KallocPc, AlonePc, LatePc
    <2>2. \A d \in CPU \ {BootCPU} : /\ bcpu'[d].stack = bcpu[d].stack
                                     /\ \/ bcpu'[d].pc = bcpu[d].pc
                                        \/ bcpu[d].pc \notin {"off", "entry"} /\ bcpu'[d].pc \notin {"off", "entry"}
      BY <1>1, <1>2, Zenon
    <2>3. /\ bcpu'[BootCPU].next = bcpu[BootCPU].next /\ (~use_lock' => ~use_lock)
          /\ bcpu'[BootCPU].pc = "wait" <=> bcpu[BootCPU].pc = "wait"
      BY <1>1, <1>2, Zenon
    <2>4. \/ bcpu'[BootCPU].pc \in {"kinit1", "kvm"} \/ kpgdirSet'
          \/ bcpu'[BootCPU].pc \in KallocPc /\ bcpu'[BootCPU].return = "kvm"
      BY <1>1, <1>2, Zenon DEF BootInv, OneByOne, KallocPc
    <2>5. (bcpu'[BootCPU].pc = "kunlock" /\ bcpu'[BootCPU].return = "ap") \/ bcpu'[BootCPU].pc = "ap" =>
               bcpu'[BootCPU].r \in inUse' /\ ~Taken(bcpu'[BootCPU].r)
      BY <1>1, <1>2, Zenon DEF BootInv, OneByOne
    <2>6. \A d \in startedCpu' : d \in startedCpu \/ (d \in CPU /\ bcpu'[d].pc \notin {"off", "entry"})
      BY <1>1, <1>2, Zenon
    <2>7. codeStack' = codeStack /\ inUse \subseteq inUse' /\ (kpgdirSet => kpgdirSet')
      BY <1>2, Zenon
    <2> QED
      BY <2>1, <2>2, <2>3, <2>4, <2>5, <2>6, <2>7, StartsKept, Zenon
  <1> QED
    BY <1>3, <1>4, <1>5, <1>6, <1>7, Zenon DEF BootInv

\* kinit2 puts a page on the list.
LEMMA KfreeWriteStep ==
    ASSUME BootInv, KfreeWrite
    PROVE  BootInv'
  <1> USE BootCpuIs
  <1>t. BootTyped
    BY Zenon DEF BootInv
  <1>1. /\ bcpu' \in [CPU -> CpuRec] /\ \A d \in CPU \ {BootCPU} : bcpu'[d] = bcpu[d]
        /\ bcpu'[BootCPU].pc = "kinit2" /\ bcpu'[BootCPU].r = bcpu[BootCPU].r /\ bcpu'[BootCPU].left = bcpu[BootCPU].left
        /\ bcpu'[BootCPU].return = bcpu[BootCPU].return /\ bcpu'[BootCPU].stack = bcpu[BootCPU].stack
        /\ bcpu'[BootCPU].next = bcpu[BootCPU].next
    BY <1>t, GoesIs, Zenon DEF KfreeWrite, AlonePc
  <1>2. /\ bcpu[BootCPU].pc = "kfree"
        /\ UNCHANGED <<codeStack, startedCpu, use_lock, kmemLock, inUse, kpgdirSet, ready>>
    BY Zenon DEF KfreeWrite
  <1>f. PICK f : f = CHOOSE g \in Fresh : \A h \in Fresh : g <= h
    OBVIOUS
  <1>g. f \in High /\ f \notin inUse /\ \A k \in DOMAIN klist : klist[k] # f
    <2>1. PICK g \in High : g \notin inUse /\ \A k \in 1 .. Len(klist) : klist[k] # g
      BY <1>2, Zenon DEF BootInv, Enough
    <2>2. DOMAIN klist = 1 .. Len(klist)
      BY <1>t DEF BootTyped
    <2>3. g \in Fresh
      BY <2>1, <2>2, Zenon DEF Fresh
    <2>4. Fresh \subseteq Nat
      BY FramesAssumption DEF Fresh, High
    <2>5. f \in Fresh
      BY <1>f, <2>3, <2>4, SmallestFresh, Zenon
    <2> QED
      BY <2>5, Zenon DEF Fresh
  <1>3. BootTyped'
    <2>1. f \in Page /\ klist \in Seq(Page)
      BY <1>g, <1>t, FramesAssumption DEF BootTyped, High, Page
    <2>0. PICK t : t = <<f>>
      BY Zenon
    <2>2. t \in Seq(Page) /\ Len(t) = 1 /\ t[1] = f
      BY <2>0, <2>1
    <2>3. PICK n \in Nat : n = Len(klist)
      BY <2>1
    <2>4. /\ klist' \in Seq(Page) /\ Len(klist') = 1 + n
          /\ \A k \in 1 .. 1 + n : klist'[k] = IF k <= 1 THEN t[k] ELSE klist[k - 1]
      <3>1. /\ t \o klist \in Seq(Page) /\ Len(t \o klist) = Len(t) + Len(klist)
            /\ \A k \in 1 .. Len(t) + Len(klist) :
                  (t \o klist)[k] = IF k <= Len(t) THEN t[k] ELSE klist[k - Len(t)]
        BY <2>1, <2>2, ConcatProperties, Zenon
      <3>2. klist' = t \o klist
        BY <1>f, <2>0, Zenon DEF KfreeWrite
      <3> QED
        BY <2>2, <2>3, <3>1, <3>2, Zenon
    <2>5. klist'[1] = f /\ \A k \in 2 .. n + 1 : k - 1 \in 1 .. n /\ klist'[k] = klist[k - 1]
      <3>1. 1 \in 1 .. 1 + n /\ klist'[1] = t[1]
        BY <2>4
      <3>2. \A k \in 2 .. n + 1 : k \in 1 .. 1 + n /\ ~(k <= 1) /\ k - 1 \in 1 .. n
        OBVIOUS
      <3> QED
        BY <2>2, <2>4, <3>1, <3>2, Zenon
    <2>6. /\ \A k, l \in 1 .. n : klist[k] = klist[l] => k = l
          /\ \A k \in 1 .. n : klist[k] \notin inUse /\ klist[k] # f
      BY <1>g, <1>t, <2>1, <2>3 DEF BootTyped
    <2>7. \A k \in 1 .. Len(klist') : k = 1 \/ k \in 2 .. n + 1
      BY <2>4
    <2>8. \A k, l \in 1 .. Len(klist') : klist'[k] = klist'[l] => k = l
      <3> SUFFICES ASSUME NEW k \in 1 .. Len(klist'), NEW l \in 1 .. Len(klist'), klist'[k] = klist'[l]
                   PROVE  k = l
        BY Zenon
      <3>1. CASE k \in 2 .. n + 1 /\ l \in 2 .. n + 1
        <4>1. k - 1 = l - 1
          BY <2>5, <2>6, <3>1
        <4> QED
          BY <3>1, <4>1
      <3>2. CASE k = 1 /\ l \in 2 .. n + 1
        BY <2>5, <2>6, <3>2, Zenon
      <3>3. CASE l = 1 /\ k \in 2 .. n + 1
        BY <2>5, <2>6, <3>3, Zenon
      <3> QED
        BY <2>7, <3>1, <3>2, <3>3, Zenon
    <2>9. \A k \in 1 .. Len(klist') : klist'[k] \notin inUse'
      BY <1>2, <1>g, <2>5, <2>6, <2>7, Zenon
    <2>10. \A d \in CPU : bcpu'[d].pc \in KallocPc => bcpu'[d].left > 0
      BY <1>t, <1>1 DEF BootTyped, KallocPc
    <2> QED
      BY <1>t, <1>1, <1>2, <2>4, <2>8, <2>9, <2>10 DEF BootTyped
  <1>4. Alone'
    BY <1>1, <1>2 DEF BootInv, Alone, KallocPc, AlonePc, ApPc, LatePc
  <1>5. Inside'
    <2>1. \A d \in CPU \ {BootCPU} : bcpu[d].pc \notin LockedPc
      BY <1>2, OneInside DEF LockedPc
    <2>2. \A d \in CPU : bcpu'[d].pc \notin LockedPc /\ bcpu'[d].pc # "kwrite"
      BY <1>1, <2>1 DEF LockedPc
    <2> QED
      BY <2>2, Zenon DEF Inside
  <1>6. Enough'
    BY <1>1 DEF Enough
  <1>7. OneByOne'
    <2>1. bcpu'[BootCPU].pc \notin {"off", "entry"}
      BY <1>4 DEF Alone, KallocPc, AlonePc, LatePc
    <2>2. \A d \in CPU \ {BootCPU} : /\ bcpu'[d].stack = bcpu[d].stack
                                     /\ \/ bcpu'[d].pc = bcpu[d].pc
                                        \/ bcpu[d].pc \notin {"off", "entry"} /\ bcpu'[d].pc \notin {"off", "entry"}
      BY <1>1, <1>2, Zenon
    <2>3. /\ bcpu'[BootCPU].next = bcpu[BootCPU].next /\ (~use_lock' => ~use_lock)
          /\ bcpu'[BootCPU].pc = "wait" <=> bcpu[BootCPU].pc = "wait"
      BY <1>1, <1>2
    <2>4. \/ bcpu'[BootCPU].pc \in {"kinit1", "kvm"} \/ kpgdirSet'
          \/ bcpu'[BootCPU].pc \in KallocPc /\ bcpu'[BootCPU].return = "kvm"
      BY <1>1, <1>2 DEF BootInv, OneByOne, KallocPc
    <2>5. (bcpu'[BootCPU].pc = "kunlock" /\ bcpu'[BootCPU].return = "ap") \/ bcpu'[BootCPU].pc = "ap" =>
               bcpu'[BootCPU].r \in inUse' /\ ~Taken(bcpu'[BootCPU].r)
      BY <1>1, <1>2 DEF BootInv, OneByOne
    <2>6. \A d \in startedCpu' : d \in startedCpu \/ (d \in CPU /\ bcpu'[d].pc \notin {"off", "entry"})
      BY <1>1, <1>2
    <2>7. codeStack' = codeStack /\ inUse \subseteq inUse' /\ (kpgdirSet => kpgdirSet')
      BY <1>2, Zenon
    <2> QED
      BY <2>1, <2>2, <2>3, <2>4, <2>5, <2>6, <2>7, StartsKept
  <1> QED
    BY <1>3, <1>4, <1>5, <1>6, <1>7, Zenon DEF BootInv

\* kinit2 ends: the allocator takes its lock from now on.
LEMMA UseLockStep ==
    ASSUME BootInv, UseLock
    PROVE  BootInv'
  <1> USE BootCpuIs
  <1>t. BootTyped
    BY Zenon DEF BootInv
  <1>1. /\ bcpu' \in [CPU -> CpuRec] /\ \A d \in CPU \ {BootCPU} : bcpu'[d] = bcpu[d]
        /\ bcpu'[BootCPU].pc = "kalloc" /\ bcpu'[BootCPU].r = bcpu[BootCPU].r /\ bcpu'[BootCPU].left = 2
        /\ bcpu'[BootCPU].return = "userinit" /\ bcpu'[BootCPU].stack = bcpu[BootCPU].stack
        /\ bcpu'[BootCPU].next = bcpu[BootCPU].next
    BY <1>t, CallIs, Zenon DEF UseLock
  <1>2. /\ bcpu[BootCPU].pc = "kinit2" /\ use_lock' /\ use_lock' \in BOOLEAN
        /\ UNCHANGED <<codeStack, startedCpu, klist, kmemLock, inUse, kpgdirSet, ready>>
    BY Zenon DEF UseLock
  <1>3. BootTyped'
    <2>1. bcpu'[BootCPU].next \in 2 .. NCPU + 1
      BY <1>t, <1>1, Zenon DEF BootTyped
    <2>2. \A d \in CPU : bcpu'[d].pc \in KallocPc => bcpu'[d].left > 0
      <3>1. 2 > 0
        OBVIOUS
      <3> QED
        BY <1>t, <1>1, <3>1, Zenon DEF BootTyped
    <2> QED
      BY <1>t, <1>1, <1>2, <2>1, <2>2, Zenon DEF BootTyped
  <1>4. Alone'
    BY <1>1, <1>2, Zenon DEF BootInv, Alone, KallocPc, AlonePc, ApPc, LatePc
  <1>5. Inside'
    <2>1. \A d \in CPU \ {BootCPU} : bcpu[d].pc \notin LockedPc
      BY <1>2, OneInside, Zenon DEF LockedPc
    <2>2. \A d \in CPU : bcpu'[d].pc \notin LockedPc /\ bcpu'[d].pc # "kwrite"
      BY <1>1, <2>1 DEF LockedPc
    <2> QED
      BY <2>2, Zenon DEF Inside
  <1>6. Enough'
    BY <1>1, <1>2, Zenon DEF BootInv, Enough, Alone, KallocPc, AlonePc, LatePc
  <1>7. OneByOne'
    <2>1. bcpu'[BootCPU].pc \notin {"off", "entry"}
      BY <1>4, Zenon DEF Alone, KallocPc, AlonePc, LatePc
    <2>2. \A d \in CPU \ {BootCPU} : /\ bcpu'[d].stack = bcpu[d].stack
                                     /\ \/ bcpu'[d].pc = bcpu[d].pc
                                        \/ bcpu[d].pc \notin {"off", "entry"} /\ bcpu'[d].pc \notin {"off", "entry"}
      BY <1>1, <1>2, Zenon
    <2>3. /\ bcpu'[BootCPU].next = bcpu[BootCPU].next /\ (~use_lock' => ~use_lock)
          /\ bcpu'[BootCPU].pc = "wait" <=> bcpu[BootCPU].pc = "wait"
      BY <1>1, <1>2, Zenon
    <2>4. \/ bcpu'[BootCPU].pc \in {"kinit1", "kvm"} \/ kpgdirSet'
          \/ bcpu'[BootCPU].pc \in KallocPc /\ bcpu'[BootCPU].return = "kvm"
      BY <1>1, <1>2, Zenon DEF BootInv, OneByOne, KallocPc
    <2>5. (bcpu'[BootCPU].pc = "kunlock" /\ bcpu'[BootCPU].return = "ap") \/ bcpu'[BootCPU].pc = "ap" =>
               bcpu'[BootCPU].r \in inUse' /\ ~Taken(bcpu'[BootCPU].r)
      BY <1>1, <1>2, Zenon DEF BootInv, OneByOne
    <2>6. \A d \in startedCpu' : d \in startedCpu \/ (d \in CPU /\ bcpu'[d].pc \notin {"off", "entry"})
      BY <1>1, <1>2, Zenon
    <2>7. codeStack' = codeStack /\ inUse \subseteq inUse' /\ (kpgdirSet => kpgdirSet')
      BY <1>2
    <2> QED
      BY <2>1, <2>2, <2>3, <2>4, <2>5, <2>6, <2>7, StartsKept, Zenon
  <1> QED
    BY <1>3, <1>4, <1>5, <1>6, <1>7, Zenon DEF BootInv

-----------------------------------------------------------------------------
(* The theorems *)

\* Every step preserves the invariant.
LEMMA BootStep == BootInv /\ [BootNext]_bootVars => BootInv'
  <1> SUFFICES ASSUME BootInv, [BootNext]_bootVars PROVE BootInv'
    OBVIOUS
  <1>1. CASE Kinit1 \/ Kvmalloc \/ StartStack \/ StartAp \/ WaitAp \/ Kinit2 \/ Userinit
    BY <1>1, Kinit1Step, KvmallocStep, StartStackStep, StartApStep, WaitApStep, KfreeReadStep, KfreeWriteStep,
       UseLockStep, UserinitStep DEF Kinit2
  <1>2. ASSUME NEW c \in CPU, Kalloc(c)
        PROVE  BootInv'
    BY <1>2, KallocLockStep, KallocReadStep, KallocWriteStep, KallocUnlockStep DEF Kalloc
  <1>3. ASSUME NEW c \in CPU, EntryOther(c) \/ Mpenter(c) \/ Mpmain(c) \/ Schedule(c) \/ Forked(c)
        PROVE  BootInv'
    BY <1>3, EntryOtherStep, MpenterStep, MpmainStep, ScheduleStep, ForkedStep
  <1>4. CASE UNCHANGED bootVars
    <2>1. UNCHANGED <<bcpu, codeStack, startedCpu, klist, use_lock, kmemLock, inUse, kpgdirSet, ready>>
      BY <1>4, Zenon DEF bootVars
    <2>2. BootTyped'
      BY <2>1, Zenon DEF BootInv, BootTyped
    <2>3. Alone' /\ Inside'
      BY <2>1, Zenon DEF BootInv, Alone, Inside
    <2>4. Enough'
      BY <2>1 DEF BootInv, Enough
    <2>5. OneByOne'
      BY <2>1 DEF BootInv, OneByOne, Taken, UpAndRunning
    <2> QED
      BY <2>2, <2>3, <2>4, <2>5 DEF BootInv
  <1> QED
    BY <1>1, <1>2, <1>3, <1>4, Zenon DEF BootNext

\* While the machine starts, the boot processor is alone in the allocator until use_lock is
\* set, the processors start one by one, and the list holds each page once.
THEOREM BootInvariant == BootSpec => []BootInv
  <1>1. BootInit => BootInv
    BY BootInitInv
  <1>2. BootInv /\ [BootNext]_bootVars => BootInv'
    BY BootStep
  <1> QED
    BY <1>1, <1>2, PTL DEF BootSpec

\* Each processor comes up with a stack of its own and with kpgdir in place, no two
\* processors are ever between the read and the write of kmem.freelist (although kalloc and
\* kfree take no lock before kinit2 is over), and no page is handed out twice, for any number
\* of processors and of pages.
THEOREM BootIsSound == BootSpec => []BootSound
  <1>1. BootInv => BootSound
    <2> SUFFICES ASSUME BootInv PROVE BootSound
      OBVIOUS
    <2>1. \A c, d \in CPU : OnList(c) /\ OnList(d) => c = d
      BY OneInside DEF OnList, LockedPc
    <2>2. \A c \in CPU : bcpu[c].pc = "kwrite" => bcpu[c].r \notin inUse
      <3> SUFFICES ASSUME NEW c \in CPU, bcpu[c].pc = "kwrite" PROVE bcpu[c].r \notin inUse
        BY Zenon
      <3>1. CASE klist = <<>>
        <4>1. bcpu[c].r = NoPage
          BY <3>1, Zenon DEF BootInv, Inside
        <4>2. NoPage \notin Page /\ inUse \subseteq Page
          BY DEF BootInv, BootTyped, Page, NoPage
        <4> QED
          BY <4>1, <4>2, Zenon
      <3>2. CASE klist # <<>>
        <4>1. bcpu[c].r = klist[1]
          BY <3>2, Zenon DEF BootInv, Inside
        <4>2. 1 \in 1 .. Len(klist)
          BY <3>2 DEF BootInv, BootTyped
        <4> QED
          BY <4>1, <4>2, Zenon DEF BootInv, BootTyped
      <3> QED
        BY <3>1, <3>2, Zenon
    <2>3. \A k \in DOMAIN klist : klist[k] \notin inUse
      BY DEF BootInv, BootTyped
    <2> QED
      BY <2>1, <2>2, <2>3, Zenon DEF BootInv, Inside, LockedPc, OneByOne, BootSound
  <1> QED
    BY <1>1, BootInvariant, PTL

=============================================================================
