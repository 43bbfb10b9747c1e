----------------------------- MODULE SpinProofs -----------------------------
(***************************************************************************)
(* Proofs about module Spinlock, for any CPUs and locks: the types, that   *)
(* acquire and release exclude, and that pushcli and popcli balance.       *)
(***************************************************************************)
EXTENDS Spinlock, FiniteSetTheorems, TLAPS

\* A lock is taken by the xchg of acquire, before have says so.
Owns(x, l) == l \in have[x] \/ (at[x] = "mark" /\ want[x] = l)

\* SpinExclusion is not inductive: it needs the lock word, which is set as long as some
\* context owns the lock, and that release frees only what its caller has.
SpinInv ==
    /\ SpinTypeOK
    /\ \A x \in Ctx : \A l \in SLock : Owns(x, l) => locked[l]
    /\ \A x, y \in Ctx : \A l \in SLock : Owns(x, l) /\ Owns(y, l) => x = y
    /\ \A x \in Ctx : at[x] = "free" => want[x] \in have[x]

\* What runs on a CPU is its code or its handler.
LEMMA OnType == ASSUME NEW c \in Cpu PROVE On(c) \in Ctx
  BY Zenon DEF On, Ctx

\* initlock establishes the invariant.
LEMMA SpinInitInv == SpinInit => SpinInv
  <1> SUFFICES ASSUME SpinInit PROVE SpinInv
    BY Zenon
  <1>1. (CHOOSE l \in SLock : TRUE) \in SLock
    BY SpinAssumption, Zenon
  <1>2. SpinTypeOK
    <2>1. want \in [Ctx -> SLock]
      BY <1>1, Zenon DEF SpinInit
    <2>2. /\ locked \in [SLock -> BOOLEAN] /\ lkcpu \in [SLock -> Cpu \union {NoCpu}]
          /\ ncli \in [Cpu -> Int]
      BY DEF SpinInit
    <2>3. /\ intena \in [Cpu -> BOOLEAN] /\ iflag \in [Cpu -> BOOLEAN] /\ inIntr \in [Cpu -> BOOLEAN]
          /\ eflags \in [Ctx -> BOOLEAN] /\ spinPanic \in BOOLEAN
      BY Zenon DEF SpinInit
    <2>4. at \in [Ctx -> Places] /\ have \in [Ctx -> SUBSET SLock]
      BY Zenon DEF SpinInit, Places
    <2> QED
      BY <2>1, <2>2, <2>3, <2>4, Zenon DEF SpinTypeOK
  <1> QED
    BY <1>2, Zenon DEF SpinInit, SpinInv, Owns

\* The types survive every step of acquire, release, pushcli, popcli and the interrupts.
LEMMA SpinTypeStep ==
    ASSUME SpinTypeOK, NEW c \in Cpu, SpinNextOf(c)
    PROVE  SpinTypeOK'
  <1> On(c) \in Ctx
    BY OnType, Zenon
  <1> USE DEF SpinTypeOK, Places, cpuVars, Goto, Crash
  <1>1. CASE ReadFlags(c)
    BY <1>1, SpinAssumption DEF ReadFlags
  <1>2. CASE pushcli(c)
    BY <1>2 DEF pushcli
  <1>3. CASE HoldingWord(c)
    BY <1>3, Zenon DEF HoldingWord
  <1>4. CASE HoldingCpu(c)
    BY <1>4, Zenon DEF HoldingCpu
  <1>5. CASE xchg(c)
    BY <1>5, Zenon DEF xchg
  <1>6. CASE SetOwner(c)
    BY <1>6 DEF SetOwner
  <1>7. CASE ClearOwner(c)
    BY <1>7, Zenon DEF ClearOwner
  <1>8. CASE Unlocked(c)
    BY <1>8, Zenon DEF Unlocked
  <1>9. CASE popcli(c)
    <2>1. Sti(c) \in BOOLEAN
      BY Zenon DEF Sti
    <2>2. ncli' \in [Cpu -> Int] /\ iflag' \in [Cpu -> BOOLEAN]
      BY <1>9, <2>1 DEF popcli
    <2>3. at' \in [Ctx -> Places] /\ spinPanic' \in BOOLEAN
      BY <1>9, Zenon DEF popcli
    <2> QED
      BY <1>9, <2>2, <2>3, Zenon DEF popcli
  <1>10. CASE Interrupt(c)
    BY <1>10, Zenon DEF Interrupt
  <1>11. CASE Iret(c)
    BY <1>11, Zenon DEF Iret
  <1> QED
    BY <1>1, <1>2, <1>3, <1>4, <1>5, <1>6, <1>7, <1>8, <1>9, <1>10, <1>11, Zenon DEF SpinNextOf

\* Only xchg sets a lock word, when nobody owns the lock, and only Unlocked clears one, which
\* its caller alone owns; the other steps change no owner.
LEMMA SpinOwnerStep ==
    ASSUME SpinInv, NEW c \in Cpu, SpinNextOf(c)
    PROVE  SpinInv'
  <1> On(c) \in Ctx
    BY OnType, Zenon
  <1>0. SpinTypeOK'
    BY SpinTypeStep, Zenon DEF SpinInv
  <1>x. PICK x \in Ctx : x = On(c)
    BY Zenon
  <1>1. CASE xchg(c)
    <2>1. /\ at[x] = "spin" /\ ~locked[want[x]]
          /\ at' = [at EXCEPT ![x] = "mark"] /\ locked' = [locked EXCEPT ![want[x]] = TRUE]
          /\ UNCHANGED <<want, have>>
      BY <1>1, <1>x, Zenon DEF xchg, Goto
    <2>2. want[x] \in SLock /\ \A y \in Ctx : ~Owns(y, want[x])
      BY <2>1, <1>x, Zenon DEF SpinInv, SpinTypeOK
    <2>3. \A y \in Ctx : \A l \in SLock : Owns(y, l)' => Owns(y, l) \/ (y = x /\ l = want[x])
      BY <2>1, <1>x DEF Owns, SpinInv, SpinTypeOK
    <2> QED
      BY <1>0, <2>1, <2>2, <2>3, <1>x DEF SpinInv, SpinTypeOK
  <1>2. CASE Unlocked(c)
    <2>1. /\ at[x] = "free" /\ at' = [at EXCEPT ![x] = "pop"]
          /\ locked' = [locked EXCEPT ![want[x]] = FALSE]
          /\ have' = [have EXCEPT ![x] = @ \ {want[x]}] /\ UNCHANGED want
      BY <1>2, <1>x DEF Unlocked, Goto
    <2>2. PICK k \in SLock : k = want[x] /\ Owns(x, k)
      BY <2>1, <1>x, Zenon DEF SpinInv, SpinTypeOK, Owns
    <2>3. \A y \in Ctx : \A l \in SLock : Owns(y, l)' => Owns(y, l)
      BY <2>1, <1>x DEF Owns, SpinInv, SpinTypeOK
    <2>4. ~Owns(x, k)'
      BY <2>1, <2>2, <1>x DEF Owns, SpinInv, SpinTypeOK
    <2>5. \A y \in Ctx : ~Owns(y, k)'
      BY <2>2, <2>3, <2>4, <1>x, Zenon DEF SpinInv
    <2>6. \A y \in Ctx : \A l \in SLock : Owns(y, l)' => locked'[l]
      BY <2>1, <2>2, <2>3, <2>5 DEF SpinInv, SpinTypeOK
    <2>7. \A y \in Ctx : at'[y] = "free" => want'[y] \in have'[y]
      BY <2>1, <1>x, Zenon DEF SpinInv, SpinTypeOK
    <2> QED
      BY <1>0, <2>3, <2>6, <2>7 DEF SpinInv
  <1>3. CASE SetOwner(c)
    <2>1. /\ at[x] = "mark" /\ at' = [at EXCEPT ![x] = "run"]
          /\ have' = [have EXCEPT ![x] = @ \union {want[x]}] /\ UNCHANGED <<want, locked>>
      BY <1>3, <1>x, Zenon DEF SetOwner, Goto
    <2>2. \A y \in Ctx : \A l \in SLock : Owns(y, l)' => Owns(y, l)
      BY <2>1, <1>x DEF Owns, SpinInv, SpinTypeOK
    <2>3. \A y \in Ctx : at'[y] = "free" => want'[y] \in have'[y]
      BY <2>1, <1>x, Zenon DEF SpinInv, SpinTypeOK
    <2> QED
      BY <1>0, <2>1, <2>2, <2>3, Zenon DEF SpinInv
  <1>4. CASE ReadFlags(c) \/ ClearOwner(c)
    <2>1. /\ at[x] = "run" /\ UNCHANGED <<have, locked>>
          /\ \A y \in Ctx \ {x} : at'[y] = at[y] /\ want'[y] = want[y]
          /\ at'[x] # "mark" /\ (at'[x] = "free" => want'[x] \in have[x])
      BY <1>4, <1>x DEF ReadFlags, ClearOwner, Goto, Crash, SpinInv, SpinTypeOK
    <2>2. \A y \in Ctx : \A l \in SLock : Owns(y, l)' => Owns(y, l)
      BY <2>1, Zenon DEF Owns
    <2> QED
      BY <1>0, <2>1, <2>2, Zenon DEF SpinInv
  <1>5. CASE pushcli(c) \/ HoldingWord(c) \/ HoldingCpu(c) \/ popcli(c) \/ Interrupt(c) \/ Iret(c)
    <2>1. /\ UNCHANGED <<have, locked, want>>
          /\ \A y \in Ctx \ {x} : at'[y] = at[y]
          /\ at'[x] = at[x] \/ at'[x] \notin {"mark", "free"}
      BY <1>5, <1>x DEF pushcli, HoldingWord, HoldingCpu, popcli, Interrupt, Iret, Goto, Crash, SpinInv, SpinTypeOK
    <2>2. \A y \in Ctx : \A l \in SLock : Owns(y, l)' => Owns(y, l)
      BY <2>1, Zenon DEF Owns
    <2> QED
      BY <1>0, <2>1, <2>2, Zenon DEF SpinInv
  <1> QED
    BY <1>1, <1>2, <1>3, <1>4, <1>5, Zenon DEF SpinNextOf

\* The invariant of the locks, and with it the types.
THEOREM SpinInvariant == SpinSpec => []SpinInv
  <1>1. SpinInv /\ [SpinNext]_spinVars => SpinInv'
    <2> SUFFICES ASSUME SpinInv, [SpinNext]_spinVars PROVE SpinInv'
      BY Zenon
    <2>1. CASE SpinNext
      BY <2>1, SpinOwnerStep DEF SpinNext
    <2>2. CASE UNCHANGED spinVars
      BY <2>2 DEF SpinInv, SpinTypeOK, Owns, spinVars
    <2> QED
      BY <2>1, <2>2
  <1> QED
    BY <1>1, SpinInitInv, PTL DEF SpinSpec

\* However CPUs and their interrupts interleave, a lock that acquire has returned and release
\* has not given back belongs to one context (spinlock.c's "Mutual exclusion lock").
THEOREM SpinExcludes == SpinSpec => []SpinExclusion
  <1>1. SpinInv => SpinExclusion
    BY DEF SpinInv, SpinTypeOK, SpinExclusion, Owns
  <1> QED
    BY <1>1, SpinInvariant, PTL

-----------------------------------------------------------------------------
(* Interrupts *)

\* The two contexts of a CPU.
Main(c) == <<c, "main">>
Intr(c) == <<c, "intr">>

\* Between pushcli and the lock, and between the lock and popcli.
Inside == {"check", "owner", "spin", "mark", "pop"}

\* How many calls of pushcli the context has outstanding.
Depth(x) == Cardinality(have[x]) + (IF at[x] \in Inside THEN 1 ELSE 0)

\* release has cleared lk->cpu, not yet the lock word.
Releasing(x, l) == at[x] = "free" /\ want[x] = l

\* The nesting count of a CPU is that of the context it runs, and its interrupt flag follows
\* from it; a handler runs only when the code it interrupts has no pushcli outstanding.
CpuInv(c) ==
    /\ ncli[c] = Depth(On(c))
    /\ iflag[c] <=> Depth(On(c)) = 0 /\ ~inIntr[c]
    /\ Depth(On(c)) > 0 => (intena[c] <=> ~inIntr[c])
    /\ at[Main(c)] = "cli" /\ have[Main(c)] = {} => eflags[Main(c)]
    /\ at[Intr(c)] = "cli" /\ have[Intr(c)] = {} => ~eflags[Intr(c)]
    /\ ~inIntr[c] => have[Intr(c)] = {} /\ at[Intr(c)] = "run"
    /\ inIntr[c] => have[Main(c)] = {} /\ at[Main(c)] \in {"run", "cli"}

\* lk->cpu names the CPU that has the lock, from the end of acquire to release; a context
\* waits only for a lock above all it has.
OwnerInv ==
    /\ \A x \in Ctx :
          /\ IsFiniteSet(have[x])
          /\ at[x] \in {"cli", "check", "owner", "spin", "mark"} => \A k \in have[x] : k < want[x]
          /\ \A l \in have[x] : Releasing(x, l) \/ lkcpu[l] = x[1]
    /\ \A l \in SLock : lkcpu[l] # NoCpu =>
          \E x \in Ctx : l \in have[x] /\ ~Releasing(x, l) /\ x[1] = lkcpu[l]

\* InterruptsBalanced is not inductive: it says nothing of the interrupted code, of intena
\* and of lk->cpu.
CliInv == SpinInv /\ OwnerInv /\ ~spinPanic /\ \A c \in Cpu : CpuInv(c)

\* The contexts, by CPU.
LEMMA CtxIs ==
    /\ \A c \in Cpu : /\ Main(c) \in Ctx /\ Intr(c) \in Ctx /\ Main(c) # Intr(c)
                      /\ On(c) = IF inIntr[c] THEN Intr(c) ELSE Main(c)
                      /\ On(c) \in Ctx /\ On(c)[1] = c
    /\ \A x \in Ctx : x[1] \in Cpu /\ (x = Main(x[1]) \/ x = Intr(x[1]))
    /\ \A c, d \in Cpu : c # d => {Main(c), Intr(c)} \intersect {Main(d), Intr(d)} = {}
  BY DEF Ctx, Main, Intr, On

\* The nesting depth is a number, zero only for a context with no pushcli outstanding.
LEMMA DepthIs ==
    ASSUME SpinTypeOK, OwnerInv, NEW x \in Ctx
    PROVE  /\ Cardinality(have[x]) \in Nat /\ Depth(x) \in Nat
           /\ Depth(x) = 0 <=> have[x] = {} /\ at[x] \notin Inside
  <1>1. IsFiniteSet(have[x])
    BY Zenon DEF OwnerInv
  <1>2. Cardinality(have[x]) \in Nat /\ (Cardinality(have[x]) = 0 <=> have[x] = {})
    BY <1>1, FS_CardinalityType, FS_EmptySet, Zenon
  <1> QED
    BY <1>2 DEF Depth

\* A context never waits for a lock it has.
LEMMA WaitsAbove ==
    ASSUME SpinTypeOK, OwnerInv, NEW x \in Ctx, at[x] \in {"cli", "check", "owner", "spin", "mark"}
    PROVE  want[x] \notin have[x]
  <1>1. \A k \in have[x] : k < want[x]
    BY Zenon DEF OwnerInv
  <1>2. want[x] \in Int
    BY SpinAssumption, Zenon DEF SpinTypeOK
  <1> QED
    BY <1>1, <1>2

\* At the start no lock is held and interrupts are enabled.
LEMMA CliInit == SpinInit => CliInv
  <1> SUFFICES ASSUME SpinInit PROVE CliInv
    BY Zenon
  <1>1. SpinInv
    BY SpinInitInv, Zenon
  <1>2. IsFiniteSet({}) /\ Cardinality({}) = 0
    BY FS_EmptySet, Zenon
  <1>3. \A x \in Ctx : at[x] = "run" /\ have[x] = {} /\ Depth(x) = 0
    BY <1>2 DEF SpinInit, Depth, Inside
  <1>4. OwnerInv
    BY <1>2, <1>3, SpinAssumption, Zenon DEF OwnerInv, SpinInit
  <1>5. \A c \in Cpu : CpuInv(c)
    BY <1>3, CtxIs DEF CpuInv, SpinInit
  <1> QED
    BY <1>1, <1>4, <1>5, Zenon DEF CliInv, SpinInit

\* A step of one CPU leaves the contexts and the interrupt state of the others alone.
LEMMA OtherCpus ==
    ASSUME SpinTypeOK, NEW c \in Cpu, SpinNextOf(c), NEW d \in Cpu \ {c}, CpuInv(d)
    PROVE  CpuInv(d)'
  <1>1. /\ \A x \in Ctx \ {On(c)} : at'[x] = at[x] /\ have'[x] = have[x] /\ eflags'[x] = eflags[x]
    BY CtxIs DEF SpinTypeOK, SpinNextOf, ReadFlags, pushcli, HoldingWord, HoldingCpu, xchg, SetOwner, ClearOwner, Unlocked,
       popcli, Interrupt, Iret, cpuVars, Goto, Crash
  <1>2. /\ ncli'[d] = ncli[d] /\ iflag'[d] = iflag[d] /\ intena'[d] = intena[d] /\ inIntr'[d] = inIntr[d]
    BY CtxIs DEF SpinTypeOK, SpinNextOf, ReadFlags, pushcli, HoldingWord, HoldingCpu, xchg, SetOwner, ClearOwner, Unlocked,
       popcli, Interrupt, Iret, cpuVars, Goto, Crash
  <1>3. Main(d) \in Ctx \ {On(c)} /\ Intr(d) \in Ctx \ {On(c)} /\ On(d) \in Ctx \ {On(c)}
    BY CtxIs, Zenon
  <1>4. On(d)' = On(d) /\ Main(d)' = Main(d) /\ Intr(d)' = Intr(d)
    BY <1>2, Zenon DEF On, Main, Intr
  <1>5. Depth(On(d))' = Depth(On(d))
    BY <1>1, <1>3, <1>4, Zenon DEF Depth
  <1> QED
    BY <1>1, <1>2, <1>3, <1>4, <1>5, Zenon DEF CpuInv

\* What a step does to the CPU that takes it, other than an interrupt or a return from one:
\* the context it does not run keeps its state.
LEMMA SameContext ==
    ASSUME SpinTypeOK, NEW c \in Cpu, CpuInv(c), UNCHANGED inIntr,
           \A x \in Ctx \ {On(c)} : at'[x] = at[x] /\ have'[x] = have[x] /\ eflags'[x] = eflags[x],
           ncli'[c] = Depth(On(c))', iflag'[c] <=> Depth(On(c))' = 0 /\ ~inIntr[c],
           Depth(On(c))' > 0 => (intena'[c] <=> ~inIntr[c]),
           at'[On(c)] = "cli" /\ have'[On(c)] = {} => (eflags'[On(c)] <=> ~inIntr[c])
    PROVE  CpuInv(c)'
  <1>1. On(c)' = On(c) /\ Main(c)' = Main(c) /\ Intr(c)' = Intr(c)
    BY Zenon DEF On, Main, Intr
  <1>2. CASE inIntr[c]
    <2>1. On(c) = Intr(c) /\ Main(c) \in Ctx \ {On(c)}
      BY <1>2, CtxIs, Zenon
    <2> QED
      BY <1>1, <1>2, <2>1, Zenon DEF CpuInv
  <1>3. CASE ~inIntr[c]
    <2>1. On(c) = Main(c) /\ Intr(c) \in Ctx \ {On(c)}
      BY <1>3, CtxIs
    <2> QED
      BY <1>1, <1>3, <2>1, Zenon DEF CpuInv
  <1> QED
    BY <1>2, <1>3, Zenon

\* The steps of acquire, of release and of the interrupts keep the nesting of their CPU.
LEMMA ThisCpu ==
    ASSUME CliInv, NEW c \in Cpu, SpinNextOf(c)
    PROVE  CpuInv(c)'
  <1>t. SpinTypeOK /\ OwnerInv /\ CpuInv(c)
    BY Zenon DEF CliInv, SpinInv
  <1>x. PICK x \in Ctx : x = On(c)
    BY CtxIs, Zenon
  <1>d. Cardinality(have[x]) \in Nat /\ Depth(x) \in Nat /\ (Depth(x) = 0 <=> have[x] = {} /\ at[x] \notin Inside)
    BY <1>t, DepthIs, Zenon
  <1>n. ncli[c] = Depth(x) /\ (iflag[c] <=> Depth(x) = 0 /\ ~inIntr[c]) /\ (Depth(x) > 0 => (intena[c] <=> ~inIntr[c]))
    BY <1>t, <1>x, Zenon DEF CpuInv
  <1>e. at[x] = "cli" /\ have[x] = {} => (eflags[x] <=> ~inIntr[c])
    BY <1>t, <1>x, CtxIs DEF CpuInv
  <1>b. iflag[c] \in BOOLEAN /\ intena[c] \in BOOLEAN /\ inIntr[c] \in BOOLEAN
    BY <1>t, Zenon DEF SpinTypeOK
  <1>1. CASE ReadFlags(c)
    <2>1. /\ at[x] = "run" /\ at' = [at EXCEPT ![x] = "cli"]
          /\ eflags' = [eflags EXCEPT ![x] = iflag[c]]
          /\ UNCHANGED <<have, ncli, iflag, intena, inIntr>>
      BY <1>1, <1>x, Zenon DEF ReadFlags, Goto, cpuVars
    <2>2. at'[x] = "cli" /\ eflags'[x] = iflag[c] /\ \A y \in Ctx \ {x} : at'[y] = at[y] /\ eflags'[y] = eflags[y]
      BY <1>t, <2>1, Zenon DEF SpinTypeOK
    <2>3. Depth(On(c))' = Depth(x)
      BY <1>x, <2>1, <2>2, Zenon DEF Depth, On, Inside
    <2>4. have[x] = {} => Depth(x) = 0
      BY <1>d, <2>1, Zenon DEF Inside
    <2> QED
      BY <1>t, <1>x, <1>n, <1>b, <2>1, <2>2, <2>3, <2>4, SameContext
  <1>2. CASE pushcli(c)
    <2>1. /\ at[x] = "cli" /\ at' = [at EXCEPT ![x] = "check"]
          /\ iflag' = [iflag EXCEPT ![c] = FALSE] /\ ncli' = [ncli EXCEPT ![c] = @ + 1]
          /\ intena' = IF ncli[c] = 0 THEN [intena EXCEPT ![c] = eflags[x]] ELSE intena
          /\ UNCHANGED <<have, eflags, inIntr>>
      BY <1>2, <1>x, Zenon DEF pushcli, Goto
    <2>2. /\ at'[x] = "check" /\ \A y \in Ctx \ {x} : at'[y] = at[y]
          /\ iflag'[c] = FALSE /\ ncli'[c] = ncli[c] + 1
          /\ intena'[c] = IF ncli[c] = 0 THEN eflags[x] ELSE intena[c]
      BY <1>t, <2>1, Zenon DEF SpinTypeOK
    <2>3. Depth(On(c))' = Depth(x) + 1
      <3>1. On(c)' = x /\ have'[x] = have[x] /\ at[x] \notin Inside /\ at'[x] \in Inside
        BY <1>x, <2>1, <2>2, Zenon DEF On, Inside
      <3> QED
        BY <1>d, <3>1 DEF Depth
    <2>4. intena'[c] <=> ~inIntr[c]
      BY <1>n, <1>e, <1>d, <2>1, <2>2
    <2> QED
      BY <1>t, <1>x, <1>n, <1>d, <2>1, <2>2, <2>3, <2>4, SameContext
  <1>3. CASE HoldingWord(c) \/ HoldingCpu(c) \/ xchg(c)
    <2>1. /\ at[x] \in {"check", "owner", "spin"} /\ at'[x] \in {"owner", "spin", "mark"}
          /\ \A y \in Ctx \ {x} : at'[y] = at[y]
          /\ UNCHANGED <<have, eflags, ncli, iflag, intena, inIntr>>
      BY <1>3, <1>t, <1>x DEF HoldingWord, HoldingCpu, xchg, Goto, Crash, cpuVars, SpinTypeOK
    <2>3. Depth(On(c))' = Depth(x)
      BY <1>x, <1>d, <2>1, Zenon DEF Depth, On, Inside
    <2> QED
      BY <1>t, <1>x, <1>n, <1>d, <2>1, <2>3, SameContext, Zenon
  <1>4. CASE SetOwner(c)
    <2>1. /\ at[x] = "mark" /\ at' = [at EXCEPT ![x] = "run"]
          /\ have' = [have EXCEPT ![x] = @ \union {want[x]}]
          /\ UNCHANGED <<eflags, ncli, iflag, intena, inIntr>>
      BY <1>4, <1>x, Zenon DEF SetOwner, Goto, cpuVars
    <2>2. /\ at'[x] = "run" /\ have'[x] = have[x] \union {want[x]}
          /\ \A y \in Ctx \ {x} : at'[y] = at[y] /\ have'[y] = have[y]
      BY <1>t, <2>1, Zenon DEF SpinTypeOK
    <2>3. want[x] \notin have[x] /\ IsFiniteSet(have[x])
      <3>1. want[x] \notin have[x]
        BY <1>t, <2>1, WaitsAbove, Zenon
      <3>2. IsFiniteSet(have[x])
        BY <1>t, Zenon DEF OwnerInv
      <3> QED
        BY <3>1, <3>2, Zenon
    <2>4. Cardinality(have'[x]) = Cardinality(have[x]) + 1
      BY <2>2, <2>3, FS_AddElement, Zenon
    <2>5. Depth(On(c))' = Depth(x)
      BY <1>x, <1>d, <2>1, <2>2, <2>4 DEF Depth, On, Inside
    <2> QED
      BY <1>t, <1>x, <1>n, <1>d, <2>1, <2>2, <2>5, SameContext
  <1>5. CASE ClearOwner(c)
    <2>1. /\ at[x] = "run" /\ at'[x] \in {"run", "free"}
          /\ \A y \in Ctx \ {x} : at'[y] = at[y]
          /\ UNCHANGED <<have, eflags, ncli, iflag, intena, inIntr>>
      BY <1>5, <1>t, <1>x DEF ClearOwner, Goto, Crash, cpuVars, SpinTypeOK
    <2>3. Depth(On(c))' = Depth(x)
      BY <1>x, <1>d, <2>1, Zenon DEF Depth, On, Inside
    <2> QED
      BY <1>t, <1>x, <1>n, <1>d, <2>1, <2>3, SameContext
  <1>6. CASE Unlocked(c)
    <2>1. /\ at[x] = "free" /\ at' = [at EXCEPT ![x] = "pop"]
          /\ have' = [have EXCEPT ![x] = @ \ {want[x]}]
          /\ UNCHANGED <<eflags, ncli, iflag, intena, inIntr>>
      BY <1>6, <1>x, Zenon DEF Unlocked, Goto, cpuVars
    <2>2. /\ at'[x] = "pop" /\ have'[x] = have[x] \ {want[x]}
          /\ \A y \in Ctx \ {x} : at'[y] = at[y] /\ have'[y] = have[y]
      BY <1>t, <2>1, Zenon DEF SpinTypeOK
    <2>3. want[x] \in have[x] /\ IsFiniteSet(have[x])
      BY <1>t, <2>1, Zenon DEF OwnerInv, CliInv, SpinInv
    <2>4. Cardinality(have'[x]) = Cardinality(have[x]) - 1
      BY <2>2, <2>3, FS_RemoveElement, Zenon
    <2>5. Depth(On(c))' = Depth(x)
      BY <1>x, <1>d, <2>1, <2>2, <2>4 DEF Depth, On, Inside
    <2> QED
      BY <1>t, <1>x, <1>n, <1>d, <2>1, <2>2, <2>5, SameContext
  <1>7. CASE popcli(c)
    <2>1. at[x] = "pop" /\ Depth(x) > 0 /\ ~iflag[c] /\ ~(ncli[c] < 1)
      BY <1>7, <1>x, <1>n, <1>d DEF popcli, Inside
    <2>2. /\ at' = [at EXCEPT ![x] = "run"]
          /\ ncli' = [ncli EXCEPT ![c] = @ - 1] /\ iflag' = [iflag EXCEPT ![c] = Sti(c)]
          /\ UNCHANGED <<have, eflags, intena, inIntr>>
      BY <1>7, <1>x, <2>1, Zenon DEF popcli, Goto
    <2>3. /\ at'[x] = "run" /\ \A y \in Ctx \ {x} : at'[y] = at[y]
          /\ ncli'[c] = ncli[c] - 1 /\ iflag'[c] = Sti(c)
      BY <1>t, <2>2, Zenon DEF SpinTypeOK
    <2>4. Depth(On(c))' = Depth(x) - 1
      BY <1>x, <1>d, <2>1, <2>2, <2>3 DEF Depth, On, Inside
    <2>5. Sti(c) <=> Depth(x) - 1 = 0 /\ ~inIntr[c]
      BY <1>n, <1>d, <2>1 DEF Sti
    <2>6. iflag'[c] <=> Depth(x) - 1 = 0 /\ ~inIntr[c]
      BY <2>3, <2>5, Zenon
    <2> QED
      BY <1>t, <1>x, <1>n, <1>d, <2>1, <2>2, <2>3, <2>4, <2>6, SameContext
  <1>8. CASE Interrupt(c)
    <2>1. /\ iflag[c] /\ ~inIntr[c] /\ inIntr'[c] /\ ~iflag'[c]
          /\ UNCHANGED <<ncli, intena, at, want, eflags, have>>
      BY <1>8, <1>t, Zenon DEF Interrupt, SpinTypeOK
    <2>2. x = Main(c) /\ On(c)' = Intr(c) /\ Intr(c) \in Ctx
      BY <1>x, <2>1, CtxIs, Zenon DEF On, Intr
    <2>3. have[x] = {} /\ at[x] \notin Inside /\ ncli[c] = 0
      BY <1>n, <1>d, <2>1, Zenon
    <2>4. at[x] # "free"
      BY <2>3, <1>t, Zenon DEF CliInv, SpinInv
    <2>5. at[x] \in {"run", "cli"}
      BY <1>t, <2>3, <2>4, Zenon DEF SpinTypeOK, Places, Inside
    <2>6. have[Intr(c)] = {} /\ at[Intr(c)] = "run"
      BY <1>t, <2>1, Zenon DEF CpuInv
    <2>7. Depth(On(c))' = 0
      BY <2>1, <2>2, <2>6, FS_EmptySet DEF Depth, Inside
    <2> QED
      BY <1>t, <2>1, <2>2, <2>3, <2>5, <2>6, <2>7 DEF CpuInv, Main, Intr
  <1>9. CASE Iret(c)
    <2>1. /\ inIntr[c] /\ ~inIntr'[c] /\ iflag'[c] /\ at[x] = "run" /\ have[x] = {}
          /\ UNCHANGED <<ncli, intena, at, want, eflags, have>>
      BY <1>9, <1>t, <1>x, Zenon DEF Iret, SpinTypeOK
    <2>2. x = Intr(c) /\ On(c)' = Main(c) /\ Main(c) \in Ctx
      BY <1>x, <2>1, CtxIs, Zenon DEF On, Main
    <2>3. have[Main(c)] = {} /\ at[Main(c)] \in {"run", "cli"}
      BY <1>t, <2>1, Zenon DEF CpuInv
    <2>4. Depth(On(c))' = 0 /\ ncli[c] = 0
      BY <1>n, <1>d, <2>1, <2>2, <2>3, FS_EmptySet, Zenon DEF Depth, Inside
    <2> QED
      BY <1>t, <2>1, <2>2, <2>3, <2>4 DEF CpuInv, Main, Intr
  <1> QED
    BY <1>1, <1>2, <1>3, <1>4, <1>5, <1>6, <1>7, <1>8, <1>9 DEF SpinNextOf

\* lk->cpu follows the lock, and the order of the locks is kept.
LEMMA OwnerStep ==
    ASSUME CliInv, SpinInv', NEW c \in Cpu, SpinNextOf(c)
    PROVE  OwnerInv'
  <1>t. SpinTypeOK /\ OwnerInv /\ SpinInv /\ SpinTypeOK'
    BY Zenon DEF CliInv, SpinInv
  <1>x. PICK x \in Ctx : x = On(c) /\ x[1] = c
    BY CtxIs, Zenon
  <1>1. CASE ReadFlags(c)
    <2>1. PICK l \in SLock : /\ \A k \in have[x] : k < l
                             /\ want' = [want EXCEPT ![x] = l]
      BY <1>1, <1>x, SpinAssumption, Zenon DEF ReadFlags
    <2>2. /\ at[x] = "run" /\ at' = [at EXCEPT ![x] = "cli"] /\ UNCHANGED <<have, lkcpu>>
      BY <1>1, <1>x, Zenon DEF ReadFlags, Goto
    <2>3. /\ at'[x] = "cli" /\ want'[x] = l
          /\ \A y \in Ctx \ {x} : at'[y] = at[y] /\ want'[y] = want[y]
      BY <1>t, <2>1, <2>2, Zenon DEF SpinTypeOK
    <2>4. \A y \in Ctx, k \in SLock : Releasing(y, k)' <=> Releasing(y, k)
      BY <2>2, <2>3, Zenon DEF Releasing
    <2>5. \A y \in Ctx : have[y] \subseteq SLock
      BY <1>t, Zenon DEF SpinTypeOK
    <2> QED
      BY <1>t, <2>1, <2>2, <2>3, <2>4, <2>5 DEF OwnerInv
  <1>2. CASE pushcli(c) \/ HoldingWord(c) \/ HoldingCpu(c) \/ xchg(c) \/ popcli(c) \/ Interrupt(c) \/ Iret(c)
    <2>1. /\ UNCHANGED <<have, lkcpu, want>>
          /\ \A y \in Ctx \ {x} : at'[y] = at[y]
          /\ \/ at'[x] = at[x]
             \/ at[x] \in {"cli", "check", "owner", "spin"} /\ at'[x] \in {"check", "owner", "spin", "mark"}
             \/ at[x] = "pop" /\ at'[x] = "run"
      BY <1>2, <1>t, <1>x DEF pushcli, HoldingWord, HoldingCpu, xchg, popcli, Interrupt, Iret, Goto, Crash, cpuVars, SpinTypeOK
    <2>2. \A y \in Ctx : \A k : Releasing(y, k)' <=> Releasing(y, k)
      BY <2>1, Zenon DEF Releasing
    <2> QED
      BY <1>t, <2>1, <2>2 DEF OwnerInv
  <1>3. CASE SetOwner(c)
    <2>1. PICK l \in SLock : l = want[x]
      BY <1>t, Zenon DEF SpinTypeOK
    <2>2. /\ at[x] = "mark" /\ at' = [at EXCEPT ![x] = "run"]
          /\ lkcpu' = [lkcpu EXCEPT ![l] = c]
          /\ have' = [have EXCEPT ![x] = @ \union {l}] /\ want' = want
      BY <1>3, <1>x, <2>1, Zenon DEF SetOwner, Goto
    <2>3. /\ at'[x] = "run" /\ have'[x] = have[x] \union {l} /\ lkcpu'[l] = c
          /\ \A y \in Ctx \ {x} : at'[y] = at[y] /\ have'[y] = have[y]
          /\ \A k \in SLock \ {l} : lkcpu'[k] = lkcpu[k]
      BY <1>t, <2>2 DEF SpinTypeOK
    <2>4. \A y \in Ctx : l \notin have[y]
      <3>1. \A y \in Ctx \ {x} : l \notin have[y]
        BY <1>t, <2>1, <2>2, Zenon DEF SpinInv, Owns
      <3>2. l \notin have[x]
        BY <1>t, <2>1, <2>2, WaitsAbove, Zenon
      <3> QED
        BY <3>1, <3>2, Zenon
    <2>5. \A y \in Ctx : \A k : Releasing(y, k)' <=> Releasing(y, k)
      BY <2>2, <2>3, Zenon DEF Releasing
    <2>6. \A y \in Ctx : IsFiniteSet(have'[y])
      <3>1. \A y \in Ctx : IsFiniteSet(have[y])
        BY <1>t, Zenon DEF OwnerInv
      <3>2. IsFiniteSet(have[x] \union {l})
        BY <3>1, FS_AddElement, Zenon
      <3> QED
        BY <2>3, <3>1, <3>2, Zenon
    <2>7. \A y \in Ctx : at'[y] \in {"cli", "check", "owner", "spin", "mark"} => \A k \in have'[y] : k < want'[y]
      BY <1>t, <2>2, <2>3 DEF OwnerInv
    <2>8. \A y \in Ctx : \A k \in have'[y] : Releasing(y, k)' \/ lkcpu'[k] = y[1]
      BY <1>t, <1>x, <2>3, <2>4, <2>5 DEF OwnerInv, SpinTypeOK
    <2>9. ~Releasing(x, l)'
      BY <2>3, Zenon DEF Releasing
    <2>10. \A k \in SLock : lkcpu'[k] # NoCpu =>
             \E y \in Ctx : k \in have'[y] /\ ~Releasing(y, k)' /\ y[1] = lkcpu'[k]
      <3>1. ASSUME NEW k \in SLock \ {l}, lkcpu'[k] # NoCpu
            PROVE  \E y \in Ctx : k \in have'[y] /\ ~Releasing(y, k)' /\ y[1] = lkcpu'[k]
        <4>1. PICK y \in Ctx : k \in have[y] /\ ~Releasing(y, k) /\ y[1] = lkcpu[k]
          BY <1>t, <2>3, <3>1, Zenon DEF OwnerInv
        <4> QED
          BY <2>3, <2>5, <4>1, Zenon
      <3> QED
        BY <1>x, <2>3, <2>9, <3>1, Zenon
    <2> QED
      BY <2>6, <2>7, <2>8, <2>10, Zenon DEF OwnerInv
  <1>4. CASE ClearOwner(c)
    <2>1. PICK l \in have[x] :
            /\ want' = [want EXCEPT ![x] = l]
            /\ \/ /\ lkcpu' = [lkcpu EXCEPT ![l] = NoCpu] /\ at' = [at EXCEPT ![x] = "free"]
               \/ UNCHANGED <<lkcpu, at>>
      BY <1>4, <1>x, Zenon DEF ClearOwner, Goto
    <2>2. at[x] = "run" /\ have' = have /\ l \in SLock
      BY <1>4, <1>x, <1>t, Zenon DEF ClearOwner, SpinTypeOK
    <2>3. want'[x] = l /\ \A y \in Ctx \ {x} : want'[y] = want[y]
      BY <1>t, <2>1, Zenon DEF SpinTypeOK
    <2>4. \A y \in Ctx \ {x} : l \notin have[y]
      BY <1>t, <2>2, Zenon DEF SpinInv, Owns
    <2>5. CASE lkcpu' = [lkcpu EXCEPT ![l] = NoCpu] /\ at' = [at EXCEPT ![x] = "free"]
      <3>1. /\ at'[x] = "free" /\ lkcpu'[l] = NoCpu
            /\ \A y \in Ctx \ {x} : at'[y] = at[y]
            /\ \A k \in SLock \ {l} : lkcpu'[k] = lkcpu[k]
        BY <1>t, <2>2, <2>5, Zenon DEF SpinTypeOK
      <3>2. \A y \in Ctx : \A k : Releasing(y, k)' <=> Releasing(y, k) \/ (y = x /\ k = l)
        BY <2>2, <2>3, <3>1, Zenon DEF Releasing
      <3>3. \A y \in Ctx : \A k \in have'[y] : Releasing(y, k)' \/ lkcpu'[k] = y[1]
        BY <1>t, <2>2, <2>4, <3>1, <3>2 DEF OwnerInv, SpinTypeOK
      <3>4. \A y \in Ctx : at'[y] \in {"cli", "check", "owner", "spin", "mark"} => \A k \in have'[y] : k < want'[y]
        BY <1>t, <2>2, <2>3, <3>1, Zenon DEF OwnerInv
      <3>5. \A k \in SLock : lkcpu'[k] # NoCpu =>
             \E y \in Ctx : k \in have'[y] /\ ~Releasing(y, k)' /\ y[1] = lkcpu'[k]
        <4> SUFFICES ASSUME NEW k \in SLock, lkcpu'[k] # NoCpu
                     PROVE  \E y \in Ctx : k \in have'[y] /\ ~Releasing(y, k)' /\ y[1] = lkcpu'[k]
          BY Zenon
        <4>1. k # l /\ lkcpu'[k] = lkcpu[k]
          BY <3>1, Zenon
        <4>2. PICK y \in Ctx : k \in have[y] /\ ~Releasing(y, k) /\ y[1] = lkcpu[k]
          BY <1>t, <4>1, Zenon DEF OwnerInv
        <4> QED
          BY <2>2, <3>2, <4>1, <4>2
      <3> QED
        BY <1>t, <2>2, <3>3, <3>4, <3>5, Zenon DEF OwnerInv
    <2>6. CASE UNCHANGED <<lkcpu, at>>
      <3>1. \A y \in Ctx : \A k : Releasing(y, k)' <=> Releasing(y, k)
        BY <2>2, <2>3, <2>6, Zenon DEF Releasing
      <3> QED
        BY <1>t, <2>2, <2>3, <2>6, <3>1 DEF OwnerInv
    <2> QED
      BY <2>1, <2>5, <2>6, Zenon
  <1>5. CASE Unlocked(c)
    <2>1. PICK l \in SLock : l = want[x]
      BY <1>t, Zenon DEF SpinTypeOK
    <2>2. /\ at[x] = "free" /\ at' = [at EXCEPT ![x] = "pop"]
          /\ have' = [have EXCEPT ![x] = @ \ {l}] /\ UNCHANGED <<want, lkcpu>>
      BY <1>5, <1>x, <2>1, Zenon DEF Unlocked, Goto
    <2>3. /\ at'[x] = "pop" /\ have'[x] = have[x] \ {l}
          /\ \A y \in Ctx \ {x} : at'[y] = at[y] /\ have'[y] = have[y]
      BY <1>t, <2>2 DEF SpinTypeOK
    <2>4. \A y \in Ctx : \A k : Releasing(y, k) <=> Releasing(y, k)' \/ (y = x /\ k = l)
      BY <2>1, <2>2, <2>3, Zenon DEF Releasing
    <2>5. \A y \in Ctx : IsFiniteSet(have'[y])
      <3>1. \A y \in Ctx : IsFiniteSet(have[y])
        BY <1>t, Zenon DEF OwnerInv
      <3>2. IsFiniteSet(have[x] \ {l})
        BY <3>1, FS_RemoveElement, Zenon
      <3> QED
        BY <2>3, <3>1, <3>2, Zenon
    <2>6. \A y \in Ctx : at'[y] \in {"cli", "check", "owner", "spin", "mark"} => \A k \in have'[y] : k < want'[y]
      BY <1>t, <2>2, <2>3, Zenon DEF OwnerInv
    <2>7. \A y \in Ctx : \A k \in have'[y] : Releasing(y, k)' \/ lkcpu'[k] = y[1]
      BY <1>t, <2>2, <2>3, <2>4 DEF OwnerInv
    <2>8. \A k \in SLock : lkcpu'[k] # NoCpu =>
             \E y \in Ctx : k \in have'[y] /\ ~Releasing(y, k)' /\ y[1] = lkcpu'[k]
      <3>1. ASSUME NEW k \in SLock, lkcpu'[k] # NoCpu
            PROVE  \E y \in Ctx : k \in have'[y] /\ ~Releasing(y, k)' /\ y[1] = lkcpu'[k]
        <4>1. PICK y \in Ctx : k \in have[y] /\ ~Releasing(y, k) /\ y[1] = lkcpu[k]
          BY <1>t, <2>2, <3>1, Zenon DEF OwnerInv
        <4>2. k \in have'[y]
          BY <2>3, <2>4, <4>1, Zenon
        <4> QED
          BY <2>2, <2>4, <4>1, <4>2, Zenon
      <3> QED
        BY <3>1, Zenon
    <2> QED
      BY <2>5, <2>6, <2>7, <2>8, Zenon DEF OwnerInv
  <1> QED
    BY <1>1, <1>2, <1>3, <1>4, <1>5, Zenon DEF SpinNextOf

\* acquire finds no lock that its own CPU has, release finds the lock its own, and popcli
\* finds interrupts disabled and the count positive.
LEMMA NoSpinPanic ==
    ASSUME CliInv, NEW c \in Cpu, SpinNextOf(c)
    PROVE  ~spinPanic'
  <1>t. SpinTypeOK /\ OwnerInv /\ SpinInv /\ CpuInv(c) /\ ~spinPanic
    BY Zenon DEF CliInv, SpinInv
  <1>x. PICK x \in Ctx : x = On(c) /\ x[1] = c
    BY CtxIs, Zenon
  <1>o. \A y \in Ctx \ {x} : y[1] = c => have[y] = {}
    BY <1>t, <1>x, CtxIs DEF CpuInv
  <1>1. CASE HoldingCpu(c)
    <2>1. at[x] = "owner" /\ want[x] \in SLock
      BY <1>1, <1>x, <1>t, Zenon DEF HoldingCpu, SpinTypeOK
    <2>2. want[x] \notin have[x]
      BY <1>t, <2>1, WaitsAbove, Zenon
    <2>3. lkcpu[want[x]] # c
      <3>1. SUFFICES ASSUME lkcpu[want[x]] = c PROVE FALSE
        BY Zenon
      <3>2. PICK y \in Ctx : want[x] \in have[y] /\ y[1] = c
        BY <1>t, <2>1, <3>1, SpinAssumption, Zenon DEF OwnerInv
      <3> QED
        BY <1>o, <2>2, <3>2, Zenon
    <2> QED
      BY <1>1, <1>t, <1>x, <2>3, Zenon DEF HoldingCpu
  <1>2. CASE ClearOwner(c)
    <2>1. at[x] = "run"
      BY <1>2, <1>x, Zenon DEF ClearOwner
    <2>2. \A l \in have[x] : lkcpu[l] = c
      BY <1>t, <1>x, <2>1, Zenon DEF OwnerInv, Releasing
    <2>3. \A l \in have[x] : locked[l]
      BY <1>t DEF SpinInv, Owns, SpinTypeOK
    <2> QED
      BY <1>2, <1>t, <1>x, <2>2, <2>3, Zenon DEF ClearOwner
  <1>3. CASE popcli(c)
    <2>1. at[x] = "pop" /\ Depth(x) \in Nat /\ (Depth(x) = 0 <=> have[x] = {} /\ at[x] \notin Inside)
      BY <1>3, <1>t, <1>x, DepthIs, Zenon DEF popcli
    <2>2. Depth(x) > 0
      BY <2>1 DEF Inside
    <2>3. ~iflag[c] /\ ~(ncli[c] < 1)
      BY <1>t, <1>x, <2>1, <2>2 DEF CpuInv
    <2> QED
      BY <1>3, <1>t, <2>3, Zenon DEF popcli
  <1>4. CASE ReadFlags(c) \/ pushcli(c) \/ HoldingWord(c) \/ xchg(c) \/ SetOwner(c) \/ Unlocked(c)
             \/ Interrupt(c) \/ Iret(c)
    BY <1>4, <1>t, Zenon DEF ReadFlags, pushcli, HoldingWord, xchg, SetOwner, Unlocked, Interrupt, Iret
  <1> QED
    BY <1>1, <1>2, <1>3, <1>4, Zenon DEF SpinNextOf

\* The invariant of the interrupts.
THEOREM CliInvariant == SpinSpec => []CliInv
  <1>1. CliInv /\ [SpinNext]_spinVars => CliInv'
    <2> SUFFICES ASSUME CliInv, [SpinNext]_spinVars PROVE CliInv'
      BY Zenon
    <2>1. ASSUME NEW c \in Cpu, SpinNextOf(c) PROVE CliInv'
      <3>1. SpinInv' /\ SpinTypeOK
        BY <2>1, SpinOwnerStep DEF CliInv, SpinInv
      <3>2. OwnerInv' /\ ~spinPanic' /\ CpuInv(c)'
        BY <2>1, <3>1, OwnerStep, NoSpinPanic, ThisCpu, Zenon
      <3>3. \A d \in Cpu \ {c} : CpuInv(d)'
        BY <2>1, <3>1, OtherCpus DEF CliInv
      <3> QED
        BY <3>1, <3>2, <3>3, Zenon DEF CliInv
    <2>2. CASE UNCHANGED spinVars
      <3>1. SpinInv' /\ ~spinPanic'
        BY <2>2 DEF CliInv, SpinInv, SpinTypeOK, Owns, spinVars
      <3>2. OwnerInv'
        BY <2>2, Zenon DEF CliInv, OwnerInv, Releasing, spinVars
      <3>3. ASSUME NEW c \in Cpu PROVE CpuInv(c)'
        <4>1. On(c)' = On(c) /\ Main(c)' = Main(c) /\ Intr(c)' = Intr(c) /\ CpuInv(c)
          BY <2>2 DEF On, Main, Intr, spinVars, CliInv
        <4>2. Depth(On(c))' = Depth(On(c))
          BY <2>2, <4>1 DEF Depth, spinVars
        <4> QED
          BY <2>2, <4>1, <4>2, Zenon DEF CpuInv, spinVars
      <3> QED
        BY <3>1, <3>2, <3>3, Zenon DEF CliInv
    <2> QED
      BY <2>1, <2>2 DEF SpinNext
  <1> QED
    BY <1>1, CliInit, PTL DEF SpinSpec

\* pushcli and popcli are matched on every CPU, however deep acquires nest and wherever
\* interrupts come: no CPU with a lock takes an interrupt, a CPU without one has the interrupt
\* flag it had before, and no panic of acquire, release or popcli is reached.
THEOREM SpinBalanced == SpinSpec => []InterruptsBalanced
  <1>1. CliInv => InterruptsBalanced
    <2> SUFFICES ASSUME CliInv PROVE InterruptsBalanced
      BY Zenon
    <2>t. SpinTypeOK /\ OwnerInv /\ ~spinPanic
      BY Zenon DEF CliInv, SpinInv
    <2>1. ASSUME NEW c \in Cpu
          PROVE  /\ have[On(c)] # {} \/ at[On(c)] \notin {"run", "cli"} => ~iflag[c]
                 /\ have[On(c)] = {} /\ at[On(c)] = "run" => ncli[c] = 0 /\ iflag[c] = ~inIntr[c]
                 /\ at[On(c)] = "spin" => \A y \in {c} \X {"main", "intr"} : want[On(c)] \notin have[y]
      <3>x. PICK x \in Ctx : x = On(c) /\ x[1] = c
        BY CtxIs, Zenon
      <3>c. CpuInv(c)
        BY Zenon DEF CliInv
      <3>d. Depth(x) \in Nat /\ (Depth(x) = 0 <=> have[x] = {} /\ at[x] \notin Inside)
        BY <2>t, DepthIs
      <3>1. have[x] # {} \/ at[x] \notin {"run", "cli"} => ~iflag[c]
        <4>1. at[x] = "free" => have[x] # {}
          BY Zenon DEF CliInv, SpinInv
        <4>2. have[x] # {} \/ at[x] \notin {"run", "cli"} => Depth(x) # 0
          BY <2>t, <3>d, <4>1, Zenon DEF SpinTypeOK, Places, Inside
        <4> QED
          BY <3>x, <3>c, <4>2 DEF CpuInv
      <3>2. have[x] = {} /\ at[x] = "run" => ncli[c] = 0 /\ (iflag[c] <=> ~inIntr[c])
        BY <3>x, <3>c, <3>d, Zenon DEF CpuInv, Inside
      <3>3. (iflag[c] <=> ~inIntr[c]) => iflag[c] = ~inIntr[c]
        BY <2>t, Zenon DEF SpinTypeOK
      <3>4. at[x] = "spin" => \A y \in {c} \X {"main", "intr"} : want[x] \notin have[y]
        <4>1. SUFFICES ASSUME at[x] = "spin", NEW y \in {c} \X {"main", "intr"}
                       PROVE  want[x] \notin have[y]
          BY Zenon
        <4>2. want[x] \notin have[x]
          BY <2>t, <4>1, WaitsAbove, Zenon
        <4>3. y \in Ctx /\ y[1] = c
          BY <4>1, Zenon DEF Ctx
        <4>4. y # x => have[y] = {}
          BY <3>x, <3>c, <4>3, CtxIs DEF CpuInv
        <4> QED
          BY <4>2, <4>4, Zenon
      <3> QED
        BY <3>x, <3>1, <3>2, <3>3, <3>4
    <2> QED
      BY <2>t, <2>1 DEF InterruptsBalanced
  <1> QED
    BY <1>1, CliInvariant, PTL
=============================================================================
