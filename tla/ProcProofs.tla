----------------------------- MODULE ProcProofs -----------------------------
(***************************************************************************)
(* Proofs about Proc, for any number of slots and of CPUs: lemmas about    *)
(* its operators and the classes its steps fall into, the inductive        *)
(* invariant of the process table and the scheduler, and the safety        *)
(* properties that follow from it.                                         *)
(***************************************************************************)
EXTENDS Proc, WellFoundedInduction, TLAPS

(* A scan that stops at the first slot of a set finds a member of it. *)
LEMMA FirstMember ==
  ASSUME NEW S \in SUBSET Procs, S # {}
  PROVE  First(S) \in S
<1>1. S \subseteq Nat
  BY ProcAssumption DEF Procs
<1>2. \E x \in S : \A y \in S : ~(<<y, x>> \in OpToRel(<, Nat))
  BY <1>1, NatLessThanWellFounded, WFMin, Zenon
<1>3. PICK x \in S : \A y \in S : ~(<<y, x>> \in OpToRel(<, Nat))
  BY <1>2, Zenon
<1>4. \A y \in S : x <= y
  <2> SUFFICES ASSUME NEW y \in S PROVE x <= y
    BY Zenon
  <2>1. x \in Nat /\ y \in Nat
    BY <1>1, Zenon
  <2>2. ~(y < x)
    BY <1>3, <2>1, Zenon DEF OpToRel
  <2> QED BY <2>1, <2>2
<1> QED BY <1>4, Zenon DEF First

(* Every increment allocproc computes is between 1 and STRIDE1. *)
LEMMA PassoRange ==
  ASSUME NEW t \in Int
  PROVE  Passo(t) \in 1..STRIDE1
<1>1. Tickets(t) \in Nat \ {0} /\ Tickets(t) <= STRIDE1
  BY ProcAssumption DEF Tickets
<1> DEFINE d == Tickets(t)
<1>2. d \in Nat \ {0} /\ d <= STRIDE1 /\ STRIDE1 \in Nat
  BY <1>1, ProcAssumption, Zenon
<1> HIDE DEF d
<1>3. STRIDE1 \div d \in 1..STRIDE1
  BY <1>2, SMT
<1> QED BY <1>3, Zenon DEF Passo, d

(* The wrapped sum is an int. *)
LEMMA AddIntRange ==
  ASSUME NEW a \in Ints, NEW b \in 0..STRIDE1
  PROVE  AddInt(a, b) \in Ints
BY ProcAssumption DEF AddInt, Ints

(* The null pointer is no slot, &ticks is no slot, and so on. *)
LEMMA Distinct ==
  /\ NoProc \notin Procs /\ Junk \notin Procs /\ TICKS \notin Procs
  /\ initproc \in Procs /\ 0 \in CPU /\ Free \notin CPU
  /\ 0 \in Ints
BY ProcAssumption
   DEF NoProc, Procs, Junk, TICKS, initproc, CPU, Free, Ints

-----------------------------------------------------------------------------
(* Classes of steps.  What an invariant needs to know of most actions is   *)
(* the same, so it is proved once here.                                    *)

(* Nothing that a process owns changes. *)
Still == UNCHANGED <<procVars, memVars, flowVars, cur, nextpid>>

(* The clock: sleepers on &ticks wake up. *)
Tick ==
  /\ state' = Wakeup1(state, TICKS)
  /\ UNCHANGED <<pid, parent, chan, killed, passo, passada, memVars, flowVars,
                 cur, nextpid>>

MayDie(p) == killed' = killed \/ killed' = [killed EXCEPT ![p] = TRUE]

(* Process p, on CPU c and outside fork, goes on to o; it may be marked as *)
(* killed, and it may enter or leave wait() with ptable.lock.              *)
OpMove(c, p, o) ==
  /\ cur[c] = p /\ spc[c] \in {"run", "trap"}
  /\ op[p] \notin Forking /\ o \in Ops \ Forking
  /\ op' = [op EXCEPT ![p] = o] /\ (o = "exit" => p # initproc \/ op[p] = "exit")
  /\ MayDie(p)
  /\ spc' = spc \/ spc' = [spc EXCEPT ![c] = "run"]
  /\ \/ ptlock' = ptlock /\ op[p] # "wait" /\ o # "wait"
     \/ ptlock = Free /\ ptlock' = c /\ spc' = spc /\ spc[c] = "run" /\ o = "wait"
     \/ op[p] = "wait" /\ spc[c] = "run" /\ spc' = spc /\ ptlock' = Free /\ o = "user"
  /\ panic' \in {panic, "init exiting"}
  /\ UNCHANGED <<state, pid, parent, chan, passo, passada, memVars, ctx, child,
                 scanVars, cur, nextpid>>

(* fork takes slot np. *)
AllocMove(c, p, np, t) ==
  /\ cur[c] = p /\ spc[c] = "run" /\ op[p] = "sys" /\ ptlock = Free
  /\ state[np] = "UNUSED" /\ state' = [state EXCEPT ![np] = "EMBRYO"]
  /\ pid' = [pid EXCEPT ![np] = nextpid] /\ nextpid' = nextpid + 1
  /\ passo' = [passo EXCEPT ![np] = Passo(t)]
  /\ passada' = [passada EXCEPT ![np] = 0]
  /\ child' = [child EXCEPT ![p] = np]
  /\ op' = [op EXCEPT ![p] = "fork"]
  /\ UNCHANGED <<parent, chan, killed, memVars, ctx, scanVars, cpuVars, panic>>

(* wait frees the zombie z. *)
ReapMove(c, p, z) ==
  /\ cur[c] = p /\ spc[c] = "run" /\ op[p] = "wait"
  /\ parent[z] = p /\ state[z] = "ZOMBIE"
  /\ state' = [state EXCEPT ![z] = "UNUSED"]
  /\ kstack' = [kstack EXCEPT ![z] = FALSE] /\ pgdir' = [pgdir EXCEPT ![z] = "freed"]
  /\ pid' = [pid EXCEPT ![z] = 0] /\ parent' = [parent EXCEPT ![z] = NoProc]
  /\ killed' = [killed EXCEPT ![z] = FALSE]
  /\ ptlock' = Free /\ op' = [op EXCEPT ![p] = "user"]
  /\ UNCHANGED <<chan, passo, passada, ctx, child, scanVars, cur, spc, nextpid, panic>>

(* kill marks slot q. *)
KillMove(c, p, q) ==
  /\ cur[c] = p /\ spc[c] = "run" /\ op[p] = "sys" /\ ptlock = Free
  /\ killed' = [killed EXCEPT ![q] = TRUE] /\ state' = KillWakes(q)
  /\ op' = [op EXCEPT ![p] = "user"]
  /\ UNCHANGED <<pid, parent, chan, passo, passada, memVars, ctx, child, scanVars,
                 cpuVars, nextpid, panic>>

OpAction(c, p) ==
  \/ TrapExit(c, p) \/ Fault(c, p) \/ Syscall(c, p) \/ ExitCall(c, p)
  \/ WaitEnter(c, p) \/ WaitFail(c, p)
  \/ SleepEnter(c, p) \/ SleepReturn(c, p) \/ SleepCheck(c, p)

(* The steps in which a process changes hands, a state or an owner. *)
Move(c, p) ==
  \/ \E o \in Ops : OpMove(c, p, o)
  \/ \E np \in Procs, t \in TicketArgs : AllocMove(c, p, np, t)
  \/ ForkStack(c, p) \/ ForkCopy(c, p) \/ ForkPublish(c, p)
  \/ ExitFinish(c, p) \/ TrapYield(c, p)
  \/ \E z \in Procs : ReapMove(c, p, z)
  \/ WaitSleep(c, p) \/ SleepTicks(c, p)
  \/ \E q \in Procs : KillMove(c, p, q)

(* The steps of a scheduler that has no process, and of the clock. *)
Turn ==
  \/ \E c \in CPU : SchedAcquire(c) \/ SchedScan(c) \/ SchedIdle(c) \/ SchedWild(c)
  \/ TimerIdle
  \/ \E c \in CPU, p \in Procs : TimerIntr(c, p)
  \/ UNCHANGED vars

(* A turn of a scheduler changes no process; the clock only wakes some. *)
LEMMA TurnCases ==
  ASSUME Turn
  PROVE  Still \/ Tick
<1>1. ASSUME NEW c \in CPU, SchedAcquire(c) PROVE Still
  BY <1>1, Zenon DEF SchedAcquire, Still
<1>2. ASSUME NEW c \in CPU, SchedScan(c) PROVE Still
  BY <1>2, Zenon DEF SchedScan, cpuVars, Still
<1>3. ASSUME NEW c \in CPU, SchedIdle(c) PROVE Still
  BY <1>3, Zenon DEF SchedIdle, Still
<1>4. ASSUME NEW c \in CPU, SchedWild(c) PROVE Still
  BY <1>4, Zenon DEF SchedWild, cpuVars, Still
<1>5. CASE TimerIdle
  BY <1>5, Zenon DEF TimerIdle, cpuVars, Tick
<1>6. ASSUME NEW c \in CPU, NEW p \in Procs, TimerIntr(c, p) PROVE Still \/ Tick
  BY <1>6, Zenon DEF TimerIntr, procVars, Still, Tick
<1>7. CASE UNCHANGED vars
  BY <1>7, Zenon DEF vars, cpuVars, Still
<1> QED BY <1>1, <1>2, <1>3, <1>4, <1>5, <1>6, <1>7, Zenon DEF Turn

(* The steps that only take a process from one place to the next. *)
LEMMA OpCases ==
  ASSUME op \in [Procs -> Ops], NEW c \in CPU, NEW p \in Procs, OpAction(c, p)
  PROVE  \E o \in Ops : OpMove(c, p, o)
<1> USE DEF Ops, Forking
<1>1. op' = op => op' = [op EXCEPT ![p] = op[p]]
  BY Zenon
<1>2. CASE TrapExit(c, p)
  <2>1. CASE p = initproc
    BY <1>1, <1>2, <2>1, Zenon DEF TrapExit, At, ExitStart, procVars, OpMove, MayDie
  <2>2. CASE p # initproc
    BY <1>2, <2>2, Zenon DEF TrapExit, At, ExitStart, Goto, procVars, OpMove, MayDie
  <2> QED BY <2>1, <2>2, Zenon
<1>3. CASE Fault(c, p)
  <2>1. CASE p = initproc
    BY <1>1, <1>3, <2>1, Zenon DEF Fault, On, At, ExitStart, cpuVars, OpMove, MayDie
  <2>2. CASE p # initproc
    BY <1>3, <2>2, Zenon DEF Fault, On, At, ExitStart, Goto, cpuVars, OpMove, MayDie
  <2> QED BY <2>1, <2>2, Zenon
<1>4. CASE Syscall(c, p)
  BY <1>4, Zenon DEF Syscall, On, At, Goto, procVars, cpuVars, OpMove, MayDie
<1>5. CASE ExitCall(c, p)
  <2>1. CASE p = initproc
    BY <1>1, <1>5, <2>1, Zenon DEF ExitCall, On, At, ExitStart, procVars, cpuVars, OpMove, MayDie
  <2>2. CASE p # initproc
    BY <1>5, <2>2, Zenon DEF ExitCall, On, At, ExitStart, Goto, procVars, cpuVars, OpMove, MayDie
  <2> QED BY <2>1, <2>2, Zenon
<1>6. CASE WaitEnter(c, p)
  BY <1>6, Zenon DEF WaitEnter, On, At, Goto, procVars, OpMove, MayDie
<1>7. CASE WaitFail(c, p)
  BY <1>7, Zenon DEF WaitFail, On, At, Goto, procVars, OpMove, MayDie
<1>8. CASE SleepEnter(c, p)
  BY <1>8, Zenon DEF SleepEnter, On, At, Goto, procVars, cpuVars, OpMove, MayDie
<1>9. CASE SleepReturn(c, p)
  BY <1>9, Zenon DEF SleepReturn, On, At, Goto, procVars, cpuVars, OpMove, MayDie
<1>10. CASE SleepCheck(c, p)
  BY <1>10, Zenon DEF SleepCheck, On, At, Goto, procVars, cpuVars, OpMove, MayDie
<1> QED BY <1>2, <1>3, <1>4, <1>5, <1>6, <1>7, <1>8, <1>9, <1>10, Zenon DEF OpAction

(* fork, wait and kill find their slot with a scan of the table. *)
LEMMA SlotCases ==
  ASSUME op \in [Procs -> Ops], NEW c \in CPU, NEW p \in Procs
  PROVE  /\ \A t \in TicketArgs : ForkAlloc(c, p, t) => Move(c, p)
         /\ WaitReap(c, p) => Move(c, p)
         /\ \A n \in KillArgs : Kill(c, p, n) => Move(c, p)
<1>1. ASSUME NEW t \in TicketArgs, ForkAlloc(c, p, t) PROVE Move(c, p)
  <2> DEFINE unused == {q \in Procs : state[q] = "UNUSED"}
  <2>1. CASE unused = {}
    <3>1. OpMove(c, p, "user") /\ "user" \in Ops
      BY <1>1, <2>1, Zenon DEF ForkAlloc, On, At, Goto, cpuVars, Ops, Forking, OpMove, MayDie
    <3> QED BY <3>1, Zenon DEF Move
  <2>2. CASE unused # {}
    <3>1. First(unused) \in unused
      BY <2>2, FirstMember, Zenon
    <3>2. AllocMove(c, p, First(unused), t)
      BY <1>1, <2>2, <3>1, Zenon DEF ForkAlloc, On, At, Goto, FreePid, AllocMove
    <3> QED BY <3>1, <3>2, Zenon DEF Move
  <2> QED BY <2>1, <2>2, Zenon
<1>2. ASSUME WaitReap(c, p) PROVE Move(c, p)
  <2>1. Zombies(p) \in SUBSET Procs /\ Zombies(p) # {}
    BY <1>2, Zenon DEF WaitReap, Zombies, Children
  <2>2. First(Zombies(p)) \in Zombies(p)
    BY <2>1, FirstMember, Zenon
  <2> DEFINE z == First(Zombies(p))
  <2>3. z \in Procs /\ parent[z] = p /\ state[z] = "ZOMBIE"
    BY <2>2, Zenon DEF Zombies, Children
  <2>4. ReapMove(c, p, z)
    BY <1>2, <2>3, Zenon DEF WaitReap, On, At, Goto, FreeStack, ReapMove
  <2> QED BY <2>3, <2>4, Zenon DEF Move
<1>3. ASSUME NEW n \in KillArgs, Kill(c, p, n) PROVE Move(c, p)
  <2>1. CASE KillTargets(n) = {}
    <3>1. OpMove(c, p, "user") /\ "user" \in Ops
      BY <1>3, <2>1, Zenon DEF Kill, On, At, Goto, cpuVars, Ops, Forking, OpMove, MayDie
    <3> QED BY <3>1, Zenon DEF Move
  <2>2. CASE KillTargets(n) # {}
    <3>1. First(KillTargets(n)) \in Procs
      BY <2>2, FirstMember, Zenon DEF KillTargets
    <3>2. KillMove(c, p, First(KillTargets(n)))
      BY <1>3, <2>2, Zenon DEF Kill, On, At, Goto, KillMove
    <3> QED BY <3>1, <3>2, Zenon DEF Move
  <2> QED BY <2>1, <2>2, Zenon
<1> QED BY <1>1, <1>2, <1>3, Zenon

(* Every step is of one of the classes. *)
LEMMA NextCases ==
  ASSUME TypeOK, [Next]_vars
  PROVE  \/ Turn
         \/ \E c \in CPU : SchedDispatch(c) \/ Resume(c)
         \/ \E c \in CPU, p \in Procs : Move(c, p)
<1>1. op \in [Procs -> Ops]
  BY Zenon DEF TypeOK
<1>2. CASE TimerIdle \/ UNCHANGED vars
  BY <1>2, Zenon DEF Turn
<1>3. ASSUME NEW c \in CPU, Scheduler(c)
      PROVE  Turn \/ SchedDispatch(c) \/ Resume(c)
  BY <1>3, Zenon DEF Scheduler, Turn
<1>4. ASSUME NEW c \in CPU, NEW p \in Procs, OpAction(c, p)
      PROVE  Move(c, p)
  BY <1>1, <1>4, OpCases, Zenon DEF Move
<1>5. ASSUME NEW c \in CPU, NEW p \in Procs, Trap(c, p)
      PROVE  Turn \/ Move(c, p)
  BY <1>4, <1>5, Zenon DEF Trap, Turn, Move, OpAction
<1>6. ASSUME NEW c \in CPU, NEW p \in Procs, Kernel(c, p)
      PROVE  Move(c, p)
  BY <1>1, <1>4, <1>6, SlotCases, Zenon DEF Kernel, Move, OpAction
<1> QED BY <1>2, <1>3, <1>5, <1>6, Zenon DEF Next

-----------------------------------------------------------------------------
(* The inductive invariant. *)

(* Who holds ptable.lock, and what cpu->proc is, follow from where the CPU *)
(* is; a process in wait() is never in the timer trap.                     *)
CpuInv ==
  /\ \A c \in CPU :
       /\ ptlock = c <=> \/ spc[c] \in {"scan", "resume"}
                         \/ spc[c] = "run" /\ op[cur[c]] = "wait"
       /\ cur[c] # NoProc <=> spc[c] \in {"resume", "run", "trap"}
       /\ spc[c] = "trap" => op[cur[c]] # "wait"
  /\ RunningOnOneCPU

(* The slot that a fork is filling is an EMBRYO, is nobody else's np, and  *)
(* owns what fork has given it so far.                                     *)
ForkInv ==
  /\ \A p \in Procs : op[p] \in Forking =>
       /\ child[p] \in Procs /\ state[child[p]] = "EMBRYO"
       /\ state[p] \in {"RUNNABLE", "RUNNING"}
       /\ kstack[child[p]] <=> op[p] # "fork"
       /\ op[p] = "publish" => pgdir[child[p]] = "valid"
       /\ parent[child[p]] = IF op[p] = "publish" THEN p ELSE NoProc
  /\ \A p, q \in Procs :
       op[p] \in Forking /\ op[q] \in Forking /\ child[p] = child[q] => p = q

(* init lives for ever and has no parent; a free slot has none either.     *)
FamilyInv ==
  /\ state[initproc] \in Alive /\ parent[initproc] = NoProc
  /\ op[initproc] # "exit"
  /\ \A p \in Procs : state[p] = "UNUSED" => parent[p] = NoProc
  /\ ParentCanWait

(* The channel of a sleeper is the one its system call sleeps on. *)
SleepInv ==
  /\ \A p \in Procs : state[p] = "SLEEPING" =>
       \/ op[p] = "wait" /\ chan[p] = p
       \/ op[p] = "sleep" /\ chan[p] = TICKS
  /\ NoMissedExit

(* Pids are handed out in order. *)
PidInv ==
  /\ PidsDistinct
  /\ nextpid > 0 /\ \A p \in Procs : pid[p] < nextpid

(* What the scan knows of the slots it has passed. *)
Passed(c) == {p \in Runnable : p < idx[c]}

ScanInv ==
  \A c \in CPU : spc[c] = "scan" =>
    /\ Passed(c) = {} => min[c] = 0
    /\ Passed(c) # {} =>
         /\ minproc[c] \in Passed(c) /\ min[c] = passada[minproc[c]]
         /\ (\A p \in Passed(c) : passada[p] # 0) =>
              \A p \in Passed(c) : min[c] <= passada[p]

IInv ==
  /\ TypeOK /\ CpuInv /\ ForkInv /\ MemoryOwned
  /\ FamilyInv /\ SleepInv /\ PidInv /\ ScanInv

(* Every step preserves the types. *)
LEMMA TypeStep ==
  ASSUME TypeOK, [Next]_vars
  PROVE  TypeOK'
<1>1. CASE Turn
  <2>1. ASSUME NEW c \in CPU, SchedAcquire(c) PROVE TypeOK'
    <3>1. 1 \in 1..(NPROC + 1) /\ 0 \in Ints
      BY ProcAssumption, Distinct
    <3>2. idx' \in [CPU -> 1..(NPROC + 1)]
      BY <2>1, <3>1, Zenon DEF SchedAcquire, TypeOK
    <3>3. min' \in [CPU -> Ints]
      BY <2>1, <3>1, Zenon DEF SchedAcquire, TypeOK
    <3> QED BY <2>1, <3>2, <3>3, Zenon DEF SchedAcquire, procVars, memVars, flowVars, TypeOK
  <2>2. ASSUME NEW c \in CPU, SchedScan(c) PROVE TypeOK'
    <3>1. idx[c] \in Procs /\ idx[c] + 1 \in 1..(NPROC + 1)
      <4>1. idx[c] \in 1..(NPROC + 1)
        BY Zenon DEF TypeOK
      <4>2. idx[c] <= NPROC
        BY <2>2, Zenon DEF SchedScan
      <4> QED BY <4>1, <4>2, ProcAssumption DEF Procs
    <3>2. idx' \in [CPU -> 1..(NPROC + 1)]
      BY <2>2, <3>1, Zenon DEF SchedScan, TypeOK
    <3>3. min' \in [CPU -> Ints] /\ minproc' \in [CPU -> Procs \cup {NoProc, Junk}]
      <4>1. passada[idx[c]] \in Ints
        BY <3>1, Zenon DEF TypeOK
      <4>2. CASE Better(c, idx[c])
        BY <2>2, <3>1, <4>1, <4>2, Zenon DEF SchedScan, TypeOK
      <4>3. CASE ~Better(c, idx[c])
        BY <2>2, <4>3, Zenon DEF SchedScan, TypeOK
      <4> QED BY <4>2, <4>3, Zenon
    <3> QED BY <2>2, <3>2, <3>3, Zenon
            DEF SchedScan, procVars, memVars, flowVars, cpuVars, TypeOK
  <2>3. ASSUME NEW c \in CPU, SchedIdle(c) PROVE TypeOK'
    BY <2>3, Zenon DEF SchedIdle, procVars, memVars, flowVars, scanVars, TypeOK
  <2>4. ASSUME NEW c \in CPU, SchedWild(c) PROVE TypeOK'
    BY <2>4, Zenon DEF SchedWild, procVars, memVars, flowVars, scanVars, cpuVars, TypeOK
  <2>5. CASE TimerIdle
    <3>1. state' \in [Procs -> States]
      BY <2>5, Zenon DEF TimerIdle, Wakeup1, TypeOK, States
    <3> QED BY <2>5, <3>1, Zenon DEF TimerIdle, memVars, flowVars, scanVars, cpuVars, TypeOK
  <2>6. ASSUME NEW c \in CPU, NEW p \in Procs, TimerIntr(c, p) PROVE TypeOK'
    <3>0. Wakeup1(state, TICKS) \in [Procs -> States] /\ state \in [Procs -> States]
      BY Zenon DEF Wakeup1, TypeOK, States
    <3>1. state' \in [Procs -> States]
      BY <2>6, <3>0, Zenon DEF TimerIntr
    <3> QED BY <2>6, <3>1, Zenon DEF TimerIntr, memVars, flowVars, scanVars, TypeOK
  <2>7. CASE UNCHANGED vars
    BY <2>7, Zenon DEF vars, procVars, memVars, flowVars, scanVars, cpuVars, TypeOK
  <2> QED BY <1>1, <2>1, <2>2, <2>3, <2>4, <2>5, <2>6, <2>7, Zenon DEF Turn
<1>2. ASSUME NEW c \in CPU, SchedDispatch(c) PROVE TypeOK'
  BY <1>2, AddIntRange, Zenon DEF SchedDispatch, Dispatch, Switchable, memVars, flowVars,
     scanVars, TypeOK, States
<1>3. ASSUME NEW c \in CPU, Resume(c) PROVE TypeOK'
  <2>1. chan' \in [Procs -> Chans]
    BY <1>3, Zenon DEF Resume, TypeOK, Chans
  <2>2. /\ spc' \in [CPU -> {"idle", "scan", "resume", "run", "trap"}]
        /\ ptlock' \in CPU \cup {Free}
        /\ panic' \in {"no", "init exiting", "zombie exit", "wild"}
    BY <1>3, Zenon DEF Resume, TypeOK
  <2> QED BY <1>3, <2>1, <2>2, Zenon DEF Resume, memVars, flowVars, scanVars, TypeOK
<1>4. ASSUME NEW c \in CPU, NEW p \in Procs, Move(c, p) PROVE TypeOK'
  <2>1. ASSUME NEW o \in Ops, OpMove(c, p, o) PROVE TypeOK'
    BY <2>1, Zenon DEF OpMove, MayDie, memVars, scanVars, TypeOK
  <2>2. ASSUME NEW np \in Procs, NEW t \in TicketArgs, AllocMove(c, p, np, t)
       PROVE  TypeOK'
    <3>1. Passo(t) \in 0..STRIDE1 /\ 0 \in Ints
      BY PassoRange, Distinct, ProcAssumption
    <3>2. /\ state' \in [Procs -> States] /\ op' \in [Procs -> Ops]
          /\ child' \in [Procs -> Procs \cup {NoProc}]
      BY <2>2, Zenon DEF AllocMove, TypeOK, States, Ops
    <3>3. /\ pid' \in [Procs -> Nat] /\ passo' \in [Procs -> 0..STRIDE1]
          /\ passada' \in [Procs -> Ints]
      BY <2>2, <3>1, Zenon DEF AllocMove, TypeOK
    <3>4. nextpid' \in Nat
      <4>1. nextpid \in Nat
        BY Zenon DEF TypeOK
      <4> QED BY <2>2, <4>1 DEF AllocMove
    <3> QED BY <2>2, <3>2, <3>3, <3>4, Zenon
            DEF AllocMove, memVars, scanVars, cpuVars, TypeOK
  <2>3. CASE ForkStack(c, p)
    <3>1. /\ state' \in [Procs -> States]
          /\ kstack' \in [Procs -> BOOLEAN]
      BY <2>3, Zenon DEF ForkStack, FreeStack, TypeOK, States
    <3>2. /\ child' \in [Procs -> Procs \cup {NoProc}]
          /\ op' \in [Procs -> Ops]
      BY <2>3, Zenon DEF ForkStack, Goto, TypeOK, Ops
    <3>3. ctx' \in [Procs -> {"none", "forkret", "yield", "sleep", "exit"}]
      BY <2>3, Zenon DEF ForkStack, TypeOK
    <3> QED BY <2>3, <3>1, <3>2, <3>3, Zenon DEF ForkStack, scanVars, cpuVars, TypeOK
  <2>4. CASE ForkCopy(c, p)
    <3>1. /\ state' \in [Procs -> States]
          /\ kstack' \in [Procs -> BOOLEAN]
      BY <2>4, Zenon DEF ForkCopy, FreeStack, TypeOK, States
    <3>2. /\ child' \in [Procs -> Procs \cup {NoProc}]
          /\ op' \in [Procs -> Ops]
      BY <2>4, Zenon DEF ForkCopy, Goto, TypeOK, Ops
    <3>3. /\ pgdir' \in [Procs -> {"none", "valid", "freed"}]
          /\ parent' \in [Procs -> Procs \cup {NoProc}]
      <4>1. \/ /\ pgdir' = [pgdir EXCEPT ![child[p]] = "valid"]
               /\ parent' = [parent EXCEPT ![child[p]] = p]
            \/ /\ pgdir' = [pgdir EXCEPT ![child[p]] = "none"]
               /\ parent' = parent
        BY <2>4, Zenon DEF ForkCopy
      <4>2. pgdir' \in [Procs -> {"none", "valid", "freed"}]
        BY <4>1, Zenon DEF TypeOK
      <4>3. parent' \in [Procs -> Procs \cup {NoProc}]
        BY <4>1, Zenon DEF TypeOK
      <4> QED BY <4>2, <4>3, Zenon
    <3> QED BY <2>4, <3>1, <3>2, <3>3, Zenon DEF ForkCopy, scanVars, cpuVars, TypeOK
  <2>5. CASE ForkPublish(c, p)
    BY <2>5, Zenon DEF ForkPublish, Goto, memVars, scanVars, cpuVars, TypeOK, Ops, States
  <2>6. CASE ExitFinish(c, p)
    <3>1. state' \in [Procs -> States]
      BY <2>6, Zenon DEF ExitFinish, ExitWakeups, Wakeup1, TypeOK, States
    <3>2. parent' \in [Procs -> Procs \cup {NoProc}]
      BY <2>6, Distinct, Zenon DEF ExitFinish, Reparent, TypeOK
    <3> QED BY <2>6, <3>1, <3>2, Zenon DEF ExitFinish, Sched, memVars, scanVars, TypeOK
  <2>7. CASE TrapYield(c, p)
    BY <2>7, Zenon DEF TrapYield, Sched, memVars, scanVars, TypeOK, States
  <2>8. ASSUME NEW z \in Procs, ReapMove(c, p, z) PROVE TypeOK'
    BY <2>8, Zenon DEF ReapMove, scanVars, TypeOK, Ops, States
  <2>9. CASE WaitSleep(c, p)
    BY <2>9, Zenon DEF WaitSleep, Sched, memVars, scanVars, TypeOK, States, Chans
  <2>10. CASE SleepTicks(c, p)
    BY <2>10, Zenon DEF SleepTicks, Sched, Goto, memVars, scanVars, TypeOK, States, Chans,
       Ops
  <2>11. ASSUME NEW q \in Procs, KillMove(c, p, q) PROVE TypeOK'
    BY <2>11, Zenon DEF KillMove, KillWakes, memVars, scanVars, cpuVars, TypeOK, Ops, States
  <2> QED BY <1>4, <2>1, <2>2, <2>3, <2>4, <2>5, <2>6, <2>7, <2>8, <2>9, <2>10,
     <2>11, Zenon DEF Move
<1> QED BY <1>1, <1>2, <1>3, <1>4, NextCases, Zenon

-----------------------------------------------------------------------------
(* Every step preserves CpuInv. *)
LEMMA CpuStep ==
  ASSUME TypeOK, CpuInv, ForkInv, [Next]_vars
  PROVE  CpuInv'
<1>0. /\ cur \in [CPU -> Procs \cup {NoProc}] /\ ptlock \in CPU \cup {Free}
      /\ op \in [Procs -> Ops] /\ state \in [Procs -> States]
      /\ DOMAIN spc = CPU
  BY Zenon DEF TypeOK
<1>1. ASSUME NEW c \in CPU, NEW p \in Procs, cur[c] = p
      PROVE  state[p] = "RUNNING" /\ \A d \in CPU : d # c => cur[d] # p
  BY <1>1, Distinct DEF CpuInv, RunningOnOneCPU
<1>2. CASE Turn
  <2>1. ASSUME NEW c \in CPU, SchedAcquire(c) PROVE CpuInv'
    BY <1>0, <2>1, Distinct DEF SchedAcquire, At, procVars, flowVars, CpuInv,
       RunningOnOneCPU
  <2>2. ASSUME NEW c \in CPU, SchedScan(c) \/ SchedWild(c) PROVE CpuInv'
    BY <2>2 DEF SchedScan, SchedWild, procVars, flowVars, cpuVars, CpuInv,
       RunningOnOneCPU
  <2>3. ASSUME NEW c \in CPU, SchedIdle(c) PROVE CpuInv'
    BY <1>0, <2>3, Distinct DEF SchedIdle, At, procVars, flowVars, CpuInv,
       RunningOnOneCPU
  <2>4. CASE TimerIdle
    BY <1>0, <2>4, Distinct DEF TimerIdle, Wakeup1, flowVars, cpuVars, CpuInv,
       RunningOnOneCPU
  <2>5. ASSUME NEW c \in CPU, NEW p \in Procs, TimerIntr(c, p) PROVE CpuInv'
    BY <1>0, <2>5, Distinct DEF TimerIntr, At, Wakeup1, flowVars, CpuInv,
       RunningOnOneCPU
  <2>6. CASE UNCHANGED vars
    BY <2>6 DEF vars, procVars, flowVars, cpuVars, CpuInv, RunningOnOneCPU
  <2> QED BY <1>2, <2>1, <2>2, <2>3, <2>4, <2>5, <2>6, Zenon DEF Turn
<1>3. ASSUME NEW c \in CPU, SchedDispatch(c) PROVE CpuInv'
  BY <1>0, <1>3, Distinct DEF SchedDispatch, At, Dispatch, Switchable, flowVars,
     CpuInv, RunningOnOneCPU
<1>4. ASSUME NEW c \in CPU, Resume(c) PROVE CpuInv'
  <2>1. CASE ctx[cur[c]] = "exit"
    <3>1. UNCHANGED <<ptlock, spc, op, cur, state>>
      BY <1>4, <2>1, Zenon DEF Resume, flowVars
    <3> QED BY <3>1 DEF CpuInv, RunningOnOneCPU
  <2>2. CASE ctx[cur[c]] # "exit"
    <3>1. /\ spc[c] = "resume" /\ ptlock = c /\ cur' = cur /\ op' = op
          /\ state' = state /\ spc' = [spc EXCEPT ![c] = "run"]
          /\ ptlock' = IF op[cur[c]] = "wait" THEN ptlock ELSE Free
      BY <1>4, <2>2, Zenon DEF Resume, At, flowVars, CpuInv
    <3>2. \A d \in CPU : d # c => ptlock # d /\ ptlock' # d
      BY <3>1, Distinct, Zenon
    <3>3. RunningOnOneCPU'
      BY <3>1, Zenon DEF CpuInv, RunningOnOneCPU
    <3> QED BY <1>0, <3>1, <3>2, <3>3, Distinct, Zenon DEF CpuInv
  <2> QED BY <2>1, <2>2, Zenon
<1>5. ASSUME NEW c \in CPU, NEW p \in Procs, Move(c, p) PROVE CpuInv'
  <2>1. ASSUME NEW o \in Ops, OpMove(c, p, o) PROVE CpuInv'
    <3>1. cur[c] = p /\ UNCHANGED <<cur, state>> /\ op' = [op EXCEPT ![p] = o]
      BY <2>1, Zenon DEF OpMove
    <3>2. RunningOnOneCPU'
      BY <3>1 DEF CpuInv, RunningOnOneCPU
    <3>3. /\ op'[cur[c]] = o
          /\ \A d \in CPU : d # c /\ cur[d] # NoProc => op'[cur[d]] = op[cur[d]]
      BY <1>0, <1>1, <3>1, Zenon
    <3>4. \A d \in CPU : d # c =>
            (ptlock' = d <=> ptlock = d) /\ cur'[d] = cur[d] /\ spc'[d] = spc[d]
      <4>1. ptlock' = ptlock \/ (ptlock \in {c, Free} /\ ptlock' \in {c, Free})
        BY <2>1, <3>1, Zenon DEF OpMove, CpuInv
      <4>2. spc' = spc \/ spc' = [spc EXCEPT ![c] = "run"]
        BY <2>1, Zenon DEF OpMove
      <4> QED BY <1>0, <3>1, <4>1, <4>2, Distinct, Zenon
    <3>5. /\ ptlock' = c <=> \/ spc'[c] \in {"scan", "resume"}
                             \/ spc'[c] = "run" /\ o = "wait"
          /\ spc'[c] \in {"run", "trap"} /\ (spc'[c] = "trap" => o # "wait")
      <4>1. /\ ptlock = c <=> spc[c] = "run" /\ op[p] = "wait"
            /\ spc[c] \in {"run", "trap"} /\ (spc[c] = "trap" => op[p] # "wait")
        BY <2>1, <3>1, Zenon DEF OpMove, CpuInv
      <4>2. spc'[c] = spc[c] \/ spc'[c] = "run"
        BY <1>0, <2>1, Zenon DEF OpMove
      <4>3. CASE ptlock' = ptlock /\ op[p] # "wait" /\ o # "wait"
        BY <4>1, <4>2, <4>3, Zenon
      <4>4. CASE ptlock' = c /\ spc' = spc /\ spc[c] = "run" /\ o = "wait"
        BY <4>4, Zenon
      <4>5. CASE spc[c] = "run" /\ spc' = spc /\ ptlock' = Free /\ o = "user"
        BY <4>5, Distinct, Zenon
      <4> QED BY <2>1, <4>3, <4>4, <4>5, Zenon DEF OpMove
    <3> QED BY <3>1, <3>2, <3>3, <3>4, <3>5, Distinct DEF CpuInv
  <2>2. ASSUME NEW np \in Procs, NEW t \in TicketArgs, AllocMove(c, p, np, t)
       PROVE  CpuInv'
    BY <1>0, <1>1, <2>2, Distinct DEF AllocMove, cpuVars, CpuInv, RunningOnOneCPU
  <2>3. CASE ForkStack(c, p)
    BY <1>0, <1>1, <2>3, Distinct DEF ForkStack, On, At, Goto, cpuVars, CpuInv,
       RunningOnOneCPU, ForkInv, Forking
  <2>4. CASE ForkCopy(c, p)
    <3> DEFINE np == child[p]
    <3>1. /\ cur' = cur /\ spc' = spc /\ ptlock' = ptlock
          /\ cur[c] = p /\ spc[c] = "run" /\ op[p] = "copy"
      BY <2>4, Zenon DEF ForkCopy, On, At, cpuVars
    <3>2. np \in Procs /\ state[np] = "EMBRYO" /\ np # p
      BY <1>1, <3>1, Zenon DEF ForkInv, Forking
    <3>3. \A d \in CPU : cur[d] # np /\ (d # c => cur[d] # p)
      BY <1>1, <3>1, <3>2, Zenon
    <3>4. op'[p] # "wait" /\ \A q \in Procs \ {p, np} : op'[q] = op[q]
      BY <1>0, <2>4, <3>2, Zenon DEF ForkCopy, Goto
    <3>5. \A q \in Procs : state'[q] = "RUNNING" <=> state[q] = "RUNNING"
      BY <1>0, <2>4, <3>2, Zenon DEF ForkCopy
    <3> HIDE DEF np
    <3>6. RunningOnOneCPU'
      BY <1>0, <3>1, <3>5 DEF CpuInv, RunningOnOneCPU
    <3>7. \A d \in CPU : d # c /\ cur[d] # NoProc => op'[cur[d]] = op[cur[d]]
      BY <1>0, <3>3, <3>4, Zenon
    <3> QED BY <1>0, <3>1, <3>4, <3>6, <3>7, Distinct DEF CpuInv
  <2>5. CASE ForkPublish(c, p)
    BY <1>0, <1>1, <2>5, Distinct DEF ForkPublish, On, At, Goto, cpuVars, CpuInv,
       RunningOnOneCPU, ForkInv, Forking
  <2>6. CASE ExitFinish(c, p)
    <3>1. /\ spc[c] = "run" /\ cur[c] = p /\ op[p] = "exit" /\ ptlock = Free
          /\ cur' = [cur EXCEPT ![c] = NoProc] /\ ptlock' = Free
          /\ spc' = [spc EXCEPT ![c] = "idle"] /\ op' = op
      BY <2>6, Zenon DEF ExitFinish, On, At, Sched
    <3>2. /\ state'[p] = "ZOMBIE"
          /\ \A q \in Procs \ {p} : state'[q] = "RUNNING" <=> state[q] = "RUNNING"
      BY <1>0, <2>6, Zenon DEF ExitFinish, ExitWakeups, Wakeup1
    <3>3. RunningOnOneCPU'
      BY <1>0, <1>1, <3>1, <3>2, Distinct DEF CpuInv, RunningOnOneCPU
    <3> QED BY <1>0, <1>1, <3>1, <3>3, Distinct DEF CpuInv
  <2>7. CASE TrapYield(c, p)
    BY <1>0, <1>1, <2>7, Distinct DEF TrapYield, At, Sched, CpuInv, RunningOnOneCPU
  <2>8. ASSUME NEW z \in Procs, ReapMove(c, p, z) PROVE CpuInv'
    BY <1>0, <1>1, <2>8, Distinct DEF ReapMove, CpuInv, RunningOnOneCPU
  <2>9. CASE WaitSleep(c, p)
    BY <1>0, <1>1, <2>9, Distinct DEF WaitSleep, On, At, Sched, CpuInv,
       RunningOnOneCPU
  <2>10. CASE SleepTicks(c, p)
    BY <1>0, <1>1, <2>10, Distinct DEF SleepTicks, On, At, Sched, Goto, CpuInv,
       RunningOnOneCPU
  <2>11. ASSUME NEW q \in Procs, KillMove(c, p, q) PROVE CpuInv'
    BY <1>0, <1>1, <2>11, Distinct DEF KillMove, KillWakes, cpuVars, CpuInv,
       RunningOnOneCPU
  <2> QED BY <1>5, <2>1, <2>2, <2>3, <2>4, <2>5, <2>6, <2>7, <2>8, <2>9, <2>10,
     <2>11, Zenon DEF Move
<1> QED BY <1>2, <1>3, <1>4, <1>5, NextCases, Zenon

(* Every step preserves PidInv. *)
LEMMA PidStep ==
  ASSUME TypeOK, CpuInv, ForkInv, PidInv, [Next]_vars
  PROVE  PidInv'
<1>0. /\ pid \in [Procs -> Nat] /\ nextpid \in Nat
      /\ state \in [Procs -> States]
  BY Zenon DEF TypeOK
<1>1. \A c \in CPU, p \in Procs : cur[c] = p => state[p] = "RUNNING"
  BY Distinct DEF CpuInv, RunningOnOneCPU
<1>2. CASE Still
  BY <1>0, <1>2, Distinct, Zenon DEF Still, procVars, PidInv, PidsDistinct
<1>3. CASE Tick
  BY <1>0, <1>1, <1>3, Distinct, Zenon DEF Tick, Wakeup1, PidInv, PidsDistinct
<1>4. ASSUME NEW c \in CPU, SchedDispatch(c) PROVE PidInv'
  BY <1>0, <1>1, <1>4, Distinct, Zenon DEF SchedDispatch, Dispatch, Switchable,
     PidInv, PidsDistinct
<1>5. ASSUME NEW c \in CPU, Resume(c) PROVE PidInv'
  BY <1>0, <1>1, <1>5, Distinct, Zenon DEF Resume, PidInv, PidsDistinct
<1>6. ASSUME NEW c \in CPU, NEW p \in Procs, Move(c, p) PROVE PidInv'
  <2>1. ASSUME NEW o \in Ops, OpMove(c, p, o) PROVE PidInv'
    BY <1>0, <1>1, <2>1, Distinct, Zenon DEF OpMove, PidInv, PidsDistinct
  <2>2. ASSUME NEW np \in Procs, NEW t \in TicketArgs, AllocMove(c, p, np, t)
       PROVE  PidInv'
    BY <1>0, <1>1, <2>2, Distinct DEF AllocMove, PidInv, PidsDistinct
  <2>3. CASE ForkStack(c, p)
    BY <1>0, <1>1, <2>3, Distinct DEF ForkStack, On, PidInv, PidsDistinct,
       ForkInv, Forking
  <2>4. CASE ForkCopy(c, p)
    BY <1>0, <1>1, <2>4, Distinct DEF ForkCopy, On, PidInv, PidsDistinct,
       ForkInv, Forking
  <2>5. CASE ForkPublish(c, p)
    BY <1>0, <1>1, <2>5, Distinct DEF ForkPublish, On, PidInv, PidsDistinct,
       ForkInv, Forking
  <2>6. CASE ExitFinish(c, p)
    BY <1>0, <1>1, <2>6, Distinct, Zenon DEF ExitFinish, On, Sched, ExitWakeups,
       Wakeup1, PidInv, PidsDistinct
  <2>7. CASE TrapYield(c, p)
    BY <1>0, <1>1, <2>7, Distinct, Zenon DEF TrapYield, Sched, PidInv, PidsDistinct
  <2>8. ASSUME NEW z \in Procs, ReapMove(c, p, z) PROVE PidInv'
    BY <1>0, <1>1, <2>8, Distinct, Zenon DEF ReapMove, PidInv, PidsDistinct
  <2>9. CASE WaitSleep(c, p)
    BY <1>0, <1>1, <2>9, Distinct, Zenon DEF WaitSleep, On, Sched, PidInv,
       PidsDistinct
  <2>10. CASE SleepTicks(c, p)
    BY <1>0, <1>1, <2>10, Distinct, Zenon DEF SleepTicks, On, Sched, PidInv,
       PidsDistinct
  <2>11. ASSUME NEW q \in Procs, KillMove(c, p, q) PROVE PidInv'
    BY <1>0, <1>1, <2>11, Distinct, Zenon DEF KillMove, KillWakes, PidInv,
       PidsDistinct
  <2> QED BY <1>6, <2>1, <2>2, <2>3, <2>4, <2>5, <2>6, <2>7, <2>8, <2>9, <2>10, <2>11, Zenon
     DEF Move
<1> QED BY <1>2, <1>3, <1>4, <1>5, <1>6, NextCases, TurnCases, Zenon

(* Every step preserves ScanInv. *)
LEMMA ScanStep ==
  ASSUME TypeOK, CpuInv, ForkInv, ScanInv, [Next]_vars
  PROVE  ScanInv'
<1>0. /\ state \in [Procs -> States] /\ passada \in [Procs -> Ints]
      /\ idx \in [CPU -> 1..(NPROC + 1)] /\ min \in [CPU -> Ints]
      /\ DOMAIN minproc = CPU /\ DOMAIN spc = CPU
  BY Zenon DEF TypeOK
<1>1. \A c \in CPU : /\ spc[c] = "scan" => ptlock = c
                     /\ spc[c] = "run" /\ op[cur[c]] = "wait" => ptlock = c
  BY Zenon DEF CpuInv
<1>2. CASE Turn
  <2>1. ASSUME NEW c \in CPU, SchedAcquire(c) PROVE ScanInv'
    <3>1. /\ UNCHANGED <<state, passada>> /\ ptlock = Free
          /\ spc' = [spc EXCEPT ![c] = "scan"]
          /\ idx' = [idx EXCEPT ![c] = 1] /\ min' = [min EXCEPT ![c] = 0]
      BY <2>1, Zenon DEF SchedAcquire, procVars
    <3>2. \A d \in CPU : spc'[d] = "scan" => d = c
      BY <1>0, <1>1, <3>1, Distinct, Zenon
    <3>3. Passed(c)' = {} /\ min'[c] = 0
      BY <1>0, <3>1, ProcAssumption DEF Passed, Runnable, Procs
    <3> QED BY <3>2, <3>3, Zenon DEF ScanInv
  <2>2. ASSUME NEW c \in CPU, SchedScan(c) PROVE ScanInv'
    <3> DEFINE i == idx[c]
    <3>1. /\ UNCHANGED <<state, passada, spc>> /\ spc[c] = "scan" /\ i <= NPROC
          /\ idx' = [idx EXCEPT ![c] = i + 1]
          /\ IF Better(c, i)
             THEN /\ min' = [min EXCEPT ![c] = passada[i]]
                  /\ minproc' = [minproc EXCEPT ![c] = i]
             ELSE UNCHANGED <<min, minproc>>
      BY <2>2, Zenon DEF SchedScan, At, procVars, cpuVars
    <3>2. \A d \in CPU : spc'[d] = "scan" => d = c
      BY <1>1, <3>1, Zenon
    <3>3. i \in Procs /\ Procs \subseteq Int
      BY <1>0, <3>1, ProcAssumption DEF Procs
    <3>4. \A q \in Procs : q \in Passed(c)' <=>
            q \in Passed(c) \/ (q = i /\ state[i] = "RUNNABLE")
      BY <1>0, <3>1, <3>3 DEF Passed, Runnable
    <3>5. \A q \in Procs : passada[q] \in Int
      BY <1>0, ProcAssumption DEF Ints
    <3>6. Passed(c) \subseteq Procs /\ Passed(c)' \subseteq Procs
      BY Zenon DEF Passed, Runnable
    <3>7. /\ Passed(c) = {} => min[c] = 0
          /\ Passed(c) # {} =>
               /\ minproc[c] \in Passed(c) /\ min[c] = passada[minproc[c]]
               /\ (\A q \in Passed(c) : passada[q] # 0) =>
                    \A q \in Passed(c) : min[c] <= passada[q]
      BY <3>1, Zenon DEF ScanInv
    <3> HIDE DEF i
    <3>8. CASE Better(c, i)
      <4>1. min'[c] = passada[i] /\ minproc'[c] = i /\ i \in Passed(c)'
        BY <1>0, <3>1, <3>3, <3>4, <3>8, Zenon DEF Better
      <4>2. passada[i] <= min[c] \/ min[c] = 0
        BY <3>8, Zenon DEF Better
      <4>3. (\A q \in Passed(c)' : passada[q] # 0) =>
               \A q \in Passed(c)' : passada[i] <= passada[q]
        <5> SUFFICES ASSUME \A q \in Passed(c)' : passada[q] # 0,
                            NEW q \in Passed(c)'
                     PROVE  passada[i] <= passada[q]
          BY Zenon
        <5>1. CASE q = i
          BY <3>3, <3>5, <5>1
        <5>2. CASE q \in Passed(c)
          <6>1. \A r \in Passed(c) : passada[r] # 0
            BY <3>4, <3>6, Zenon
          <6>2. /\ minproc[c] \in Passed(c) /\ min[c] = passada[minproc[c]]
                /\ min[c] <= passada[q]
            BY <3>7, <5>2, <6>1, Zenon
          <6>3. passada[i] <= min[c]
            BY <4>2, <6>1, <6>2, Zenon
          <6>4. min[c] \in Int /\ passada[i] \in Int /\ passada[q] \in Int
            BY <3>3, <3>5, <3>6, <5>2, <6>2, Zenon
          <6> QED BY <6>2, <6>3, <6>4
        <5> QED BY <3>4, <3>6, <5>1, <5>2, Zenon
      <4> QED BY <3>1, <3>2, <4>1, <4>3, Zenon DEF ScanInv
    <3>9. CASE ~Better(c, i)
      <4>1. min'[c] = min[c] /\ minproc'[c] = minproc[c]
        BY <3>1, <3>9, Zenon
      <4>2. state[i] = "RUNNABLE" => ~(passada[i] <= min[c]) /\ min[c] # 0
        BY <3>9, Zenon DEF Better
      <4>3. Passed(c)' = {} => Passed(c) = {}
        BY <3>4, <3>6, Zenon
      <4>4. Passed(c)' # {} =>
               /\ minproc[c] \in Passed(c)' /\ min[c] = passada[minproc[c]]
               /\ (\A q \in Passed(c)' : passada[q] # 0) =>
                    \A q \in Passed(c)' : min[c] <= passada[q]
        <5> SUFFICES ASSUME Passed(c)' # {}
                     PROVE  /\ minproc[c] \in Passed(c)' /\ min[c] = passada[minproc[c]]
                            /\ (\A q \in Passed(c)' : passada[q] # 0) =>
                                 \A q \in Passed(c)' : min[c] <= passada[q]
          BY Zenon
        <5>1. Passed(c) # {}
          BY <3>4, <3>6, <3>7, <4>2, Zenon
        <5>2. minproc[c] \in Passed(c)' /\ min[c] = passada[minproc[c]]
          BY <3>4, <3>6, <3>7, <5>1, Zenon
        <5>3. min[c] \in Int
          BY <3>5, <3>6, <5>2, Zenon
        <5>4. ASSUME \A q \in Passed(c)' : passada[q] # 0, NEW q \in Passed(c)'
              PROVE  min[c] <= passada[q]
          <6>1. CASE q = i /\ state[i] = "RUNNABLE"
            BY <3>3, <3>5, <4>2, <5>3, <6>1
          <6>2. CASE q \in Passed(c)
            BY <3>4, <3>6, <3>7, <5>1, <5>4, <6>2, Zenon
          <6> QED BY <3>4, <3>6, <6>1, <6>2, Zenon
        <5> QED BY <5>2, <5>4, Zenon
      <4> QED BY <3>1, <3>2, <3>7, <4>1, <4>3, <4>4, Zenon DEF ScanInv
    <3> QED BY <3>8, <3>9, Zenon
  <2>3. ASSUME NEW c \in CPU, SchedIdle(c) \/ SchedWild(c) PROVE ScanInv'
    BY <1>0, <2>3 DEF SchedIdle, SchedWild, procVars, scanVars, cpuVars, ScanInv,
       Passed, Runnable
  <2>4. CASE TimerIdle
    BY <1>0, <1>1, <2>4, Distinct, Zenon DEF TimerIdle, cpuVars, ScanInv
  <2>5. ASSUME NEW c \in CPU, NEW p \in Procs, TimerIntr(c, p) PROVE ScanInv'
    <3>1. CASE c = 0
      <4>1. ptlock = Free /\ spc[c] # "scan" /\ spc' = [spc EXCEPT ![c] = "trap"]
        BY <2>5, <3>1, Zenon DEF TimerIntr, At
      <4>2. \A d \in CPU : spc'[d] # "scan"
        BY <1>0, <1>1, <4>1, Distinct, Zenon
      <4> QED BY <4>2, Zenon DEF ScanInv
    <3>2. CASE c # 0
      BY <1>0, <2>5, <3>2 DEF TimerIntr, scanVars, ScanInv, Passed, Runnable
    <3> QED BY <3>1, <3>2, Zenon
  <2>6. CASE UNCHANGED vars
    BY <2>6, Zenon DEF vars, procVars, scanVars, cpuVars, ScanInv, Passed, Runnable
  <2> QED BY <1>2, <2>1, <2>2, <2>3, <2>4, <2>5, <2>6, Zenon DEF Turn
<1>3. ASSUME NEW c \in CPU, ptlock \in {Free, c}, spc[c] # "scan",
             spc' = spc \/ spc' = [spc EXCEPT ![c] = "idle"]
      PROVE  ScanInv'
  <2>1. \A d \in CPU : spc'[d] # "scan"
    BY <1>0, <1>1, <1>3, Distinct, Zenon
  <2> QED BY <2>1, Zenon DEF ScanInv
<1>4. ASSUME UNCHANGED <<passada, idx, min, minproc, Runnable>>,
             \A d \in CPU : spc'[d] = "scan" => spc[d] = "scan"
      PROVE  ScanInv'
  BY <1>4, Zenon DEF ScanInv, Passed
<1>5. ASSUME NEW c \in CPU, SchedDispatch(c) PROVE ScanInv'
  <2>1. \A d \in CPU : spc'[d] # "scan"
    BY <1>0, <1>1, <1>5, Zenon DEF SchedDispatch, At
  <2> QED BY <2>1, Zenon DEF ScanInv
<1>6. ASSUME NEW c \in CPU, Resume(c) PROVE ScanInv'
  <2>1. spc' = spc \/ spc' = [spc EXCEPT ![c] = "run"]
    BY <1>6, Zenon DEF Resume
  <2>2. \A d \in CPU : spc'[d] = "scan" => spc[d] = "scan"
    BY <1>0, <2>1, Zenon
  <2> QED BY <1>4, <1>6, <2>2, Zenon DEF Resume, scanVars, Runnable
<1>7. ASSUME NEW c \in CPU, NEW p \in Procs, Move(c, p) PROVE ScanInv'
  <2>1. ASSUME NEW o \in Ops, OpMove(c, p, o) PROVE ScanInv'
    <3>1. \A d \in CPU : spc'[d] = "scan" => spc[d] = "scan"
      BY <1>0, <2>1, Zenon DEF OpMove
    <3> QED BY <1>4, <2>1, <3>1, Zenon DEF OpMove, scanVars, Runnable
  <2>2. ASSUME NEW np \in Procs, NEW t \in TicketArgs, AllocMove(c, p, np, t)
       PROVE  ScanInv'
    BY <1>3, <2>2, Zenon DEF AllocMove, cpuVars
  <2>3. CASE ForkStack(c, p) \/ ForkCopy(c, p)
    <3>1. /\ UNCHANGED <<passada, idx, min, minproc, spc>>
          /\ op[p] \in Forking
          /\ state' = state \/ state' = [state EXCEPT ![child[p]] = "UNUSED"]
      BY <2>3, Zenon DEF ForkStack, ForkCopy, On, scanVars, cpuVars, Forking
    <3>2. Runnable' = Runnable
      BY <1>0, <3>1, SMTT(60) DEF Runnable, ForkInv
    <3> QED BY <1>4, <3>1, <3>2, Zenon
  <2>4. CASE ForkPublish(c, p)
    BY <1>3, <2>4, Zenon DEF ForkPublish, On, At, cpuVars
  <2>5. CASE ExitFinish(c, p)
    BY <1>3, <2>5, Zenon DEF ExitFinish, On, At, Sched
  <2>6. CASE TrapYield(c, p)
    BY <1>3, <2>6, Zenon DEF TrapYield, At, Sched
  <2>7. ASSUME NEW z \in Procs, ReapMove(c, p, z) PROVE ScanInv'
    BY <1>1, <1>3, <2>7, Zenon DEF ReapMove
  <2>8. CASE WaitSleep(c, p)
    BY <1>1, <1>3, <2>8, Zenon DEF WaitSleep, On, At, Sched
  <2>9. CASE SleepTicks(c, p)
    BY <1>3, <2>9, Zenon DEF SleepTicks, On, At, Sched
  <2>10. ASSUME NEW q \in Procs, KillMove(c, p, q) PROVE ScanInv'
    BY <1>3, <2>10, Zenon DEF KillMove, cpuVars
  <2> QED BY <1>7, <2>1, <2>2, <2>3, <2>4, <2>5, <2>6, <2>7, <2>8, <2>9, <2>10, Zenon
          DEF Move
<1> QED BY <1>2, <1>5, <1>6, <1>7, NextCases, Zenon

-----------------------------------------------------------------------------
(* Every step preserves ForkInv. *)
LEMMA ForkStep ==
  ASSUME TypeOK, CpuInv, ForkInv, MemoryOwned, FamilyInv, [Next]_vars
  PROVE  ForkInv'
<1>0. /\ cur \in [CPU -> Procs \cup {NoProc}]
      /\ op \in [Procs -> Ops] /\ state \in [Procs -> States]
      /\ kstack \in [Procs -> BOOLEAN] /\ DOMAIN pgdir = Procs
      /\ DOMAIN parent = Procs /\ DOMAIN child = Procs
  BY Zenon DEF TypeOK
<1>1. \A c \in CPU, p \in Procs : cur[c] = p => state[p] = "RUNNING"
  BY Distinct DEF CpuInv, RunningOnOneCPU
<1>2. CASE Still
  BY <1>0, <1>2, Distinct, Zenon DEF Still, procVars, memVars, flowVars, ForkInv,
     Forking
<1>3. CASE Tick
  BY <1>0, <1>1, <1>3, Distinct, Zenon DEF Tick, Wakeup1, memVars, flowVars,
     ForkInv, Forking
<1>4. ASSUME NEW c \in CPU, SchedDispatch(c) PROVE ForkInv'
  BY <1>0, <1>1, <1>4, Distinct, Zenon DEF SchedDispatch, Dispatch, Switchable,
     memVars, flowVars, ForkInv, Forking
<1>5. ASSUME NEW c \in CPU, Resume(c) PROVE ForkInv'
  BY <1>0, <1>1, <1>5, Distinct, Zenon DEF Resume, memVars, flowVars, ForkInv,
     Forking
<1>6. ASSUME NEW c \in CPU, NEW p \in Procs, Move(c, p) PROVE ForkInv'
  <2>1. ASSUME NEW o \in Ops, OpMove(c, p, o) PROVE ForkInv'
    <3>1. /\ UNCHANGED <<state, child, kstack, pgdir, parent>>
          /\ op' = [op EXCEPT ![p] = o]
          /\ op[p] \notin Forking /\ o \notin Forking
      BY <2>1, Zenon DEF OpMove, memVars
    <3> QED BY <1>0, <3>1 DEF ForkInv, Forking
  <2>2. ASSUME NEW np \in Procs, NEW t \in TicketArgs, AllocMove(c, p, np, t)
       PROVE  ForkInv'
    BY <1>0, <1>1, <2>2, Distinct DEF AllocMove, memVars, ForkInv, Forking,
       MemoryOwned, FamilyInv
  <2>3. CASE ForkStack(c, p)
    BY <1>0, <1>1, <2>3, Distinct DEF ForkStack, On, Goto, ForkInv, Forking
  <2>4. CASE ForkCopy(c, p)
    BY <1>0, <1>1, <2>4, Distinct DEF ForkCopy, On, Goto, FreeStack, ForkInv,
       Forking
  <2>5. CASE ForkPublish(c, p)
    <3>1. /\ UNCHANGED <<parent, pgdir, kstack>> /\ op[p] = "publish"
          /\ state' = [state EXCEPT ![child[p]] = "RUNNABLE"]
          /\ child' = [child EXCEPT ![p] = NoProc]
          /\ op' = [op EXCEPT ![p] = "user"]
      BY <2>5, Zenon DEF ForkPublish, On, Goto, memVars
    <3> QED BY <1>0, <1>1, <3>1, Distinct DEF ForkInv, Forking
  <2>6. CASE ExitFinish(c, p)
    BY <1>0, <1>1, <2>6, Distinct DEF ExitFinish, On, Sched, ExitWakeups,
       Wakeup1, Reparent, memVars, ForkInv, Forking
  <2>7. CASE TrapYield(c, p)
    BY <1>0, <1>1, <2>7, Distinct DEF TrapYield, Sched, memVars, ForkInv,
       Forking
  <2>8. ASSUME NEW z \in Procs, ReapMove(c, p, z) PROVE ForkInv'
    BY <1>0, <1>1, <2>8, Distinct DEF ReapMove, ForkInv, Forking
  <2>9. CASE WaitSleep(c, p)
    BY <1>0, <1>1, <2>9, Distinct DEF WaitSleep, On, Sched, memVars, ForkInv,
       Forking
  <2>10. CASE SleepTicks(c, p)
    <3>1. /\ UNCHANGED <<parent, pgdir, kstack, child>> /\ cur[c] = p
          /\ op[p] = "doze"
          /\ state' = [state EXCEPT ![p] = "SLEEPING"]
          /\ op' = [op EXCEPT ![p] = "sleep"]
      BY <2>10, Zenon DEF SleepTicks, On, Goto, memVars
    <3> QED BY <1>0, <1>1, <3>1, Distinct DEF ForkInv, Forking
  <2>11. ASSUME NEW q \in Procs, KillMove(c, p, q) PROVE ForkInv'
    BY <1>0, <1>1, <2>11, Distinct DEF KillMove, KillWakes, memVars, ForkInv,
       Forking
  <2> QED BY <1>6, <2>1, <2>2, <2>3, <2>4, <2>5, <2>6, <2>7, <2>8, <2>9, <2>10, <2>11, Zenon
     DEF Move
<1> QED BY <1>2, <1>3, <1>4, <1>5, <1>6, NextCases, TurnCases, Zenon

(* Every step preserves MemoryOwned. *)
LEMMA MemoryStep ==
  ASSUME TypeOK, CpuInv, ForkInv, MemoryOwned, [Next]_vars
  PROVE  MemoryOwned'
<1>0. /\ state \in [Procs -> States]
      /\ kstack \in [Procs -> BOOLEAN] /\ DOMAIN pgdir = Procs
  BY Zenon DEF TypeOK
<1>1. \A c \in CPU, p \in Procs : cur[c] = p => state[p] = "RUNNING"
  BY Distinct DEF CpuInv, RunningOnOneCPU
<1>2. CASE Still
  BY <1>0, <1>2, Distinct, Zenon DEF Still, procVars, memVars, MemoryOwned, Alive
<1>3. CASE Tick
  BY <1>0, <1>1, <1>3, Distinct, Zenon DEF Tick, Wakeup1, memVars, MemoryOwned,
     Alive
<1>4. ASSUME NEW c \in CPU, SchedDispatch(c) PROVE MemoryOwned'
  BY <1>0, <1>1, <1>4, Distinct, Zenon DEF SchedDispatch, Dispatch, Switchable,
     memVars, MemoryOwned, Alive
<1>5. ASSUME NEW c \in CPU, Resume(c) PROVE MemoryOwned'
  BY <1>0, <1>1, <1>5, Distinct, Zenon DEF Resume, memVars, MemoryOwned, Alive
<1>6. ASSUME NEW c \in CPU, NEW p \in Procs, Move(c, p) PROVE MemoryOwned'
  <2>1. ASSUME NEW o \in Ops, OpMove(c, p, o) PROVE MemoryOwned'
    BY <1>0, <1>1, <2>1, Distinct, Zenon DEF OpMove, memVars, MemoryOwned, Alive
  <2>2. ASSUME NEW np \in Procs, NEW t \in TicketArgs, AllocMove(c, p, np, t)
       PROVE  MemoryOwned'
    BY <1>0, <1>1, <2>2, Distinct, Zenon DEF AllocMove, memVars, MemoryOwned, Alive
  <2>3. CASE ForkStack(c, p)
    BY <1>0, <1>1, <2>3, Distinct DEF ForkStack, On, MemoryOwned, Alive,
       ForkInv, Forking
  <2>4. CASE ForkCopy(c, p)
    BY <1>0, <1>1, <2>4, Distinct DEF ForkCopy, On, FreeStack, MemoryOwned,
       Alive, ForkInv, Forking
  <2>5. CASE ForkPublish(c, p)
    BY <1>0, <1>1, <2>5, Distinct DEF ForkPublish, On, memVars, MemoryOwned,
       Alive, ForkInv, Forking
  <2>6. CASE ExitFinish(c, p)
    BY <1>0, <1>1, <2>6, Distinct DEF ExitFinish, On, Sched, ExitWakeups,
       Wakeup1, memVars, MemoryOwned, Alive
  <2>7. CASE TrapYield(c, p)
    BY <1>0, <1>1, <2>7, Distinct, Zenon DEF TrapYield, Sched, memVars, MemoryOwned,
       Alive
  <2>8. ASSUME NEW z \in Procs, ReapMove(c, p, z) PROVE MemoryOwned'
    BY <1>0, <1>1, <2>8, Distinct, Zenon DEF ReapMove, MemoryOwned, Alive
  <2>9. CASE WaitSleep(c, p)
    BY <1>0, <1>1, <2>9, Distinct DEF WaitSleep, On, Sched, memVars,
       MemoryOwned, Alive
  <2>10. CASE SleepTicks(c, p)
    BY <1>0, <1>1, <2>10, Distinct, Zenon DEF SleepTicks, On, Sched, memVars,
       MemoryOwned, Alive
  <2>11. ASSUME NEW q \in Procs, KillMove(c, p, q) PROVE MemoryOwned'
    BY <1>0, <1>1, <2>11, Distinct DEF KillMove, KillWakes, memVars,
       MemoryOwned, Alive
  <2> QED BY <1>6, <2>1, <2>2, <2>3, <2>4, <2>5, <2>6, <2>7, <2>8, <2>9, <2>10, <2>11, Zenon
     DEF Move
<1> QED BY <1>2, <1>3, <1>4, <1>5, <1>6, NextCases, TurnCases, Zenon

(* Every step preserves FamilyInv. *)
LEMMA FamilyStep ==
  ASSUME TypeOK, CpuInv, ForkInv, FamilyInv, [Next]_vars
  PROVE  FamilyInv'
<1>0. /\ cur \in [CPU -> Procs \cup {NoProc}]
      /\ op \in [Procs -> Ops] /\ state \in [Procs -> States]
      /\ parent \in [Procs -> Procs \cup {NoProc}]
  BY Zenon DEF TypeOK
<1>1. \A c \in CPU, p \in Procs : cur[c] = p => state[p] = "RUNNING"
  BY Distinct DEF CpuInv, RunningOnOneCPU
<1>2. CASE Still
  BY <1>0, <1>2, Distinct, Zenon DEF Still, procVars, flowVars, FamilyInv,
     ParentCanWait, Alive
<1>3. CASE Tick
  BY <1>0, <1>1, <1>3, Distinct, Zenon DEF Tick, Wakeup1, flowVars, FamilyInv,
     ParentCanWait, Alive
<1>4. ASSUME NEW c \in CPU, SchedDispatch(c) PROVE FamilyInv'
  BY <1>0, <1>1, <1>4, Distinct DEF SchedDispatch, Dispatch, Switchable,
     flowVars, FamilyInv, ParentCanWait, Alive
<1>5. ASSUME NEW c \in CPU, Resume(c) PROVE FamilyInv'
  BY <1>0, <1>1, <1>5, Distinct, Zenon DEF Resume, flowVars, FamilyInv,
     ParentCanWait, Alive
<1>6. ASSUME NEW c \in CPU, NEW p \in Procs, Move(c, p) PROVE FamilyInv'
  <2>1. ASSUME NEW o \in Ops, OpMove(c, p, o) PROVE FamilyInv'
    BY <1>0, <1>1, <2>1, Distinct, Zenon DEF OpMove, FamilyInv, ParentCanWait, Alive
  <2>2. ASSUME NEW np \in Procs, NEW t \in TicketArgs, AllocMove(c, p, np, t)
       PROVE  FamilyInv'
    BY <1>0, <1>1, <2>2, Distinct DEF AllocMove, FamilyInv, ParentCanWait,
       Alive
  <2>3. CASE ForkStack(c, p)
    <3>1. /\ UNCHANGED <<parent, chan, killed, pgdir>> /\ op[p] = "fork"
          /\ \/ /\ kstack' = [kstack EXCEPT ![child[p]] = TRUE]
                /\ op' = [op EXCEPT ![p] = "copy"]
                /\ UNCHANGED <<state, child>>
             \/ /\ state' = [state EXCEPT ![child[p]] = "UNUSED"]
                /\ child' = [child EXCEPT ![p] = NoProc]
                /\ op' = [op EXCEPT ![p] = "user"]
                /\ kstack' = kstack
      BY <2>3, Zenon DEF ForkStack, On, Goto
    <3> QED BY <1>0, <1>1, <3>1, Distinct DEF FamilyInv, ParentCanWait, Alive,
       ForkInv, Forking
  <2>4. CASE ForkCopy(c, p)
    <3>1. /\ UNCHANGED <<chan, killed>> /\ op[p] = "copy"
          /\ \/ /\ parent' = [parent EXCEPT ![child[p]] = p]
                /\ op' = [op EXCEPT ![p] = "publish", ![child[p]] = "user"]
                /\ state' = state
             \/ /\ state' = [state EXCEPT ![child[p]] = "UNUSED"]
                /\ op' = [op EXCEPT ![p] = "user"]
                /\ parent' = parent
      BY <2>4, Zenon DEF ForkCopy, On, Goto
    <3> QED BY <1>0, <1>1, <3>1, Distinct DEF FamilyInv, ParentCanWait, Alive,
       ForkInv, Forking
  <2>5. CASE ForkPublish(c, p)
    <3>1. /\ UNCHANGED <<parent, chan, killed>> /\ op[p] = "publish"
          /\ state' = [state EXCEPT ![child[p]] = "RUNNABLE"]
          /\ op' = [op EXCEPT ![p] = "user"]
      BY <2>5, Zenon DEF ForkPublish, On, Goto
    <3> QED BY <1>0, <1>1, <3>1, Distinct DEF FamilyInv, ParentCanWait, Alive,
       ForkInv, Forking
  <2>6. CASE ExitFinish(c, p)
    BY <1>0, <1>1, <2>6, Distinct DEF ExitFinish, On, Sched, ExitWakeups,
       Wakeup1, Reparent, FamilyInv, ParentCanWait, Alive
  <2>7. CASE TrapYield(c, p)
    BY <1>0, <1>1, <2>7, Distinct, Zenon DEF TrapYield, Sched, FamilyInv,
       ParentCanWait, Alive
  <2>8. ASSUME NEW z \in Procs, ReapMove(c, p, z) PROVE FamilyInv'
    BY <1>0, <1>1, <2>8, Distinct DEF ReapMove, FamilyInv, ParentCanWait,
       Alive
  <2>9. CASE WaitSleep(c, p)
    BY <1>0, <1>1, <2>9, Distinct DEF WaitSleep, On, Sched, FamilyInv,
       ParentCanWait, Alive
  <2>10. CASE SleepTicks(c, p)
    BY <1>0, <1>1, <2>10, Distinct DEF SleepTicks, On, Sched, Goto,
       FamilyInv, ParentCanWait, Alive
  <2>11. ASSUME NEW q \in Procs, KillMove(c, p, q) PROVE FamilyInv'
    BY <1>0, <1>1, <2>11, Distinct DEF KillMove, KillWakes, FamilyInv,
       ParentCanWait, Alive
  <2> QED BY <1>6, <2>1, <2>2, <2>3, <2>4, <2>5, <2>6, <2>7, <2>8, <2>9, <2>10, <2>11, Zenon
     DEF Move
<1> QED BY <1>2, <1>3, <1>4, <1>5, <1>6, NextCases, TurnCases, Zenon

(* Every step preserves SleepInv. *)
LEMMA SleepStep ==
  ASSUME TypeOK, CpuInv, ForkInv, FamilyInv, SleepInv, [Next]_vars
  PROVE  SleepInv'
<1>0. /\ cur \in [CPU -> Procs \cup {NoProc}]
      /\ op \in [Procs -> Ops] /\ state \in [Procs -> States]
      /\ parent \in [Procs -> Procs \cup {NoProc}] /\ DOMAIN chan = Procs
      /\ killed \in [Procs -> BOOLEAN]
  BY Zenon DEF TypeOK
<1>1. \A c \in CPU, p \in Procs : cur[c] = p => state[p] = "RUNNING"
  BY Distinct DEF CpuInv, RunningOnOneCPU
<1>2. CASE Still
  <2>1. UNCHANGED <<state, parent, chan, killed, op>>
    BY <1>2, Zenon DEF Still, procVars, flowVars
  <2> QED BY <2>1, Zenon DEF SleepInv, NoMissedExit, Zombies, Children
<1>3. CASE Tick
  <2>1. /\ UNCHANGED <<parent, chan, killed, op>>
        /\ state' = Wakeup1(state, TICKS)
    BY <1>3, Zenon DEF Tick, flowVars
  <2> QED BY <1>0, <1>1, <2>1, Distinct DEF Wakeup1, SleepInv, NoMissedExit,
     Zombies, Children
<1>4. ASSUME NEW c \in CPU, SchedDispatch(c) PROVE SleepInv'
  <2>1. /\ UNCHANGED <<parent, chan, killed, op>>
        /\ state' = [state EXCEPT ![minproc[c]] = "RUNNING"]
        /\ Switchable(minproc[c])
    BY <1>4, Zenon DEF SchedDispatch, Dispatch, flowVars
  <2> QED BY <1>0, <1>1, <2>1, Distinct DEF Switchable, SleepInv, NoMissedExit,
     Zombies, Children
<1>5. ASSUME NEW c \in CPU, Resume(c) PROVE SleepInv'
  <2>1. /\ UNCHANGED <<state, parent, killed, op>>
        /\ chan' = chan \/ chan' = [chan EXCEPT ![cur[c]] = 0]
    BY <1>5, Zenon DEF Resume, flowVars
  <2> QED BY <1>0, <1>1, <2>1 DEF SleepInv, NoMissedExit, Zombies, Children
<1>6. ASSUME NEW c \in CPU, NEW p \in Procs, Move(c, p) PROVE SleepInv'
  <2>1. ASSUME NEW o \in Ops, OpMove(c, p, o) PROVE SleepInv'
    <3>1. /\ UNCHANGED <<state, parent, chan>> /\ cur[c] = p
          /\ killed' = killed \/ killed' = [killed EXCEPT ![p] = TRUE]
          /\ op' = [op EXCEPT ![p] = o]
      BY <2>1, Zenon DEF OpMove, MayDie
    <3> QED BY <1>0, <1>1, <3>1 DEF SleepInv, NoMissedExit, Zombies, Children
  <2>2. ASSUME NEW np \in Procs, NEW t \in TicketArgs, AllocMove(c, p, np, t)
       PROVE  SleepInv'
    <3>1. /\ UNCHANGED <<parent, chan, killed>> /\ cur[c] = p
          /\ state[np] = "UNUSED" /\ state' = [state EXCEPT ![np] = "EMBRYO"]
          /\ op' = [op EXCEPT ![p] = "fork"]
      BY <2>2, Zenon DEF AllocMove
    <3> QED BY <1>0, <1>1, <3>1, Distinct DEF SleepInv, NoMissedExit, Zombies,
       Children, FamilyInv
  <2>3. CASE ForkStack(c, p)
    <3>1. /\ UNCHANGED <<parent, chan, killed, pgdir>> /\ op[p] = "fork"
          /\ \/ /\ kstack' = [kstack EXCEPT ![child[p]] = TRUE]
                /\ op' = [op EXCEPT ![p] = "copy"]
                /\ UNCHANGED <<state, child>>
             \/ /\ state' = [state EXCEPT ![child[p]] = "UNUSED"]
                /\ child' = [child EXCEPT ![p] = NoProc]
                /\ op' = [op EXCEPT ![p] = "user"]
                /\ kstack' = kstack
      BY <2>3, Zenon DEF ForkStack, On, Goto
    <3> QED BY <1>0, <1>1, <3>1, Distinct DEF SleepInv, NoMissedExit, Zombies, Children,
       ForkInv, Forking
  <2>4. CASE ForkCopy(c, p)
    <3>1. /\ UNCHANGED <<chan, killed>> /\ op[p] = "copy"
          /\ \/ /\ parent' = [parent EXCEPT ![child[p]] = p]
                /\ op' = [op EXCEPT ![p] = "publish", ![child[p]] = "user"]
                /\ state' = state
             \/ /\ state' = [state EXCEPT ![child[p]] = "UNUSED"]
                /\ op' = [op EXCEPT ![p] = "user"]
                /\ parent' = parent
      BY <2>4, Zenon DEF ForkCopy, On, Goto
    <3> QED BY <1>0, <1>1, <3>1, Distinct DEF SleepInv, NoMissedExit, Zombies, Children,
       ForkInv, Forking
  <2>5. CASE ForkPublish(c, p)
    <3>1. /\ UNCHANGED <<parent, chan, killed>> /\ op[p] = "publish"
          /\ state' = [state EXCEPT ![child[p]] = "RUNNABLE"]
          /\ op' = [op EXCEPT ![p] = "user"]
      BY <2>5, Zenon DEF ForkPublish, On, Goto
    <3> QED BY <1>0, <1>1, <3>1, Distinct DEF SleepInv, NoMissedExit, Zombies, Children,
       ForkInv, Forking
  <2>6. CASE ExitFinish(c, p)
    <3>1. /\ cur[c] = p /\ UNCHANGED <<op, chan, killed>>
          /\ parent' = Reparent(p) /\ state' = [ExitWakeups(p) EXCEPT ![p] = "ZOMBIE"]
      BY <2>6, Zenon DEF ExitFinish, On, At
    <3>2. state[p] = "RUNNING"
      BY <3>1, Distinct DEF CpuInv, RunningOnOneCPU
    <3>3. \A q \in Procs \ {p} :
            /\ state'[q] = "SLEEPING" => state[q] = "SLEEPING" /\ chan[q] # parent[p]
            /\ state'[q] = "ZOMBIE" <=> state[q] = "ZOMBIE"
      BY <1>0, <3>1, Zenon DEF ExitWakeups, Wakeup1
    <3>4. ASSUME NEW z \in Procs, parent[z] = p, state[z] = "ZOMBIE"
          PROVE  \A q \in Procs : state'[q] = "SLEEPING" => chan[q] # initproc
      BY <1>0, <3>1, <3>4, Zenon DEF ExitWakeups, Wakeup1
    <3>5. state'[p] = "ZOMBIE"
      BY <1>0, <3>1, Zenon DEF ExitWakeups, Wakeup1
    <3>6. ASSUME NEW q \in Procs, state'[q] = "SLEEPING", op[q] = "wait"
          PROVE  Children(q)' # {} /\ Zombies(q)' = {} /\ ~killed[q]
      <4>1. /\ q # p /\ state[q] = "SLEEPING" /\ chan[q] = q /\ q # parent[p]
            /\ Children(q) # {} /\ Zombies(q) = {} /\ ~killed[q]
        BY <1>0, <3>3, <3>5, <3>6, Distinct, Zenon DEF SleepInv, NoMissedExit, TICKS
      <4>2. Children(q)' # {}
        BY <1>0, <3>1, <4>1, Zenon DEF Children, Reparent
      <4>3. ASSUME NEW r \in Procs, parent'[r] = q, state'[r] = "ZOMBIE"
            PROVE  FALSE
        <5>1. CASE parent[r] = p
          <6>1. r # p
            BY <1>0, <3>2, <5>1, Distinct, Zenon DEF FamilyInv, ParentCanWait, Alive
          <6>2. q = initproc /\ state[r] = "ZOMBIE"
            BY <3>1, <3>3, <4>3, <5>1, <6>1, Zenon DEF Reparent
          <6> QED BY <3>4, <3>6, <4>1, <5>1, <6>2, Zenon
        <5>2. CASE parent[r] # p
          BY <1>0, <3>1, <3>3, <4>1, <4>3, <5>2, Zenon DEF Reparent, Zombies, Children
        <5> QED BY <5>1, <5>2, Zenon
      <4> QED BY <4>1, <4>2, <4>3, Zenon DEF Zombies, Children
    <3>7. \A q \in Procs : state'[q] = "SLEEPING" =>
            \/ op[q] = "wait" /\ chan[q] = q
            \/ op[q] = "sleep" /\ chan[q] = TICKS
      BY <3>3, <3>5, Zenon DEF SleepInv
    <3> QED BY <3>1, <3>6, <3>7, Zenon DEF SleepInv, NoMissedExit
  <2>7. CASE TrapYield(c, p)
    <3>1. /\ UNCHANGED <<parent, chan, killed, op>> /\ cur[c] = p
          /\ state' = [state EXCEPT ![p] = "RUNNABLE"]
      BY <2>7, Zenon DEF TrapYield
    <3> QED BY <1>0, <1>1, <3>1, Distinct DEF SleepInv, NoMissedExit, Zombies,
       Children
  <2>8. ASSUME NEW z \in Procs, ReapMove(c, p, z) PROVE SleepInv'
    <3>1. /\ chan' = chan /\ cur[c] = p
          /\ state[z] = "ZOMBIE" /\ state' = [state EXCEPT ![z] = "UNUSED"]
          /\ parent[z] = p /\ parent' = [parent EXCEPT ![z] = NoProc]
          /\ killed' = [killed EXCEPT ![z] = FALSE]
          /\ op' = [op EXCEPT ![p] = "user"]
      BY <2>8, Zenon DEF ReapMove
    <3> QED BY <1>0, <1>1, <3>1, Distinct DEF SleepInv, NoMissedExit, Zombies,
       Children
  <2>9. CASE WaitSleep(c, p)
    <3>1. /\ UNCHANGED <<parent, killed, op>> /\ op[p] = "wait"
          /\ Zombies(p) = {} /\ Children(p) # {} /\ ~killed[p]
          /\ chan' = [chan EXCEPT ![p] = p]
          /\ state' = [state EXCEPT ![p] = "SLEEPING"]
      BY <2>9, Zenon DEF WaitSleep, On
    <3> QED BY <1>0, <1>1, <3>1, Distinct DEF SleepInv, NoMissedExit, Zombies,
       Children
  <2>10. CASE SleepTicks(c, p)
    <3>1. /\ UNCHANGED <<parent, killed>> /\ cur[c] = p
          /\ chan' = [chan EXCEPT ![p] = TICKS]
          /\ state' = [state EXCEPT ![p] = "SLEEPING"]
          /\ op' = [op EXCEPT ![p] = "sleep"]
      BY <2>10, Zenon DEF SleepTicks, On, Goto
    <3> QED BY <1>0, <1>1, <3>1, Distinct DEF SleepInv, NoMissedExit, Zombies,
       Children
  <2>11. ASSUME NEW q \in Procs, KillMove(c, p, q) PROVE SleepInv'
    <3>1. /\ UNCHANGED <<parent, chan>> /\ cur[c] = p
          /\ killed' = [killed EXCEPT ![q] = TRUE] /\ state' = KillWakes(q)
          /\ op' = [op EXCEPT ![p] = "user"]
      BY <2>11, Zenon DEF KillMove
    <3> QED BY <1>0, <1>1, <3>1, Distinct DEF KillWakes, SleepInv, NoMissedExit,
       Zombies, Children
  <2> QED BY <1>6, <2>1, <2>2, <2>3, <2>4, <2>5, <2>6, <2>7, <2>8, <2>9, <2>10, <2>11, Zenon
     DEF Move
<1> QED BY <1>2, <1>3, <1>4, <1>5, <1>6, NextCases, TurnCases, Zenon

(* The boot state satisfies the invariant: init alone, nobody on a CPU. *)
LEMMA InitInv == Init => IInv
<1> SUFFICES ASSUME Init PROVE IInv
  BY Zenon
<1>1. Passo(DEFAULT_TICKETS) \in 0..STRIDE1 /\ 0 \in 0..STRIDE1 /\ 1 \in 1..(NPROC + 1)
  BY PassoRange, ProcAssumption
<1>2. TypeOK
  BY <1>1, Distinct, Zenon DEF Init, TypeOK, States, Ops, Chans
<1>3. CpuInv
  BY Distinct, Zenon DEF Init, CpuInv, RunningOnOneCPU
<1>4. ForkInv /\ MemoryOwned /\ FamilyInv
  BY Distinct, Zenon DEF Init, ForkInv, Forking, MemoryOwned, FamilyInv, ParentCanWait, Alive
<1>5. SleepInv
  BY Distinct, Zenon DEF Init, SleepInv, NoMissedExit
<1>6. PidInv
  BY Distinct DEF Init, PidInv, PidsDistinct
<1>7. ScanInv
  BY Zenon DEF Init, ScanInv
<1> QED BY <1>2, <1>3, <1>4, <1>5, <1>6, <1>7, Zenon DEF IInv

(* The invariant holds in every state of every behaviour of proc.c's       *)
(* process table and schedulers.                                           *)
THEOREM Invariance == Spec => []IInv
<1>1. IInv /\ [Next]_vars => IInv'
  BY TypeStep, CpuStep, ForkStep, MemoryStep, FamilyStep, SleepStep, PidStep,
     ScanStep, Zenon DEF IInv
<1> QED BY InitInv, <1>1, PTL DEF Spec

(* The types are right in every reachable state; in particular passada     *)
(* stays an int however often scheduler() adds to it.                      *)
THEOREM TypeCorrect == Spec => []TypeOK
<1>1. IInv => TypeOK
  BY Zenon DEF IInv
<1> QED BY Invariance, <1>1, PTL

(* On any number of CPUs a RUNNING process is current on exactly one, up   *)
(* to the moment scheduler() follows a wild min_proc.                      *)
THEOREM OneCPU == Spec => []RunningOnOneCPU
<1>1. IInv => RunningOnOneCPU
  BY Zenon DEF IInv, CpuInv
<1> QED BY Invariance, <1>1, PTL

(* exit() never leaves a process, zombie or not, without a live parent. *)
THEOREM Parents == Spec => []ParentCanWait
<1>1. IInv => ParentCanWait
  BY Zenon DEF IInv, FamilyInv
<1> QED BY Invariance, <1>1, PTL

(* wait() never sleeps through the exit of a child, an inherited zombie or *)
(* a kill().                                                               *)
THEOREM NoMissed == Spec => []NoMissedExit
<1>1. IInv => NoMissedExit
  BY Zenon DEF IInv, SleepInv
<1> QED BY Invariance, <1>1, PTL

(* allocproc() never hands out a pid that some slot still holds. *)
THEOREM Pids == Spec => []PidsDistinct
<1>1. IInv => PidsDistinct
  BY Zenon DEF IInv, PidInv
<1> QED BY Invariance, <1>1, PTL

(* fork(), exit() and wait() give every process its stack and page table   *)
(* and take the stack back with the slot.                                  *)
THEOREM Memory == Spec => []MemoryOwned
<1>1. IInv => MemoryOwned
  BY Zenon DEF IInv
<1> QED BY Invariance, <1>1, PTL

(* The scan of scheduler() ends at a RUNNABLE process whenever there is    *)
(* one, and at one of smallest passada when none of them has passada 0.    *)
THEOREM ScanCorrect == Spec => []ScanPicksMin
<1>1. IInv => ScanPicksMin
  <2> SUFFICES ASSUME IInv, NEW c \in CPU, spc[c] = "scan", idx[c] > NPROC, Runnable # {}
               PROVE  /\ minproc[c] \in Runnable
                      /\ (\A p \in Runnable : passada[p] # 0) =>
                           \A p \in Runnable : passada[minproc[c]] <= passada[p]
    BY Zenon DEF ScanPicksMin
  <2>1. Passed(c) = Runnable
    <3>1. idx[c] \in Int
      <4>1. idx \in [CPU -> 1..(NPROC + 1)]
        BY Zenon DEF IInv, TypeOK
      <4> QED BY <4>1, ProcAssumption
    <3>2. \A p \in Procs : p < idx[c]
      BY <3>1, ProcAssumption DEF Procs
    <3> QED BY <3>2, Zenon DEF Passed, Runnable
  <2> QED BY <2>1, Zenon DEF IInv, ScanInv
<1> QED BY Invariance, <1>1, PTL
=============================================================================
