-------------------------------- MODULE Proc --------------------------------
(***************************************************************************)
(* The process table of proc.c and the per-CPU stride scheduler: fork,     *)
(* exit, wait, kill, sleep/wakeup, yield, scheduler() and the parts of     *)
(* trap() that call them.                                                  *)
(*                                                                         *)
(* A step is one critical section under ptable.lock, one unlocked write to *)
(* shared state, or one iteration of the scheduler's scan (which holds the *)
(* lock from one step to the next).  sched() switches to the scheduler     *)
(* thread, which clears cpu->proc and releases the lock, all inside the    *)
(* caller's critical section, so it belongs to the caller's step.          *)
(***************************************************************************)
EXTENDS Integers

CONSTANTS
  NPROC,            \* size of ptable.proc
  NCPU,             \* number of processors; CPU 0 counts the ticks
  MIN_TICKETS, MAX_TICKETS, DEFAULT_TICKETS,
  STRIDE1,          \* the 10000 that allocproc divides by the tickets
  INT_MAX,          \* largest int: 2^31 - 1 in the code
  Calls,            \* the system calls user programs make in this instance
  TicketArgs,       \* the arguments user programs pass to fork
  KillArgs,         \* the arguments user programs pass to kill
  MaxPid            \* bound on the number of processes ever created

ASSUME ProcAssumption ==
  /\ NPROC \in Nat \ {0}
  /\ NCPU \in Nat \ {0}
  /\ MIN_TICKETS \in Nat \ {0} /\ MAX_TICKETS \in Nat /\ DEFAULT_TICKETS \in Nat
  /\ MIN_TICKETS <= DEFAULT_TICKETS /\ DEFAULT_TICKETS <= MAX_TICKETS
  /\ STRIDE1 \in Nat /\ MAX_TICKETS <= STRIDE1
  /\ INT_MAX \in Nat /\ STRIDE1 <= INT_MAX
  /\ TicketArgs \subseteq Int
  /\ KillArgs \subseteq Int
  /\ MaxPid \in Nat

VARIABLES
  state, pid, parent, chan, killed, passo, passada,  \* struct proc
  kstack,           \* does the slot own a kernel stack page?
  pgdir,            \* its page table: never set, in use, or freed
  ctx,              \* the function that p->context returns into
  op,               \* where the process is in its own control flow
  child,            \* fork's local np
  nextpid,
  ptlock,           \* the CPU that holds ptable.lock
  cur,              \* cpu->proc
  spc,              \* where the CPU is: in scheduler() or in a process
  idx, min, minproc,\* scheduler()'s locals p, min and min_proc
  panic             \* why the machine stopped

procVars  == <<state, pid, parent, chan, killed, passo, passada>>
memVars   == <<kstack, pgdir>>
flowVars  == <<ctx, op, child>>
scanVars  == <<idx, min, minproc>>
cpuVars   == <<cur, spc, ptlock>>
vars == <<procVars, memVars, flowVars, scanVars, cpuVars, nextpid, panic>>

Procs    == 1..NPROC
CPU      == 0..(NCPU - 1)
Free     == -1            \* ptlock: nobody holds it
NoProc   == 0             \* a null struct proc*
Junk     == -1            \* a struct proc* that points at no slot
TICKS    == NPROC + 1     \* the channel &ticks; wait sleeps on a slot
Chans    == Procs \cup {0, TICKS}
Ints     == (-INT_MAX - 1)..INT_MAX
initproc == 1

States == {"UNUSED", "EMBRYO", "SLEEPING", "RUNNABLE", "RUNNING", "ZOMBIE"}
Alive  == {"SLEEPING", "RUNNABLE", "RUNNING"}
Ops    == {"user", "sys", "fork", "copy", "publish", "wait", "sleep",
           "doze", "exit"}
Forking == {"fork", "copy", "publish"}

-----------------------------------------------------------------------------
(* fork's clamp on the tickets and allocproc's division. *)
Tickets(t) ==
  IF t = 0 THEN DEFAULT_TICKETS
  ELSE IF t < MIN_TICKETS THEN MIN_TICKETS
  ELSE IF t > MAX_TICKETS THEN MAX_TICKETS
  ELSE t

Passo(t) == STRIDE1 \div Tickets(t)

AddIntUnbounded(a, b) == a + b

(* Two's complement addition: the build's add instruction wraps. *)
AddInt(a, b) ==
  IF a + b > INT_MAX THEN a + b - 2 * (INT_MAX + 1) ELSE a + b

(* The state of every process after wakeup1(ch) ran on the states st. *)
Wakeup1(st, ch) ==
  [q \in Procs |-> IF st[q] = "SLEEPING" /\ chan[q] = ch
                   THEN "RUNNABLE" ELSE st[q]]

(* A scan of the table that stops at the first slot of S. *)
First(S) == CHOOSE q \in S : \A r \in S : q <= r

(* main() has run userinit(): init is the only process.  min_proc is an    *)
(* uninitialized local of each CPU's scheduler().                          *)
Init ==
  /\ state   = [p \in Procs |-> IF p = initproc THEN "RUNNABLE" ELSE "UNUSED"]
  /\ pid     = [p \in Procs |-> IF p = initproc THEN 1 ELSE 0]
  /\ parent  = [p \in Procs |-> NoProc]
  /\ chan    = [p \in Procs |-> 0]
  /\ killed  = [p \in Procs |-> FALSE]
  /\ passo   = [p \in Procs |-> IF p = initproc THEN Passo(DEFAULT_TICKETS) ELSE 0]
  /\ passada = [p \in Procs |-> 0]
  /\ kstack  = [p \in Procs |-> p = initproc]
  /\ pgdir   = [p \in Procs |-> IF p = initproc THEN "valid" ELSE "none"]
  /\ ctx     = [p \in Procs |-> IF p = initproc THEN "forkret" ELSE "none"]
  /\ op      = [p \in Procs |-> "user"]
  /\ child   = [p \in Procs |-> NoProc]
  /\ nextpid = 2
  /\ ptlock  = Free
  /\ cur     = [c \in CPU |-> NoProc]
  /\ spc     = [c \in CPU |-> "idle"]
  /\ idx     = [c \in CPU |-> 1]
  /\ min     = [c \in CPU |-> 0]
  /\ minproc \in [CPU -> {NoProc, Junk}]
  /\ panic   = "no"

-----------------------------------------------------------------------------
(* scheduler(): the loop of one CPU.                                       *)

(* CPU c is at s; a panic stops the machine. *)
At(c, s) == spc[c] = s /\ panic = "no"

(* sti(); acquire(&ptable.lock); p = ptable.proc, min = 0 *)
SchedAcquire(c) ==
  /\ At(c, "idle") /\ ptlock = Free
  /\ ptlock' = c
  /\ spc' = [spc EXCEPT ![c] = "scan"]
  /\ idx' = [idx EXCEPT ![c] = 1]
  /\ min' = [min EXCEPT ![c] = 0]
  /\ UNCHANGED <<procVars, memVars, flowVars, minproc, cur, nextpid, panic>>

BetterReversed(c, p) ==
  state[p] = "RUNNABLE" /\ (passada[p] >= min[c] \/ min[c] = 0)

BetterSkipsLast(c, p) ==
  p < NPROC /\ state[p] = "RUNNABLE" /\ (passada[p] <= min[c] \/ min[c] = 0)

(* The condition under which the scan moves min and min_proc to p. *)
Better(c, p) == state[p] = "RUNNABLE" /\ (passada[p] <= min[c] \/ min[c] = 0)

(* One iteration of the for loop over the table. *)
SchedScan(c) ==
  /\ At(c, "scan") /\ idx[c] <= NPROC
  /\ idx' = [idx EXCEPT ![c] = idx[c] + 1]
  /\ IF Better(c, idx[c])
     THEN /\ min' = [min EXCEPT ![c] = passada[idx[c]]]
          /\ minproc' = [minproc EXCEPT ![c] = idx[c]]
     ELSE UNCHANGED <<min, minproc>>
  /\ UNCHANGED <<procVars, memVars, flowVars, cpuVars, nextpid, panic>>

(* min_proc is still null: release the lock and loop. *)
SchedIdle(c) ==
  /\ At(c, "scan") /\ idx[c] > NPROC /\ minproc[c] = NoProc
  /\ spc' = [spc EXCEPT ![c] = "idle"]
  /\ ptlock' = Free
  /\ UNCHANGED <<procVars, memVars, flowVars, scanVars, cur, nextpid, panic>>

(* min_proc keeps its value from one round to the next, so a round that    *)
(* finds nothing RUNNABLE switches to the last process chosen, whatever    *)
(* its state is now.                                                       *)
Switchable(m) == m \in Procs /\ state[m] \in {"RUNNABLE", "SLEEPING", "ZOMBIE"}

DispatchUnmarked(c) ==
  LET m == minproc[c]
  IN /\ passada' = [passada EXCEPT ![m] = AddInt(passada[m], passo[m])]
     /\ cur' = [cur EXCEPT ![c] = m]
     /\ UNCHANGED state

(* passada += passo; proc = min_proc; switchuvm; RUNNING; swtch *)
Dispatch(c) ==
  LET m == minproc[c]
  IN /\ passada' = [passada EXCEPT ![m] = AddInt(passada[m], passo[m])]
     /\ cur' = [cur EXCEPT ![c] = m]
     /\ state' = [state EXCEPT ![m] = "RUNNING"]

SchedDispatch(c) ==
  /\ At(c, "scan") /\ idx[c] > NPROC /\ Switchable(minproc[c])
  /\ Dispatch(c)
  /\ spc' = [spc EXCEPT ![c] = "resume"]
  /\ UNCHANGED <<pid, parent, chan, killed, passo, memVars, flowVars, scanVars,
                 ptlock, nextpid, panic>>

(* The stale min_proc is junk, a slot that has been freed or is being      *)
(* built, or a process another CPU is running: the CPU loads a page table  *)
(* and a stack that are not the process's to give.  Nothing that happens   *)
(* afterwards is defined.                                                  *)
SchedWild(c) ==
  /\ At(c, "scan") /\ idx[c] > NPROC
  /\ minproc[c] # NoProc /\ ~Switchable(minproc[c])
  /\ panic' = "wild"
  /\ UNCHANGED <<procVars, memVars, flowVars, scanVars, cpuVars, nextpid>>

(* swtch returned in the process: into forkret, yield, sleep or exit.      *)
(* wait sleeps with ptable.lock itself, so it keeps the lock.              *)
Resume(c) ==
  LET p == cur[c]
  IN /\ At(c, "resume")
     /\ IF ctx[p] = "exit"
        THEN panic' = "zombie exit" /\ UNCHANGED <<chan, spc, ptlock>>
        ELSE /\ chan' = IF ctx[p] = "sleep" THEN [chan EXCEPT ![p] = 0] ELSE chan
             /\ spc' = [spc EXCEPT ![c] = "run"]
             /\ ptlock' = IF op[p] = "wait" THEN ptlock ELSE Free
             /\ UNCHANGED panic
     /\ UNCHANGED <<state, pid, parent, killed, passo, passada, memVars, flowVars,
                    scanVars, cur, nextpid>>

(* sched(): p, its state changed, leaves CPU c with its context in k; the    *)
(* scheduler thread clears cpu->proc and releases the lock.                *)
Sched(c, p, k) ==
  /\ ctx' = [ctx EXCEPT ![p] = k]
  /\ cur' = [cur EXCEPT ![c] = NoProc]
  /\ spc' = [spc EXCEPT ![c] = "idle"]
  /\ ptlock' = Free

-----------------------------------------------------------------------------
(* trap(): timer interrupts, faults and the entry to system calls.         *)

On(c, p, o) == At(c, "run") /\ cur[c] = p /\ op[p] = o
Goto(p, o)  == op' = [op EXCEPT ![p] = o]

(* A process about to sleep on &ticks holds tickslock. *)
TickslockFree == \A q \in Procs : op[q] # "doze"

(* The clock ticks while CPU c runs process p, with interrupts on; CPU 0   *)
(* also wakes the processes that sleep on &ticks.                          *)
TimerIntr(c, p) ==
  /\ At(c, "run") /\ cur[c] = p /\ ptlock # c /\ op[p] # "doze"
  /\ spc' = [spc EXCEPT ![c] = "trap"]
  /\ IF c = 0
     THEN ptlock = Free /\ TickslockFree /\ state' = Wakeup1(state, TICKS)
     ELSE UNCHANGED state
  /\ UNCHANGED <<pid, parent, chan, killed, passo, passada, memVars, flowVars,
                 scanVars, cur, ptlock, nextpid, panic>>

(* The clock ticks on CPU 0 between the scheduler's sti and acquire. *)
TimerIdle ==
  /\ At(0, "idle") /\ ptlock = Free /\ TickslockFree
  /\ state' = Wakeup1(state, TICKS)
  /\ UNCHANGED <<pid, parent, chan, killed, passo, passada, memVars, flowVars,
                 scanVars, cpuVars, nextpid, panic>>

(* exit() is called; it closes the files before it takes ptable.lock. *)
ExitStart(p) ==
  IF p = initproc
  THEN panic' = "init exiting" /\ UNCHANGED op
  ELSE Goto(p, "exit") /\ UNCHANGED panic

(* Having seen to the tick, a killed process that was in user space exits. *)
TrapExit(c, p) ==
  /\ At(c, "trap") /\ cur[c] = p
  /\ op[p] = "user" /\ killed[p]
  /\ spc' = [spc EXCEPT ![c] = "run"]
  /\ ExitStart(p)
  /\ UNCHANGED <<procVars, memVars, ctx, child, scanVars, cur, ptlock, nextpid>>

(* Any other process gives up the CPU. *)
TrapYield(c, p) ==
  /\ At(c, "trap") /\ cur[c] = p /\ ptlock = Free
  /\ ~(op[p] = "user" /\ killed[p])
  /\ state' = [state EXCEPT ![p] = "RUNNABLE"]
  /\ Sched(c, p, "yield")
  /\ UNCHANGED <<pid, parent, chan, killed, passo, passada, memVars, op, child,
                 scanVars, nextpid, panic>>

(* The process misbehaved in user space: it is killed and exits. *)
Fault(c, p) ==
  /\ On(c, p, "user") /\ "fault" \in Calls
  /\ killed' = [killed EXCEPT ![p] = TRUE]
  /\ ExitStart(p)
  /\ UNCHANGED <<state, pid, parent, chan, passo, passada, memVars, ctx, child,
                 scanVars, cpuVars, nextpid>>

(* A system call starts unless the process has been killed. *)
Syscall(c, p) ==
  /\ On(c, p, "user") /\ ~killed[p]
  /\ Goto(p, "sys")
  /\ UNCHANGED <<procVars, memVars, ctx, child, scanVars, cpuVars, nextpid, panic>>

(* exit(), called by the process or because it has been killed. *)
ExitCall(c, p) ==
  /\ \/ On(c, p, "sys") /\ "exit" \in Calls
     \/ On(c, p, "user") /\ killed[p]
  /\ ExitStart(p)
  /\ UNCHANGED <<procVars, memVars, ctx, child, scanVars, cpuVars, nextpid>>

-----------------------------------------------------------------------------
(* fork() *)

SamePid(n) == n

(* nextpid++ *)
FreePid(n) == n + 1

KeepStack(p) == kstack

(* kfree(p->kstack); p->kstack = 0 *)
FreeStack(p) == [kstack EXCEPT ![p] = FALSE]

(* allocproc: take a slot, or return -1 when there is none. *)
ForkAlloc(c, p, t) ==
  /\ On(c, p, "sys") /\ "fork" \in Calls /\ ptlock = Free
  /\ nextpid <= MaxPid
  /\ LET unused == {q \in Procs : state[q] = "UNUSED"}
         np == First(unused)
     IN IF unused = {}
        THEN Goto(p, "user") /\ UNCHANGED <<state, pid, passo, passada, child, nextpid>>
        ELSE /\ state' = [state EXCEPT ![np] = "EMBRYO"]
             /\ pid' = [pid EXCEPT ![np] = nextpid]
             /\ nextpid' = FreePid(nextpid)
             /\ passo' = [passo EXCEPT ![np] = Passo(t)]
             /\ passada' = [passada EXCEPT ![np] = 0]
             /\ child' = [child EXCEPT ![p] = np]
             /\ Goto(p, "fork")
  /\ UNCHANGED <<parent, chan, killed, memVars, ctx, scanVars, cpuVars, panic>>

(* kalloc of the kernel stack; the slot goes back without the lock when it *)
(* fails, and keeps its pid.                                               *)
ForkStack(c, p) ==
  LET np == child[p]
  IN /\ On(c, p, "fork")
     /\ \/ /\ kstack' = [kstack EXCEPT ![np] = TRUE]
           /\ ctx' = [ctx EXCEPT ![np] = "forkret"]
           /\ Goto(p, "copy")
           /\ UNCHANGED <<state, child>>
        \/ /\ state' = [state EXCEPT ![np] = "UNUSED"]
           /\ child' = [child EXCEPT ![p] = NoProc]
           /\ Goto(p, "user")
           /\ UNCHANGED <<kstack, ctx>>
     /\ UNCHANGED <<pid, parent, chan, killed, passo, passada, pgdir, scanVars,
                    cpuVars, nextpid, panic>>

(* copyuvm, then np->parent, the trap frame, the files and the directory. *)
ForkCopy(c, p) ==
  LET np == child[p]
  IN /\ On(c, p, "copy")
     /\ \/ /\ pgdir' = [pgdir EXCEPT ![np] = "valid"]
           /\ parent' = [parent EXCEPT ![np] = p]
           /\ op' = [op EXCEPT ![p] = "publish", ![np] = "user"]
           /\ UNCHANGED <<state, kstack, child>>
        \/ /\ pgdir' = [pgdir EXCEPT ![np] = "none"]
           /\ kstack' = FreeStack(np)
           /\ state' = [state EXCEPT ![np] = "UNUSED"]
           /\ child' = [child EXCEPT ![p] = NoProc]
           /\ Goto(p, "user")
           /\ UNCHANGED parent
     /\ UNCHANGED <<pid, chan, killed, passo, passada, ctx, scanVars, cpuVars,
                    nextpid, panic>>

(* The child becomes RUNNABLE and fork returns its pid. *)
ForkPublish(c, p) ==
  /\ On(c, p, "publish") /\ ptlock = Free
  /\ state' = [state EXCEPT ![child[p]] = "RUNNABLE"]
  /\ child' = [child EXCEPT ![p] = NoProc]
  /\ Goto(p, "user")
  /\ UNCHANGED <<pid, parent, chan, killed, passo, passada, memVars, ctx,
                 scanVars, cpuVars, nextpid, panic>>

-----------------------------------------------------------------------------
(* exit() and wait() *)

ReparentNobody(p) == parent

(* Pass abandoned children to init. *)
Reparent(p) == [q \in Procs |-> IF parent[q] = p THEN initproc ELSE parent[q]]

ExitForgetsParent(p) ==
  IF \E q \in Procs : parent[q] = p /\ state[q] = "ZOMBIE"
  THEN Wakeup1(state, initproc) ELSE state

(* Wake the parent, and init if it inherits a zombie. *)
ExitWakeups(p) ==
  IF \E q \in Procs : parent[q] = p /\ state[q] = "ZOMBIE"
  THEN Wakeup1(Wakeup1(state, parent[p]), initproc)
  ELSE Wakeup1(state, parent[p])

ExitFinish(c, p) ==
  /\ On(c, p, "exit") /\ ptlock = Free
  /\ state' = [ExitWakeups(p) EXCEPT ![p] = "ZOMBIE"]
  /\ parent' = Reparent(p)
  /\ Sched(c, p, "exit")
  /\ UNCHANGED <<pid, chan, killed, passo, passada, memVars, op, child, scanVars,
                 nextpid, panic>>

Children(p) == {q \in Procs : parent[q] = p}
Zombies(p)  == {q \in Children(p) : state[q] = "ZOMBIE"}

WaitEnter(c, p) ==
  /\ On(c, p, "sys") /\ "wait" \in Calls /\ ptlock = Free
  /\ ptlock' = c
  /\ Goto(p, "wait")
  /\ UNCHANGED <<procVars, memVars, ctx, child, scanVars, cur, spc, nextpid, panic>>

(* Free the first zombie child and return its pid. *)
WaitReap(c, p) ==
  /\ On(c, p, "wait") /\ Zombies(p) # {}
  /\ LET z == First(Zombies(p))
     IN /\ kstack' = FreeStack(z)
        /\ pgdir' = [pgdir EXCEPT ![z] = "freed"]
        /\ state' = [state EXCEPT ![z] = "UNUSED"]
        /\ pid' = [pid EXCEPT ![z] = 0]
        /\ parent' = [parent EXCEPT ![z] = NoProc]
        /\ killed' = [killed EXCEPT ![z] = FALSE]
  /\ ptlock' = Free
  /\ Goto(p, "user")
  /\ UNCHANGED <<chan, passo, passada, ctx, child, scanVars, cur, spc, nextpid, panic>>

(* No children, or killed: return -1. *)
WaitFail(c, p) ==
  /\ On(c, p, "wait") /\ Zombies(p) = {}
  /\ Children(p) = {} \/ killed[p]
  /\ ptlock' = Free
  /\ Goto(p, "user")
  /\ UNCHANGED <<procVars, memVars, ctx, child, scanVars, cur, spc, nextpid, panic>>

(* sleep(proc, &ptable.lock) *)
WaitSleep(c, p) ==
  /\ On(c, p, "wait") /\ Zombies(p) = {}
  /\ Children(p) # {} /\ ~killed[p]
  /\ chan' = [chan EXCEPT ![p] = p]
  /\ state' = [state EXCEPT ![p] = "SLEEPING"]
  /\ Sched(c, p, "sleep")
  /\ UNCHANGED <<pid, parent, killed, passo, passada, memVars, op, child, scanVars,
                 nextpid, panic>>

-----------------------------------------------------------------------------
(* kill(), and a sleep on a channel that is not a process: sys_sleep.      *)

(* The slot that kill(n) marks: the first whose pid is n, in any state. *)
KillTargets(n) == {q \in Procs : pid[q] = n}

KillLeavesAsleep(q) == state

(* kill() wakes its target if it sleeps. *)
KillWakes(q) ==
  IF state[q] = "SLEEPING" THEN [state EXCEPT ![q] = "RUNNABLE"] ELSE state

Kill(c, p, n) ==
  /\ On(c, p, "sys") /\ "kill" \in Calls /\ ptlock = Free
  /\ IF KillTargets(n) = {} THEN UNCHANGED <<state, killed>>
     ELSE LET q == First(KillTargets(n))
          IN /\ killed' = [killed EXCEPT ![q] = TRUE]
             /\ state' = KillWakes(q)
  /\ Goto(p, "user")
  /\ UNCHANGED <<pid, parent, chan, passo, passada, memVars, ctx, child, scanVars,
                 cpuVars, nextpid, panic>>

SleepEnter(c, p) ==
  /\ On(c, p, "sys") /\ "sleep" \in Calls
  /\ Goto(p, "sleep")
  /\ UNCHANGED <<procVars, memVars, ctx, child, scanVars, cpuVars, nextpid, panic>>

(* Enough ticks have passed, or the process has been killed. *)
SleepReturn(c, p) ==
  /\ On(c, p, "sleep") /\ TickslockFree
  /\ Goto(p, "user")
  /\ UNCHANGED <<procVars, memVars, ctx, child, scanVars, cpuVars, nextpid, panic>>

(* Not yet, and not killed: call sleep(&ticks, &tickslock). *)
SleepCheck(c, p) ==
  /\ On(c, p, "sleep") /\ ~killed[p] /\ TickslockFree
  /\ Goto(p, "doze")
  /\ UNCHANGED <<procVars, memVars, ctx, child, scanVars, cpuVars, nextpid, panic>>

(* sleep() takes ptable.lock, releases tickslock and sleeps. *)
SleepTicks(c, p) ==
  /\ On(c, p, "doze") /\ ptlock = Free
  /\ chan' = [chan EXCEPT ![p] = TICKS]
  /\ state' = [state EXCEPT ![p] = "SLEEPING"]
  /\ Sched(c, p, "sleep")
  /\ Goto(p, "sleep")
  /\ UNCHANGED <<pid, parent, killed, passo, passada, memVars, child, scanVars,
                 nextpid, panic>>

-----------------------------------------------------------------------------
Scheduler(c) ==
  \/ SchedAcquire(c) \/ SchedScan(c) \/ SchedIdle(c)
  \/ SchedDispatch(c) \/ SchedWild(c) \/ Resume(c)

Trap(c, p) ==
  \/ TimerIntr(c, p) \/ TrapExit(c, p) \/ TrapYield(c, p)
  \/ Fault(c, p) \/ Syscall(c, p)

Kernel(c, p) ==
  \/ ForkStack(c, p) \/ ForkCopy(c, p) \/ ForkPublish(c, p)
  \/ \E t \in TicketArgs : ForkAlloc(c, p, t)
  \/ ExitCall(c, p) \/ ExitFinish(c, p)
  \/ WaitEnter(c, p) \/ WaitReap(c, p) \/ WaitFail(c, p) \/ WaitSleep(c, p)
  \/ \E n \in KillArgs : Kill(c, p, n)
  \/ SleepEnter(c, p) \/ SleepReturn(c, p) \/ SleepCheck(c, p) \/ SleepTicks(c, p)

Next ==
  \/ TimerIdle
  \/ \E c \in CPU : Scheduler(c)
  \/ \E c \in CPU, p \in Procs : Trap(c, p) \/ Kernel(c, p)

Spec == Init /\ [][Next]_vars

(* The hardware and the kernel code make progress: a CPU that can take a   *)
(* step of scheduler() or of the kernel code it runs takes it.  A timer    *)
(* interrupt raised while interrupts are off stays pending in the local    *)
(* APIC, so it is delivered if they are on again and again.  What a user   *)
(* program does next is up to the program.                                 *)
KernelStep(c, p) ==
  \/ TrapExit(c, p) \/ TrapYield(c, p)
  \/ ForkStack(c, p) \/ ForkCopy(c, p) \/ ForkPublish(c, p)
  \/ ExitFinish(c, p)
  \/ WaitReap(c, p) \/ WaitFail(c, p) \/ WaitSleep(c, p)
  \/ SleepReturn(c, p) \/ SleepCheck(c, p) \/ SleepTicks(c, p)

Fairness ==
  \A c \in CPU :
    /\ WF_vars(Scheduler(c))
    /\ \A p \in Procs :
         WF_vars(KernelStep(c, p)) /\ SF_vars(TimerIntr(c, p))

FairSpec == Spec /\ Fairness

-----------------------------------------------------------------------------
(* The type of every variable.  A slot's passada stays within an int       *)
(* because the addition in scheduler() wraps.                              *)
TypeOK ==
  /\ state \in [Procs -> States]
  /\ pid \in [Procs -> Nat]
  /\ parent \in [Procs -> Procs \cup {NoProc}]
  /\ chan \in [Procs -> Chans]
  /\ killed \in [Procs -> BOOLEAN]
  /\ passo \in [Procs -> 0..STRIDE1]
  /\ passada \in [Procs -> Ints]
  /\ kstack \in [Procs -> BOOLEAN]
  /\ pgdir \in [Procs -> {"none", "valid", "freed"}]
  /\ ctx \in [Procs -> {"none", "forkret", "yield", "sleep", "exit"}]
  /\ op \in [Procs -> Ops]
  /\ child \in [Procs -> Procs \cup {NoProc}]
  /\ nextpid \in Nat
  /\ ptlock \in CPU \cup {Free}
  /\ cur \in [CPU -> Procs \cup {NoProc}]
  /\ spc \in [CPU -> {"idle", "scan", "resume", "run", "trap"}]
  /\ idx \in [CPU -> 1..(NPROC + 1)]
  /\ min \in [CPU -> Ints]
  /\ minproc \in [CPU -> Procs \cup {NoProc, Junk}]
  /\ panic \in {"no", "init exiting", "zombie exit", "wild"}

(* A process is RUNNING exactly while it is the current process of one     *)
(* CPU, and of one only: no two CPUs ever execute on one kernel stack      *)
(* (scheduler, sched), as long as no CPU has followed a wild min_proc.     *)
RunningOnOneCPU ==
  /\ \A c \in CPU : cur[c] # NoProc => state[cur[c]] = "RUNNING"
  /\ \A c, d \in CPU : cur[c] = cur[d] /\ cur[c] # NoProc => c = d
  /\ \A p \in Procs : state[p] = "RUNNING" => \E c \in CPU : cur[c] = p

(* Every process but init, zombies included, has a parent that can still   *)
(* wait for it: exit() hands children to init in the critical section that *)
(* makes the parent a ZOMBIE, and init never exits.                        *)
ParentCanWait ==
  \A p \in Procs \ {initproc} :
    state[p] \in Alive \cup {"ZOMBIE"} =>
      parent[p] \in Procs \ {p} /\ state[parent[p]] \in Alive

(* A process asleep in wait() has a child to wait for, none of its         *)
(* children is a ZOMBIE, and it has not been killed: no wakeup of exit(),  *)
(* of the reparenting loop or of kill() is ever missed.                    *)
NoMissedExit ==
  \A p \in Procs :
    state[p] = "SLEEPING" /\ op[p] = "wait" =>
      Children(p) # {} /\ Zombies(p) = {} /\ ~killed[p]

(* A pid names one slot: wait() and kill() find the process fork returned, *)
(* even though a fork that fails leaves its pid in the slot.               *)
PidsDistinct ==
  /\ \A p, q \in Procs : pid[p] = pid[q] /\ pid[p] # 0 => p = q
  /\ \A p \in Procs : state[p] # "UNUSED" => pid[p] # 0

(* A slot in any state the scheduler can be led to switch to owns a stack  *)
(* and a page table, and a free slot owns no stack: every path of fork,    *)
(* exit and wait frees what it took.                                       *)
MemoryOwned ==
  \A p \in Procs :
    /\ state[p] \in Alive \cup {"ZOMBIE"} => kstack[p] /\ pgdir[p] = "valid"
    /\ state[p] = "UNUSED" => ~kstack[p]

(* When the scan ends and some process is RUNNABLE, min_proc is RUNNABLE;  *)
(* if no RUNNABLE process has passada 0, it has the smallest passada.      *)
Runnable == {p \in Procs : state[p] = "RUNNABLE"}

ScanPicksMin ==
  \A c \in CPU :
    spc[c] = "scan" /\ idx[c] > NPROC /\ Runnable # {} =>
      /\ minproc[c] \in Runnable
      /\ (\A p \in Runnable : passada[p] # 0) =>
           \A p \in Runnable : passada[minproc[c]] <= passada[p]

(* Even when passadas wrap, a RUNNABLE process in the last slot of the     *)
(* table gets the CPU again: the scan of scheduler() reaches it last, and  *)
(* prefers it on a tie and over a passada of 0.                            *)
LastSlotRuns ==
  state[NPROC] = "RUNNABLE" ~> (state[NPROC] # "RUNNABLE" \/ panic # "no")

-----------------------------------------------------------------------------
(* What the comments and the report say and the code does not do.          *)

(* "An exited process remains in the zombie state until its parent calls   *)
(* wait() to find out it exited" (proc.c, exit).                           *)
ZombieUntilWait ==
  [][\A p \in Procs : state[p] = "ZOMBIE" => state'[p] \in {"ZOMBIE", "UNUSED"}]_vars

(* The report, section 3: a process that is ready and has the smallest     *)
(* passada of all gets time on the CPU (scheduler, min).                   *)
Smallest(p) ==
  p \in Runnable /\ \A q \in Procs \ {p} : state[q] \in Alive => passada[p] < passada[q]

SmallestGetsCPU ==
  \A p \in Procs : Smallest(p) ~> (state[p] # "RUNNABLE" \/ panic # "no")

(* "If non-zero, have been killed" (proc.h, killed): a process that fork   *)
(* has only begun to build has not been killed.                            *)
BornUnkilled ==
  [][\A p \in Procs : state[p] = "UNUSED" /\ state'[p] = "EMBRYO" => ~killed'[p]]_vars

(* "implemented for a modern x86-based multiprocessor" (README): a CPU     *)
(* never switches to a process that another CPU is running.                *)
NotTakenTwice ==
  \A c \in CPU : spc[c] = "scan" /\ idx[c] > NPROC /\ minproc[c] \in Procs =>
                  state[minproc[c]] # "RUNNING"

=============================================================================
