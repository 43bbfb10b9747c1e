------------------------------ MODULE Spinlock ------------------------------
(***************************************************************************)
(* The spin locks of spinlock.c on several CPUs whose interrupts come      *)
(* whenever they are enabled.  A step is one access to what another CPU or *)
(* an interrupt can see: the lock word, its owner, the interrupt flag.     *)
(* The code a CPU runs, and the handler that may interrupt it, take locks  *)
(* in increasing order and hold them as long as they like.                 *)
(***************************************************************************)
EXTENDS Integers, FiniteSets

CONSTANTS
    Cpu,
    NoCpu,       \* lk->cpu = 0
    SLock,       \* the locks: integers, taken in increasing order
    IntrLock     \* the locks an interrupt handler takes

ASSUME SpinAssumption == NoCpu \notin Cpu /\ SLock # {} /\ SLock \subseteq Int /\ IntrLock \subseteq SLock

VARIABLES
    locked, lkcpu,        \* struct spinlock
    ncli, intena,         \* struct cpu
    iflag,                \* FL_IF of each CPU
    inIntr,               \* the CPU is in its interrupt handler
    at, want, eflags,     \* of each context: where it is, the lock argument, pushcli's local
    have,                 \* of each context: the locks whose acquire has returned
    spinPanic

spinVars == <<locked, lkcpu, ncli, intena, iflag, inIntr, at, want, eflags, have, spinPanic>>
cpuVars  == <<ncli, intena, iflag, inIntr>>

Ctx == Cpu \X {"main", "intr"}
On(c) == <<c, IF inIntr[c] THEN "intr" ELSE "main">>   \* the context that runs on c

\* initlock, and main's sti
SpinInit ==
    /\ locked = [l \in SLock |-> FALSE] /\ lkcpu = [l \in SLock |-> NoCpu]
    /\ ncli = [c \in Cpu |-> 0] /\ intena = [c \in Cpu |-> FALSE]
    /\ iflag = [c \in Cpu |-> TRUE] /\ inIntr = [c \in Cpu |-> FALSE]
    /\ at = [x \in Ctx |-> "run"] /\ want \in [Ctx -> {CHOOSE l \in SLock : TRUE}]
    /\ eflags = [x \in Ctx |-> FALSE]
    /\ have = [x \in Ctx |-> {}]
    /\ spinPanic = FALSE

Goto(x, place) == at' = [at EXCEPT ![x] = place]
Crash == spinPanic' = TRUE

\* acquire is called: pushcli reads the flags
ReadFlags(c) ==
    LET x == On(c)
    IN  /\ at[x] = "run"
        /\ \E l \in IF inIntr[c] THEN IntrLock ELSE SLock :
              /\ \A k \in have[x] : k < l
              /\ want' = [want EXCEPT ![x] = l]
        /\ eflags' = [eflags EXCEPT ![x] = iflag[c]]
        /\ Goto(x, "cli")
        /\ UNCHANGED <<locked, lkcpu, cpuVars, have, spinPanic>>

\* the rest of pushcli
pushcli(c) ==
    /\ at[On(c)] = "cli"
    /\ iflag' = [iflag EXCEPT ![c] = FALSE]
    /\ ncli' = [ncli EXCEPT ![c] = @ + 1]
    /\ intena' = IF ncli[c] = 0 THEN [intena EXCEPT ![c] = eflags[On(c)]] ELSE intena
    /\ Goto(On(c), "check")
    /\ UNCHANGED <<locked, lkcpu, inIntr, want, eflags, have, spinPanic>>

\* holding, in acquire: the lock word and then the owner, which may have changed in between
HoldingWord(c) ==
    /\ at[On(c)] = "check"
    /\ Goto(On(c), IF locked[want[On(c)]] THEN "owner" ELSE "spin")
    /\ UNCHANGED <<locked, lkcpu, cpuVars, want, eflags, have, spinPanic>>

HoldingCpu(c) ==
    /\ at[On(c)] = "owner"
    /\ IF lkcpu[want[On(c)]] = c THEN Crash /\ UNCHANGED at ELSE Goto(On(c), "spin") /\ UNCHANGED spinPanic
    /\ UNCHANGED <<locked, lkcpu, cpuVars, want, eflags, have>>

\* wrong: lk->cpu, which is set later, is taken for the lock word
xchgOwner(c) ==
    LET l == want[On(c)]
    IN  /\ at[On(c)] = "spin" /\ lkcpu[l] = NoCpu
        /\ locked' = [locked EXCEPT ![l] = TRUE]
        /\ Goto(On(c), "mark")
        /\ UNCHANGED <<lkcpu, cpuVars, want, eflags, have, spinPanic>>

\* the xchg of acquire that finds the lock free
xchg(c) ==
    LET l == want[On(c)]
    IN  /\ at[On(c)] = "spin" /\ ~locked[l]
        /\ locked' = [locked EXCEPT ![l] = TRUE]
        /\ Goto(On(c), "mark")
        /\ UNCHANGED <<lkcpu, cpuVars, want, eflags, have, spinPanic>>

\* lk->cpu = cpu, and acquire returns
SetOwner(c) ==
    LET x == On(c)
    IN  /\ at[x] = "mark"
        /\ lkcpu' = [lkcpu EXCEPT ![want[x]] = c]
        /\ have' = [have EXCEPT ![x] = @ \union {want[x]}]
        /\ Goto(x, "run")
        /\ UNCHANGED <<locked, cpuVars, want, eflags, spinPanic>>

\* release, up to lk->cpu = 0; only the holder's CPU changes what holding reads here
ClearOwner(c) ==
    LET x == On(c)
    IN  /\ at[x] = "run"
        /\ \E l \in have[x] :
              /\ want' = [want EXCEPT ![x] = l]
              /\ IF locked[l] /\ lkcpu[l] = c
                 THEN /\ lkcpu' = [lkcpu EXCEPT ![l] = NoCpu]
                      /\ Goto(x, "free")
                      /\ UNCHANGED spinPanic
                 ELSE Crash /\ UNCHANGED <<lkcpu, at>>
        /\ UNCHANGED <<locked, cpuVars, eflags, have>>

\* the xchg of release
Unlocked(c) ==
    LET x == On(c)
    IN  /\ at[x] = "free"
        /\ locked' = [locked EXCEPT ![want[x]] = FALSE]
        /\ have' = [have EXCEPT ![x] = @ \ {want[x]}]
        /\ Goto(x, "pop")
        /\ UNCHANGED <<lkcpu, cpuVars, want, eflags, spinPanic>>

\* whether popcli does sti; wrong without the test of ncli
StiEarly(c) == intena[c]
Sti(c) == ncli[c] = 1 /\ intena[c]

popcli(c) ==
    /\ at[On(c)] = "pop"
    /\ IF iflag[c] \/ ncli[c] < 1
       THEN Crash /\ UNCHANGED <<ncli, iflag, at>>
       ELSE /\ ncli' = [ncli EXCEPT ![c] = @ - 1]
            /\ iflag' = [iflag EXCEPT ![c] = Sti(c)]
            /\ Goto(On(c), "run")
            /\ UNCHANGED spinPanic
    /\ UNCHANGED <<locked, lkcpu, intena, inIntr, want, eflags, have>>

\* the processor takes an interrupt through an interrupt gate, and returns from it
Interrupt(c) ==
    /\ iflag[c] /\ ~inIntr[c]
    /\ inIntr' = [inIntr EXCEPT ![c] = TRUE] /\ iflag' = [iflag EXCEPT ![c] = FALSE]
    /\ UNCHANGED <<locked, lkcpu, ncli, intena, at, want, eflags, have, spinPanic>>

Iret(c) ==
    /\ inIntr[c] /\ at[On(c)] = "run" /\ have[On(c)] = {}
    /\ inIntr' = [inIntr EXCEPT ![c] = FALSE] /\ iflag' = [iflag EXCEPT ![c] = TRUE]
    /\ UNCHANGED <<locked, lkcpu, ncli, intena, at, want, eflags, have, spinPanic>>

SpinNextOf(c) ==
    \/ ReadFlags(c) \/ pushcli(c) \/ HoldingWord(c) \/ HoldingCpu(c)
    \/ xchg(c) \/ SetOwner(c) \/ ClearOwner(c) \/ Unlocked(c) \/ popcli(c)
    \/ Interrupt(c) \/ Iret(c)
SpinNext == ~spinPanic /\ \E c \in Cpu : SpinNextOf(c)

SpinSpec == SpinInit /\ [][SpinNext]_spinVars

-----------------------------------------------------------------------------
(* Properties *)

Places == {"run", "cli", "check", "owner", "spin", "mark", "free", "pop"}

\* Types of the locks, the CPUs and the contexts that run on them.
SpinTypeOK ==
    /\ locked \in [SLock -> BOOLEAN] /\ lkcpu \in [SLock -> Cpu \union {NoCpu}]
    /\ ncli \in [Cpu -> Int] /\ intena \in [Cpu -> BOOLEAN]
    /\ iflag \in [Cpu -> BOOLEAN] /\ inIntr \in [Cpu -> BOOLEAN]
    /\ at \in [Ctx -> Places] /\ want \in [Ctx -> SLock] /\ eflags \in [Ctx -> BOOLEAN]
    /\ have \in [Ctx -> SUBSET SLock] /\ spinPanic \in BOOLEAN

\* Between the return of acquire and its release a lock belongs to one context of one CPU,
\* a handler's and the code it interrupts included.
SpinExclusion == \A x, y \in Ctx : x # y => have[x] \intersect have[y] = {}

\* pushcli and popcli are matched: a CPU that holds a lock, or waits for one, takes no
\* interrupt; one that holds none has the interrupt flag it had before; so no CPU ever waits
\* for a lock that it holds itself, and neither acquire, release nor popcli panics.
InterruptsBalanced ==
    /\ SpinTypeOK /\ ~spinPanic
    /\ \A c \in Cpu :
          LET x == On(c)
          IN  /\ have[x] # {} \/ at[x] \notin {"run", "cli"} => ~iflag[c]
              /\ have[x] = {} /\ at[x] = "run" => ncli[c] = 0 /\ iflag[c] = ~inIntr[c]
              /\ at[x] = "spin" => \A y \in {c} \X {"main", "intr"} : want[x] \notin have[y]
=============================================================================
