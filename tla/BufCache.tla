------------------------------ MODULE BufCache ------------------------------
(***************************************************************************)
(* The buffer cache of bio.c over the disk driver of ide.c, or over the    *)
(* memory disk of memide.c.  Processes read a block, and release it, write *)
(* it through (bwrite), or leave it dirty for the log (log_write) until    *)
(* the log installs it.  While a process holds one block it may read a     *)
(* second one: bmap and itrunc hold the indirect block while they allocate *)
(* or free others, the log holds a block of the log and the block it is    *)
(* the copy of.  bcache.lock and idelock make each visit to the list and   *)
(* to the queue one step; the sleeps inside bget and iderw, the disk and   *)
(* its interrupt are steps of their own.                                   *)
(***************************************************************************)
EXTENDS Integers, Sequences, FiniteSets

CONSTANTS
    CProc, NBUF,
    DBlock,       \* blocks of the disk
    Asks,         \* those a process reads first
    Nested,       \* pairs: the second may be read while the first is held
    WBlock,       \* those that are ever written; the others are only read
    MaxPinned     \* buffers the log may keep dirty at a time

ASSUME BufAssumption ==
    /\ NBUF \in Nat \ {0} /\ MaxPinned \in Nat
    /\ 0 \notin DBlock /\ WBlock \subseteq DBlock /\ Asks \in [CProc -> SUBSET DBlock]
    /\ Nested \subseteq DBlock \X DBlock /\ \A d \in DBlock : <<d, d>> \notin Nested

VARIABLES
    drv,          \* which driver is linked in: "ide" or "mem"
    buf,          \* the buffers: blockno (0: none yet), flags, data
    mru,          \* the list, head.next first
    idequeue,     \* buffers waiting for the disk, the active request first
    ctl,          \* the controller: command, block, data; done when it will interrupt
    dsk,          \* the platter
    cp,           \* a use of the cache: where its process is, the block it asked for, its buffer
    latest        \* reference: what the last holder of a block left in it

cVars == <<drv, buf, mru, idequeue, ctl, dsk, cp, latest>>

Buf     == 1 .. NBUF
Use     == CProc \X {"outer", "inner"}      \* a process holds two buffers at most
NoCmd   == [cmd |-> "none", blk |-> 0, data |-> 0, done |-> FALSE]
Out     == [pc |-> "out", blk |-> 0, b |-> 0]

CInit ==
    /\ drv \in {"ide", "mem"}
    /\ buf = [b \in Buf |-> [blk |-> 0, busy |-> FALSE, valid |-> FALSE, dirty |-> FALSE, data |-> 0]]
    /\ mru = [k \in Buf |-> NBUF + 1 - k]
    /\ idequeue = <<>>
    /\ ctl = NoCmd
    /\ dsk = [d \in DBlock |-> 0]
    /\ cp = [u \in Use |-> Out]
    /\ latest = [d \in DBlock |-> 0]

\* wrong: no one is woken
WakeupNone(c, b) == c
\* wakeup(b): sleepers of bget scan the list again, the sleeper of iderw tests the flags
Wakeup(c, b) == [u \in Use |-> IF c[u].b = b /\ c[u].pc = "bsleep" THEN [c[u] EXCEPT !.pc = "bget"]
                               ELSE IF c[u].b = b /\ c[u].pc = "iosleep" THEN [c[u] EXCEPT !.pc = "iotest"]
                               ELSE c[u]]

Cached(d)     == {b \in Buf : buf[b].blk = d}
\* wrong: without the test of B_DIRTY
RecyclableDirty == {b \in Buf : ~buf[b].busy}
Recyclable    == {b \in Buf : ~buf[b].busy /\ ~buf[b].dirty}
\* the least recently used of a set of buffers
Oldest(S)     == mru[CHOOSE k \in Buf : mru[k] \in S /\ \A l \in Buf : mru[l] \in S => l <= k]

-----------------------------------------------------------------------------
\* p is neither in bget nor in iderw; bcache.lock is free, as it is not after a panic in bget
Awake(p) == \A k \in {"outer", "inner"} : cp[<<p, k>>].pc \in {"out", "hold", "drop"}
LockFree == \A u \in Use : cp[u].pc # "panic"

Got(u, d, b, f) == /\ buf' = [buf EXCEPT ![b] = f]
                   /\ cp' = [cp EXCEPT ![u] = [pc |-> IF f.valid THEN "hold" ELSE "iderw",
                                               blk |-> d, b |-> b]]

\* bget from loop: on, and the test of B_VALID in bread; the last case is "bget: no buffers"
bget(u, d) ==
    /\ LockFree
    /\ \/ \E b \in Cached(d) : ~buf[b].busy /\ Got(u, d, b, [buf[b] EXCEPT !.busy = TRUE])
       \/ \E b \in Cached(d) : /\ buf[b].busy
                               /\ cp' = [cp EXCEPT ![u] = [pc |-> "bsleep", blk |-> d, b |-> b]]
                               /\ UNCHANGED buf
       \/ /\ Cached(d) = {} /\ Recyclable # {}
          /\ LET b == Oldest(Recyclable)
             IN  Got(u, d, b, [blk |-> d, busy |-> TRUE, valid |-> FALSE, dirty |-> FALSE, data |-> 0])
       \/ /\ Cached(d) = {} /\ Recyclable = {}
          /\ cp' = [cp EXCEPT ![u] = [pc |-> "panic", blk |-> d, b |-> 0]]
          /\ UNCHANGED buf
    /\ UNCHANGED <<drv, mru, idequeue, ctl, dsk, latest>>

\* the blocks that a process without a buffer, or with one, goes on to read
Wanted(u) == IF u[2] = "outer" THEN Asks[u[1]]
             ELSE {d \in DBlock : /\ cp[<<u[1], "outer">>].pc = "hold"
                                  /\ <<cp[<<u[1], "outer">>].blk, d>> \in Nested}

BRead(u) ==
    /\ cp[u].pc = "out" /\ cp[<<u[1], "inner">>].pc = "out" /\ Awake(u[1])
    /\ \E d \in Wanted(u) : bget(u, d)
\* wrong: takes the buffer it slept on without another look at the list
BGetBlind(u) ==
    /\ cp[u].pc = "bget" /\ Got(u, cp[u].blk, cp[u].b, [buf[cp[u].b] EXCEPT !.busy = TRUE])
    /\ UNCHANGED <<drv, mru, idequeue, ctl, dsk, latest>>
BGetAgain(u) == cp[u].pc = "bget" /\ bget(u, cp[u].blk)

\* idestart: hand the controller the command, and the data of a write
idestart(f) == [cmd |-> IF f.dirty THEN "write" ELSE "read", blk |-> f.blk,
                data |-> IF f.dirty THEN f.data ELSE 0, done |-> FALSE]

\* iderw of ide.c, up to its sleep
IdeRw(u) ==
    LET b == cp[u].b
    IN  /\ drv = "ide" /\ cp[u].pc = "iderw"
        /\ idequeue' = Append(idequeue, b)
        /\ ctl' = IF idequeue = <<>> THEN idestart(buf[b]) ELSE ctl
        /\ cp' = [cp EXCEPT ![u].pc = "iosleep"]
        /\ UNCHANGED <<drv, buf, mru, dsk, latest>>

\* iderw again after a wakeup
IoTest(u) ==
    LET f == buf[cp[u].b]
    IN  /\ cp[u].pc = "iotest"
        /\ cp' = [cp EXCEPT ![u].pc = IF f.valid /\ ~f.dirty THEN "hold" ELSE "iosleep"]
        /\ UNCHANGED <<drv, buf, mru, idequeue, ctl, dsk, latest>>

\* iderw of memide.c
MemRw(u) ==
    LET b == cp[u].b  f == buf[b]
    IN  /\ drv = "mem" /\ cp[u].pc = "iderw"
        /\ dsk' = IF f.dirty THEN [dsk EXCEPT ![f.blk] = f.data] ELSE dsk
        /\ buf' = [buf EXCEPT ![b].data = IF f.dirty THEN @ ELSE dsk[f.blk],
                              ![b].dirty = FALSE, ![b].valid = TRUE]
        /\ cp' = [cp EXCEPT ![u].pc = "hold"]
        /\ UNCHANGED <<drv, mru, idequeue, ctl, latest>>

\* the disk carries the command out
Disk ==
    /\ ctl.cmd # "none" /\ ~ctl.done
    /\ dsk' = IF ctl.cmd = "write" THEN [dsk EXCEPT ![ctl.blk] = ctl.data] ELSE dsk
    /\ ctl' = [ctl EXCEPT !.done = TRUE, !.data = dsk[ctl.blk]]
    /\ UNCHANGED <<drv, buf, mru, idequeue, cp, latest>>

\* ideintr has a request to finish; wrong: it returns at once for a write
FinishedRead == ctl.done /\ idequeue # <<>> /\ ~buf[Head(idequeue)].dirty
Finished == ctl.done /\ idequeue # <<>>

\* the request at the head is done: finish its buffer, start the next one
IdeIntr ==
    LET b == Head(idequeue)
    IN  /\ Finished
        /\ buf' = [buf EXCEPT ![b].data = IF buf[b].dirty THEN @ ELSE ctl.data,
                              ![b].valid = TRUE, ![b].dirty = FALSE]
        /\ idequeue' = Tail(idequeue)
        /\ ctl' = IF Tail(idequeue) = <<>> THEN NoCmd ELSE idestart(buf[Head(Tail(idequeue))])
        /\ cp' = Wakeup(cp, b)
        /\ UNCHANGED <<drv, mru, dsk, latest>>

\* the holder changes the data and calls bwrite, or log_write, which marks the buffer dirty;
\* a buffer the log has marked is written by the log's own bwrite
BWrite(u) ==
    LET b == cp[u].b
    IN  /\ cp[u].pc = "hold" /\ cp[u].blk \in WBlock /\ Awake(u[1])
        /\ buf' = [buf EXCEPT ![b].data = 1 - @, ![b].dirty = TRUE]
        /\ latest' = [latest EXCEPT ![cp[u].blk] = 1 - @]
        /\ \/ cp' = [cp EXCEPT ![u].pc = "iderw"]
           \/ /\ buf[b].dirty \/ Cardinality({c \in Buf : buf[c].dirty}) < MaxPinned
              /\ cp' = [cp EXCEPT ![u].pc = "drop"]
        /\ UNCHANGED <<drv, mru, idequeue, ctl, dsk>>

\* the list with b unlinked, and put back behind the head
MoveToFront(b) ==
    LET k == CHOOSE k \in Buf : mru[k] = b
    IN  <<b>> \o (SubSeq(mru, 1, k - 1) \o SubSeq(mru, k + 1, Len(mru)))

\* brelse: to the head of the list, not busy, wakeup
BRelse(u) ==
    LET b == cp[u].b
    IN  /\ cp[u].pc \in {"hold", "drop"} /\ Awake(u[1]) /\ LockFree
        /\ mru' = MoveToFront(b)
        /\ buf' = [buf EXCEPT ![b].busy = FALSE]
        /\ cp' = [Wakeup(cp, b) EXCEPT ![u] = Out]
        /\ UNCHANGED <<drv, idequeue, ctl, dsk, latest>>

UseNext(u) == BRead(u) \/ BGetAgain(u) \/ IdeRw(u) \/ IoTest(u) \/ MemRw(u) \/ BWrite(u) \/ BRelse(u)
CNext == Disk \/ IdeIntr \/ \E u \in Use : UseNext(u)
CSpec == CInit /\ [][CNext]_cVars

-----------------------------------------------------------------------------
(* Properties *)

\* Types of the cache, the queue and the processes.
CTypeOK ==
    /\ \A b \in Buf : buf[b].blk \in DBlock \union {0} /\ buf[b].data \in {0, 1}
    /\ mru \in [Buf -> Buf]
    /\ \A k \in DOMAIN idequeue : idequeue[k] \in Buf
    /\ dsk \in [DBlock -> {0, 1}]
    /\ \A u \in Use : cp[u].b \in Buf \union {0}

Holds(u, b) == cp[u].b = b /\ cp[u].pc \in {"iderw", "iosleep", "iotest", "hold", "drop"}

\* A block is in one buffer at most and a busy buffer has one holder ("Only one process at a
\* time can use a buffer", bio.c:13), who got it with one bread.
OneHolder ==
    /\ \A a, b \in Buf : buf[a].blk = buf[b].blk /\ buf[a].blk # 0 => a = b
    /\ \A b \in Buf : buf[b].busy <=> \E u \in Use : Holds(u, b)
    /\ \A u, v \in Use, b \in Buf : Holds(u, b) /\ Holds(v, b) => u = v

\* No wakeup is missed: a process asleep in bget waits for a buffer that is busy, so that
\* brelse will wake it, and one asleep in iderw for a buffer still in the queue, whose head
\* the disk is working on.
SleepersWake ==
    /\ \A u \in Use : /\ cp[u].pc = "bsleep" => buf[cp[u].b].busy
                      /\ cp[u].pc = "iosleep" => \E i \in 1 .. Len(idequeue) : idequeue[i] = cp[u].b
    /\ idequeue # <<>> => ctl.cmd # "none" /\ ctl.blk = buf[Head(idequeue)].blk

\* The cache keeps its promises, also when processes hold two buffers each and bget runs out
\* of them: the types, one buffer per block with one holder at most (bget, brelse), and no
\* process asleep for a buffer that nobody holds or that the disk is not asked for (brelse,
\* ideintr).
BuffersSound == CTypeOK /\ OneHolder /\ SleepersWake

\* What bread returns is what the last holder of the block left, whether it is still cached,
\* was written through, waits dirty for the log, or was recycled and read again; it stays so
\* while its holder sleeps for a second block.
SeesLatest == \A u \in Use : cp[u].pc = "hold" =>
                  buf[cp[u].b].blk = cp[u].blk /\ buf[cp[u].b].data = latest[cp[u].blk]

\* Every request given to the disk completes: a process that sleeps in iderw returns from it
\* once the disk and the interrupt handler do their part, unless bget has panicked (on the
\* processor, it may be, that takes the disk's interrupts).
IoCompletes == \A p \in CProc :
    (\E k \in {"outer", "inner"} : cp[<<p, k>>].pc = "iosleep") ~> (Awake(p) \/ ~LockFree)

CFairness == WF_cVars(Disk) /\ WF_cVars(IdeIntr) /\ \A u \in Use : WF_cVars(IoTest(u))
CLiveSpec == CSpec /\ CFairness
=============================================================================
