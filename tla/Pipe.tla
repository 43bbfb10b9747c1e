-------------------------------- MODULE Pipe --------------------------------
(***************************************************************************)
(* A pipe of pipe.c between writers and readers, with the kill of proc.c   *)
(* as far as pipewrite and piperead look at it.  p->lock is held from one  *)
(* step to the next, so a turn of each loop is a step; sleep has marked    *)
(* the process SLEEPING only at its second step (doze), and a kill may     *)
(* come in between.  nread and nwrite are unsigned and wrap at UINT.       *)
(***************************************************************************)
EXTENDS Integers, Sequences, FiniteSets

CONSTANTS
    PipeWriter, PipeReader,   \* processes with the write end, the read end
    NoOne,                    \* holds p->lock when nobody does
    PIPESIZE, UINT,           \* size of the buffer, modulus of an unsigned
    Byte,
    Writes,                   \* what one write call writes: sequences over Byte
    ReadLen                   \* how many bytes one read call asks for

ASSUME PipeAssumption ==
    /\ PIPESIZE \in Nat \ {0} /\ UINT \in Nat /\ PIPESIZE < UINT
    /\ UINT % PIPESIZE = 0 /\ Byte # {}
    /\ PipeWriter \intersect PipeReader = {}
    /\ NoOne \notin PipeWriter \union PipeReader
    /\ Writes \subseteq Seq(Byte) /\ ReadLen \in Nat \ {0}

VARIABLES
    pdata, nread, nwrite, readopen, writeopen,
    plock,      \* the process that holds p->lock, or NoOne
    ppc,        \* where a process is
    src,        \* bytes a writer has still to write
    pgot,       \* bytes a reader has read in this call
    pended,     \* readers whose last read returned 0
    pkilled     \* processes with proc->killed set

pipeVars == <<pdata, nread, nwrite, readopen, writeopen, plock, ppc, src, pgot, pended, pkilled>>
bufVars  == <<pdata, nread, nwrite, readopen, writeopen>>

PipeProc == PipeWriter \union PipeReader

\* pipealloc
PipeInit ==
    /\ pdata \in [0 .. PIPESIZE - 1 -> {CHOOSE x \in Byte : TRUE}]
    /\ nread = 0 /\ nwrite = 0
    /\ readopen = TRUE /\ writeopen = TRUE
    /\ plock = NoOne
    /\ ppc = [p \in PipeProc |-> "out"]
    /\ src = [p \in PipeWriter |-> <<>>]
    /\ pgot = [p \in PipeReader |-> <<>>]
    /\ pended = {}
    /\ pkilled = {}

\* wrong: room for one byte more
FullLate == nwrite = (nread + PIPESIZE + 1) % UINT
Full  == nwrite = (nread + PIPESIZE) % UINT
Empty == nread = nwrite

\* wakeup(&p->nread), wakeup(&p->nwrite): the sleepers go back for the lock
WakeReaders(pc) == [p \in PipeProc |-> IF pc[p] = "rsleep" THEN "rlock" ELSE pc[p]]
\* wrong: no one is woken
WakeWritersNone(pc) == pc
WakeWriters(pc) == [p \in PipeProc |-> IF pc[p] = "wsleep" THEN "wlock" ELSE pc[p]]

-----------------------------------------------------------------------------
\* a killed process makes no more calls: trap sends it to exit
PipeWrite(p) ==
    /\ ppc[p] = "out" /\ p \notin pkilled
    /\ \E s \in Writes : src' = [src EXCEPT ![p] = s]
    /\ ppc' = [ppc EXCEPT ![p] = "wlock"]
    /\ UNCHANGED <<bufVars, plock, pgot, pended, pkilled>>

\* acquire, at the start of pipewrite and piperead and at the end of sleep
Acquire(p) ==
    /\ ppc[p] \in {"wlock", "rlock"} /\ plock = NoOne
    /\ plock' = p
    /\ ppc' = [ppc EXCEPT ![p] = IF ppc[p] = "wlock" THEN "wloop" ELSE "rwait"]
    /\ UNCHANGED <<bufVars, src, pgot, pended, pkilled>>

\* the body of the loop of pipewrite when there is room
PutByte(p) ==
    /\ ppc[p] = "wloop" /\ src[p] # <<>> /\ ~Full
    /\ pdata' = [pdata EXCEPT ![nwrite % PIPESIZE] = Head(src[p])]
    /\ nwrite' = (nwrite + 1) % UINT
    /\ src' = [src EXCEPT ![p] = Tail(@)]
    /\ UNCHANGED <<nread, readopen, writeopen, plock, ppc, pgot, pended, pkilled>>

\* pipewrite-full: give up, or wake the readers and sleep
WriteFull(p) ==
    /\ ppc[p] = "wloop" /\ src[p] # <<>> /\ Full
    /\ IF ~readopen \/ p \in pkilled
       THEN /\ plock' = NoOne
            /\ ppc' = [ppc EXCEPT ![p] = "out"]
            /\ src' = [src EXCEPT ![p] = <<>>]
       ELSE /\ ppc' = [WakeReaders(ppc) EXCEPT ![p] = "wdoze"]
            /\ UNCHANGED <<plock, src>>
    /\ UNCHANGED <<bufVars, pgot, pended, pkilled>>

\* pipewrite-wakeup1, release
WriteDone(p) ==
    /\ ppc[p] = "wloop" /\ src[p] = <<>>
    /\ ppc' = [WakeReaders(ppc) EXCEPT ![p] = "out"]
    /\ plock' = NoOne
    /\ UNCHANGED <<bufVars, src, pgot, pended, pkilled>>

\* sleep, under ptable.lock: SLEEPING, and p->lock released
Sleep(p) ==
    /\ ppc[p] \in {"wdoze", "rdoze"}
    /\ ppc' = [ppc EXCEPT ![p] = IF ppc[p] = "wdoze" THEN "wsleep" ELSE "rsleep"]
    /\ plock' = NoOne
    /\ UNCHANGED <<bufVars, src, pgot, pended, pkilled>>

PipeRead(p) ==
    /\ ppc[p] = "out" /\ p \notin pkilled
    /\ pgot' = [pgot EXCEPT ![p] = <<>>]
    /\ ppc' = [ppc EXCEPT ![p] = "rlock"]
    /\ UNCHANGED <<bufVars, plock, src, pended, pkilled>>

\* pipe-empty: go on, give up, or sleep
ReadWait(p) ==
    /\ ppc[p] = "rwait"
    /\ IF Empty /\ writeopen
       THEN IF p \in pkilled
            THEN ppc' = [ppc EXCEPT ![p] = "out"] /\ plock' = NoOne
            ELSE ppc' = [ppc EXCEPT ![p] = "rdoze"] /\ UNCHANGED plock
       ELSE ppc' = [ppc EXCEPT ![p] = "rcopy"] /\ UNCHANGED plock
    /\ UNCHANGED <<bufVars, src, pgot, pended, pkilled>>

\* piperead-copy
GetByte(p) ==
    /\ ppc[p] = "rcopy" /\ Len(pgot[p]) < ReadLen /\ ~Empty
    /\ pgot' = [pgot EXCEPT ![p] = Append(@, pdata[nread % PIPESIZE])]
    /\ nread' = (nread + 1) % UINT
    /\ UNCHANGED <<pdata, nwrite, readopen, writeopen, plock, ppc, src, pended, pkilled>>

\* piperead-wakeup, release, and the count returned
ReadDone(p) ==
    /\ ppc[p] = "rcopy" /\ (Len(pgot[p]) = ReadLen \/ Empty)
    /\ ppc' = [WakeWriters(ppc) EXCEPT ![p] = "out"]
    /\ plock' = NoOne
    /\ pended' = IF pgot[p] = <<>> THEN pended \union {p} ELSE pended
    /\ UNCHANGED <<bufVars, src, pgot, pkilled>>

\* a process may close its end between calls; wrong: not when it is on its way to exit
MayCloseAlive(p) == ppc[p] = "out" /\ plock = NoOne /\ p \notin pkilled
MayClose(p) == ppc[p] = "out" /\ plock = NoOne

\* pipeclose has found both ends closed, and has returned the page of the pipe with kfree
Freed == ~readopen /\ ~writeopen

\* a process closes its end; the last one of that end calls pipeclose, and of both ends, Freed'
PipeClose(p) ==
    LET mine == IF p \in PipeWriter THEN PipeWriter ELSE PipeReader
        last == \A q \in mine \ {p} : ppc[q] = "closed"
        shut(pc) == [pc EXCEPT ![p] = "closed"]
    IN  /\ MayClose(p)
        /\ writeopen' = (writeopen /\ ~(last /\ p \in PipeWriter))
        /\ readopen' = (readopen /\ ~(last /\ p \in PipeReader))
        /\ ppc' = IF ~last THEN shut(ppc)
                  ELSE IF p \in PipeWriter THEN shut(WakeReaders(ppc)) ELSE shut(WakeWriters(ppc))
        /\ UNCHANGED <<pdata, nread, nwrite, plock, src, pgot, pended, pkilled>>

\* kill, under ptable.lock: the flag, and a wakeup for a process that is SLEEPING
Kill(p) ==
    /\ p \notin pkilled
    /\ pkilled' = pkilled \union {p}
    /\ ppc' = [ppc EXCEPT ![p] = IF @ = "wsleep" THEN "wlock" ELSE IF @ = "rsleep" THEN "rlock" ELSE @]
    /\ UNCHANGED <<bufVars, plock, src, pgot, pended>>

PipeWriterNext(p) == PipeWrite(p) \/ PutByte(p) \/ WriteFull(p) \/ WriteDone(p)
PipeReaderNext(p) == PipeRead(p) \/ ReadWait(p) \/ GetByte(p) \/ ReadDone(p)
PipeStep(p) == \/ Acquire(p) \/ Sleep(p) \/ PipeClose(p)
               \/ p \in PipeWriter /\ PipeWriterNext(p)
               \/ p \in PipeReader /\ PipeReaderNext(p)

PipeNext == \E p \in PipeProc : PipeStep(p) \/ Kill(p)

PipeSpec == PipeInit /\ [][PipeNext]_pipeVars

-----------------------------------------------------------------------------
(* Properties *)

PipePcs == {"out", "wlock", "wloop", "wdoze", "wsleep",
            "rlock", "rwait", "rdoze", "rsleep", "rcopy", "closed"}

\* Types of the pipe and of the processes that use it.
PipeTypeOK ==
    /\ nread \in 0 .. UINT - 1 /\ nwrite \in 0 .. UINT - 1
    /\ readopen \in BOOLEAN /\ writeopen \in BOOLEAN
    /\ plock \in PipeProc \union {NoOne}
    /\ ppc \in [PipeProc -> PipePcs]
    /\ src \in [PipeWriter -> Seq(Byte)]
    /\ pkilled \subseteq PipeProc

\* The page of a pipe is freed under nobody: pipeclose calls kfree only when no process is in
\* pipewrite or piperead or can still call them.
FreedUnused == Freed => \A p \in PipeProc : ppc[p] = "closed"

Holding(p) == ppc[p] \in {"wloop", "wdoze", "rwait", "rdoze", "rcopy"}

\* No wakeup is lost: a writer asleep waits on a full pipe that can still be read, and a
\* reader asleep on an empty one that can still be written, or someone who is changing that
\* holds the lock and has its wakeup still to do.  The exception is pipewrite's return for a
\* killed writer, which leaves the bytes it did write without waking the readers.
NoLostWakeup ==
    /\ \A p \in PipeWriter : ppc[p] = "wsleep" =>
          /\ readopen
          /\ Full \/ \E r \in PipeReader : ppc[r] = "rcopy"
    /\ \A p \in PipeReader : ppc[p] = "rsleep" =>
          /\ writeopen
          /\ \/ Empty
             \/ \E w \in PipeWriter : w \in pkilled \/ ppc[w] = "wloop"

\* the bytes in the buffer, oldest first
Contents == [k \in 1 .. (nwrite - nread) % UINT |-> pdata[(nread + k - 1) % PIPESIZE]]

Fifo == INSTANCE ByteQueue WITH queue <- Contents, got <- pgot, ended <- pended, writing <- writeopen

\* The circular buffer with its two wrapping counters is a bounded first-in first-out queue
\* of bytes for any number of writers and readers, and a read returns 0 only at the end of
\* the stream (pipewrite, piperead, pipeclose).
PipeIsQueue == Fifo!QSpec

\* Every sleeper is woken, if whoever has the other end goes on using it or closes it.
SleepersWoken == \A p \in PipeProc : ppc[p] \in {"wsleep", "rsleep"} ~> ppc[p] \notin {"wsleep", "rsleep"}
=============================================================================
