----------------------------- MODULE PipeProofs -----------------------------
(***************************************************************************)
(* Proofs about module Pipe, for any writers, readers, buffer size and     *)
(* counter width: the types, that no wakeup is lost, and that the ring     *)
(* buffer is a queue of bytes.                                             *)
(***************************************************************************)
EXTENDS Pipe, SequenceTheorems, TLAPS

\* NoLostWakeup is not inductive: it needs who holds p->lock, what was seen full or empty by
\* a process on its way to sleep, and that an end is shut only after its processes closed it.
PipeInv ==
    /\ PipeTypeOK
    /\ \A p \in PipeProc : Holding(p) => plock = p
    /\ \A p \in PipeWriter : ppc[p] \notin {"rlock", "rwait", "rdoze", "rsleep", "rcopy"}
    /\ \A p \in PipeReader : ppc[p] \notin {"wlock", "wloop", "wdoze", "wsleep"}
    /\ \A p \in PipeWriter : ppc[p] = "wdoze" => Full /\ readopen
    /\ \A p \in PipeReader : ppc[p] = "rdoze" => Empty /\ writeopen
    /\ ~readopen => \A p \in PipeReader : ppc[p] = "closed"
    /\ ~writeopen => \A p \in PipeWriter : ppc[p] = "closed"
    /\ NoLostWakeup

\* A counter of pipe.c stays an unsigned when it is incremented.
LEMMA CounterWraps ==
    ASSUME NEW n \in 0 .. UINT - 1
    PROVE  (n + 1) % UINT \in 0 .. UINT - 1
  BY PipeAssumption

\* pipealloc establishes the invariant.
LEMMA PipeInitInv == PipeInit => PipeInv
  <1> SUFFICES ASSUME PipeInit PROVE PipeInv
    BY Zenon
  <1>1. PipeTypeOK
    BY PipeAssumption DEF PipeInit, PipeTypeOK, PipePcs
  <1> QED
    BY <1>1, Zenon DEF PipeInit, PipeInv, NoLostWakeup, Holding, PipeProc

\* Every step of pipewrite preserves it.
LEMMA PipeWriterSteps ==
    ASSUME PipeInv, NEW p \in PipeWriter, PipeWriterNext(p)
    PROVE  PipeInv'
  <1> USE PipeAssumption
  <1> p \in PipeProc /\ p \notin PipeReader
    BY Zenon DEF PipeProc
  <1>1. CASE PipeWrite(p)
    <2>1. PipeTypeOK'
      BY <1>1, Zenon DEF PipeInv, PipeTypeOK, PipePcs, PipeWrite, bufVars
    <2> QED
      BY <1>1, <2>1 DEF PipeInv, PipeTypeOK, NoLostWakeup, Holding, PipeWrite, bufVars, Full, Empty, PipeProc
  <1>2. CASE PutByte(p)
    <2>1. PipeTypeOK'
      BY <1>2, CounterWraps DEF PipeInv, PipeTypeOK, PipePcs, PutByte
    <2>2. plock = p /\ ~Full /\ \A q \in PipeProc : Holding(q) => q = p
      BY <1>2, Zenon DEF PipeInv, PutByte, Holding
    <2>3. \A q \in PipeReader : ppc[q] # "rcopy" /\ ppc[q] # "rdoze"
      BY <2>2, Zenon DEF Holding, PipeProc
    <2>4. \A q \in PipeWriter : ppc[q] # "wdoze"
      BY <2>2, <1>2, Zenon DEF Holding, PipeProc, PutByte
    <2>5. \A q \in PipeWriter : ppc[q] # "wsleep"
      BY <2>2, <2>3, Zenon DEF PipeInv, NoLostWakeup
    <2>6. NoLostWakeup'
      BY <1>2, <2>5, Zenon DEF PipeInv, NoLostWakeup, PutByte
    <2>7. UNCHANGED <<ppc, plock, readopen, writeopen>>
      BY <1>2, Zenon DEF PutByte
    <2>8. /\ ~readopen' => \A q \in PipeReader : ppc'[q] = "closed"
          /\ ~writeopen' => \A q \in PipeWriter : ppc'[q] = "closed"
      BY <2>7, Zenon DEF PipeInv
    <2> QED
      BY <2>1, <2>3, <2>4, <2>6, <2>7, <2>8, Zenon DEF PipeInv, Holding
  <1>3. CASE WriteFull(p)
    <2>0. /\ ppc' \in [PipeProc -> PipePcs]
          /\ src' \in [PipeWriter -> Seq(Byte)]
          /\ plock' \in PipeProc \union {NoOne}
      <3>1. WakeReaders(ppc) \in [PipeProc -> PipePcs]
        BY Zenon DEF PipeInv, PipeTypeOK, PipePcs, WakeReaders
      <3>2. CASE ~readopen \/ p \in pkilled
        <4>1. /\ plock' = NoOne
              /\ ppc' = [ppc EXCEPT ![p] = "out"]
              /\ src' = [src EXCEPT ![p] = <<>>]
          BY <1>3, <3>2, Zenon DEF WriteFull
        <4>2. <<>> \in Seq(Byte) /\ "out" \in PipePcs
          BY DEF PipePcs
        <4> QED
          BY <4>1, <4>2, Zenon DEF PipeInv, PipeTypeOK
      <3>3. CASE ~(~readopen \/ p \in pkilled)
        BY <1>3, <3>1, <3>3, Zenon DEF PipeInv, PipeTypeOK, PipePcs, WriteFull
      <3> QED
        BY <3>2, <3>3, Zenon
    <2>1. PipeTypeOK'
      BY <1>3, <2>0, Zenon DEF PipeInv, PipeTypeOK, WriteFull, bufVars
    <2>2. plock = p
      BY <1>3, Zenon DEF PipeInv, WriteFull, Holding
    <2>3. UNCHANGED <<nread, nwrite, readopen, writeopen, pkilled>> /\ Full
      BY <1>3, Zenon DEF WriteFull, bufVars
    <2>4. CASE ~readopen \/ p \in pkilled
      <3>1. ppc' = [ppc EXCEPT ![p] = "out"] /\ plock' = NoOne
        BY <1>3, <2>4, Zenon DEF WriteFull
      <3>2. NoLostWakeup'
        BY <2>3, <2>4, <3>1, Zenon DEF PipeInv, PipeTypeOK, NoLostWakeup, Full, Empty, PipeProc
      <3>3. \A q \in PipeProc : ppc'[q] = IF q = p THEN "out" ELSE ppc[q]
        BY <3>1, Zenon DEF PipeInv, PipeTypeOK
      <3>4. ppc[p] # "closed"
        BY <1>3, Zenon DEF WriteFull
      <3> QED
        BY <2>1, <2>2, <2>3, <3>1, <3>2, <3>3, <3>4 DEF PipeInv, Holding, Full, Empty, PipeProc
    <2>5. CASE ~(~readopen \/ p \in pkilled)
      <3>1. ppc' = [WakeReaders(ppc) EXCEPT ![p] = "wdoze"] /\ plock' = plock
        BY <1>3, <2>5, Zenon DEF WriteFull
      <3>2. \A q \in PipeProc : ppc'[q] = IF q = p THEN "wdoze" ELSE IF ppc[q] = "rsleep" THEN "rlock" ELSE ppc[q]
        BY <3>1, Zenon DEF WakeReaders
      <3>3. NoLostWakeup'
        BY <2>3, <3>2, Zenon DEF PipeInv, PipeTypeOK, NoLostWakeup, Full, Empty, PipeProc
      <3>4. ppc[p] # "closed"
        BY <1>3, Zenon DEF WriteFull
      <3> QED
        BY <2>1, <2>2, <2>3, <2>5, <3>1, <3>2, <3>3, <3>4 DEF PipeInv, Holding, Full, Empty, PipeProc
    <2> QED
      BY <2>4, <2>5, Zenon
  <1>4. CASE WriteDone(p)
    <2>1. PipeTypeOK'
      BY <1>4, Zenon DEF PipeInv, PipeTypeOK, PipePcs, WriteDone, bufVars, WakeReaders
    <2>2. \A q \in PipeProc : ppc'[q] = IF q = p THEN "out" ELSE IF ppc[q] = "rsleep" THEN "rlock" ELSE ppc[q]
      BY <1>4, Zenon DEF WriteDone, WakeReaders
    <2>3. UNCHANGED <<nread, nwrite, readopen, writeopen, pkilled>> /\ plock = p /\ plock' = NoOne
      BY <1>4, Zenon DEF WriteDone, bufVars, PipeInv, Holding
    <2>4. NoLostWakeup'
      BY <2>2, <2>3, Zenon DEF PipeInv, PipeTypeOK, NoLostWakeup, Full, Empty, PipeProc
    <2> QED
      BY <2>1, <2>2, <2>3, <2>4, <1>4, Zenon DEF PipeInv, PipeTypeOK, Holding, Full, Empty, PipeProc, WriteDone
  <1> QED
    BY <1>1, <1>2, <1>3, <1>4, Zenon DEF PipeWriterNext

\* Every step of piperead preserves it.
LEMMA PipeReaderSteps ==
    ASSUME PipeInv, NEW p \in PipeReader, PipeReaderNext(p)
    PROVE  PipeInv'
  <1> USE PipeAssumption
  <1> p \in PipeProc /\ p \notin PipeWriter
    BY Zenon DEF PipeProc
  <1>1. CASE PipeRead(p)
    <2>1. PipeTypeOK'
      BY <1>1, Zenon DEF PipeInv, PipeTypeOK, PipePcs, PipeRead, bufVars
    <2> QED
      BY <1>1, <2>1 DEF PipeInv, PipeTypeOK, NoLostWakeup, Holding, PipeRead, bufVars, Full, Empty, PipeProc
  <1>2. CASE ReadWait(p)
    <2>1. PipeTypeOK'
      BY <1>2 DEF PipeInv, PipeTypeOK, PipePcs, ReadWait, bufVars
    <2>2. UNCHANGED <<nread, nwrite, readopen, writeopen, pkilled>> /\ plock = p
      BY <1>2, Zenon DEF ReadWait, bufVars, PipeInv, Holding
    <2>3. \E c \in {"out", "rdoze", "rcopy"} :
             /\ ppc' = [ppc EXCEPT ![p] = c]
             /\ c = "out" => plock' = NoOne
             /\ c # "out" => plock' = plock
             /\ c = "rdoze" => Empty /\ writeopen
      BY <1>2, Zenon DEF ReadWait
    <2>4. PICK c \in {"out", "rdoze", "rcopy"} :
             /\ ppc' = [ppc EXCEPT ![p] = c]
             /\ c = "out" => plock' = NoOne
             /\ c # "out" => plock' = plock
             /\ c = "rdoze" => Empty /\ writeopen
      BY <2>3, Zenon
    <2>5. ppc[p] = "rwait"
      BY <1>2, Zenon DEF ReadWait
    <2>6. NoLostWakeup'
      BY <2>2, <2>4, <2>5, Zenon DEF PipeInv, PipeTypeOK, NoLostWakeup, Full, Empty, PipeProc
    <2> QED
      BY <2>1, <2>2, <2>4, <2>5, <2>6 DEF PipeInv, PipeTypeOK, Holding, Full, Empty, PipeProc
  <1>3. CASE GetByte(p)
    <2>1. PipeTypeOK'
      BY <1>3, CounterWraps, Zenon DEF PipeInv, PipeTypeOK, PipePcs, GetByte
    <2>2. plock = p /\ ~Empty /\ \A q \in PipeProc : Holding(q) => q = p
      BY <1>3, Zenon DEF PipeInv, GetByte, Holding
    <2>3. \A q \in PipeWriter : ppc[q] # "wloop" /\ ppc[q] # "wdoze"
      BY <2>2, Zenon DEF Holding, PipeProc
    <2>4. \A q \in PipeReader : ppc[q] # "rdoze"
      BY <2>2, <1>3, Zenon DEF Holding, PipeProc, GetByte
    <2>5. NoLostWakeup'
      BY <1>3, <2>2, <2>3, Zenon DEF PipeInv, NoLostWakeup, GetByte
    <2> QED
      BY <1>3, <2>1, <2>3, <2>4, <2>5, Zenon DEF PipeInv, GetByte, Holding
  <1>4. CASE ReadDone(p)
    <2>1. PipeTypeOK'
      BY <1>4, Zenon DEF PipeInv, PipeTypeOK, PipePcs, ReadDone, bufVars, WakeWriters
    <2>2. \A q \in PipeProc : ppc'[q] = IF q = p THEN "out" ELSE IF ppc[q] = "wsleep" THEN "wlock" ELSE ppc[q]
      BY <1>4, Zenon DEF ReadDone, WakeWriters
    <2>3. UNCHANGED <<nread, nwrite, readopen, writeopen, pkilled>> /\ plock = p /\ plock' = NoOne
      BY <1>4, Zenon DEF ReadDone, bufVars, PipeInv, Holding
    <2>4. NoLostWakeup'
      BY <2>2, <2>3, Zenon DEF PipeInv, PipeTypeOK, NoLostWakeup, Full, Empty, PipeProc
    <2> QED
      BY <2>1, <2>2, <2>3, <2>4, <1>4 DEF PipeInv, PipeTypeOK, Holding, Full, Empty, PipeProc, ReadDone
  <1> QED
    BY <1>1, <1>2, <1>3, <1>4 DEF PipeReaderNext

\* So do acquire, sleep, pipeclose and kill, whichever end the process has.
LEMMA PipeOtherSteps ==
    ASSUME PipeInv, NEW p \in PipeProc, Acquire(p) \/ Sleep(p) \/ PipeClose(p) \/ Kill(p)
    PROVE  PipeInv'
  <1> USE PipeAssumption
  <1> PipeProc = PipeWriter \union PipeReader
    BY Zenon DEF PipeProc
  <1>1. CASE Acquire(p)
    <2>1. PipeTypeOK'
      BY <1>1, Zenon DEF PipeInv, PipeTypeOK, PipePcs, Acquire, bufVars
    <2>2. \A q \in PipeProc : ppc'[q] = IF q = p THEN IF ppc[p] = "wlock" THEN "wloop" ELSE "rwait" ELSE ppc[q]
      BY <1>1, Zenon DEF Acquire, PipeInv, PipeTypeOK
    <2>3. UNCHANGED <<nread, nwrite, readopen, writeopen, pkilled>> /\ plock = NoOne /\ plock' = p
      BY <1>1, Zenon DEF Acquire, bufVars
    <2>4. ppc[p] \in {"wlock", "rlock"}
      BY <1>1, Zenon DEF Acquire
    <2>5. NoLostWakeup'
      BY <2>2, <2>3, <2>4 DEF PipeInv, NoLostWakeup, Full, Empty
    <2> QED
      BY <2>1, <2>2, <2>3, <2>4, <2>5 DEF PipeInv, Holding, Full, Empty
  <1>2. CASE Sleep(p)
    <2>1. PipeTypeOK'
      BY <1>2, Zenon DEF PipeInv, PipeTypeOK, PipePcs, Sleep, bufVars
    <2>2. \A q \in PipeProc : ppc'[q] = IF q = p THEN IF ppc[p] = "wdoze" THEN "wsleep" ELSE "rsleep" ELSE ppc[q]
      BY <1>2, Zenon DEF Sleep, PipeInv, PipeTypeOK
    <2>3. UNCHANGED <<nread, nwrite, readopen, writeopen, pkilled>> /\ plock' = NoOne
      BY <1>2, Zenon DEF Sleep, bufVars
    <2>4. ppc[p] \in {"wdoze", "rdoze"} /\ \A q \in PipeProc : Holding(q) => q = p
      BY <1>2 DEF Sleep, PipeInv, Holding
    <2>5. NoLostWakeup'
      BY <2>2, <2>3, <2>4 DEF PipeInv, NoLostWakeup, Full, Empty
    <2> QED
      BY <2>1, <2>2, <2>3, <2>4, <2>5 DEF PipeInv, Holding, Full, Empty
  <1>3. CASE PipeClose(p)
    <2>1. ppc[p] = "out" /\ plock = NoOne /\ UNCHANGED <<nread, nwrite, pkilled, plock, src>>
      BY <1>3, Zenon DEF PipeClose, MayClose
    <2>2. \A q \in PipeProc : ~Holding(q)
      BY <2>1, Zenon DEF PipeInv
    <2> DEFINE mine == IF p \in PipeWriter THEN PipeWriter ELSE PipeReader
               last == \A q \in mine \ {p} : ppc[q] = "closed"
    <2>3. CASE last
      <3>1. CASE p \in PipeWriter
        <4>1. /\ ~writeopen' /\ readopen' = readopen
              /\ ppc' = [WakeReaders(ppc) EXCEPT ![p] = "closed"]
          BY <1>3, <2>3, <3>1, Zenon DEF PipeClose, MayClose, PipeInv, PipeTypeOK
        <4>2. \A q \in PipeProc : ppc'[q] = IF q = p THEN "closed" ELSE IF ppc[q] = "rsleep" THEN "rlock" ELSE ppc[q]
          BY <4>1, Zenon DEF WakeReaders
        <4>3. \A q \in PipeWriter : ppc'[q] = "closed"
          BY <4>2, <2>3, <3>1, Zenon
        <4>4. PipeTypeOK'
          BY <2>1, <4>1, <1>3 DEF PipeInv, PipeTypeOK, PipePcs, WakeReaders, PipeClose, MayClose
        <4>5. NoLostWakeup'
          BY <4>2, <4>3, Zenon
          DEF NoLostWakeup
        <4> QED
          BY <2>1, <2>2, <4>1, <4>2, <4>3, <4>4, <4>5 DEF PipeInv, Holding, Full, Empty
      <3>2. CASE p \in PipeReader
        <4>1. /\ ~readopen' /\ writeopen' = writeopen
              /\ ppc' = [WakeWriters(ppc) EXCEPT ![p] = "closed"]
          BY <1>3, <2>3, <3>2, Zenon DEF PipeClose, MayClose, PipeInv, PipeTypeOK
        <4>2. \A q \in PipeProc : ppc'[q] = IF q = p THEN "closed" ELSE IF ppc[q] = "wsleep" THEN "wlock" ELSE ppc[q]
          BY <4>1, Zenon DEF WakeWriters
        <4>3. \A q \in PipeReader : ppc'[q] = "closed"
          BY <4>2, <2>3, <3>2, Zenon
        <4>4. PipeTypeOK'
          BY <2>1, <4>1, <1>3 DEF PipeInv, PipeTypeOK, PipePcs, WakeWriters, PipeClose, MayClose
        <4>5. NoLostWakeup'
          BY <4>2, <4>3, Zenon
          DEF NoLostWakeup
        <4> QED
          BY <2>1, <2>2, <4>1, <4>2, <4>3, <4>4, <4>5 DEF PipeInv, Holding, Full, Empty
      <3> QED
        BY <3>1, <3>2, Zenon
    <2>4. CASE ~last
      <3>1. UNCHANGED <<readopen, writeopen>> /\ ppc' = [ppc EXCEPT ![p] = "closed"]
        BY <1>3, <2>4, Zenon DEF PipeClose, MayClose, PipeInv, PipeTypeOK
      <3>2. \A q \in PipeProc : ppc'[q] = IF q = p THEN "closed" ELSE ppc[q]
        BY <3>1, Zenon DEF PipeInv, PipeTypeOK
      <3>3. PipeTypeOK'
        BY <2>1, <3>1, Zenon DEF PipeInv, PipeTypeOK, PipePcs
      <3>4. NoLostWakeup'
        BY <2>1, <3>1, <3>2 DEF PipeInv, NoLostWakeup, Full, Empty
      <3> QED
        BY <2>1, <2>2, <3>1, <3>2, <3>3, <3>4 DEF PipeInv, Holding, Full, Empty
    <2> QED
      BY <2>3, <2>4, Zenon
  <1>4. CASE Kill(p)
    <2>1. PipeTypeOK'
      BY <1>4 DEF PipeInv, PipeTypeOK, PipePcs, Kill, bufVars
    <2>2. \A q \in PipeProc : ppc'[q] = IF q = p THEN IF ppc[p] = "wsleep" THEN "wlock"
                                         ELSE IF ppc[p] = "rsleep" THEN "rlock" ELSE ppc[p] ELSE ppc[q]
      BY <1>4, Zenon DEF Kill, PipeInv, PipeTypeOK
    <2>3. UNCHANGED <<nread, nwrite, readopen, writeopen, plock>> /\ pkilled \subseteq pkilled'
      BY <1>4, Zenon DEF Kill, bufVars
    <2>4. NoLostWakeup'
      BY <2>2, <2>3 DEF PipeInv, NoLostWakeup, Full, Empty
    <2> QED
      BY <2>1, <2>2, <2>3, <2>4 DEF PipeInv, Holding, Full, Empty
  <1> QED
    BY <1>1, <1>2, <1>3, <1>4, Zenon

\* PipeInv is an invariant of the pipe.
LEMMA PipeInvariant == PipeSpec => []PipeInv
  <1>1. PipeInit => PipeInv
    BY PipeInitInv, Zenon
  <1>2. PipeInv /\ [PipeNext]_pipeVars => PipeInv'
    <2> SUFFICES ASSUME PipeInv, [PipeNext]_pipeVars PROVE PipeInv'
      BY Zenon
    <2>1. CASE PipeNext
      <3>1. PICK p \in PipeProc : PipeStep(p) \/ Kill(p)
        BY <2>1, Zenon DEF PipeNext
      <3>2. CASE p \in PipeWriter /\ PipeWriterNext(p)
        BY <3>2, PipeWriterSteps, Zenon
      <3>3. CASE p \in PipeReader /\ PipeReaderNext(p)
        BY <3>3, PipeReaderSteps, Zenon
      <3>4. CASE Acquire(p) \/ Sleep(p) \/ PipeClose(p) \/ Kill(p)
        BY <3>4, PipeOtherSteps, Zenon
      <3> QED
        BY <3>1, <3>2, <3>3, <3>4 DEF PipeStep
    <2>2. CASE UNCHANGED pipeVars
      BY <2>2 DEF pipeVars, PipeInv, PipeTypeOK, NoLostWakeup, Holding, Full, Empty
    <2> QED
      BY <2>1, <2>2, Zenon
  <1> QED
    BY <1>1, <1>2, PTL DEF PipeSpec

\* The counters of pipe.c stay unsigned numbers, p->lock has at most one holder, and every
\* process is at a place of pipewrite, piperead or pipeclose.
THEOREM PipeTypes == PipeSpec => []PipeTypeOK
  <1>1. PipeInv => PipeTypeOK
    BY Zenon DEF PipeInv
  <1> QED
    BY <1>1, PipeInvariant, PTL

\* No wakeup of pipe.c is lost, for any number of writers and readers and any size of the
\* buffer and of the counters.
THEOREM PipeWakeups == PipeSpec => []NoLostWakeup
  <1>1. PipeInv => NoLostWakeup
    BY Zenon DEF PipeInv
  <1> QED
    BY <1>1, PipeInvariant, PTL

\* pipeclose frees the page of a pipe only when no process is inside pipewrite or piperead,
\* asleep or on its way to the lock, or has an end left to call them with.
THEOREM PipeFreedUnused == PipeSpec => []FreedUnused
  <1>1. PipeInv => FreedUnused
    BY Zenon DEF PipeInv, FreedUnused, Freed, PipeProc
  <1> QED
    BY <1>1, PipeInvariant, PTL

-----------------------------------------------------------------------------
(* The ring buffer is a queue *)

\* What a number leaves when it is divided by m.
LEMMA DivMod ==
    ASSUME NEW x \in Int, NEW m \in Nat \ {0}
    PROVE  x \div m \in Int /\ x % m \in 0 .. m - 1 /\ x = m * (x \div m) + (x % m)
  OBVIOUS

\* The other way round.
LEMMA ModIs ==
    ASSUME NEW x \in Int, NEW m \in Nat \ {0}, NEW q \in Int, NEW r \in 0 .. m - 1, x = m * q + r
    PROVE  x % m = r
  OBVIOUS

\* A counter that wraps at a multiple of the size of the buffer comes out at the same place.
LEMMA ModAdd ==
    ASSUME NEW x \in Int, NEW u \in Int, NEW m \in Nat \ {0}, u % m = 0
    PROVE  (x + u) % m = x % m
  <1>1. PICK q : q = u \div m
    BY Zenon
  <1>2. PICK k : k = x \div m
    BY Zenon
  <1>3. PICK r : r = x % m
    BY Zenon
  <1>4. q \in Int /\ k \in Int /\ r \in 0 .. m - 1 /\ u = m * q + 0 /\ x = m * k + r
    BY <1>1, <1>2, <1>3, DivMod
  <1>5. m * (k + q) = m * k + m * q /\ m * k \in Int /\ m * q \in Int
    BY <1>4
  <1>6. PICK y : y = x + u
    BY Zenon
  <1>7. PICK s : s = k + q
    BY Zenon
  <1>8. y \in Int /\ s \in Int /\ y = m * s + r
    BY <1>4, <1>5, <1>6, <1>7
  <1>9. y % m = r
    BY <1>4, <1>8, ModIs
  <1> QED
    BY <1>3, <1>6, <1>9, Zenon

\* Positions less than a buffer apart are different places of it.
LEMMA ModApart ==
    ASSUME NEW x \in Int, NEW y \in Int, NEW m \in Nat \ {0}, x < y, y < x + m
    PROVE  x % m # y % m
  <1> SUFFICES ASSUME x % m = y % m PROVE FALSE
    BY Zenon
  <1>1. PICK k : k = x \div m
    BY Zenon
  <1>2. PICK l : l = y \div m
    BY Zenon
  <1>r. PICK r : r = x % m
    BY Zenon
  <1>d. k \in Int /\ l \in Int /\ r \in 0 .. m - 1 /\ x = m * k + r /\ y = m * l + r
    BY <1>1, <1>2, <1>r, DivMod
  <1>3. y - x = m * l - m * k /\ m * l \in Int /\ m * k \in Int
    BY <1>d
  <1>4. m * l - m * k = m * (l - k) /\ l - k \in Int
    BY <1>d
  <1>5. CASE l - k >= 1
    <2>1. m * (l - k) >= m
      BY <1>4, <1>5
    <2> QED
      BY <1>3, <1>4, <2>1
  <1>6. CASE l - k <= 0
    <2>1. m * (l - k) <= 0
      BY <1>4, <1>6
    <2> QED
      BY <1>3, <1>4, <2>1
  <1> QED
    BY <1>4, <1>5, <1>6

\* The bytes that wait, the distance from one counter to the other, and where they are.
Waiting  == (nwrite - nread) % UINT
Place(k) == (nread + k - 1) % PIPESIZE

\* The counters are never more than a buffer apart; a read has bytes only from its own copy
\* loop, and one that finds nothing to copy is at the end of the stream.
RingInv ==
    /\ pdata \in [0 .. PIPESIZE - 1 -> Byte]
    /\ pgot \in [PipeReader -> Seq(Byte)]
    /\ Waiting <= PIPESIZE
    /\ \A p \in PipeReader :
          /\ ppc[p] \in {"rlock", "rwait", "rdoze", "rsleep"} => pgot[p] = <<>>
          /\ ppc[p] = "rcopy" /\ pgot[p] = <<>> /\ Empty => ~writeopen

\* The distance between two counters, and a counter's next value, without the modulus.
LEMMA Distance ==
    ASSUME NEW a \in 0 .. UINT - 1, NEW b \in 0 .. UINT - 1
    PROVE  /\ (a - b) % UINT = IF a >= b THEN a - b ELSE a - b + UINT
           /\ (a + 1) % UINT = IF a + 1 = UINT THEN 0 ELSE a + 1
           /\ (a + PIPESIZE) % UINT = IF a + PIPESIZE < UINT THEN a + PIPESIZE ELSE a + PIPESIZE - UINT
  <1> USE PipeAssumption
  <1>1. UINT \in Nat \ {0}
    OBVIOUS
  <1>2. (a - b) % UINT = IF a >= b THEN a - b ELSE a - b + UINT
    <2>1. CASE a >= b
      <3>1. a - b \in 0 .. UINT - 1 /\ a - b = UINT * 0 + (a - b)
        BY <2>1
      <3> QED
        BY <1>1, <2>1, <3>1, ModIs
    <2>2. CASE a < b
      <3>1. a - b + UINT \in 0 .. UINT - 1 /\ a - b \in Int /\ a - b = UINT * (-1) + (a - b + UINT)
        BY <2>2
      <3>2. (a - b) % UINT = a - b + UINT
        BY <1>1, <3>1, ModIs
      <3> QED
        BY <2>2, <3>2
    <2> QED
      BY <2>1, <2>2
  <1>3. (a + PIPESIZE) % UINT = IF a + PIPESIZE < UINT THEN a + PIPESIZE ELSE a + PIPESIZE - UINT
    <2>1. CASE a + PIPESIZE < UINT
      <3>1. a + PIPESIZE \in 0 .. UINT - 1 /\ a + PIPESIZE = UINT * 0 + (a + PIPESIZE)
        BY <2>1
      <3> QED
        BY <1>1, <2>1, <3>1, ModIs
    <2>2. CASE a + PIPESIZE >= UINT
      <3>1. /\ a + PIPESIZE - UINT \in 0 .. UINT - 1 /\ a + PIPESIZE \in Int
            /\ a + PIPESIZE = UINT * 1 + (a + PIPESIZE - UINT)
        BY <2>2
      <3>2. (a + PIPESIZE) % UINT = a + PIPESIZE - UINT
        BY <1>1, <3>1, ModIs
      <3> QED
        BY <2>2, <3>2
    <2> QED
      BY <2>1, <2>2
  <1>4. (a + 1) % UINT = IF a + 1 = UINT THEN 0 ELSE a + 1
    OBVIOUS
  <1> QED
    BY <1>2, <1>3, <1>4, Zenon

\* What Full and Empty say of the distance, and how a byte more or a byte less changes it.
LEMMA WaitingIs ==
    ASSUME PipeTypeOK
    PROVE  /\ Waiting \in 0 .. UINT - 1
           /\ Waiting = 0 <=> Empty
           /\ Waiting = PIPESIZE <=> Full
           /\ Waiting < PIPESIZE => (((nwrite + 1) % UINT) - nread) % UINT = Waiting + 1
           /\ ~Empty => (nwrite - ((nread + 1) % UINT)) % UINT = Waiting - 1
  <1> USE PipeAssumption
  <1>1. nread \in 0 .. UINT - 1 /\ nwrite \in 0 .. UINT - 1
    BY Zenon DEF PipeTypeOK
  <1>2. Waiting = IF nwrite >= nread THEN nwrite - nread ELSE nwrite - nread + UINT
    BY <1>1, Distance DEF Waiting
  <1>3. Full <=> nwrite = IF nread + PIPESIZE < UINT THEN nread + PIPESIZE ELSE nread + PIPESIZE - UINT
    BY <1>1, Distance DEF Full
  <1>4. PICK a \in 0 .. UINT - 1 : a = (nwrite + 1) % UINT /\ a = IF nwrite + 1 = UINT THEN 0 ELSE nwrite + 1
    BY <1>1, Distance
  <1>5. PICK b \in 0 .. UINT - 1 : b = (nread + 1) % UINT /\ b = IF nread + 1 = UINT THEN 0 ELSE nread + 1
    BY <1>1, Distance
  <1>6. (a - nread) % UINT = IF a >= nread THEN a - nread ELSE a - nread + UINT
    BY <1>1, Distance
  <1>7. (nwrite - b) % UINT = IF nwrite >= b THEN nwrite - b ELSE nwrite - b + UINT
    BY <1>1, Distance
  <1>8. Waiting < PIPESIZE => (a - nread) % UINT = Waiting + 1
    BY <1>1, <1>2, <1>4, <1>6
  <1>9. ~Empty => (nwrite - b) % UINT = Waiting - 1
    BY <1>1, <1>2, <1>5, <1>7 DEF Empty
  <1>10. Waiting = 0 <=> Empty
    BY <1>1, <1>2 DEF Empty
  <1>11. Waiting = PIPESIZE <=> Full
    BY <1>1, <1>2, <1>3
  <1>12. Waiting \in 0 .. UINT - 1
    BY <1>1, <1>2
  <1>13. Waiting < PIPESIZE => (((nwrite + 1) % UINT) - nread) % UINT = Waiting + 1
    BY <1>4, <1>8, Zenon
  <1>14. ~Empty => (nwrite - ((nread + 1) % UINT)) % UINT = Waiting - 1
    BY <1>5, <1>9, Zenon
  <1> QED
    BY <1>10, <1>11, <1>12, <1>13, <1>14, Zenon

\* The places of the bytes that wait: the next byte goes to the place after the last, and the
\* places stay where they are when the counters wrap.
LEMMA Places ==
    ASSUME PipeTypeOK
    PROVE  /\ \A k \in Nat : Place(k) \in 0 .. PIPESIZE - 1
           /\ Place(Waiting + 1) = nwrite % PIPESIZE
           /\ Place(1) = nread % PIPESIZE
           /\ \A k \in Nat : (((nread + 1) % UINT) + k - 1) % PIPESIZE = Place(k + 1)
           /\ \A k \in 1 .. Waiting : Waiting < PIPESIZE => Place(k) # nwrite % PIPESIZE
  <1> USE PipeAssumption
  <1>1. nread \in 0 .. UINT - 1 /\ nwrite \in 0 .. UINT - 1 /\ Waiting \in 0 .. UINT - 1
    BY WaitingIs, Zenon DEF PipeTypeOK
  <1>2. ASSUME NEW k \in Nat PROVE Place(k) \in 0 .. PIPESIZE - 1
    <2>1. nread + k - 1 \in Int
      BY <1>1
    <2> QED
      BY <2>1, DivMod, Zenon DEF Place
  <1>3. Place(Waiting + 1) = nwrite % PIPESIZE
    <2>1. Waiting = IF nwrite >= nread THEN nwrite - nread ELSE nwrite - nread + UINT
      BY <1>1, Distance DEF Waiting
    <2>2. CASE nwrite >= nread
      <3>1. nread + (Waiting + 1) - 1 = nwrite
        BY <1>1, <2>1, <2>2
      <3> QED
        BY <3>1, Zenon DEF Place
    <2>3. CASE nwrite < nread
      <3>1. nread + (Waiting + 1) - 1 = nwrite + UINT
        BY <1>1, <2>1, <2>3
      <3>2. (nwrite + UINT) % PIPESIZE = nwrite % PIPESIZE
        <4>1. nwrite \in Int /\ UINT \in Int /\ PIPESIZE \in Nat \ {0} /\ UINT % PIPESIZE = 0
          BY <1>1
        <4> QED
          BY <4>1, ModAdd, Zenon
      <3> QED
        BY <3>1, <3>2, Zenon DEF Place
    <2> QED
      BY <1>1, <2>2, <2>3
  <1>4. Place(1) = nread % PIPESIZE
    <2>1. nread + 1 - 1 = nread
      BY <1>1
    <2> QED
      BY <2>1, Zenon DEF Place
  <1>5. ASSUME NEW k \in Nat PROVE (((nread + 1) % UINT) + k - 1) % PIPESIZE = Place(k + 1)
    <2>1. CASE nread + 1 # UINT
      <3>1. ((nread + 1) % UINT) + k - 1 = nread + (k + 1) - 1
        BY <1>1, <2>1, Distance
      <3> QED
        BY <3>1, Zenon DEF Place
    <2>2. CASE nread + 1 = UINT
      <3>1. ((nread + 1) % UINT) + k - 1 = k - 1 /\ nread + (k + 1) - 1 = (k - 1) + UINT /\ k - 1 \in Int
        BY <1>1, <2>2, Distance
      <3>2. ((k - 1) + UINT) % PIPESIZE = (k - 1) % PIPESIZE
        <4>1. UINT \in Int /\ PIPESIZE \in Nat \ {0} /\ UINT % PIPESIZE = 0
          OBVIOUS
        <4> QED
          BY <3>1, <4>1, ModAdd, Zenon
      <3> QED
        BY <3>1, <3>2, Zenon DEF Place
    <2> QED
      BY <2>1, <2>2
  <1>6. ASSUME NEW k \in 1 .. Waiting, Waiting < PIPESIZE PROVE Place(k) # nwrite % PIPESIZE
    <2>1. PICK x \in Int : x = nread + k - 1
      BY <1>1
    <2>2. PICK y \in Int : y = nread + (Waiting + 1) - 1
      BY <1>1
    <2>3. x < y /\ y < x + PIPESIZE
      BY <1>1, <1>6, <2>1, <2>2
    <2>4. x % PIPESIZE # y % PIPESIZE
      BY <2>3, ModApart, Zenon
    <2> QED
      BY <1>3, <2>1, <2>2, <2>4 DEF Place
  <1> QED
    BY <1>2, <1>3, <1>4, <1>5, <1>6, Zenon

\* The bytes that wait, as a sequence.
LEMMA ContentsIs ==
    ASSUME NEW n \in Nat, NEW r \in Int, NEW d \in [0 .. PIPESIZE - 1 -> Byte]
    PROVE  /\ [k \in 1 .. n |-> d[(r + k - 1) % PIPESIZE]] \in Seq(Byte)
           /\ Len([k \in 1 .. n |-> d[(r + k - 1) % PIPESIZE]]) = n
  <1>1. \A k \in 1 .. n : (r + k - 1) % PIPESIZE \in 0 .. PIPESIZE - 1
    BY PipeAssumption, DivMod
  <1>2. \A k \in 1 .. n : d[(r + k - 1) % PIPESIZE] \in Byte
    BY <1>1, Zenon
  <1>3. PICK s : s = [k \in 1 .. n |-> d[(r + k - 1) % PIPESIZE]]
    BY Zenon
  <1>4. s \in [1 .. n -> Byte]
    BY <1>2, <1>3, Zenon
  <1>5. s \in Seq(Byte)
    BY <1>4
  <1>6. Len(s) = n
    <2>1. Len(s) \in Nat /\ DOMAIN s = 1 .. Len(s) /\ DOMAIN s = 1 .. n
      BY <1>4, <1>5, LenProperties, Zenon
    <2>l. Len(s) \in Nat
      BY <2>1, Zenon
    <2>2. CASE Len(s) < n
      <3>1. n \in 1 .. n /\ n \notin 1 .. Len(s)
        BY <2>l, <2>2
      <3> QED
        BY <2>1, <3>1, Zenon
    <2>3. CASE Len(s) > n
      <3>1. Len(s) \in 1 .. Len(s) /\ Len(s) \notin 1 .. n
        BY <2>1, <2>3
      <3> QED
        BY <2>1, <3>1, Zenon
    <2> QED
      BY <2>l, <2>2, <2>3
  <1> QED
    BY <1>3, <1>5, <1>6

\* A byte put in the buffer is the last of those that wait.
LEMMA PutContents ==
    ASSUME PipeTypeOK, PipeTypeOK', RingInv, NEW p \in PipeWriter, PutByte(p)
    PROVE  /\ Waiting < PIPESIZE /\ Waiting' = Waiting + 1
           /\ pdata' \in [0 .. PIPESIZE - 1 -> Byte]
           /\ Head(src[p]) \in Byte /\ Contents' = Append(Contents, Head(src[p]))
           /\ Len(Contents) < PIPESIZE
  <1> USE PipeAssumption
  <1>1. Waiting \in Nat /\ Waiting < PIPESIZE
    BY WaitingIs DEF PutByte, RingInv
  <1>2. nread' = nread /\ nwrite' = (nwrite + 1) % UINT
    BY Zenon DEF PutByte
  <1>3. Waiting' = Waiting + 1
    BY <1>1, <1>2, WaitingIs, Zenon DEF Waiting
  <1>4. PICK x \in Byte : x = Head(src[p])
    BY DEF PutByte, PipeTypeOK
  <1>5. nwrite % PIPESIZE \in 0 .. PIPESIZE - 1 /\ nread \in Int
    <2>1. nwrite \in Int /\ nread \in Int
      BY DEF PipeTypeOK
    <2> QED
      BY <2>1, DivMod, Zenon
  <1>6. pdata' = [pdata EXCEPT ![nwrite % PIPESIZE] = x] /\ pdata \in [0 .. PIPESIZE - 1 -> Byte]
    BY <1>4, Zenon DEF PutByte, RingInv
  <1>7. pdata' \in [0 .. PIPESIZE - 1 -> Byte]
    BY <1>5, <1>6, Zenon
  <1>8. PICK c : c = Contents
    BY Zenon
  <1>9. PICK e : e = Contents'
    BY Zenon
  <1>10. c \in Seq(Byte) /\ Len(c) = Waiting /\ \A k \in 1 .. Waiting : c[k] = pdata[Place(k)]
    <2>1. c = [k \in 1 .. Waiting |-> pdata[(nread + k - 1) % PIPESIZE]]
      BY <1>8, Zenon DEF Contents, Waiting
    <2>2. c \in Seq(Byte) /\ Len(c) = Waiting
      BY <1>1, <1>5, <1>6, <2>1, ContentsIs
    <2> QED
      BY <2>1, <2>2, Zenon DEF Place
  <1>11. e \in Seq(Byte) /\ Len(e) = Waiting + 1 /\ \A k \in 1 .. Waiting + 1 : e[k] = pdata'[Place(k)]
    <2>1. e = [k \in 1 .. Waiting + 1 |-> pdata'[(nread + k - 1) % PIPESIZE]]
      BY <1>2, <1>3, <1>9, Zenon DEF Contents, Waiting
    <2>2. e \in Seq(Byte) /\ Len(e) = Waiting + 1
      BY <1>1, <1>5, <1>7, <2>1, ContentsIs
    <2> QED
      BY <2>1, <2>2, Zenon DEF Place
  <1>12. \A k \in 1 .. Waiting : pdata'[Place(k)] = pdata[Place(k)]
    <2>1. \A k \in 1 .. Waiting : Place(k) \in 0 .. PIPESIZE - 1 /\ Place(k) # nwrite % PIPESIZE
      <3> TAKE k \in 1 .. Waiting
      <3>1. k \in Nat
        BY <1>1
      <3>2. Place(k) \in 0 .. PIPESIZE - 1
        BY <3>1, Places, Zenon
      <3>3. Place(k) # nwrite % PIPESIZE
        BY <1>1, Places, Zenon
      <3> QED
        BY <3>2, <3>3, Zenon
    <2> QED
      BY <1>5, <1>6, <2>1, Zenon
  <1>13. pdata'[Place(Waiting + 1)] = x
    BY <1>5, <1>6, Places, Zenon
  <1>14. e = Append(c, x)
    <2>1. PICK a : a = Append(c, x)
      BY Zenon
    <2>2. a \in Seq(Byte) /\ Len(a) = Waiting + 1 /\ (\A k \in 1 .. Waiting : a[k] = c[k]) /\ a[Waiting + 1] = x
      BY <1>10, <2>1, AppendProperties
    <2>3. \A k \in 1 .. Waiting + 1 : k \in 1 .. Waiting \/ k = Waiting + 1
      BY <1>1
    <2>4. \A k \in 1 .. Len(e) : e[k] = a[k]
      BY <1>10, <1>11, <1>12, <1>13, <2>2, <2>3
    <2> QED
      BY <1>11, <2>1, <2>2, <2>4, SeqEqual
  <1> QED
    BY <1>1, <1>3, <1>4, <1>7, <1>8, <1>9, <1>10, <1>14

\* The byte that a read takes is the first of those that wait.
LEMMA GetContents ==
    ASSUME PipeTypeOK, PipeTypeOK', RingInv, NEW p \in PipeReader, GetByte(p)
    PROVE  /\ Waiting' = Waiting - 1
           /\ pdata[nread % PIPESIZE] \in Byte
           /\ Contents # <<>> /\ Head(Contents) = pdata[nread % PIPESIZE] /\ Contents' = Tail(Contents)
  <1> USE PipeAssumption
  <1>1. Waiting \in Nat \ {0} /\ nread \in Int /\ nread' \in Int
    BY WaitingIs DEF GetByte, PipeTypeOK
  <1>2. nread' = (nread + 1) % UINT /\ nwrite' = nwrite /\ pdata' = pdata /\ ~Empty
    BY Zenon DEF GetByte
  <1>3. Waiting' = Waiting - 1
    BY <1>1, <1>2, WaitingIs, Zenon DEF Waiting
  <1>4. pdata \in [0 .. PIPESIZE - 1 -> Byte]
    BY Zenon DEF RingInv
  <1>5. nread % PIPESIZE \in 0 .. PIPESIZE - 1
    BY <1>1, DivMod
  <1>6. PICK c : c = Contents
    BY Zenon
  <1>7. PICK e : e = Contents'
    BY Zenon
  <1>8. c \in Seq(Byte) /\ Len(c) = Waiting /\ \A k \in 1 .. Waiting : c[k] = pdata[Place(k)]
    <2>1. c = [k \in 1 .. Waiting |-> pdata[(nread + k - 1) % PIPESIZE]]
      BY <1>6 DEF Contents, Waiting
    <2>2. c \in Seq(Byte) /\ Len(c) = Waiting
      BY <1>1, <1>4, <2>1, ContentsIs
    <2> QED
      BY <2>1, <2>2, Zenon DEF Place
  <1>9. e \in Seq(Byte) /\ Len(e) = Waiting - 1 /\ \A k \in 1 .. Waiting - 1 : e[k] = pdata[Place(k + 1)]
    <2>1. e = [k \in 1 .. Waiting - 1 |-> pdata[(nread' + k - 1) % PIPESIZE]]
      BY <1>2, <1>3, <1>7, Zenon DEF Contents, Waiting
    <2>2. e \in Seq(Byte) /\ Len(e) = Waiting - 1
      <3>1. PICK n \in Nat : n = Waiting - 1
        BY <1>1
      <3>2. PICK r \in Int : r = nread'
        BY <1>1, Zenon
      <3>3. e = [k \in 1 .. n |-> pdata[(r + k - 1) % PIPESIZE]]
        BY <2>1, <3>1, <3>2, Zenon
      <3>4. e \in Seq(Byte) /\ Len(e) = n
        BY <1>4, <3>3, ContentsIs
      <3> QED
        BY <3>1, <3>4, Zenon
    <2>3. \A k \in 1 .. Waiting - 1 : (nread' + k - 1) % PIPESIZE = Place(k + 1)
      BY <1>1, <1>2, Places
    <2> QED
      BY <2>1, <2>2, <2>3, Zenon
  <1>10. c # <<>> /\ 1 \in 1 .. Waiting
    BY <1>1, <1>8
  <1>11. Head(c) = pdata[nread % PIPESIZE]
    <2>1. Head(c) = c[1]
      BY <1>8, <1>10
    <2>2. Place(1) = nread % PIPESIZE
      BY Places, Zenon
    <2> QED
      BY <1>8, <1>10, <2>1, <2>2, Zenon
  <1>12. e = Tail(c)
    <2>1. PICK t : t = Tail(c)
      BY Zenon
    <2>2. t \in Seq(Byte) /\ Len(t) = Waiting - 1 /\ \A k \in 1 .. Waiting - 1 : t[k] = c[k + 1]
      BY <1>8, <1>10, <2>1, HeadTailProperties
    <2>3. \A k \in 1 .. Waiting - 1 : k + 1 \in 1 .. Waiting
      BY <1>1
    <2>4. \A k \in 1 .. Len(e) : e[k] = t[k]
      <3> TAKE k \in 1 .. Len(e)
      <3>1. k \in 1 .. Waiting - 1 /\ k + 1 \in 1 .. Waiting
        BY <1>9, <2>3
      <3>2. e[k] = pdata[Place(k + 1)] /\ t[k] = c[k + 1] /\ c[k + 1] = pdata[Place(k + 1)]
        BY <1>8, <1>9, <2>2, <3>1
      <3> QED
        BY <3>2, Zenon
    <2> QED
      BY <1>9, <2>1, <2>2, <2>4, SeqEqual, Zenon
  <1> QED
    BY <1>3, <1>4, <1>5, <1>6, <1>7, <1>10, <1>11, <1>12

\* RingInv holds throughout.
LEMMA RingInvariant == PipeSpec => [](PipeInv /\ RingInv)
  <1> USE PipeAssumption
  <1>1. PipeInit => RingInv
    <2> SUFFICES ASSUME PipeInit PROVE RingInv
      BY Zenon
    <2>1. (CHOOSE x \in Byte : TRUE) \in Byte
      BY Zenon
    <2>2. pdata \in [0 .. PIPESIZE - 1 -> Byte]
      BY <2>1, Zenon DEF PipeInit
    <2>3. PipeTypeOK
      BY PipeInitInv, Zenon DEF PipeInv
    <2>4. Waiting = 0
      BY <2>3, WaitingIs, Zenon DEF PipeInit, Empty
    <2>5. pgot \in [PipeReader -> Seq(Byte)] /\ \A p \in PipeReader : ppc[p] = "out"
      BY DEF PipeInit, PipeProc
    <2> QED
      BY <2>2, <2>4, <2>5 DEF RingInv
  <1>2. PipeInv /\ PipeInv' /\ RingInv /\ [PipeNext]_pipeVars => RingInv'
    <2> SUFFICES ASSUME PipeInv, PipeInv', RingInv, [PipeNext]_pipeVars PROVE RingInv'
      BY Zenon
    <2>t. PipeTypeOK /\ PipeTypeOK'
      BY Zenon DEF PipeInv
    <2>1. ASSUME UNCHANGED <<pdata, nread, nwrite, pgot>>,
                 \A p \in PipeReader :
                    /\ ppc'[p] \in {"rlock", "rwait", "rdoze", "rsleep"} =>
                          ppc[p] \in {"rlock", "rwait", "rdoze", "rsleep"}
                    /\ ppc'[p] = "rcopy" => \/ ppc[p] = "rcopy"
                                            \/ Empty => ~writeopen,
                 writeopen' => writeopen
          PROVE  RingInv'
      BY <2>1, Zenon DEF RingInv, Waiting, Empty
    <2>2. ASSUME NEW p \in PipeWriter, PutByte(p) PROVE RingInv'
      <3>1. Waiting < PIPESIZE /\ Waiting' = Waiting + 1 /\ pdata' \in [0 .. PIPESIZE - 1 -> Byte]
        BY <2>t, <2>2, PutContents, Zenon
      <3>2. Waiting' <= PIPESIZE /\ Waiting' # 0
        BY <2>t, <3>1, WaitingIs
      <3>3. ~Empty'
        <4>1. Waiting \in 0 .. UINT - 1 /\ nread \in 0 .. UINT - 1 /\ nread' = nread
          BY <2>t, <2>2, WaitingIs DEF PipeTypeOK, PutByte
        <4>2. (nread - nread) % UINT = 0
          BY <4>1, Distance
        <4>3. Waiting' = (nwrite' - nread) % UINT
          BY <4>1, Zenon DEF Waiting
        <4> QED
          BY <3>2, <4>1, <4>2, <4>3, Zenon DEF Empty
      <3> QED
        BY <2>2, <3>1, <3>2, <3>3 DEF RingInv, PutByte
    <2>3. ASSUME NEW p \in PipeReader, GetByte(p) PROVE RingInv'
      <3>1. Waiting' = Waiting - 1 /\ pdata[nread % PIPESIZE] \in Byte
        BY <2>t, <2>3, GetContents, Zenon
      <3>2. Waiting' <= PIPESIZE
        BY <2>t, <3>1, WaitingIs DEF RingInv
      <3>3. PICK x \in Byte : x = pdata[nread % PIPESIZE]
        BY <3>1, Zenon
      <3>4. PICK g : g = Append(pgot[p], x)
        BY Zenon
      <3>5. g \in Seq(Byte) /\ g # <<>>
        BY <3>4, AppendProperties DEF RingInv
      <3>6. pgot' = [pgot EXCEPT ![p] = g]
        BY <2>3, <3>3, <3>4, Zenon DEF GetByte
      <3>7. pgot' \in [PipeReader -> Seq(Byte)] /\ pgot'[p] # <<>> /\ \A q \in PipeReader \ {p} : pgot'[q] = pgot[q]
        BY <3>5, <3>6, Zenon DEF RingInv
      <3>8. UNCHANGED <<pdata, ppc, writeopen>> /\ ppc[p] = "rcopy"
        BY <2>3, Zenon DEF GetByte
      <3>9. \A q \in PipeReader \ {p} : ppc[q] # "rcopy"
        BY <3>8, Zenon DEF PipeInv, Holding, PipeProc
      <3> QED
        BY <3>2, <3>7, <3>8, <3>9, Zenon DEF RingInv
    <2>4. ASSUME NEW p \in PipeReader, PipeRead(p) PROVE RingInv'
      <3>1. UNCHANGED <<pdata, nread, nwrite, writeopen>> /\ p \in PipeProc
        BY <2>4, Zenon DEF PipeRead, bufVars, PipeProc
      <3>2. pgot' \in [PipeReader -> Seq(Byte)] /\ pgot'[p] = <<>> /\ \A q \in PipeReader \ {p} : pgot'[q] = pgot[q]
        <4>1. <<>> \in Seq(Byte)
          OBVIOUS
        <4> QED
          BY <2>4, <4>1 DEF PipeRead, RingInv
      <3>3. ppc'[p] = "rlock" /\ \A q \in PipeReader \ {p} : ppc'[q] = ppc[q]
        BY <2>4, <2>t, <3>1, Zenon DEF PipeRead, PipeTypeOK, PipeProc
      <3> QED
        BY <3>1, <3>2, <3>3, Zenon DEF RingInv, Waiting, Empty
    <2>5. ASSUME NEW p \in PipeReader, ReadWait(p) PROVE RingInv'
      <3>1. UNCHANGED <<pdata, nread, nwrite, pgot, writeopen>> /\ ppc[p] = "rwait" /\ p \in PipeProc
        BY <2>5, Zenon DEF ReadWait, bufVars, PipeProc
      <3>2. \A q \in PipeProc \ {p} : ppc'[q] = ppc[q]
        BY <2>5, <2>t DEF ReadWait, PipeTypeOK
      <3>3. ppc'[p] = "rcopy" => ~(Empty /\ writeopen)
        BY <2>5, <2>t, <3>1, Zenon DEF ReadWait, PipeTypeOK
      <3> QED
        BY <2>1, <3>1, <3>2, <3>3, Zenon DEF PipeProc
    <2>6. ASSUME NEW p \in PipeReader, ReadDone(p) PROVE RingInv'
      <3>1. UNCHANGED <<pdata, nread, nwrite, pgot, writeopen>>
        BY <2>6 DEF ReadDone, bufVars
      <3>2. \A q \in PipeReader : ppc'[q] = ppc[q] \/ ppc'[q] = "out" \/ ppc'[q] = "wlock"
        BY <2>6 DEF ReadDone, WakeWriters, PipeProc
      <3> QED
        BY <2>1, <3>1, <3>2, Zenon
    <2>7. ASSUME NEW p \in PipeWriter, PipeWrite(p) \/ WriteFull(p) \/ WriteDone(p) PROVE RingInv'
      <3>1. UNCHANGED <<pdata, nread, nwrite, pgot, writeopen>> /\ p \notin PipeReader /\ p \in PipeProc
        BY <2>7 DEF PipeWrite, WriteFull, WriteDone, bufVars, PipeProc
      <3>2. \A q \in PipeReader : ppc'[q] = ppc[q] \/ (ppc[q] = "rsleep" /\ ppc'[q] = "rlock")
        BY <2>7, <2>t, <3>1, Zenon DEF PipeWrite, WriteFull, WriteDone, WakeReaders, PipeTypeOK, PipeProc
      <3> QED
        BY <2>1, <3>1, <3>2, Zenon
    <2>8. ASSUME NEW p \in PipeProc, Acquire(p) \/ Sleep(p) \/ Kill(p) PROVE RingInv'
      <3>1. UNCHANGED <<pdata, nread, nwrite, pgot, writeopen>>
        BY <2>8, Zenon DEF Acquire, Sleep, Kill, bufVars
      <3>2. \A q \in PipeProc \ {p} : ppc'[q] = ppc[q]
        BY <2>8, <2>t DEF Acquire, Sleep, Kill, PipeTypeOK
      <3>3. /\ p \in PipeReader => ppc[p] \notin {"wlock", "wdoze", "wsleep"}
        BY DEF PipeInv
      <3>4. p \in PipeReader => \/ ppc'[p] = ppc[p]
                                \/ ppc[p] = "rlock" /\ ppc'[p] = "rwait"
                                \/ ppc[p] = "rdoze" /\ ppc'[p] = "rsleep"
                                \/ ppc[p] = "rsleep" /\ ppc'[p] = "rlock"
        BY <2>8, <2>t, <3>3 DEF Acquire, Sleep, Kill, PipeTypeOK
      <3> QED
        BY <2>1, <3>1, <3>2, <3>4, Zenon DEF PipeProc
    <2>9. ASSUME NEW p \in PipeProc, PipeClose(p) PROVE RingInv'
      <3>1. UNCHANGED <<pdata, nread, nwrite, pgot>> /\ (writeopen' => writeopen)
        BY <2>9, Zenon DEF PipeClose
      <3>2. \A q \in PipeReader : \/ ppc'[q] \in {ppc[q], "closed"}
                                  \/ ppc[q] = "rsleep" /\ ppc'[q] = "rlock"
                                  \/ ppc'[q] = "wlock"
        BY <2>9, <2>t DEF PipeClose, WakeReaders, WakeWriters, PipeTypeOK, PipeProc
      <3> QED
        BY <2>1, <3>1, <3>2
    <2>10. CASE UNCHANGED pipeVars
      <3>1. UNCHANGED <<pdata, nread, nwrite, pgot, ppc, writeopen>>
        BY <2>10, Zenon DEF pipeVars
      <3> QED
        BY <2>1, <3>1
    <2> QED
      BY <2>2, <2>3, <2>4, <2>5, <2>6, <2>7, <2>8, <2>9, <2>10, Zenon
      DEF PipeNext, PipeStep, PipeWriterNext, PipeReaderNext
  <1> QED
    BY <1>1, <1>2, PipeInvariant, PTL DEF PipeSpec

\* The circular buffer of pipe.c with its wrapping counters is a bounded queue of bytes: they
\* come out once and in order, at most PIPESIZE wait, and a read returns 0 only at the end of
\* the stream, for any writers, readers and sizes (pipewrite, piperead, pipeclose).
THEOREM PipeImplementsQueue == PipeSpec => PipeIsQueue
  <1> USE PipeAssumption
  <1>1. PipeInit => Fifo!QInit
    <2> SUFFICES ASSUME PipeInit PROVE Fifo!QInit
      BY Zenon
    <2>1. PipeTypeOK /\ Empty
      BY PipeInitInv DEF PipeInv, PipeInit, Empty
    <2>2. Contents = <<>>
      <3>1. Waiting = 0
        BY <2>1, WaitingIs
      <3> QED
        BY <3>1 DEF Contents, Waiting
    <2> QED
      BY <2>2 DEF PipeInit, Fifo!QInit
  <1>2. PipeInv /\ PipeInv' /\ RingInv /\ [PipeNext]_pipeVars => [Fifo!QNext]_Fifo!queueVars
    <2> SUFFICES ASSUME PipeInv, PipeInv', RingInv, [PipeNext]_pipeVars
                 PROVE  Fifo!QNext \/ UNCHANGED Fifo!queueVars
      BY Zenon
    <2>t. PipeTypeOK /\ PipeTypeOK'
      BY Zenon DEF PipeInv
    <2>s. UNCHANGED <<pdata, nread, nwrite>> => Contents' = Contents
      BY Zenon DEF Contents
    <2>1. ASSUME NEW p \in PipeWriter, PutByte(p) PROVE Fifo!Put
      <3>1. /\ Head(src[p]) \in Byte /\ Contents' = Append(Contents, Head(src[p]))
            /\ Len(Contents) < PIPESIZE
        BY <2>t, <2>1, PutContents
      <3>2. UNCHANGED <<pgot, pended, writeopen>>
        BY <2>1 DEF PutByte
      <3> QED
        BY <3>1, <3>2 DEF Fifo!Put
    <2>2. ASSUME NEW p \in PipeReader, GetByte(p) PROVE Fifo!Get(p)
      <3>1. Contents # <<>> /\ Head(Contents) = pdata[nread % PIPESIZE] /\ Contents' = Tail(Contents)
        BY <2>t, <2>2, GetContents
      <3>2. pgot' = [pgot EXCEPT ![p] = Append(@, Head(Contents))] /\ UNCHANGED <<pended, writeopen>>
        BY <2>2, <3>1, Zenon DEF GetByte
      <3> QED
        BY <3>1, <3>2 DEF Fifo!Get
    <2>3. ASSUME NEW p \in PipeReader, PipeRead(p) PROVE Fifo!Ask(p)
      BY <2>3, <2>s DEF PipeRead, bufVars, Fifo!Ask
    <2>4. ASSUME NEW p \in PipeReader, ReadDone(p) PROVE Fifo!EndOfStream(p) \/ UNCHANGED Fifo!queueVars
      <3>1. Contents' = Contents /\ UNCHANGED <<pgot, writeopen>> /\ ppc[p] = "rcopy"
        BY <2>4, <2>s DEF ReadDone, bufVars
      <3>2. CASE pgot[p] # <<>>
        <4>1. UNCHANGED pended
          BY <2>4, <3>2 DEF ReadDone
        <4> QED
          BY <3>1, <4>1 DEF Fifo!queueVars
      <3>3. CASE pgot[p] = <<>>
        <4>1. Len(pgot[p]) # ReadLen
          BY <3>3
        <4>2. Empty /\ pended' = pended \union {p}
          BY <2>4, <3>3, <4>1 DEF ReadDone
        <4>3. ~writeopen
          BY <3>1, <3>3, <4>2 DEF RingInv
        <4>4. Contents = <<>>
          <5>1. Waiting = 0
            BY <2>t, <4>2, WaitingIs, Zenon
          <5> QED
            BY <5>1 DEF Contents, Waiting
        <4> QED
          BY <3>1, <4>2, <4>3, <4>4 DEF Fifo!EndOfStream
      <3> QED
        BY <3>2, <3>3
    <2>5. ASSUME NEW p \in PipeProc, PipeClose(p) PROVE Fifo!Shut \/ UNCHANGED Fifo!queueVars
      <3>1. UNCHANGED <<pgot, pended>> /\ Contents' = Contents
        BY <2>5, <2>s, Zenon DEF PipeClose
      <3>2. writeopen' = FALSE \/ writeopen' = writeopen
        BY <2>5, <2>t, Zenon DEF PipeClose, PipeTypeOK
      <3> QED
        BY <3>1, <3>2, Zenon DEF Fifo!Shut, Fifo!queueVars
    <2>6. ASSUME UNCHANGED <<pdata, nread, nwrite, pgot, pended, writeopen>> PROVE UNCHANGED Fifo!queueVars
      BY <2>6, <2>s, Zenon DEF Fifo!queueVars
    <2>7. ASSUME NEW p \in PipeProc,
                 \/ Acquire(p) \/ Sleep(p) \/ Kill(p) \/ ReadWait(p)
                 \/ PipeWrite(p) \/ WriteFull(p) \/ WriteDone(p)
          PROVE  UNCHANGED Fifo!queueVars
      BY <2>6, <2>7, Zenon DEF Acquire, Sleep, Kill, ReadWait, PipeWrite, WriteFull, WriteDone, bufVars
    <2>8. CASE UNCHANGED pipeVars
      BY <2>6, <2>8, Zenon DEF pipeVars
    <2>9. CASE PipeNext
      <3>1. PICK p \in PipeProc : PipeStep(p) \/ Kill(p)
        BY <2>9, Zenon DEF PipeNext
      <3>2. CASE p \in PipeWriter /\ PipeWriterNext(p)
        BY <2>1, <2>7, <3>2, Zenon DEF PipeWriterNext, Fifo!QNext
      <3>3. CASE p \in PipeReader /\ PipeReaderNext(p)
        BY <2>2, <2>3, <2>4, <2>7, <3>3, Zenon DEF PipeReaderNext, Fifo!QNext
      <3>4. CASE Acquire(p) \/ Sleep(p) \/ PipeClose(p) \/ Kill(p)
        BY <2>5, <2>7, <3>4, Zenon DEF Fifo!QNext
      <3> QED
        BY <3>1, <3>2, <3>3, <3>4, Zenon DEF PipeStep
    <2> QED
      BY <2>8, <2>9
  <1> QED
    BY <1>1, <1>2, RingInvariant, PTL DEF PipeSpec, PipeIsQueue, Fifo!QSpec
=============================================================================
