----------------------------- MODULE BufProofs ------------------------------
(***************************************************************************)
(* Proofs about module BufCache, for any processes, buffers and blocks and *)
(* for both drivers: a block has one buffer and a buffer one holder, every *)
(* sleeper is woken, and a read sees the latest write.                     *)
(***************************************************************************)
EXTENDS BufCache, SequenceTheorems, WellFoundedInduction, TLAPS

\* Where a process has a buffer.
HoldPc == {"iderw", "iosleep", "iotest", "hold", "drop"}

BufRec == [blk : DBlock \union {0}, busy : BOOLEAN, valid : BOOLEAN, dirty : BOOLEAN, data : {0, 1}]
CtlRec == [cmd : {"none", "read", "write"}, blk : DBlock \union {0}, data : {0, 1}, done : BOOLEAN]
ProcRec == [pc : HoldPc \union {"out", "bget", "bsleep", "panic"}, blk : DBlock \union {0}, b : Buf \union {0}]

\* The types, record by record; every buffer is on the list.
Typed ==
    /\ drv \in {"ide", "mem"}
    /\ buf \in [Buf -> BufRec]
    /\ mru \in [Buf -> Buf] /\ \A b \in Buf : \E k \in Buf : mru[k] = b
    /\ idequeue \in Seq(Buf)
    /\ ctl \in CtlRec
    /\ dsk \in [DBlock -> {0, 1}] /\ latest \in [DBlock -> {0, 1}]
    /\ cp \in [Use -> ProcRec]
    /\ \A p \in Use : cp[p].pc \notin {"out", "panic"} => cp[p].b \in Buf /\ cp[p].blk \in DBlock

\* One buffer per block, one holder per buffer, and what its holder's place says of it.
Held ==
    /\ \A a, b \in Buf : buf[a].blk = buf[b].blk /\ buf[a].blk # 0 => a = b
    /\ \A b \in Buf : buf[b].busy => \E p \in Use : Holds(p, b)
    /\ \A p, q \in Use : cp[p].pc \in HoldPc /\ cp[q].pc \in HoldPc /\ cp[p].b = cp[q].b => p = q
    /\ \A p \in Use :
          /\ cp[p].pc \in HoldPc \union {"bsleep"} => buf[cp[p].b].busy
          /\ cp[p].pc \in HoldPc => buf[cp[p].b].blk = cp[p].blk
          /\ cp[p].pc \in {"iotest", "hold", "drop"} => buf[cp[p].b].valid
          /\ cp[p].pc = "iotest" => ~buf[cp[p].b].dirty

\* The queue holds the buffers of the processes asleep in iderw, each once.
Queued ==
    /\ drv = "mem" => idequeue = <<>>
    /\ IsInjective(idequeue)
    /\ \A p \in Use : cp[p].pc = "iosleep" => \E i \in 1 .. Len(idequeue) : idequeue[i] = cp[p].b
    /\ \A k \in 1 .. Len(idequeue) : \E p \in Use : cp[p].pc = "iosleep" /\ cp[p].b = idequeue[k]

\* The controller works for the buffer at the head of the queue.
Working ==
    /\ idequeue = <<>> => ctl = NoCmd
    /\ idequeue # <<>> =>
          LET f == buf[idequeue[1]]
          IN  /\ ctl.blk = f.blk
              /\ ctl.cmd = IF f.dirty THEN "write" ELSE "read"
              /\ f.dirty /\ ~ctl.done => ctl.data = f.data
              /\ f.dirty /\ ctl.done => dsk[f.blk] = f.data
              /\ ~f.dirty /\ ctl.done => ctl.data = dsk[f.blk]

\* A buffer that is valid has the latest contents, and so has the disk unless a buffer is dirty.
Current ==
    /\ \A b \in Buf : /\ buf[b].dirty => buf[b].valid
                      /\ buf[b].valid => buf[b].blk # 0 /\ buf[b].data = latest[buf[b].blk]
    /\ \A d \in DBlock : dsk[d] = latest[d] \/ \E b \in Buf : buf[b].blk = d /\ buf[b].dirty

BufInv == Typed /\ Held /\ Queued /\ Working /\ Current

-----------------------------------------------------------------------------
(* Facts about the operators of the model *)

\* The scan of bget from the tail of the list finds a buffer of the set it looks for.
LEMMA OldestMember ==
    ASSUME Typed, NEW S \in SUBSET Buf, S # {}
    PROVE  Oldest(S) \in S
  <1> DEFINE T == {NBUF - k : k \in {j \in Buf : mru[j] \in S}}
  <1>1. T \subseteq Nat
    BY BufAssumption DEF Buf
  <1>2. T # {}
    BY DEF Typed
  <1> HIDE DEF T
  <1>3. \E x \in T : \A y \in T : ~(<<y, x>> \in OpToRel(<, Nat))
    BY <1>1, <1>2, NatLessThanWellFounded, WFMin, Zenon
  <1>4. PICK x \in T : \A y \in T : ~(<<y, x>> \in OpToRel(<, Nat))
    BY <1>3, Zenon
  <1>5. \A y \in T : x <= y
    <2> SUFFICES ASSUME NEW y \in T PROVE x <= y
      BY Zenon
    <2>1. x \in Nat /\ y \in Nat
      BY <1>1
    <2>2. ~(y < x)
      BY <1>4, <2>1, Zenon DEF OpToRel
    <2> QED
      BY <2>1, <2>2
  <1>6. PICK k \in Buf : x = NBUF - k /\ mru[k] \in S
    BY Zenon DEF T
  <1>7. \A l \in Buf : mru[l] \in S => l <= k
    <2> SUFFICES ASSUME NEW l \in Buf, mru[l] \in S PROVE l <= k
      BY Zenon
    <2>1. NBUF - l \in T
      BY Zenon DEF T
    <2>2. NBUF - k <= NBUF - l
      BY <1>5, <1>6, <2>1, Zenon
    <2> QED
      BY <2>2, BufAssumption DEF Buf
  <1>8. \E j \in Buf : mru[j] \in S /\ \A l \in Buf : mru[l] \in S => l <= j
    BY <1>6, <1>7, Zenon
  <1>9. mru[CHOOSE j \in Buf : mru[j] \in S /\ \A l \in Buf : mru[l] \in S => l <= j] \in S
    BY <1>8, Zenon
  <1> QED
    BY <1>9, Zenon DEF Oldest

\* brelse keeps every buffer on the list.
LEMMA MoveKeepsAll ==
    ASSUME Typed, NEW b \in Buf
    PROVE  /\ MoveToFront(b) \in [Buf -> Buf]
           /\ \A c \in Buf : \E k \in Buf : MoveToFront(b)[k] = c
  <1>1. PICK i \in Buf : i = (CHOOSE k \in Buf : mru[k] = b) /\ mru[i] = b
    BY Zenon DEF Typed
  <1>2. mru \in Seq(Buf) /\ Len(mru) = NBUF /\ NBUF \in Nat \ {0}
    <2>1. mru \in [1 .. NBUF -> Buf] /\ NBUF \in Nat \ {0}
      BY BufAssumption, Zenon DEF Typed, Buf
    <2>2. mru \in UNION {[1 .. n -> Buf] : n \in Nat}
      BY <2>1
    <2>3. mru \in Seq(Buf)
      BY <2>2, SeqDef, Zenon
    <2>4. Len(mru) \in Nat /\ DOMAIN mru = 1 .. Len(mru) /\ DOMAIN mru = 1 .. NBUF
      BY <2>1, <2>3, LenProperties, Zenon
    <2>5. Len(mru) = NBUF
      BY <2>1, <2>4
    <2> QED
      BY <2>1, <2>3, <2>5, Zenon
  <1>3. PICK s : s = SubSeq(mru, 1, i - 1)
    BY Zenon
  <1>4. PICK t : t = SubSeq(mru, i + 1, Len(mru))
    BY Zenon
  <1>5. s \in Seq(Buf) /\ Len(s) = i - 1 /\ \A k \in 1 .. i - 1 : s[k] = mru[k]
    <2>1. i \in Int /\ i >= 1 /\ i <= NBUF
      BY <1>2 DEF Buf
    <2>2. 1 \in Int /\ i - 1 \in Int /\ \A k \in 1 .. i - 1 : mru[k] \in Buf
      BY <1>2, <2>1
    <2>3. /\ s \in Seq(Buf) /\ Len(s) = IF 1 <= i - 1 THEN i - 1 - 1 + 1 ELSE 0
          /\ \A k \in 1 .. i - 1 - 1 + 1 : s[k] = mru[1 + k - 1]
      BY <1>3, <2>2, SubSeqProperties
    <2> QED
      BY <2>1, <2>3
  <1>6. t \in Seq(Buf) /\ Len(t) = NBUF - i /\ \A k \in 1 .. NBUF - i : t[k] = mru[i + k]
    <2>1. i \in Int /\ i >= 1 /\ i <= NBUF
      BY <1>2 DEF Buf
    <2>2. i + 1 \in Int /\ NBUF \in Int /\ \A k \in i + 1 .. NBUF : mru[k] \in Buf
      BY <1>2, <2>1
    <2>3. /\ t \in Seq(Buf) /\ Len(t) = IF i + 1 <= NBUF THEN NBUF - (i + 1) + 1 ELSE 0
          /\ \A k \in 1 .. NBUF - (i + 1) + 1 : t[k] = mru[i + 1 + k - 1]
      BY <1>2, <1>4, <2>2, SubSeqProperties
    <2> QED
      BY <1>2, <2>1, <2>3
  <1>7. PICK r : r = s \o t
    BY Zenon
  <1>8. /\ r \in Seq(Buf) /\ Len(r) = NBUF - 1
        /\ \A k \in 1 .. i - 1 : r[k] = mru[k]
        /\ \A k \in i .. NBUF - 1 : r[k] = mru[k + 1]
    <2>1. i \in Int /\ i >= 1 /\ i <= NBUF /\ NBUF \in Int
      BY <1>2 DEF Buf
    <2>2. /\ r \in Seq(Buf) /\ Len(r) = (i - 1) + (NBUF - i)
          /\ \A k \in 1 .. (i - 1) + (NBUF - i) : r[k] = IF k <= i - 1 THEN s[k] ELSE t[k - (i - 1)]
      BY <1>5, <1>6, <1>7, ConcatProperties
    <2>3. (i - 1) + (NBUF - i) = NBUF - 1
      BY <2>1
    <2>4. ASSUME NEW k \in 1 .. i - 1 PROVE r[k] = mru[k]
      <3>1. k \in 1 .. NBUF - 1 /\ k <= i - 1
        BY <2>1
      <3> QED
        BY <1>5, <2>2, <2>3, <3>1, Zenon
    <2>5. ASSUME NEW k \in i .. NBUF - 1 PROVE r[k] = mru[k + 1]
      <3>1. /\ k \in 1 .. NBUF - 1 /\ ~(k <= i - 1) /\ k - (i - 1) \in 1 .. NBUF - i
            /\ i + (k - (i - 1)) = k + 1
        BY <2>1
      <3>2. r[k] = t[k - (i - 1)]
        BY <2>2, <2>3, <3>1
      <3>3. t[k - (i - 1)] = mru[i + (k - (i - 1))]
        BY <1>6, <3>1
      <3> QED
        BY <3>1, <3>2, <3>3
    <2> QED
      BY <2>2, <2>3, <2>4, <2>5, Zenon
  <1>9. MoveToFront(b) = <<b>> \o r
    BY <1>1, <1>3, <1>4, <1>7 DEF MoveToFront
  <1>10. PICK m : m = <<b>> \o r
    BY Zenon
  <1>11. /\ m \in Seq(Buf) /\ Len(m) = NBUF /\ m[1] = b
         /\ \A k \in 1 .. NBUF - 1 : m[k + 1] = r[k]
    BY <1>2, <1>8, <1>10
  <1>12. m \in [Buf -> Buf]
    BY <1>11 DEF Buf
  <1>13. ASSUME NEW c \in Buf, c # b PROVE \E k \in Buf : m[k] = c
    <2>1. PICK j \in Buf : mru[j] = c
      BY DEF Typed
    <2>2. j # i
      BY <1>1, <1>13, <2>1
    <2>3. CASE j < i
      <3>1. j \in 1 .. i - 1 /\ j \in 1 .. NBUF - 1 /\ j + 1 \in Buf
        BY <1>2, <2>3 DEF Buf
      <3> QED
        BY <1>8, <1>11, <2>1, <3>1, Zenon
    <2>4. CASE j > i
      <3>1. j - 1 \in i .. NBUF - 1 /\ j - 1 \in 1 .. NBUF - 1 /\ (j - 1) + 1 = j
        BY <1>2, <2>4 DEF Buf
      <3> QED
        BY <1>8, <1>11, <2>1, <3>1
    <2> QED
      BY <2>2, <2>3, <2>4 DEF Buf
  <1>14. 1 \in Buf
    BY <1>2 DEF Buf
  <1> QED
    BY <1>9, <1>10, <1>11, <1>12, <1>13, <1>14, Zenon

\* At boot no buffer holds a block.
LEMMA BufInit == CInit => BufInv
  <1> SUFFICES ASSUME CInit PROVE BufInv
    OBVIOUS
  <1>1. \A b \in Buf : /\ buf[b] \in BufRec /\ buf[b].blk = 0 /\ ~buf[b].busy /\ ~buf[b].valid /\ ~buf[b].dirty
    BY DEF CInit, BufRec
  <1>2. \A p \in Use : cp[p] \in ProcRec /\ cp[p].pc = "out"
    BY DEF CInit, Out, ProcRec
  <1>3. mru \in [Buf -> Buf] /\ \A b \in Buf : \E k \in Buf : mru[k] = b
    <2>1. \A b \in Buf : NBUF + 1 - b \in Buf /\ NBUF + 1 - (NBUF + 1 - b) = b
      BY BufAssumption DEF Buf
    <2> QED
      BY <2>1 DEF CInit
  <1>4. ctl \in CtlRec
    BY Zenon DEF CInit, NoCmd, CtlRec
  <1>5. Typed
    BY <1>1, <1>2, <1>3, <1>4 DEF CInit, Typed
  <1>6. Held
    BY <1>1, <1>2 DEF Held, HoldPc
  <1>7. Queued /\ Working
    BY <1>2 DEF CInit, Queued, Working, IsInjective
  <1>8. Current
    BY <1>1, Zenon DEF CInit, Current
  <1> QED
    BY <1>5, <1>6, <1>7, <1>8 DEF BufInv

\* A process goes on to another place with the buffer it has.
LEMMA MovePc ==
    ASSUME Typed, NEW p \in Use, NEW x \in HoldPc, cp' = [cp EXCEPT ![p].pc = x]
    PROVE  /\ cp' \in [Use -> ProcRec]
           /\ cp'[p].pc = x /\ cp'[p].b = cp[p].b /\ cp'[p].blk = cp[p].blk
           /\ \A q \in Use \ {p} : cp'[q] = cp[q]
  <1>1. PICK r : r = [cp[p] EXCEPT !.pc = x]
    BY Zenon
  <1>2. cp[p] \in ProcRec
    BY Zenon DEF Typed
  <1>3. r \in ProcRec /\ r.pc = x /\ r.b = cp[p].b /\ r.blk = cp[p].blk
    BY <1>1, <1>2, Zenon DEF ProcRec
  <1>4. cp' = [cp EXCEPT ![p] = r]
    BY <1>1, Zenon
  <1> QED
    BY <1>3, <1>4, Zenon DEF Typed

\* The head of the queue belongs to a process that sleeps for it.
LEMMA HeadHeld ==
    ASSUME BufInv, NEW k \in 1 .. Len(idequeue)
    PROVE  /\ idequeue[k] \in Buf /\ buf[idequeue[k]].busy
           /\ \A p \in Use : cp[p].pc \in HoldPc /\ cp[p].b = idequeue[k] => cp[p].pc = "iosleep"
  <1>1. PICK q \in Use : cp[q].pc = "iosleep" /\ cp[q].b = idequeue[k]
    BY DEF BufInv, Queued
  <1>2. cp[q].pc \in HoldPc
    BY <1>1 DEF HoldPc
  <1> QED
    BY <1>1, <1>2 DEF BufInv, Typed, Held

-----------------------------------------------------------------------------
(* The steps of bget *)

\* The queue stays what it is when no process goes to sleep in iderw and none leaves.
LEMMA QueuedKept ==
    ASSUME Queued, UNCHANGED <<drv, idequeue>>,
           \A q \in Use : cp'[q].pc = "iosleep" <=> cp[q].pc = "iosleep",
           \A q \in Use : cp[q].pc = "iosleep" => cp'[q].b = cp[q].b
    PROVE  Queued'
  <1>1. (drv = "mem" => idequeue = <<>>)' /\ IsInjective(idequeue)'
    BY Zenon DEF Queued, IsInjective
  <1>2. ASSUME NEW q \in Use, cp'[q].pc = "iosleep"
        PROVE  \E i \in 1 .. Len(idequeue') : idequeue'[i] = cp'[q].b
    <2>1. PICK i \in 1 .. Len(idequeue) : idequeue[i] = cp[q].b
      BY <1>2, Zenon DEF Queued
    <2> QED
      BY <1>2, <2>1, Zenon
  <1>3. ASSUME NEW k \in 1 .. Len(idequeue')
        PROVE  \E q \in Use : cp'[q].pc = "iosleep" /\ cp'[q].b = idequeue'[k]
    <2>1. PICK q \in Use : cp[q].pc = "iosleep" /\ cp[q].b = idequeue[k]
      BY Zenon DEF Queued
    <2> QED
      BY <2>1, Zenon
  <1> QED
    BY <1>1, <1>2, <1>3, Zenon DEF Queued

\* bget takes a buffer that is not busy: the one of the block, or one to recycle.
LEMMA GotStep ==
    ASSUME BufInv, NEW p \in Use, cp[p].pc \in {"out", "bget"}, NEW d \in DBlock,
           NEW b \in Buf, ~buf[b].busy, NEW f \in BufRec, f.busy, f.blk = d, Got(p, d, b, f),
           \/ /\ buf[b].blk = d /\ f.valid = buf[b].valid /\ f.dirty = buf[b].dirty /\ f.data = buf[b].data
           \/ /\ Cached(d) = {} /\ ~buf[b].dirty /\ ~f.valid /\ ~f.dirty,
           UNCHANGED <<drv, mru, idequeue, ctl, dsk, latest>>
    PROVE  BufInv'
  <1>t. Typed
    BY Zenon DEF BufInv
  <1>1. buf' \in [Buf -> BufRec] /\ buf'[b] = f /\ \A c \in Buf \ {b} : buf'[c] = buf[c]
    BY <1>t DEF Got, Typed
  <1>2. PICK r \in ProcRec : /\ r.pc = (IF f.valid THEN "hold" ELSE "iderw") /\ r.blk = d /\ r.b = b
                             /\ cp' = [cp EXCEPT ![p] = r]
    <2>1. [pc |-> IF f.valid THEN "hold" ELSE "iderw", blk |-> d, b |-> b] \in ProcRec
      BY Zenon DEF ProcRec, HoldPc
    <2> QED
      BY <2>1, Zenon DEF Got
  <1>3. /\ cp' \in [Use -> ProcRec] /\ cp'[p] = r /\ \A q \in Use \ {p} : cp'[q] = cp[q]
    BY <1>t, <1>2, Zenon DEF Typed
  <1>4. Typed'
    BY <1>t, <1>1, <1>2, <1>3 DEF Typed
  <1>5. r.pc \in HoldPc /\ cp[p].pc \notin HoldPc /\ \A q \in Use : cp[q].pc \in HoldPc \union {"bsleep"} => cp[q].b # b
    BY <1>2, Zenon DEF BufInv, Held, HoldPc
  <1>6. Held'
    <2>1. \A a, c \in Buf : buf'[a].blk = buf'[c].blk /\ buf'[a].blk # 0 => a = c
      BY <1>1, BufAssumption DEF BufInv, Held, Cached
    <2>2. \A c \in Buf : buf'[c].busy => \E q \in Use : cp'[q].pc \in HoldPc /\ cp'[q].b = c
      <3>1. ASSUME NEW c \in Buf \ {b}, buf'[c].busy PROVE \E q \in Use : cp'[q].pc \in HoldPc /\ cp'[q].b = c
        <4>1. PICK q \in Use : cp[q].pc \in HoldPc /\ cp[q].b = c
          BY <1>1, <3>1 DEF BufInv, Held, Holds, HoldPc
        <4> QED
          BY <1>3, <1>5, <4>1
      <3> QED
        BY <1>2, <1>3, <1>5, <3>1
    <2>3. \A q \in Use : cp'[q].pc \in HoldPc /\ cp'[q].b = b => q = p
      BY <1>3, <1>5, Zenon
    <2>4. \A q, s \in Use : cp'[q].pc \in HoldPc /\ cp'[s].pc \in HoldPc /\ cp'[q].b = cp'[s].b => q = s
      BY <1>2, <1>3, <1>5, <2>3 DEF BufInv, Held
    <2>5. \A q \in Use \ {p} :
             /\ cp[q].pc \in HoldPc \union {"bsleep"} => cp[q].b \in Buf \ {b}
             /\ cp[q].pc \in HoldPc \union {"bsleep"} => buf'[cp[q].b] = buf[cp[q].b]
      BY <1>t, <1>1, <1>5 DEF Typed, HoldPc
    <2>6. \A q \in Use :
          /\ cp'[q].pc \in HoldPc \union {"bsleep"} => buf'[cp'[q].b].busy
          /\ cp'[q].pc \in HoldPc => buf'[cp'[q].b].blk = cp'[q].blk
          /\ cp'[q].pc \in {"iotest", "hold", "drop"} => buf'[cp'[q].b].valid
          /\ cp'[q].pc = "iotest" => ~buf'[cp'[q].b].dirty
      <3>1. ASSUME NEW q \in Use \ {p}
            PROVE /\ cp[q].pc \in HoldPc \union {"bsleep"} => buf'[cp[q].b].busy
                  /\ cp[q].pc \in HoldPc => buf'[cp[q].b].blk = cp[q].blk
                  /\ cp[q].pc \in {"iotest", "hold", "drop"} => buf'[cp[q].b].valid
                  /\ cp[q].pc = "iotest" => ~buf'[cp[q].b].dirty
        <4>1. {"iotest", "hold", "drop"} \subseteq HoldPc
          BY Zenon DEF HoldPc
        <4> QED
          BY <2>5, <4>1, Zenon DEF BufInv, Held
      <3> QED
        BY <1>1, <1>2, <1>3, <3>1
    <2> QED
      BY <2>1, <2>2, <2>4, <2>6 DEF Held, Holds, HoldPc
  <1>7. Queued'
    <2>1. \A q \in Use : cp'[q].pc = "iosleep" <=> cp[q].pc = "iosleep"
      BY <1>2, <1>3, Zenon
    <2>2. \A q \in Use : cp[q].pc = "iosleep" => cp'[q] = cp[q]
      BY <1>3, Zenon
    <2> QED
      BY <2>1, <2>2, QueuedKept, Zenon DEF BufInv
  <1>8. Working'
    <2>1. idequeue # <<>> => buf'[idequeue[1]] = buf[idequeue[1]]
      <3>1. SUFFICES ASSUME idequeue # <<>> PROVE buf'[idequeue[1]] = buf[idequeue[1]]
        OBVIOUS
      <3>2. 1 \in 1 .. Len(idequeue)
        BY <1>t, <3>1 DEF Typed
      <3>3. idequeue[1] \in Buf \ {b}
        BY <3>2, HeadHeld, Zenon
      <3> QED
        BY <1>1, <3>3
    <2> QED
      BY <2>1 DEF BufInv, Working
  <1>9. Current'
    <2>1. \A c \in Buf : buf'[c].dirty => c # b \/ buf[b].dirty
      BY <1>1, Zenon
    <2>2. \A c \in Buf : buf[c].dirty => buf'[c].dirty /\ buf'[c].blk = buf[c].blk
      BY <1>1
    <2> QED
      BY <1>1, <2>1, <2>2 DEF BufInv, Current
  <1> QED
    BY <1>4, <1>6, <1>7, <1>8, <1>9 DEF BufInv

\* bget sleeps for a buffer that is busy.
LEMMA BSleepStep ==
    ASSUME BufInv, NEW p \in Use, cp[p].pc \in {"out", "bget"}, NEW d \in DBlock,
           NEW b \in Buf, buf[b].busy,
           cp' = [cp EXCEPT ![p] = [pc |-> "bsleep", blk |-> d, b |-> b]],
           UNCHANGED <<drv, buf, mru, idequeue, ctl, dsk, latest>>
    PROVE  BufInv'
  <1>t. Typed
    BY DEF BufInv
  <1>1. PICK r \in ProcRec : r.pc = "bsleep" /\ r.blk = d /\ r.b = b /\ cp' = [cp EXCEPT ![p] = r]
    BY Zenon DEF ProcRec
  <1>2. /\ cp' \in [Use -> ProcRec] /\ cp'[p] = r /\ \A q \in Use \ {p} : cp'[q] = cp[q]
    BY <1>t, <1>1 DEF Typed
  <1>3. Typed'
    BY <1>t, <1>1, <1>2 DEF Typed
  <1>4. cp[p].pc \notin HoldPc /\ cp'[p].pc \notin HoldPc
    BY <1>1, <1>2, Zenon DEF HoldPc
  <1>5. Held'
    <2>1. \A c \in Buf : \A q \in Use : Holds(q, c)' <=> Holds(q, c)
      BY <1>2, <1>4, Zenon DEF Holds, HoldPc
    <2> QED
      BY <1>1, <1>2, <1>4, <2>1 DEF BufInv, Held
  <1>6. Queued'
    <2>1. \A q \in Use : cp'[q].pc = "iosleep" <=> cp[q].pc = "iosleep"
      BY <1>1, <1>2, Zenon
    <2>2. \A q \in Use : cp[q].pc = "iosleep" => cp'[q] = cp[q]
      BY <1>2, Zenon
    <2> QED
      BY <2>1, <2>2, QueuedKept, Zenon DEF BufInv
  <1>7. Working' /\ Current'
    BY Zenon DEF BufInv, Working, Current
  <1> QED
    BY <1>3, <1>5, <1>6, <1>7 DEF BufInv

\* bget finds no buffer to recycle and panics with bcache.lock held.
LEMMA BPanicStep ==
    ASSUME BufInv, NEW p \in Use, cp[p].pc \in {"out", "bget"}, NEW d \in DBlock,
           cp' = [cp EXCEPT ![p] = [pc |-> "panic", blk |-> d, b |-> 0]],
           UNCHANGED <<drv, buf, mru, idequeue, ctl, dsk, latest>>
    PROVE  BufInv'
  <1>t. Typed
    BY DEF BufInv
  <1>1. PICK r \in ProcRec : r.pc = "panic" /\ cp' = [cp EXCEPT ![p] = r]
    BY Zenon DEF ProcRec
  <1>2. /\ cp' \in [Use -> ProcRec] /\ cp'[p] = r /\ \A q \in Use \ {p} : cp'[q] = cp[q]
    BY <1>t, <1>1 DEF Typed
  <1>3. Typed'
    BY <1>t, <1>1, <1>2 DEF Typed
  <1>4. cp[p].pc \notin HoldPc /\ cp'[p].pc \notin HoldPc \union {"bsleep"}
    BY <1>1, <1>2, Zenon DEF HoldPc
  <1>5. Held'
    <2>1. \A c \in Buf : \A q \in Use : Holds(q, c)' <=> Holds(q, c)
      BY <1>2, <1>4, Zenon DEF Holds, HoldPc
    <2> QED
      BY <1>1, <1>2, <1>4, <2>1 DEF BufInv, Held
  <1>6. Queued'
    <2>1. \A q \in Use : cp'[q].pc = "iosleep" <=> cp[q].pc = "iosleep"
      BY <1>1, <1>2, Zenon
    <2>2. \A q \in Use : cp[q].pc = "iosleep" => cp'[q] = cp[q]
      BY <1>2, Zenon
    <2> QED
      BY <2>1, <2>2, QueuedKept, Zenon DEF BufInv
  <1>7. Working' /\ Current'
    BY Zenon DEF BufInv, Working, Current
  <1> QED
    BY <1>3, <1>5, <1>6, <1>7 DEF BufInv

\* bget, on its first or a later look at the list.
LEMMA BgetStep ==
    ASSUME BufInv, NEW p \in Use, BRead(p) \/ BGetAgain(p)
    PROVE  BufInv'
  <1>t. Typed
    BY Zenon DEF BufInv
  <1>1. PICK d \in DBlock : bget(p, d)
    <2>1. p[1] \in CProc
      BY DEF Use
    <2>2. Wanted(p) \subseteq DBlock
      BY <2>1, BufAssumption DEF Wanted
    <2>3. CASE BRead(p)
      BY <2>2, <2>3, Zenon DEF BRead
    <2>4. CASE BGetAgain(p)
      BY <1>t, <2>4 DEF BGetAgain, Typed
    <2> QED
      BY <2>3, <2>4, Zenon
  <1>2. cp[p].pc \in {"out", "bget"}
    BY Zenon DEF BRead, BGetAgain
  <1>3. UNCHANGED <<drv, mru, idequeue, ctl, dsk, latest>>
    BY <1>1 DEF bget
  <1>4. ASSUME NEW b \in Cached(d), ~buf[b].busy, Got(p, d, b, [buf[b] EXCEPT !.busy = TRUE])
        PROVE  BufInv'
    <2>1. b \in Buf /\ buf[b].blk = d /\ buf[b] \in BufRec
      BY <1>t DEF Cached, Typed
    <2>2. PICK f : f = [buf[b] EXCEPT !.busy = TRUE]
      BY Zenon
    <2>3. f \in BufRec /\ f.busy /\ f.blk = d
      BY <2>1, <2>2, Zenon DEF BufRec
    <2>4. f.valid = buf[b].valid /\ f.dirty = buf[b].dirty /\ f.data = buf[b].data
      BY <2>1, <2>2 DEF BufRec
    <2> QED
      BY <1>2, <1>3, <1>4, <2>1, <2>2, <2>3, <2>4, GotStep, Zenon
  <1>5. ASSUME NEW b \in Cached(d), buf[b].busy,
               cp' = [cp EXCEPT ![p] = [pc |-> "bsleep", blk |-> d, b |-> b]], UNCHANGED buf
        PROVE  BufInv'
    BY <1>2, <1>3, <1>5, BSleepStep, Zenon DEF Cached
  <1>6. ASSUME Cached(d) = {}, Recyclable # {}, NEW b, b = Oldest(Recyclable),
               Got(p, d, b, [blk |-> d, busy |-> TRUE, valid |-> FALSE, dirty |-> FALSE, data |-> 0])
        PROVE  BufInv'
    <2>1. b \in Buf /\ ~buf[b].busy /\ ~buf[b].dirty
      <3>1. Recyclable \in SUBSET Buf
        BY Zenon DEF Recyclable
      <3>2. b \in Recyclable
        BY <1>t, <1>6, <3>1, OldestMember
      <3> QED
        BY <3>2, Zenon DEF Recyclable
    <2>2. PICK f : f = [blk |-> d, busy |-> TRUE, valid |-> FALSE, dirty |-> FALSE, data |-> 0]
      BY Zenon
    <2>3. f \in BufRec /\ f.busy /\ f.blk = d /\ ~f.valid /\ ~f.dirty
      BY <2>2, Zenon DEF BufRec
    <2> QED
      BY <1>2, <1>3, <1>6, <2>1, <2>2, <2>3, GotStep
  <1>7. ASSUME cp' = [cp EXCEPT ![p] = [pc |-> "panic", blk |-> d, b |-> 0]], UNCHANGED buf
        PROVE  BufInv'
    BY <1>2, <1>3, <1>7, BPanicStep, Zenon
  <1> QED
    BY <1>1, <1>4, <1>5, <1>6, <1>7, Zenon DEF bget

-----------------------------------------------------------------------------
(* The steps of iderw and of the disk *)

\* iderw of ide.c puts the buffer at the end of the queue.
LEMMA IdeRwStep ==
    ASSUME BufInv, NEW p \in Use, IdeRw(p)
    PROVE  BufInv'
  <1>t. Typed
    BY Zenon DEF BufInv
  <1>1. PICK b \in Buf : b = cp[p].b
    BY <1>t, Zenon DEF IdeRw, Typed
  <1>2. /\ drv = "ide" /\ cp[p].pc = "iderw" /\ idequeue' = Append(idequeue, b)
        /\ ctl' = IF idequeue = <<>> THEN idestart(buf[b]) ELSE ctl
        /\ cp' = [cp EXCEPT ![p].pc = "iosleep"]
        /\ UNCHANGED <<drv, buf, mru, dsk, latest>>
    BY <1>1 DEF IdeRw
  <1>3. /\ cp'[p].pc = "iosleep" /\ cp'[p].b = b /\ cp'[p].blk = cp[p].blk
        /\ \A q \in Use \ {p} : cp'[q] = cp[q]
    BY <1>t, <1>1, <1>2, MovePc, Zenon DEF HoldPc
  <1>4. cp' \in [Use -> ProcRec]
    BY <1>t, <1>2, MovePc, Zenon DEF HoldPc
  <1>5. /\ idequeue' \in Seq(Buf) /\ Len(idequeue') = Len(idequeue) + 1 /\ Len(idequeue) \in Nat
        /\ \A k \in 1 .. Len(idequeue) : idequeue'[k] = idequeue[k]
        /\ idequeue'[Len(idequeue) + 1] = b /\ idequeue' # <<>>
    BY <1>t, <1>2 DEF Typed
  <1>6. ctl' \in CtlRec
    BY <1>t, <1>2 DEF Typed, CtlRec, idestart, BufRec
  <1>7. Typed'
    BY <1>t, <1>1, <1>2, <1>3, <1>4, <1>5, <1>6 DEF Typed
  <1>8. \A k \in 1 .. Len(idequeue) : idequeue[k] # b
    BY <1>1, <1>2, HeadHeld DEF HoldPc
  <1>9. Held'
    <2>1. \A q \in Use : /\ cp'[q].pc \in HoldPc <=> cp[q].pc \in HoldPc
                         /\ cp'[q].b = cp[q].b /\ cp'[q].blk = cp[q].blk
      BY <1>1, <1>2, <1>3, Zenon DEF HoldPc
    <2>2. \A c \in Buf : \A q \in Use : Holds(q, c)' <=> Holds(q, c)
      BY <2>1, Zenon DEF Holds, HoldPc
    <2>3. \A q \in Use : /\ cp'[q].pc \in {"iotest", "hold", "drop"} => cp[q].pc \in {"iotest", "hold", "drop"}
                         /\ cp'[q].pc = "iotest" => cp[q].pc = "iotest"
                         /\ cp'[q].pc = "bsleep" => cp[q].pc = "bsleep"
      BY <1>3, Zenon
    <2>4. \A c \in Buf : buf'[c].busy => \E q \in Use : Holds(q, c)'
      <3> SUFFICES ASSUME NEW c \in Buf, buf'[c].busy PROVE \E q \in Use : Holds(q, c)'
        BY Zenon
      <3>1. PICK q \in Use : Holds(q, c)
        BY <1>2, Zenon DEF BufInv, Held
      <3> QED
        BY <2>2, <3>1, Zenon
    <2>5. \A q \in Use : /\ cp'[q].pc \in HoldPc \union {"bsleep"} => buf'[cp'[q].b].busy
                         /\ cp'[q].pc \in HoldPc => buf'[cp'[q].b].blk = cp'[q].blk
                         /\ cp'[q].pc \in {"iotest", "hold", "drop"} => buf'[cp'[q].b].valid
                         /\ cp'[q].pc = "iotest" => ~buf'[cp'[q].b].dirty
      <3> TAKE q \in Use
      <3>1. cp'[q].pc \in HoldPc \union {"bsleep"} => cp[q].pc \in HoldPc \union {"bsleep"}
        BY <2>1, <2>3, Zenon
      <3>2. buf' = buf /\ cp'[q].b = cp[q].b /\ cp'[q].blk = cp[q].blk
        BY <1>2, <2>1, Zenon
      <3>3. /\ cp[q].pc \in HoldPc \union {"bsleep"} => buf[cp[q].b].busy
            /\ cp[q].pc \in HoldPc => buf[cp[q].b].blk = cp[q].blk
            /\ cp[q].pc \in {"iotest", "hold", "drop"} => buf[cp[q].b].valid
            /\ cp[q].pc = "iotest" => ~buf[cp[q].b].dirty
        BY Zenon DEF BufInv, Held
      <3> QED
        BY <2>1, <2>3, <3>1, <3>2, <3>3, Zenon
    <2>6. /\ \A a, c \in Buf : buf'[a].blk = buf'[c].blk /\ buf'[a].blk # 0 => a = c
          /\ \A q, r \in Use : cp'[q].pc \in HoldPc /\ cp'[r].pc \in HoldPc /\ cp'[q].b = cp'[r].b => q = r
      <3>1. buf' = buf
        BY <1>2, Zenon
      <3>2. /\ \A a, c \in Buf : buf[a].blk = buf[c].blk /\ buf[a].blk # 0 => a = c
            /\ \A q, r \in Use : cp[q].pc \in HoldPc /\ cp[r].pc \in HoldPc /\ cp[q].b = cp[r].b => q = r
        BY Zenon DEF BufInv, Held
      <3> QED
        BY <2>1, <3>1, <3>2, Zenon
    <2> QED
      BY <2>4, <2>5, <2>6, Zenon DEF Held
  <1>10. Queued'
    <2>1. IsInjective(idequeue')
      <3>1. DOMAIN idequeue = 1 .. Len(idequeue) /\ DOMAIN idequeue' = 1 .. Len(idequeue) + 1
        BY <1>t, <1>5 DEF Typed
      <3>2. \A i, j \in 1 .. Len(idequeue) : idequeue[i] = idequeue[j] => i = j
        BY <3>1, Zenon DEF BufInv, Queued, IsInjective
      <3>3. \A i \in 1 .. Len(idequeue) + 1 : i \in 1 .. Len(idequeue) \/ i = Len(idequeue) + 1
        BY <1>5
      <3> QED
        BY <1>5, <1>8, <3>1, <3>2, <3>3, Zenon DEF IsInjective
    <2>2. \A q \in Use : cp'[q].pc = "iosleep" => \E i \in 1 .. Len(idequeue') : idequeue'[i] = cp'[q].b
      BY <1>3, <1>5 DEF BufInv, Queued
    <2>3. ASSUME NEW k \in 1 .. Len(idequeue')
          PROVE  \E q \in Use : cp'[q].pc = "iosleep" /\ cp'[q].b = idequeue'[k]
      <3>1. CASE k = Len(idequeue) + 1
        BY <1>3, <1>5, <3>1
      <3>2. CASE k \in 1 .. Len(idequeue)
        <4>1. PICK q \in Use : cp[q].pc = "iosleep" /\ cp[q].b = idequeue[k]
          BY <3>2 DEF BufInv, Queued
        <4>2. cp'[q] = cp[q]
          BY <1>2, <1>3, <4>1
        <4> QED
          BY <1>5, <3>2, <4>1, <4>2
      <3> QED
        BY <1>5, <3>1, <3>2
    <2> QED
      BY <1>2, <2>1, <2>2, <2>3, Zenon DEF Queued
  <1>11. Working'
    <2>1. CASE idequeue = <<>>
      <3>1. idequeue'[1] = b /\ ctl' = idestart(buf[b])
        BY <1>2, <1>5, <2>1
      <3>2. /\ ctl'.blk = buf[b].blk /\ ctl'.cmd = (IF buf[b].dirty THEN "write" ELSE "read")
            /\ ~ctl'.done /\ (buf[b].dirty => ctl'.data = buf[b].data)
        BY <3>1, Zenon DEF idestart
      <3> QED
        BY <1>2, <1>5, <3>1, <3>2 DEF Working
    <2>2. CASE idequeue # <<>>
      <3>1. idequeue'[1] = idequeue[1] /\ ctl' = ctl
        BY <1>t, <1>2, <1>5, <2>2 DEF Typed
      <3> QED
        BY <1>2, <1>5, <2>2, <3>1, Zenon DEF BufInv, Working
    <2> QED
      BY <2>1, <2>2
  <1>12. Current'
    BY <1>2, Zenon DEF BufInv, Current
  <1> QED
    BY <1>7, <1>9, <1>10, <1>11, <1>12 DEF BufInv

\* iderw returns when it is woken: its buffer is valid and clean.
LEMMA IoTestStep ==
    ASSUME BufInv, NEW p \in Use, IoTest(p)
    PROVE  BufInv'
  <1>t. Typed
    BY Zenon DEF BufInv
  <1>1. PICK b \in Buf : b = cp[p].b /\ buf[b].valid /\ ~buf[b].dirty
    BY <1>t DEF IoTest, Typed, BufInv, Held
  <1>2. /\ cp[p].pc = "iotest" /\ cp' = [cp EXCEPT ![p].pc = "hold"]
        /\ UNCHANGED <<drv, buf, mru, idequeue, ctl, dsk, latest>>
    BY <1>1 DEF IoTest
  <1>3. /\ cp'[p].pc = "hold" /\ cp'[p].b = b /\ cp'[p].blk = cp[p].blk
        /\ \A q \in Use \ {p} : cp'[q] = cp[q]
    BY <1>t, <1>1, <1>2, MovePc, Zenon DEF HoldPc
  <1>4. cp' \in [Use -> ProcRec]
    BY <1>t, <1>2, MovePc, Zenon DEF HoldPc
  <1>5. Typed'
    BY <1>t, <1>1, <1>2, <1>3, <1>4 DEF Typed
  <1>6. \A q \in Use : /\ cp'[q].pc \in HoldPc <=> cp[q].pc \in HoldPc
                       /\ cp'[q].b = cp[q].b /\ cp'[q].blk = cp[q].blk
    BY <1>1, <1>2, <1>3, Zenon DEF HoldPc
  <1>7. Held'
    <2>1. \A c \in Buf : \A q \in Use : Holds(q, c)' <=> Holds(q, c)
      BY <1>6, Zenon DEF Holds, HoldPc
    <2>2. \A q \in Use : /\ cp'[q].pc \in {"iotest", "hold", "drop"} => cp[q].pc \in {"iotest", "hold", "drop"}
                         /\ cp'[q].pc = "iotest" => cp[q].pc = "iotest"
                         /\ cp'[q].pc = "bsleep" => cp[q].pc = "bsleep"
      BY <1>2, <1>3
    <2> QED
      BY <1>2, <1>6, <2>1, <2>2 DEF BufInv, Held
  <1>8. Queued'
    <2>1. \A q \in Use : cp'[q].pc = "iosleep" <=> cp[q].pc = "iosleep"
      BY <1>2, <1>3, Zenon
    <2> QED
      BY <1>2, <1>6, <2>1 DEF BufInv, Queued
  <1>9. Working' /\ Current'
    BY <1>2, Zenon DEF BufInv, Working, Current
  <1> QED
    BY <1>5, <1>7, <1>8, <1>9 DEF BufInv

\* iderw of memide.c copies at once.
LEMMA MemRwStep ==
    ASSUME BufInv, NEW p \in Use, MemRw(p)
    PROVE  BufInv'
  <1>t. Typed
    BY Zenon DEF BufInv
  <1>1. PICK b \in Buf : b = cp[p].b
    BY <1>t, Zenon DEF MemRw, Typed
  <1>2. /\ drv = "mem" /\ cp[p].pc = "iderw" /\ cp' = [cp EXCEPT ![p].pc = "hold"]
        /\ dsk' = IF buf[b].dirty THEN [dsk EXCEPT ![buf[b].blk] = buf[b].data] ELSE dsk
        /\ UNCHANGED <<drv, mru, idequeue, ctl, latest>>
    BY <1>1, Zenon DEF MemRw
  <1>3. PICK e \in DBlock : buf[b].blk = e /\ e = cp[p].blk /\ e # 0
    <2>1. cp[p].pc \in HoldPc /\ cp[p].pc \notin {"out", "panic"}
      BY <1>2, Zenon DEF HoldPc
    <2>2. cp[p].blk \in DBlock
      BY <1>t, <2>1, Zenon DEF Typed
    <2>3. buf[b].blk = cp[p].blk
      BY <1>1, <2>1, Zenon DEF BufInv, Held
    <2> QED
      BY <2>2, <2>3, BufAssumption, Zenon
  <1>4. PICK v \in {0, 1} : v = IF buf[b].dirty THEN buf[b].data ELSE dsk[e]
    BY <1>t, Zenon DEF Typed, BufRec
  <1>5. /\ buf' \in [Buf -> BufRec] /\ \A c \in Buf \ {b} : buf'[c] = buf[c]
        /\ buf'[b].blk = e /\ buf'[b].busy = buf[b].busy /\ buf'[b].data = v /\ buf'[b].valid /\ ~buf'[b].dirty
    <2>1. buf[b] \in BufRec
      BY <1>t, Zenon DEF Typed
    <2>2. PICK f : f = [buf[b] EXCEPT !.data = v, !.dirty = FALSE, !.valid = TRUE]
      BY Zenon
    <2>3. f \in BufRec /\ f.blk = e /\ f.busy = buf[b].busy /\ f.data = v /\ f.valid /\ ~f.dirty
      BY <1>3, <2>1, <2>2, Zenon DEF BufRec
    <2>4. buf' = [buf EXCEPT ![b] = f]
      BY <1>1, <1>3, <1>4, <2>2, Zenon DEF MemRw
    <2> QED
      BY <1>t, <2>3, <2>4, Zenon DEF Typed
  <1>6. /\ cp' \in [Use -> ProcRec] /\ cp'[p].pc = "hold" /\ cp'[p].b = b /\ cp'[p].blk = cp[p].blk
        /\ \A q \in Use \ {p} : cp'[q] = cp[q]
    BY <1>t, <1>1, <1>2, MovePc, Zenon DEF HoldPc
  <1>7. dsk' \in [DBlock -> {0, 1}] /\ dsk'[e] = v /\ \A d \in DBlock \ {e} : dsk'[d] = dsk[d]
    BY <1>t, <1>2, <1>3, <1>4 DEF Typed, BufRec
  <1>8. Typed'
    BY <1>t, <1>1, <1>2, <1>3, <1>5, <1>6, <1>7 DEF Typed
  <1>9. \A q \in Use : /\ cp'[q].pc \in HoldPc <=> cp[q].pc \in HoldPc
                       /\ cp'[q].b = cp[q].b /\ cp'[q].blk = cp[q].blk
    BY <1>1, <1>2, <1>6, Zenon DEF HoldPc
  <1>10. \A c \in Buf : buf'[c].blk = buf[c].blk /\ buf'[c].busy = buf[c].busy /\ (buf[c].valid => buf'[c].valid)
    BY <1>3, <1>5
  <1>11. Held'
    <2>1. \A c \in Buf : \A q \in Use : Holds(q, c)' <=> Holds(q, c)
      BY <1>9 DEF Holds, HoldPc
    <2>2. ASSUME NEW q \in Use
          PROVE  /\ cp'[q].pc \in {"iotest", "hold", "drop"} => buf'[cp'[q].b].valid
                 /\ cp'[q].pc = "iotest" => ~buf'[cp'[q].b].dirty
      <3>1. CASE q = p
        BY <1>5, <1>6, <3>1
      <3>2. CASE q # p
        <4>1. cp'[q] = cp[q] /\ (cp[q].pc \in {"iotest", "hold", "drop"} => cp[q].b \in Buf \ {b})
          BY <1>t, <1>1, <1>2, <1>6, <3>2 DEF BufInv, Held, HoldPc, Typed
        <4> QED
          BY <1>5, <4>1 DEF BufInv, Held
      <3> QED
        BY <3>1, <3>2
    <2>3. \A q \in Use : /\ cp'[q].pc \in HoldPc \union {"bsleep"} => buf'[cp'[q].b].busy
                         /\ cp'[q].pc \in HoldPc => buf'[cp'[q].b].blk = cp'[q].blk
      <3>1. \A q \in Use : cp'[q].pc \in HoldPc \union {"bsleep"} => cp[q].pc \in HoldPc \union {"bsleep"}
        BY <1>6, <1>9, Zenon
      <3>2. \A q \in Use : cp[q].pc \in HoldPc \union {"bsleep"} => cp[q].b \in Buf
        BY <1>t, Zenon DEF Typed, HoldPc
      <3> QED
        BY <1>9, <1>10, <3>1, <3>2 DEF BufInv, Held
    <2>4. \A a, c \in Buf : buf'[a].blk = buf'[c].blk /\ buf'[a].blk # 0 => a = c
      BY <1>10 DEF BufInv, Held
    <2>5. \A c \in Buf : buf'[c].busy => \E q \in Use : Holds(q, c)'
      BY <1>10, <2>1, Zenon DEF BufInv, Held
    <2>6. \A q, s \in Use : cp'[q].pc \in HoldPc /\ cp'[s].pc \in HoldPc /\ cp'[q].b = cp'[s].b => q = s
      BY <1>9 DEF BufInv, Held
    <2> QED
      BY <2>2, <2>3, <2>4, <2>5, <2>6 DEF Held
  <1>12. idequeue = <<>> /\ Queued'
    <2>1. idequeue = <<>>
      BY <1>2 DEF BufInv, Queued
    <2>2. \A q \in Use : cp'[q].pc = "iosleep" => cp[q].pc = "iosleep"
      BY <1>6
    <2> QED
      BY <1>2, <1>9, <2>1, <2>2 DEF BufInv, Queued
  <1>13. Working'
    BY <1>2, <1>12 DEF BufInv, Working
  <1>14. v = latest[e]
    <2>1. \A c \in Buf : buf[c].blk = e => c = b
      BY <1>3 DEF BufInv, Held
    <2> QED
      BY <1>3, <1>4, <2>1 DEF BufInv, Current
  <1>15. Current'
    BY <1>2, <1>3, <1>5, <1>7, <1>10, <1>14 DEF BufInv, Current
  <1> QED
    BY <1>8, <1>11, <1>12, <1>13, <1>15 DEF BufInv

\* The disk carries out the request at the head of the queue.
LEMMA DiskStep ==
    ASSUME BufInv, Disk
    PROVE  BufInv'
  <1>t. Typed
    BY DEF BufInv
  <1>1. idequeue # <<>> /\ 1 \in 1 .. Len(idequeue)
    <2>1. idequeue # <<>>
      BY DEF Disk, BufInv, Working, NoCmd
    <2> QED
      BY <1>t, <2>1 DEF Typed
  <1>2. PICK b \in Buf : b = idequeue[1]
    BY <1>t, <1>1 DEF Typed
  <1>3. PICK p \in Use : cp[p].pc = "iosleep" /\ cp[p].b = b
    BY <1>1, <1>2, Zenon DEF BufInv, Queued
  <1>4. PICK e \in DBlock : buf[b].blk = e
    BY <1>t, <1>3 DEF Typed, BufInv, Held, HoldPc
  <1>5. /\ ctl.blk = e /\ ctl.cmd = (IF buf[b].dirty THEN "write" ELSE "read") /\ ~ctl.done
        /\ buf[b].dirty => ctl.data = buf[b].data
    BY <1>1, <1>2, <1>4 DEF BufInv, Working, Disk
  <1>6. /\ dsk' = IF ctl.cmd = "write" THEN [dsk EXCEPT ![e] = ctl.data] ELSE dsk
        /\ ctl' = [ctl EXCEPT !.done = TRUE, !.data = dsk[e]]
        /\ UNCHANGED <<drv, buf, mru, idequeue, cp, latest>>
    BY <1>5 DEF Disk
  <1>7. ctl' \in CtlRec /\ ctl'.blk = e /\ ctl'.cmd = ctl.cmd /\ ctl'.done /\ ctl'.data = dsk[e]
    <2>1. ctl \in CtlRec /\ dsk[e] \in {0, 1}
      BY <1>t, Zenon DEF Typed
    <2> QED
      BY <1>5, <1>6, <2>1, Zenon DEF CtlRec
  <1>8. /\ dsk' \in [DBlock -> {0, 1}] /\ \A d \in DBlock \ {e} : dsk'[d] = dsk[d]
        /\ dsk'[e] = IF buf[b].dirty THEN buf[b].data ELSE dsk[e]
    BY <1>t, <1>5, <1>6 DEF Typed, CtlRec
  <1>9. Typed'
    BY <1>t, <1>6, <1>7, <1>8 DEF Typed
  <1>10. Held' /\ Queued'
    BY <1>6 DEF BufInv, Held, Queued, Holds
  <1>11. Working'
    BY <1>1, <1>2, <1>4, <1>5, <1>6, <1>7, <1>8, Zenon DEF Working
  <1>12. Current'
    BY <1>4, <1>6, <1>8 DEF BufInv, Current
  <1> QED
    BY <1>9, <1>10, <1>11, <1>12 DEF BufInv

\* wakeup moves the sleepers of a buffer and nobody else.
LEMMA WakeupIs ==
    ASSUME Typed, NEW b \in Buf, NEW p \in Use
    PROVE  /\ Wakeup(cp, b)[p] \in ProcRec
           /\ Wakeup(cp, b)[p].b = cp[p].b /\ Wakeup(cp, b)[p].blk = cp[p].blk
           /\ cp[p].b = b /\ cp[p].pc = "bsleep" => Wakeup(cp, b)[p].pc = "bget"
           /\ cp[p].b = b /\ cp[p].pc = "iosleep" => Wakeup(cp, b)[p].pc = "iotest"
           /\ cp[p].b # b \/ cp[p].pc \notin {"bsleep", "iosleep"} => Wakeup(cp, b)[p].pc = cp[p].pc
  <1>1. cp[p] \in ProcRec
    BY DEF Typed
  <1>2. CASE cp[p].b = b /\ cp[p].pc = "bsleep"
    <2>1. Wakeup(cp, b)[p] = [cp[p] EXCEPT !.pc = "bget"]
      BY <1>2 DEF Wakeup
    <2> QED
      BY <1>1, <1>2, <2>1 DEF ProcRec
  <1>3. CASE cp[p].b = b /\ cp[p].pc = "iosleep"
    <2>1. Wakeup(cp, b)[p] = [cp[p] EXCEPT !.pc = "iotest"]
      BY <1>3 DEF Wakeup
    <2> QED
      BY <1>1, <1>3, <2>1 DEF ProcRec, HoldPc
  <1>4. CASE cp[p].b # b \/ cp[p].pc \notin {"bsleep", "iosleep"}
    <2>1. Wakeup(cp, b)[p] = cp[p]
      BY <1>4 DEF Wakeup
    <2> QED
      BY <1>1, <1>4, <2>1
  <1> QED
    BY <1>2, <1>3, <1>4, Zenon

\* ideintr finishes the buffer at the head, wakes its sleeper and starts the next one.
LEMMA IdeIntrStep ==
    ASSUME BufInv, IdeIntr
    PROVE  BufInv'
  <1>t. Typed
    BY Zenon DEF BufInv
  <1>1. idequeue # <<>> /\ ctl.done /\ 1 \in 1 .. Len(idequeue) /\ Len(idequeue) \in Nat
    BY <1>t DEF IdeIntr, Finished, Typed
  <1>2. PICK b \in Buf : b = idequeue[1] /\ b = Head(idequeue)
    BY <1>t, <1>1 DEF Typed
  <1>3. PICK p \in Use : cp[p].pc = "iosleep" /\ cp[p].b = b
    BY <1>1, <1>2 DEF BufInv, Queued
  <1>4. PICK e \in DBlock : buf[b].blk = e /\ e # 0
    BY <1>t, <1>3, BufAssumption DEF Typed, BufInv, Held, HoldPc
  <1>5. PICK v \in {0, 1} : v = IF buf[b].dirty THEN buf[b].data ELSE ctl.data
    BY <1>t, Zenon DEF Typed, BufRec, CtlRec
  <1>6. dsk[e] = v /\ v = latest[e]
    <2>1. dsk[e] = v
      BY <1>1, <1>2, <1>4, <1>5 DEF BufInv, Working
    <2>2. \A c \in Buf : buf[c].blk = e => c = b
      BY <1>4, Zenon DEF BufInv, Held
    <2> QED
      BY <1>4, <1>5, <2>1, <2>2 DEF BufInv, Current
  <1>7. /\ buf' \in [Buf -> BufRec] /\ \A c \in Buf \ {b} : buf'[c] = buf[c]
        /\ buf'[b].blk = e /\ buf'[b].busy = buf[b].busy /\ buf'[b].data = v /\ buf'[b].valid /\ ~buf'[b].dirty
    <2>1. buf[b] \in BufRec
      BY <1>t DEF Typed
    <2>2. PICK f : f = [buf[b] EXCEPT !.data = v, !.valid = TRUE, !.dirty = FALSE]
      OBVIOUS
    <2>3. f \in BufRec /\ f.blk = e /\ f.busy = buf[b].busy /\ f.data = v /\ f.valid /\ ~f.dirty
      BY <1>4, <2>1, <2>2, Zenon DEF BufRec
    <2>4. buf' = [buf EXCEPT ![b] = f]
      BY <1>2, <1>5, <2>2, Zenon DEF IdeIntr
    <2> QED
      BY <1>t, <2>3, <2>4 DEF Typed
  <1>8. /\ idequeue' = Tail(idequeue) /\ idequeue' \in Seq(Buf) /\ Len(idequeue') = Len(idequeue) - 1
        /\ \A k \in 1 .. Len(idequeue) - 1 : idequeue'[k] = idequeue[k + 1]
        /\ UNCHANGED <<drv, mru, dsk, latest>>
    BY <1>t, <1>1 DEF IdeIntr, Typed
  <1>9. \A q \in Use :
           /\ cp'[q] \in ProcRec
           /\ cp'[q].b = cp[q].b /\ cp'[q].blk = cp[q].blk
           /\ cp[q].b = b /\ cp[q].pc = "bsleep" => cp'[q].pc = "bget"
           /\ cp[q].b = b /\ cp[q].pc = "iosleep" => cp'[q].pc = "iotest"
           /\ cp[q].b # b \/ cp[q].pc \notin {"bsleep", "iosleep"} => cp'[q].pc = cp[q].pc
    <2>1. cp' = Wakeup(cp, b)
      BY <1>2, Zenon DEF IdeIntr
    <2> QED
      BY <1>t, <2>1, WakeupIs, Zenon
  <1>10. cp' \in [Use -> ProcRec]
    <2>1. cp' = [q \in Use |-> cp'[q]]
      BY DEF IdeIntr, Wakeup
    <2> QED
      BY <1>9, <2>1, Zenon
  <1>c. ctl' = IF idequeue' = <<>> THEN NoCmd ELSE idestart(buf[idequeue'[1]])
    BY <1>t, <1>8 DEF IdeIntr, Typed
  <1>d. idequeue' # <<>> =>
          /\ 1 \in 1 .. Len(idequeue) - 1 /\ idequeue'[1] = idequeue[2] /\ idequeue'[1] \in Buf \ {b}
          /\ buf'[idequeue'[1]] = buf[idequeue'[1]]
    <2>1. SUFFICES ASSUME idequeue' # <<>>
                   PROVE  /\ 1 \in 1 .. Len(idequeue) - 1 /\ idequeue'[1] = idequeue[2]
                          /\ idequeue'[1] \in Buf \ {b} /\ buf'[idequeue'[1]] = buf[idequeue'[1]]
      OBVIOUS
    <2>2. 1 \in 1 .. Len(idequeue) - 1
      BY <1>1, <1>8, <2>1
    <2>3. idequeue'[1] = idequeue[2] /\ 2 \in 1 .. Len(idequeue)
      BY <1>1, <1>8, <2>2
    <2>4. idequeue[2] \in Buf /\ idequeue[2] # idequeue[1]
      BY <1>t, <1>1, <2>3 DEF Typed, BufInv, Queued, IsInjective
    <2> QED
      BY <1>2, <1>7, <2>2, <2>3, <2>4, Zenon
  <1>e. ctl' \in CtlRec
    <2>1. CASE idequeue' = <<>>
      BY <1>c, <2>1 DEF NoCmd, CtlRec
    <2>2. CASE idequeue' # <<>>
      <3>1. PICK f \in BufRec : f = buf[idequeue'[1]]
        BY <1>t, <1>d, <2>2 DEF Typed
      <3> QED
        BY <1>c, <2>2, <3>1 DEF CtlRec, idestart, BufRec
    <2> QED
      BY <2>1, <2>2
  <1>12. Typed'
    <2>1. \A q \in Use : cp'[q].pc \notin {"out", "panic"} => cp'[q].b \in Buf /\ cp'[q].blk \in DBlock
      BY <1>t, <1>9, Zenon DEF Typed
    <2> QED
      BY <1>t, <1>7, <1>8, <1>10, <1>e, <2>1 DEF Typed
  <1>13. \A q \in Use : cp'[q].pc \in HoldPc <=> cp[q].pc \in HoldPc
    BY <1>9, Zenon DEF HoldPc
  <1>14. \A c \in Buf : buf'[c].blk = buf[c].blk /\ buf'[c].busy = buf[c].busy /\ (buf[c].valid => buf'[c].valid)
    BY <1>4, <1>7
  <1>15. Held'
    <2>1. \A c \in Buf : \A q \in Use : Holds(q, c)' <=> Holds(q, c)
      BY <1>9, <1>13 DEF Holds, HoldPc
    <2>2. ASSUME NEW q \in Use
          PROVE  /\ cp'[q].pc \in {"iotest", "hold", "drop"} => buf'[cp'[q].b].valid
                 /\ cp'[q].pc = "iotest" => ~buf'[cp'[q].b].dirty
      <3>1. CASE cp[q].b = b
        BY <1>7, <1>9, <3>1
      <3>2. CASE cp[q].b # b
        <4>1. /\ cp'[q].pc = cp[q].pc /\ cp'[q].b = cp[q].b
              /\ cp[q].pc \in {"iotest", "hold", "drop"} => cp[q].b \in Buf \ {b}
          BY <1>t, <1>9, <3>2, Zenon DEF Typed
        <4> QED
          BY <1>7, <4>1 DEF BufInv, Held
      <3> QED
        BY <3>1, <3>2
    <2>3. \A q \in Use : /\ cp'[q].pc \in HoldPc \union {"bsleep"} => buf'[cp'[q].b].busy
                         /\ cp'[q].pc \in HoldPc => buf'[cp'[q].b].blk = cp'[q].blk
      <3>1. \A q \in Use : cp'[q].pc \in HoldPc \union {"bsleep"} => cp[q].pc \in HoldPc \union {"bsleep"}
        BY <1>9, <1>13, Zenon
      <3>2. \A q \in Use : cp[q].pc \in HoldPc \union {"bsleep"} => cp[q].b \in Buf
        BY <1>t DEF Typed, HoldPc
      <3> QED
        BY <1>9, <1>13, <1>14, <3>1, <3>2 DEF BufInv, Held
    <2>4. \A a, c \in Buf : buf'[a].blk = buf'[c].blk /\ buf'[a].blk # 0 => a = c
      BY <1>14 DEF BufInv, Held
    <2>5. \A c \in Buf : buf'[c].busy => \E q \in Use : Holds(q, c)'
      BY <1>14, <2>1 DEF BufInv, Held
    <2>6. \A q, s \in Use : cp'[q].pc \in HoldPc /\ cp'[s].pc \in HoldPc /\ cp'[q].b = cp'[s].b => q = s
      BY <1>9, <1>13 DEF BufInv, Held
    <2> QED
      BY <2>2, <2>3, <2>4, <2>5, <2>6 DEF Held
  <1>16. Queued'
    <2>1. IsInjective(idequeue')
      BY <1>1, <1>8 DEF BufInv, Queued, IsInjective
    <2>2. ASSUME NEW q \in Use, cp'[q].pc = "iosleep" PROVE \E i \in 1 .. Len(idequeue') : idequeue'[i] = cp'[q].b
      <3>1. cp[q].pc = "iosleep" /\ cp[q].b # b
        BY <1>9, <2>2, Zenon
      <3>2. PICK k \in 1 .. Len(idequeue) : idequeue[k] = cp[q].b
        BY <3>1 DEF BufInv, Queued
      <3>3. k # 1
        BY <1>2, <3>1, <3>2
      <3>4. k - 1 \in 1 .. Len(idequeue) - 1 /\ (k - 1) + 1 = k
        BY <1>1, <3>3
      <3>5. idequeue'[k - 1] = cp'[q].b /\ k - 1 \in 1 .. Len(idequeue')
        BY <1>8, <1>9, <3>2, <3>4
      <3> QED
        BY <3>5, Zenon
    <2>3. ASSUME NEW k \in 1 .. Len(idequeue')
          PROVE  \E q \in Use : cp'[q].pc = "iosleep" /\ cp'[q].b = idequeue'[k]
      <3>1. k + 1 \in 1 .. Len(idequeue) /\ k + 1 # 1 /\ idequeue'[k] = idequeue[k + 1]
        BY <1>1, <1>8
      <3>2. idequeue[k + 1] # b
        BY <1>t, <1>1, <1>2, <3>1 DEF Typed, BufInv, Queued, IsInjective
      <3>3. PICK q \in Use : cp[q].pc = "iosleep" /\ cp[q].b = idequeue[k + 1]
        BY <3>1, Zenon DEF BufInv, Queued
      <3> QED
        BY <1>9, <3>1, <3>2, <3>3
    <2>4. drv' = "mem" => idequeue' = <<>>
      BY <1>1, <1>8, Zenon DEF BufInv, Queued
    <2> QED
      BY <2>1, <2>2, <2>3, <2>4, Zenon DEF Queued
  <1>17. Working'
    <2>1. CASE idequeue' = <<>>
      BY <1>c, <2>1, Zenon DEF Working
    <2>2. CASE idequeue' # <<>>
      <3>1. PICK f \in BufRec : f = buf[idequeue'[1]] /\ f = buf'[idequeue'[1]]
        BY <1>t, <1>d, <2>2 DEF Typed
      <3>2. /\ ctl'.blk = f.blk /\ ctl'.cmd = (IF f.dirty THEN "write" ELSE "read")
            /\ ~ctl'.done /\ (f.dirty => ctl'.data = f.data)
        BY <1>c, <2>2, <3>1 DEF idestart
      <3> QED
        BY <2>2, <3>1, <3>2 DEF Working
    <2> QED
      BY <2>1, <2>2, Zenon
  <1>18. Current'
    BY <1>4, <1>6, <1>7, <1>8 DEF BufInv, Current
  <1> QED
    BY <1>12, <1>15, <1>16, <1>17, <1>18 DEF BufInv

\* The holder changes the block, and writes it through or leaves it dirty for the log.
LEMMA BWriteStep ==
    ASSUME BufInv, NEW p \in Use, BWrite(p)
    PROVE  BufInv'
  <1>t. Typed
    BY Zenon DEF BufInv
  <1>1. cp[p].pc = "hold" /\ cp[p].pc \in HoldPc
    BY Zenon DEF BWrite, HoldPc
  <1>2. PICK b \in Buf : b = cp[p].b /\ buf[b].busy /\ buf[b].valid /\ buf[b].blk = cp[p].blk
    BY <1>t, <1>1 DEF Typed, BufInv, Held
  <1>3. PICK e \in DBlock : e = cp[p].blk /\ e # 0
    BY <1>t, <1>1, BufAssumption, Zenon DEF Typed
  <1>4. PICK v \in {0, 1} : v = 1 - buf[b].data /\ v = 1 - latest[e]
    <2>1. buf[b].data \in {0, 1} /\ buf[b].data = latest[e]
      BY <1>t, <1>2, <1>3 DEF Typed, BufRec, BufInv, Current
    <2> QED
      BY <2>1
  <1>5. /\ buf' \in [Buf -> BufRec] /\ \A c \in Buf \ {b} : buf'[c] = buf[c]
        /\ buf'[b].blk = e /\ buf'[b].busy /\ buf'[b].data = v /\ buf'[b].valid /\ buf'[b].dirty
    <2>1. buf[b] \in BufRec
      BY <1>t, Zenon DEF Typed
    <2>2. PICK f : f = [buf[b] EXCEPT !.data = v, !.dirty = TRUE]
      BY Zenon
    <2>3. f \in BufRec /\ f.blk = e /\ f.busy /\ f.data = v /\ f.valid /\ f.dirty
      BY <1>2, <1>3, <2>1, <2>2, Zenon DEF BufRec
    <2>4. buf' = [buf EXCEPT ![b] = f]
      BY <1>2, <1>4, <2>2, Zenon DEF BWrite
    <2> QED
      BY <1>t, <2>3, <2>4, Zenon DEF Typed
  <1>6. latest' \in [DBlock -> {0, 1}] /\ latest'[e] = v /\ \A d \in DBlock \ {e} : latest'[d] = latest[d]
    BY <1>t, <1>3, <1>4 DEF Typed, BWrite
  <1>7. PICK x \in {"iderw", "drop"} : cp' = [cp EXCEPT ![p].pc = x]
    BY DEF BWrite
  <1>8. x \in HoldPc /\ x \notin {"iosleep", "iotest", "bsleep", "out"}
    BY DEF HoldPc
  <1>9. /\ cp' \in [Use -> ProcRec] /\ cp'[p].pc = x /\ cp'[p].b = b /\ cp'[p].blk = e
        /\ \A q \in Use \ {p} : cp'[q] = cp[q]
    BY <1>t, <1>2, <1>3, <1>7, <1>8, MovePc, Zenon
  <1>10. UNCHANGED <<drv, mru, idequeue, ctl, dsk>>
    BY DEF BWrite
  <1>11. Typed'
    BY <1>t, <1>5, <1>6, <1>9, <1>10, Zenon DEF Typed
  <1>12. \A c \in Buf : buf'[c].blk = buf[c].blk /\ (buf'[c].busy <=> buf[c].busy) /\ (buf[c].valid => buf'[c].valid)
    BY <1>2, <1>3, <1>5
  <1>13. \A q \in Use \ {p} : cp[q].pc \in HoldPc => cp[q].b \in Buf \ {b}
    BY <1>t, <1>1, <1>2, Zenon DEF Typed, BufInv, Held, HoldPc
  <1>14. Held'
    <2>1. \A c \in Buf : \A q \in Use : Holds(q, c)' <=> Holds(q, c)
      BY <1>1, <1>2, <1>8, <1>9 DEF Holds, HoldPc
    <2>2. ASSUME NEW q \in Use \ {p}
          PROVE  /\ cp[q].pc \in HoldPc \union {"bsleep"} => buf'[cp[q].b].busy
                 /\ cp[q].pc \in HoldPc => buf'[cp[q].b].blk = cp[q].blk
                 /\ cp[q].pc \in {"iotest", "hold", "drop"} => buf'[cp[q].b].valid
                 /\ cp[q].pc = "iotest" => ~buf'[cp[q].b].dirty
      <3>1. {"iotest", "hold", "drop"} \subseteq HoldPc
        BY DEF HoldPc
      <3>2. cp[q].pc \in HoldPc => buf'[cp[q].b] = buf[cp[q].b]
        BY <1>5, <1>13
      <3>3. cp[q].pc = "bsleep" => cp[q].b \in Buf
        BY <1>t DEF Typed
      <3> QED
        BY <1>12, <3>1, <3>2, <3>3 DEF BufInv, Held
    <2>3. \A q, s \in Use : cp'[q].pc \in HoldPc /\ cp'[s].pc \in HoldPc /\ cp'[q].b = cp'[s].b => q = s
      BY <1>1, <1>2, <1>8, <1>9 DEF BufInv, Held
    <2>4. \A a, c \in Buf : buf'[a].blk = buf'[c].blk /\ buf'[a].blk # 0 => a = c
      BY <1>12 DEF BufInv, Held
    <2>5. \A c \in Buf : buf'[c].busy => \E q \in Use : Holds(q, c)'
      BY <1>12, <2>1, Zenon DEF BufInv, Held
    <2>6. \A q \in Use :
          /\ cp'[q].pc \in HoldPc \union {"bsleep"} => buf'[cp'[q].b].busy
          /\ cp'[q].pc \in HoldPc => buf'[cp'[q].b].blk = cp'[q].blk
          /\ cp'[q].pc \in {"iotest", "hold", "drop"} => buf'[cp'[q].b].valid
          /\ cp'[q].pc = "iotest" => ~buf'[cp'[q].b].dirty
      BY <1>5, <1>8, <1>9, <2>2
    <2> QED
      BY <2>3, <2>4, <2>5, <2>6, Zenon DEF Held
  <1>15. Queued'
    <2>1. \A q \in Use : cp'[q].pc = "iosleep" <=> cp[q].pc = "iosleep"
      BY <1>1, <1>8, <1>9, Zenon
    <2>2. \A q \in Use : cp[q].pc = "iosleep" => cp'[q] = cp[q]
      BY <1>1, <1>9, Zenon
    <2> QED
      BY <1>10, <2>1, <2>2, QueuedKept, Zenon DEF BufInv
  <1>16. Working'
    <2>1. idequeue # <<>> => buf'[idequeue[1]] = buf[idequeue[1]]
      <3>1. SUFFICES ASSUME idequeue # <<>> PROVE buf'[idequeue[1]] = buf[idequeue[1]]
        OBVIOUS
      <3>2. 1 \in 1 .. Len(idequeue)
        BY <1>t, <3>1 DEF Typed
      <3>3. idequeue[1] \in Buf \ {b}
        BY <1>1, <1>2, <3>2, HeadHeld, Zenon
      <3> QED
        BY <1>5, <3>3
    <2> QED
      BY <1>10, <2>1 DEF BufInv, Working
  <1>17. Current'
    <2>1. \A c \in Buf \ {b} : buf[c].blk # e
      BY <1>2, <1>3 DEF BufInv, Held
    <2>2. ASSUME NEW c \in Buf
          PROVE  /\ buf'[c].dirty => buf'[c].valid
                 /\ buf'[c].valid => buf'[c].blk # 0 /\ buf'[c].data = latest'[buf'[c].blk]
      <3>1. CASE c = b
        BY <1>3, <1>5, <1>6, <3>1, Zenon
      <3>2. CASE c # b
        <4>1. buf[c].blk \in DBlock \union {0}
          BY <1>t, Zenon DEF Typed, BufRec
        <4> QED
          BY <1>5, <1>6, <2>1, <3>2, <4>1 DEF BufInv, Current
      <3> QED
        BY <3>1, <3>2, Zenon
    <2>3. \A d \in DBlock : dsk'[d] = latest'[d] \/ \E c \in Buf : buf'[c].blk = d /\ buf'[c].dirty
      <3>1. \A c \in Buf : buf[c].dirty => buf'[c].dirty /\ buf'[c].blk = buf[c].blk
        BY <1>5, <1>12, Zenon
      <3> QED
        BY <1>5, <1>6, <1>10, <3>1 DEF BufInv, Current
    <2> QED
      BY <2>2, <2>3, Zenon DEF Current
  <1> QED
    BY <1>11, <1>14, <1>15, <1>16, <1>17 DEF BufInv

\* brelse gives the buffer up, puts it at the head of the list and wakes those that wait for it.
LEMMA BRelseStep ==
    ASSUME BufInv, NEW p \in Use, BRelse(p)
    PROVE  BufInv'
  <1>t. Typed
    BY Zenon DEF BufInv
  <1>1. cp[p].pc \in {"hold", "drop"} /\ cp[p].pc \in HoldPc
    BY DEF BRelse, HoldPc
  <1>2. PICK b \in Buf : b = cp[p].b
    BY <1>t, <1>1, Zenon DEF Typed
  <1>3. /\ buf' \in [Buf -> BufRec] /\ \A c \in Buf \ {b} : buf'[c] = buf[c]
        /\ buf'[b].blk = buf[b].blk /\ ~buf'[b].busy /\ buf'[b].data = buf[b].data
        /\ buf'[b].valid = buf[b].valid /\ buf'[b].dirty = buf[b].dirty
    <2>1. buf[b] \in BufRec
      BY <1>t DEF Typed
    <2>2. PICK f : f = [buf[b] EXCEPT !.busy = FALSE]
      BY Zenon
    <2>3. /\ f \in BufRec /\ f.blk = buf[b].blk /\ ~f.busy /\ f.data = buf[b].data
          /\ f.valid = buf[b].valid /\ f.dirty = buf[b].dirty
      BY <2>1, <2>2, Zenon DEF BufRec
    <2>4. buf' = [buf EXCEPT ![b] = f]
      BY <1>2, <2>2 DEF BRelse
    <2> QED
      BY <1>t, <2>3, <2>4 DEF Typed
  <1>4. \A q \in Use \ {p} : cp[q].pc \in HoldPc => cp[q].b \in Buf \ {b}
    BY <1>t, <1>1, <1>2 DEF Typed, BufInv, Held, HoldPc
  <1>5. /\ cp'[p] = Out /\ cp'[p] \in ProcRec /\ cp'[p].pc = "out"
        /\ \A q \in Use \ {p} :
              /\ cp'[q] \in ProcRec /\ cp'[q].b = cp[q].b /\ cp'[q].blk = cp[q].blk
              /\ cp[q].b = b /\ cp[q].pc = "bsleep" => cp'[q].pc = "bget"
              /\ cp[q].b # b \/ cp[q].pc # "bsleep" => cp'[q].pc = cp[q].pc
    <2>1. PICK w : w = Wakeup(cp, b)
      BY Zenon
    <2>2. cp' = [w EXCEPT ![p] = Out] /\ DOMAIN w = Use
      BY <1>2, <2>1 DEF BRelse, Wakeup
    <2>3. cp'[p] = Out /\ \A q \in Use \ {p} : cp'[q] = Wakeup(cp, b)[q]
      BY <2>1, <2>2
    <2>4. Out \in ProcRec /\ Out.pc = "out"
      BY DEF Out, ProcRec
    <2>5. \A q \in Use \ {p} : ~(cp[q].b = b /\ cp[q].pc = "iosleep")
      BY <1>4 DEF HoldPc
    <2>6. ASSUME NEW q \in Use \ {p}
          PROVE  /\ cp'[q] \in ProcRec /\ cp'[q].b = cp[q].b /\ cp'[q].blk = cp[q].blk
                 /\ cp[q].b = b /\ cp[q].pc = "bsleep" => cp'[q].pc = "bget"
                 /\ cp[q].b # b \/ cp[q].pc # "bsleep" => cp'[q].pc = cp[q].pc
      <3>1. PICK v : v = Wakeup(cp, b)[q] /\ cp'[q] = v
        BY <2>3
      <3>2. /\ v \in ProcRec /\ v.b = cp[q].b /\ v.blk = cp[q].blk
            /\ cp[q].b = b /\ cp[q].pc = "bsleep" => v.pc = "bget"
            /\ cp[q].b # b \/ cp[q].pc \notin {"bsleep", "iosleep"} => v.pc = cp[q].pc
        BY <1>t, <3>1, WakeupIs, Zenon
      <3>3. ~(cp[q].b = b /\ cp[q].pc = "iosleep")
        BY <2>5, Zenon
      <3> QED
        BY <3>1, <3>2, <3>3
    <2> QED
      BY <2>3, <2>4, <2>6, Zenon
  <1>6. cp' \in [Use -> ProcRec]
    <2>1. cp' = [q \in Use |-> cp'[q]]
      BY Zenon DEF BRelse, Wakeup
    <2> QED
      BY <1>5, <2>1, Zenon
  <1>7. UNCHANGED <<drv, idequeue, ctl, dsk, latest>> /\ mru' = MoveToFront(b)
    BY <1>2, Zenon DEF BRelse
  <1>8. Typed'
    <2>1. \A q \in Use : cp'[q].pc \notin {"out", "panic"} => cp'[q].b \in Buf /\ cp'[q].blk \in DBlock
      BY <1>t, <1>5, Zenon DEF Typed
    <2>2. mru' \in [Buf -> Buf] /\ \A c \in Buf : \E k \in Buf : mru'[k] = c
      BY <1>t, <1>7, MoveKeepsAll, Zenon
    <2> QED
      BY <1>t, <1>3, <1>6, <1>7, <2>1, <2>2 DEF Typed
  <1>9. \A q \in Use \ {p} : /\ cp'[q].pc \in HoldPc => cp[q].pc \in HoldPc /\ cp'[q] = cp[q]
                             /\ cp[q].pc \in HoldPc => cp'[q] = cp[q]
    <2>1. ASSUME NEW q \in Use \ {p}, cp'[q].pc = cp[q].pc PROVE cp'[q] = cp[q]
      <3>1. cp'[q] \in ProcRec /\ cp[q] \in ProcRec /\ cp'[q].b = cp[q].b /\ cp'[q].blk = cp[q].blk
        BY <1>t, <1>5, Zenon DEF Typed
      <3> QED
        BY <2>1, <3>1 DEF ProcRec
    <2>2. \A q \in Use \ {p} : \/ cp'[q].pc = cp[q].pc
                               \/ cp[q].pc = "bsleep" /\ cp'[q].pc = "bget"
      BY <1>5, Zenon
    <2>3. "bsleep" \notin HoldPc /\ "bget" \notin HoldPc
      BY Zenon DEF HoldPc
    <2> QED
      BY <2>1, <2>2, <2>3, Zenon
  <1>10. Held'
    <2>1. \A a, c \in Buf : buf'[a].blk = buf'[c].blk /\ buf'[a].blk # 0 => a = c
      BY <1>3 DEF BufInv, Held
    <2>2. ASSUME NEW c \in Buf, buf'[c].busy PROVE \E q \in Use : Holds(q, c)'
      <3>1. c # b /\ buf[c].busy
        BY <1>3, <2>2, Zenon
      <3>2. PICK q \in Use : Holds(q, c)
        BY <3>1, Zenon DEF BufInv, Held
      <3>3. q # p
        BY <1>2, <3>1, <3>2, Zenon DEF Holds
      <3>4. cp'[q] = cp[q]
        BY <1>9, <3>2, <3>3, Zenon DEF Holds, HoldPc
      <3> QED
        BY <3>2, <3>4, Zenon DEF Holds
    <2>3. cp'[p].pc \notin HoldPc \union {"bsleep", "iotest", "hold", "drop"}
      BY <1>5, Zenon DEF HoldPc
    <2>4. \A q, s \in Use : cp'[q].pc \in HoldPc /\ cp'[s].pc \in HoldPc /\ cp'[q].b = cp'[s].b => q = s
      <3>1. \A q \in Use : cp'[q].pc \in HoldPc => cp[q].pc \in HoldPc /\ cp'[q].b = cp[q].b
        BY <1>9, <2>3, Zenon
      <3> QED
        BY <3>1 DEF BufInv, Held
    <2>5. ASSUME NEW q \in Use \ {p}
          PROVE  /\ cp'[q].pc \in HoldPc \union {"bsleep"} => buf'[cp'[q].b].busy
                 /\ cp'[q].pc \in HoldPc => buf'[cp'[q].b].blk = cp'[q].blk
                 /\ cp'[q].pc \in {"iotest", "hold", "drop"} => buf'[cp'[q].b].valid
                 /\ cp'[q].pc = "iotest" => ~buf'[cp'[q].b].dirty
      <3>1. CASE cp'[q].pc \in HoldPc
        <4>1. cp'[q] = cp[q] /\ cp[q].pc \in HoldPc /\ buf'[cp[q].b] = buf[cp[q].b]
          BY <1>3, <1>4, <1>9, <3>1, Zenon
        <4> QED
          BY <4>1, Zenon DEF BufInv, Held
      <3>2. CASE cp'[q].pc = "bsleep"
        <4>1. cp[q].pc = "bsleep" /\ cp[q].b # b /\ cp'[q].b = cp[q].b
          BY <1>5, <3>2, Zenon
        <4>2. cp[q].b \in Buf \ {b} /\ buf[cp[q].b].busy
          BY <1>t, <4>1 DEF Typed, BufInv, Held
        <4> QED
          BY <1>3, <3>2, <4>1, <4>2 DEF HoldPc
      <3>3. CASE cp'[q].pc \notin HoldPc \union {"bsleep"}
        BY <3>3, Zenon DEF HoldPc
      <3> QED
        BY <3>1, <3>2, <3>3, Zenon
    <2>6. \A q \in Use :
          /\ cp'[q].pc \in HoldPc \union {"bsleep"} => buf'[cp'[q].b].busy
          /\ cp'[q].pc \in HoldPc => buf'[cp'[q].b].blk = cp'[q].blk
          /\ cp'[q].pc \in {"iotest", "hold", "drop"} => buf'[cp'[q].b].valid
          /\ cp'[q].pc = "iotest" => ~buf'[cp'[q].b].dirty
      BY <2>3, <2>5
    <2> QED
      BY <2>1, <2>2, <2>4, <2>6, Zenon DEF Held
  <1>11. Queued'
    <2>1. \A q \in Use : cp'[q].pc = "iosleep" => cp[q].pc = "iosleep" /\ cp'[q].b = cp[q].b
      BY <1>5, <1>9, Zenon DEF HoldPc
    <2>2. \A q \in Use : cp[q].pc = "iosleep" => cp'[q] = cp[q]
      BY <1>1, <1>9, Zenon DEF HoldPc
    <2>3. \A q \in Use : cp'[q].pc = "iosleep" <=> cp[q].pc = "iosleep"
      BY <2>1, <2>2, Zenon
    <2> QED
      BY <1>7, <2>2, <2>3, QueuedKept, Zenon DEF BufInv
  <1>12. Working'
    <2>1. idequeue # <<>> => buf'[idequeue[1]] = buf[idequeue[1]]
      <3>1. SUFFICES ASSUME idequeue # <<>> PROVE buf'[idequeue[1]] = buf[idequeue[1]]
        BY Zenon
      <3>2. 1 \in 1 .. Len(idequeue)
        BY <1>t, <3>1 DEF Typed
      <3>3. idequeue[1] \in Buf \ {b}
        BY <1>1, <1>2, <3>2, HeadHeld, Zenon
      <3> QED
        BY <1>3, <3>3, Zenon
    <2> QED
      BY <1>7, <2>1, Zenon DEF BufInv, Working
  <1>13. Current'
    <2>1. \A c \in Buf : /\ buf'[c].blk = buf[c].blk /\ buf'[c].data = buf[c].data
                         /\ buf'[c].valid = buf[c].valid /\ buf'[c].dirty = buf[c].dirty
      BY <1>3, Zenon
    <2> QED
      BY <1>7, <2>1 DEF BufInv, Current
  <1> QED
    BY <1>8, <1>10, <1>11, <1>12, <1>13 DEF BufInv

-----------------------------------------------------------------------------
(* The cache *)

\* The invariant behind the results below: the queue of the driver holds the buffers of its
\* sleepers, the controller works for the first, and what is valid is up to date.
THEOREM BufInvariant == CSpec => []BufInv
  <1>1. BufInv /\ [CNext]_cVars => BufInv'
    <2> SUFFICES ASSUME BufInv, [CNext]_cVars PROVE BufInv'
      BY Zenon
    <2>1. CASE Disk
      BY <2>1, DiskStep, Zenon
    <2>2. CASE IdeIntr
      BY <2>2, IdeIntrStep, Zenon
    <2>3. ASSUME NEW p \in Use, UseNext(p) PROVE BufInv'
      <3>1. CASE BRead(p) \/ BGetAgain(p)
        BY <3>1, BgetStep, Zenon
      <3>2. CASE IdeRw(p)
        BY <3>2, IdeRwStep, Zenon
      <3>3. CASE IoTest(p)
        BY <3>3, IoTestStep
      <3>4. CASE MemRw(p)
        BY <3>4, MemRwStep, Zenon
      <3>5. CASE BWrite(p)
        BY <3>5, BWriteStep, Zenon
      <3>6. CASE BRelse(p)
        BY <3>6, BRelseStep, Zenon
      <3> QED
        BY <2>3, <3>1, <3>2, <3>3, <3>4, <3>5, <3>6 DEF UseNext
    <2>4. CASE UNCHANGED cVars
      <3>1. UNCHANGED <<drv, buf, mru, idequeue, ctl, dsk, cp, latest>>
        BY <2>4, Zenon DEF cVars
      <3>2. Typed'
        BY <3>1, Zenon DEF BufInv, Typed
      <3>3. Held'
        BY <3>1, Zenon DEF BufInv, Held, Holds
      <3>4. Queued'
        BY <3>1, Zenon DEF BufInv, Queued
      <3>5. Working'
        BY <3>1, Zenon DEF BufInv, Working
      <3>6. Current'
        BY <3>1, Zenon DEF BufInv, Current
      <3> QED
        BY <3>2, <3>3, <3>4, <3>5, <3>6 DEF BufInv
    <2> QED
      BY <2>1, <2>2, <2>3, <2>4, Zenon DEF CNext
  <1> QED
    BY <1>1, BufInit, PTL DEF CSpec

\* What bread hands out is what the last holder of the block left in it, through recycling,
\* write-through, the log's pins and either driver (bread and bwrite of bio.c, iderw, ideintr).
THEOREM ReadsAreCurrent == CSpec => []SeesLatest
  <1>1. BufInv => SeesLatest
    BY DEF BufInv, Typed, Held, Current, SeesLatest, HoldPc
  <1> QED
    BY <1>1, BufInvariant, PTL

\* The types, one buffer per block with one holder at most, and no sleeper that nobody will
\* wake, whatever the numbers of processes and buffers: also when bget finds no buffer to
\* recycle and panics (bget and brelse of bio.c, iderw and ideintr).
THEOREM CacheSound == CSpec => []BuffersSound
  <1>1. BufInv => BuffersSound
    <2> SUFFICES ASSUME BufInv PROVE BuffersSound
      BY Zenon
    <2>t. Typed
      BY Zenon DEF BufInv
    <2>1. CTypeOK
      <3>1. \A b \in Buf : buf[b].blk \in DBlock \union {0} /\ buf[b].data \in {0, 1}
        BY <2>t, Zenon DEF Typed, BufRec
      <3>2. \A p \in Use : cp[p].b \in Buf \union {0}
        BY <2>t, Zenon DEF Typed, ProcRec
      <3> QED
        BY <2>t, <3>1, <3>2 DEF Typed, CTypeOK
    <2>2. OneHolder
      <3>1. \A b \in Buf : buf[b].busy <=> \E p \in Use : Holds(p, b)
        BY Zenon DEF BufInv, Held, Holds, HoldPc
      <3>2. \A p, q \in Use, b \in Buf : Holds(p, b) /\ Holds(q, b) => p = q
        BY DEF BufInv, Held, Holds, HoldPc
      <3> QED
        BY <3>1, <3>2, Zenon DEF OneHolder, BufInv, Held
    <2>3. SleepersWake
      <3>1. idequeue # <<>> => ctl.cmd # "none" /\ ctl.blk = buf[Head(idequeue)].blk
        <4>1. SUFFICES ASSUME idequeue # <<>> PROVE ctl.cmd # "none" /\ ctl.blk = buf[Head(idequeue)].blk
          BY Zenon
        <4>2. Head(idequeue) = idequeue[1]
          BY <2>t, <4>1 DEF Typed
        <4> QED
          BY <4>1, <4>2, Zenon DEF BufInv, Working
      <3> QED
        BY <3>1, Zenon DEF SleepersWake, BufInv, Held, Queued
    <2> QED
      BY <2>1, <2>2, <2>3, Zenon DEF BuffersSound
  <1> QED
    BY <1>1, BufInvariant, PTL

=============================================================================
