------------------------------ MODULE LogProofs ------------------------------
(***************************************************************************)
(* Proofs about module Log, for any operations, blocks, contents and sizes *)
(* of the log: how long a transaction can be, and that the log implements  *)
(* AtomicDisk for as long as the transaction fits the log on disk.         *)
(***************************************************************************)
EXTENDS Log, FiniteSetTheorems, TLAPS

\* The operations between log_write's test and its entry in the log.
Writers == {p \in Ops : hold[p] # NoBlock}

\* LogSound is not inductive.  Its bound on the transaction needs the operations that begin_op
\* has admitted and those of them that have passed the test; its types at recovery need what
\* was in memory at the commit.
ShapeInv ==
  /\ LogSound
  /\ IsInjective(head) /\ Len(head) <= Longest
  /\ lpc = "install" => head = lh
  /\ lpc = "write" => head = <<>>
  /\ lpc \in {"boot", "done"} => lh = <<>>
  /\ lpc = "recover" => lh = head
  /\ lpc \notin {"idle", "panic", "wild"} => active = {}
  /\ outstanding <= LOGSIZE \div MAXOPBLOCKS
  /\ Writers \subseteq active
  /\ lpc = "idle" => n + Cardinality(Writers) <= Longest

Held(b) == \E p \in Ops : hold[p] = b

\* The first entry of the log whose buffer is dirty.
FirstDirty == CASE lpc = "install" -> tail [] lpc = "recover" -> n + 1 [] OTHER -> 1

\* Which contents agree: of clean buffers with the disk, of the log with the buffers, and of
\* the disk with the log where it is installed.
Images ==
  /\ lpc \in {"write", "install", "recover"} => tail <= n + 1
  /\ lpc = "boot" => \A b \in Blocks : cache[b] = NoVal
  /\ \A b \in Blocks : b \in dirty <=> \E i \in FirstDirty .. n : lh[i] = b
  /\ \A b \in Blocks : b \in dirty \/ Held(b) => cache[b] # NoVal
  /\ \A b \in Blocks : b \notin dirty /\ ~Held(b) => cache[b] \in {NoVal, disk[b]}
  /\ lpc = "write" => \A i \in 1 .. tail - 1 : logd[i] = cache[lh[i]]
  /\ lpc = "install" => \A i \in 1 .. n : logd[i] = Bread(lh[i])
  /\ lpc \in {"install", "recover"} => \A i \in 1 .. tail - 1 : disk[lh[i]] = logd[i]

ImageInv == ShapeInv /\ Images

-----------------------------------------------------------------------------
(* Facts about the operators of the model *)

\* A block that is not in the log can be added and no block is named twice.
LEMMA AppendInjective1 ==
  ASSUME NEW s \in Seq(Blocks), IsInjective(s), NEW b \in Blocks, ~Listed(s, b)
  PROVE  IsInjective(Append(s, b))
  BY DEF IsInjective, Listed

\* What log_write makes of the transaction: b is in it, nothing else is new.
LEMMA AbsorbAdds ==
  ASSUME TypeOK, NEW b \in Blocks
  PROVE  /\ Absorb(b) \in Seq(Blocks) /\ IsInjective(Absorb(b))
         /\ Len(Absorb(b)) = IF Listed(lh, b) THEN n ELSE n + 1
         /\ \A i \in 1 .. n : Absorb(b)[i] = lh[i]
         /\ ~Listed(lh, b) => Absorb(b)[n + 1] = b
         /\ \A c \in Blocks : Listed(Absorb(b), c) <=> Listed(lh, c) \/ c = b
  <1>1. CASE Listed(lh, b)
    BY <1>1, Zenon DEF Absorb, TypeOK, n, Listed
  <1>2. CASE ~Listed(lh, b)
    <2>1. IsInjective(Append(lh, b))
      BY <1>2, AppendInjective1 DEF TypeOK
    <2>2. /\ Append(lh, b) \in Seq(Blocks) /\ Len(Append(lh, b)) = n + 1
          /\ \A i \in 1 .. n : Append(lh, b)[i] = lh[i]
          /\ Append(lh, b)[n + 1] = b
      BY DEF TypeOK, n
    <2>3. \A c \in Blocks : Listed(Append(lh, b), c) <=> Listed(lh, c) \/ c = b
      BY <2>2 DEF Listed, TypeOK, n
    <2> QED
      BY <1>2, <2>1, <2>2, <2>3, Zenon DEF Absorb
  <1> QED
    BY <1>1, <1>2, Zenon

\* A bound on a product bounds a factor.
LEMMA DivBound ==
  ASSUME NEW a \in Nat, NEW l \in Nat, NEW m \in Nat \ {0}, a * m <= l
  PROVE  a <= l \div m
  <1>1. PICK q \in Nat : q = l \div m
    OBVIOUS
  <1>2. l < (q + 1) * m
    BY <1>1
  <1>3. CASE a >= q + 1
    <2>1. PICK d \in Nat : a = (q + 1) + d
      BY <1>3
    <2>2. a * m = (q + 1) * m + d * m /\ d * m >= 0
      BY <2>1
    <2> QED
      BY <1>2, <2>2
  <1> QED
    BY <1>1, <1>3

\* The longest transaction: at least one block.
LEMMA LongestIs ==
  /\ Room \in Nat /\ Room >= 1 /\ Room <= LOGSIZE /\ Room <= LogBlocks - 1
  /\ LOGSIZE \div MAXOPBLOCKS \in Nat /\ LOGSIZE \div MAXOPBLOCKS >= 1
  /\ Longest = Room - 1 + LOGSIZE \div MAXOPBLOCKS /\ Longest \in Nat /\ Longest >= 1
  <1>1. Room \in Nat /\ Room >= 1 /\ Room <= LOGSIZE /\ Room <= LogBlocks - 1
    BY LogAssumption DEF Room
  <1>2. LOGSIZE \div MAXOPBLOCKS \in Nat
    BY LogAssumption
  <1>3. LOGSIZE \div MAXOPBLOCKS >= 1
    BY <1>2, LogAssumption, DivBound
  <1> QED
    BY <1>1, <1>2, <1>3 DEF Longest

\* Operations are few: the sets of them are finite, and a subset is not larger.
LEMMA OpsFinite ==
  ASSUME NEW S \in SUBSET Ops, NEW R \in SUBSET S
  PROVE  /\ IsFiniteSet(S) /\ Cardinality(S) \in Nat
         /\ IsFiniteSet(R) /\ Cardinality(R) \in Nat /\ Cardinality(R) <= Cardinality(S)
  <1>1. IsFiniteSet(S)
    BY LogAssumption, FS_Subset, Zenon
  <1> QED
    BY <1>1, FS_Subset, FS_CardinalityType, Zenon

-----------------------------------------------------------------------------
(* The shape of the log *)

\* A new file system is in shape.
LEMMA ShapeInit == Init => ShapeInv
  <1> SUFFICES ASSUME Init PROVE ShapeInv
    BY Zenon
  <1>1. /\ disk \in [Blocks -> Val] /\ logd \in [1 .. (LogBlocks - 1) -> Val]
        /\ cache \in [Blocks -> Val \cup {NoVal}]
    BY LogAssumption, Zenon DEF Init
  <1>2. /\ hold \in [Ops -> Blocks \cup {NoBlock}]
        /\ dirty \subseteq Blocks /\ active \subseteq Ops
    BY Zenon DEF Init
  <1>3. lh = <<>> /\ head = <<>> /\ n = 0 /\ Len(<<>>) = 0 /\ <<>> \in Seq(Blocks) /\ IsInjective(<<>>)
    BY DEF Init, n, IsInjective
  <1>4. lpc = "boot" /\ tail = 1 /\ 0 <= Longest /\ 1 \in Nat \ {0}
    BY LongestIs DEF Init
  <1>5. LogSound
    BY <1>1, <1>2, <1>3, <1>4, Zenon DEF LogSound, TypeOK, NothingToReplay
  <1>6. Writers = {} /\ active = {}
    BY Zenon DEF Init, Writers
  <1>7. outstanding = 0
    BY <1>6, FS_EmptySet, Zenon DEF outstanding
  <1> QED
    BY <1>3, <1>4, <1>5, <1>6, <1>7, LongestIs DEF ShapeInv, Init

\* Steps that leave the transaction and the operations alone, up to where commit() or
\* recovery is.
LEMMA ShapeSameOps ==
  ASSUME ShapeInv, LogSound', UNCHANGED <<lh, active, hold>>,
         IsInjective(head'), Len(head') <= Longest,
         lpc' = "install" => head' = lh, lpc' = "write" => head' = <<>>,
         lpc' \in {"boot", "done"} => lh = <<>>, lpc' = "recover" => lh = head',
         lpc' \notin {"idle", "panic", "wild"} => active = {},
         lpc' = "idle" => n + Cardinality(Writers) <= Longest
  PROVE  ShapeInv'
  <1>1. Writers' = Writers /\ outstanding' = outstanding /\ n' = n
    BY Zenon DEF Writers, outstanding, n
  <1> QED
    BY <1>1, Zenon DEF ShapeInv

\* begin_op admits no more operations than have room in the log.
LEMMA ShapeBeginOp ==
  ASSUME ShapeInv, NEW p \in Ops, BeginOp(p)
  PROVE  ShapeInv'
  <1>1. /\ active \in SUBSET Ops /\ active' \in SUBSET Ops /\ active' = active \cup {p} /\ p \notin active
        /\ lpc = "idle" /\ HasRoom /\ n \in Nat
        /\ UNCHANGED <<disk, logd, head, cache, dirty, lh, hold, lpc, tail>>
    BY DEF BeginOp, ShapeInv, LogSound, TypeOK, diskVars, n
  <1>2. outstanding' = outstanding + 1 /\ outstanding \in Nat
    BY <1>1, OpsFinite, FS_AddElement, Zenon DEF outstanding
  <1>3. outstanding' * MAXOPBLOCKS <= LOGSIZE
    <2>1. (outstanding + 1) * MAXOPBLOCKS \in Nat
      BY <1>2, LogAssumption
    <2> QED
      BY <1>1, <1>2, <2>1, LogAssumption DEF HasRoom
  <1>4. outstanding' <= LOGSIZE \div MAXOPBLOCKS
    BY <1>2, <1>3, DivBound, LogAssumption
  <1>5. LogSound'
    BY <1>1, Zenon DEF ShapeInv, LogSound, TypeOK, NothingToReplay, n
  <1>6. Writers' = Writers /\ n' = n
    BY <1>1, Zenon DEF Writers, n
  <1> QED
    BY <1>1, <1>4, <1>5, <1>6, Zenon DEF ShapeInv

\* log_write lets its caller go on only below the test's bound, where every operation in
\* progress may add a block; the panic leaves the transaction as it is.
LEMMA ShapeLogCheck ==
  ASSUME ShapeInv, NEW p \in Ops, NEW b \in Blocks, NEW v \in Val, LogCheck(p, b, v)
  PROVE  ShapeInv'
  <1>t. TypeOK /\ n \in Nat /\ active \in SUBSET Ops
    BY DEF ShapeInv, LogSound, TypeOK, n
  <1>1. /\ p \in active /\ lpc = "idle" /\ lpc' \in {"idle", "panic"}
        /\ lpc' = "idle" => ~MustPanic
        /\ cache' = [cache EXCEPT ![b] = v] /\ hold' = [hold EXCEPT ![p] = b]
        /\ UNCHANGED <<disk, logd, head, dirty, lh, active, tail>>
    BY DEF LogCheck, diskVars
  <1>2. LogSound'
    BY <1>t, <1>1, Zenon DEF ShapeInv, LogSound, TypeOK, NothingToReplay, n
  <1>3. Writers' \in SUBSET active /\ n' = n /\ outstanding' = outstanding
    BY <1>t, <1>1, Zenon DEF ShapeInv, TypeOK, Writers, n, outstanding
  <1>4. Cardinality(Writers') <= outstanding /\ Cardinality(Writers') \in Nat /\ outstanding \in Nat
    BY <1>t, <1>3, OpsFinite, Zenon DEF outstanding
  <1>5. lpc' = "idle" => n <= Room - 1
    BY <1>t, <1>1, LogAssumption DEF MustPanic, Room
  <1>6. lpc' = "idle" => n' + Cardinality(Writers') <= Longest
    BY <1>t, <1>3, <1>4, <1>5, LongestIs DEF ShapeInv
  <1> QED
    BY <1>1, <1>2, <1>3, <1>6, Zenon DEF ShapeInv

\* log_write's entry is one that its caller's test has allowed for.
LEMMA ShapeLogWrite ==
  ASSUME ShapeInv, NEW p \in Ops, LogWrite(p)
  PROVE  ShapeInv'
  <1>t. TypeOK /\ n \in Nat /\ active \in SUBSET Ops /\ Writers \in SUBSET active
    BY DEF ShapeInv, LogSound, TypeOK, n
  <1>1. PICK b \in Blocks :
          /\ hold[p] = b /\ b # NoBlock /\ lpc = "idle" /\ lpc' \in {"idle", "wild"}
          /\ lh' = Absorb(b) /\ dirty' = dirty \cup {b}
          /\ hold' = [hold EXCEPT ![p] = NoBlock]
          /\ UNCHANGED <<disk, logd, head, cache, active, tail>>
    BY <1>t, LogAssumption, Zenon DEF LogWrite, Pin, ShapeInv, TypeOK, diskVars
  <1>2. /\ lh' \in Seq(Blocks) /\ IsInjective(lh')
        /\ n' = IF Listed(lh, b) THEN n ELSE n + 1
    BY <1>t, <1>1, AbsorbAdds, Zenon DEF n
  <1>3. hold' \in [Ops -> Blocks \cup {NoBlock}] /\ Writers' = Writers \ {p} /\ p \in Writers
    BY <1>t, <1>1, LogAssumption, Zenon DEF TypeOK, Writers
  <1>4. IsFiniteSet(Writers) /\ Cardinality(Writers) \in Nat
    BY <1>t, OpsFinite, Zenon
  <1>5. Cardinality(Writers') = Cardinality(Writers) - 1 /\ Cardinality(Writers') \in Nat
    BY <1>3, <1>4, FS_RemoveElement, FS_CardinalityType, Zenon
  <1>6. n' + Cardinality(Writers') <= Longest /\ n' <= Longest
    BY <1>t, <1>1, <1>2, <1>4, <1>5, LongestIs DEF ShapeInv
  <1>7. LogSound'
    BY <1>t, <1>1, <1>2, <1>3, <1>6 DEF ShapeInv, LogSound, TypeOK, NothingToReplay
  <1>8. Writers' \subseteq active' /\ outstanding' = outstanding
    BY <1>t, <1>1, <1>3, Zenon DEF outstanding
  <1> QED
    BY <1>1, <1>6, <1>7, <1>8, Zenon DEF ShapeInv

\* end_op: an operation that ends is not in log_write.
LEMMA ShapeEndOp ==
  ASSUME ShapeInv, NEW p \in Ops, EndOp(p)
  PROVE  ShapeInv'
  <1>t. TypeOK /\ n \in Nat /\ active \in SUBSET Ops
    BY DEF ShapeInv, LogSound, TypeOK, n
  <1>1. /\ p \in active /\ lpc = "idle" /\ hold[p] = NoBlock /\ tail' = 1
        /\ active' = active \ {p}
        /\ lpc' = IF active # {p} THEN "idle" ELSE IF n > 0 THEN "write" ELSE "done"
        /\ UNCHANGED <<disk, logd, head, cache, dirty, lh, hold>>
    BY Zenon DEF EndOp, diskVars
  <1>2. LogSound' /\ head = <<>>
    <2>1. head = <<>>
      BY <1>1 DEF ShapeInv, LogSound, NothingToReplay
    <2>2. tail' \in Nat \ {0}
      BY <1>1
    <2>3. lpc' \in {"idle", "write", "done"}
      BY <1>1, Zenon
    <2> QED
      BY <1>t, <1>1, <2>1, <2>2, <2>3, Zenon DEF ShapeInv, LogSound, TypeOK, NothingToReplay, n
  <1>3. (lpc' = "done" => lh' = <<>>) /\ (lpc' # "idle" => active' = {}) /\ lpc' \in {"idle", "write", "done"}
    BY <1>t, <1>1 DEF TypeOK, n
  <1>4. Writers' = Writers /\ Writers' \subseteq active' /\ n' = n
    BY <1>1, Zenon DEF ShapeInv, Writers, n
  <1>5. outstanding' <= outstanding /\ outstanding' \in Nat /\ outstanding \in Nat
    <2>1. active' \in SUBSET active
      BY <1>1, Zenon
    <2> QED
      BY <1>t, <2>1, OpsFinite, Zenon DEF outstanding
  <1>6. outstanding' <= LOGSIZE \div MAXOPBLOCKS
    BY <1>5, LongestIs DEF ShapeInv
  <1> QED
    BY <1>1, <1>2, <1>3, <1>4, <1>6, Zenon DEF ShapeInv

\* What a buffer of the cache, or of the disk behind it, holds.
LEMMA BreadType == ASSUME TypeOK, NEW b \in Blocks PROVE Bread(b) \in Val
  BY Zenon DEF TypeOK, Bread

\* The steps of commit() and of recovery.
LEMMA ShapeCommit ==
  ASSUME ShapeInv, WriteLog \/ WriteHead \/ InstallTrans \/ ClearLog \/ CommitDone \/ ReadHead
  PROVE  ShapeInv'
  <1>t. TypeOK /\ n \in Nat /\ n <= Longest
    BY DEF ShapeInv, LogSound, TypeOK, n
  <1>1. CASE WriteLog
    <2>1. lh[tail] \in Blocks /\ tail \in 1 .. n
      BY <1>1, <1>t DEF WriteLog, TypeOK, n
    <2>2. PICK v \in Val : v = Bread(lh[tail])
      BY <1>t, <2>1, BreadType, Zenon
    <2>3. /\ lpc = "write" /\ tail' = tail + 1
          /\ cache' = [cache EXCEPT ![lh[tail]] = v]
          /\ UNCHANGED <<head, dirty, lh, active, hold, lpc>>
      BY <1>1, <2>2, Zenon DEF WriteLog
    <2>4. disk' \in [Blocks -> Val] /\ logd' \in [1 .. (LogBlocks - 1) -> Val]
      <3>1. CASE tail <= LogBlocks - 1
        <4>1. logd' = [logd EXCEPT ![tail] = v] /\ disk' = disk
          BY <1>1, <2>2, <3>1 DEF WriteLog
        <4> QED
          BY <1>t, <4>1, Zenon DEF TypeOK
      <3>2. CASE ~(tail <= LogBlocks - 1)
        <4>1. disk' = [disk EXCEPT ![AfterLog] = v] /\ logd' = logd
          BY <1>1, <2>2, <3>2, Zenon DEF WriteLog
        <4> QED
          BY <1>t, <4>1, Zenon DEF TypeOK
      <3> QED
        BY <3>1, <3>2, Zenon
    <2>5. tail' \in Nat \ {0} /\ cache' \in [Blocks -> Val \cup {NoVal}]
      BY <1>t, <2>1, <2>3, LogAssumption DEF TypeOK
    <2>6. LogSound'
      BY <1>t, <2>3, <2>4, <2>5, Zenon DEF LogSound, TypeOK, NothingToReplay, n
    <2> QED
      BY <2>3, <2>6, ShapeSameOps, Zenon DEF ShapeInv
  <1>2. CASE InstallTrans
    <2>1. lh[tail] \in Blocks /\ tail \in 1 .. n
      BY <1>2, <1>t DEF InstallTrans, TypeOK, n
    <2>2. PICK v \in Val : v = IF tail <= LogBlocks - 1 THEN logd[tail] ELSE disk[AfterLog]
      BY <1>t, <2>1, LogAssumption DEF TypeOK
    <2>3. /\ lpc \in {"install", "recover"} /\ tail' = tail + 1
          /\ disk' = [disk EXCEPT ![lh[tail]] = v]
          /\ cache' = [cache EXCEPT ![lh[tail]] = v]
          /\ dirty' = dirty \ {lh[tail]}
          /\ UNCHANGED <<logd, head, lh, active, hold, lpc>>
      BY <1>2, <2>2, Zenon DEF InstallTrans
    <2>4. disk' \in [Blocks -> Val] /\ cache' \in [Blocks -> Val \cup {NoVal}]
      BY <1>t, <2>3, Zenon DEF TypeOK
    <2>5. tail' \in Nat \ {0}
      BY <1>t, <2>1, <2>3, LogAssumption DEF TypeOK
    <2>6. LogSound'
      BY <1>t, <2>3, <2>4, <2>5, Zenon DEF LogSound, TypeOK, NothingToReplay, n
    <2> QED
      BY <2>3, <2>6, ShapeSameOps, Zenon DEF ShapeInv
  <1>3. CASE WriteHead
    <2>1. /\ lpc = "write" /\ head' = lh /\ lpc' = "install" /\ tail' = 1
          /\ UNCHANGED <<disk, logd, cache, dirty, lh, active, hold>>
      BY <1>3 DEF WriteHead
    <2>2. LogSound'
      BY <1>t, <2>1, LogAssumption DEF LogSound, TypeOK, NothingToReplay, n
    <2> QED
      BY <1>t, <2>1, <2>2, ShapeSameOps, Zenon DEF ShapeInv, TypeOK, n
  <1>4. CASE ClearLog
    <2>1. /\ lpc \in {"install", "recover"} /\ head' = <<>> /\ lh' = <<>>
          /\ lpc' = IF lpc = "install" THEN "done" ELSE "idle"
          /\ UNCHANGED <<disk, logd, cache, dirty, active, hold, tail>>
      BY <1>4, Zenon DEF ClearLog, EmptyHead
    <2>2. <<>> \in Seq(Blocks) /\ IsInjective(<<>>) /\ n' = 0 /\ 0 <= Longest /\ Len(<<>>) = 0
      BY <2>1, LongestIs DEF IsInjective, n
    <2>3. LogSound'
      BY <1>t, <2>1, <2>2, Zenon DEF LogSound, TypeOK, NothingToReplay
    <2>4. active = {} /\ Writers = {} /\ Writers' = {} /\ outstanding' = outstanding
      BY <2>1, Zenon DEF ShapeInv, Writers, outstanding
    <2>5. n' + Cardinality(Writers') <= Longest
      BY <2>2, <2>4, FS_EmptySet
    <2>6. lpc' \in {"done", "idle"}
      BY <2>1, Zenon
    <2> QED
      BY <2>1, <2>2, <2>3, <2>4, <2>5, <2>6, Zenon DEF ShapeInv
  <1>5. CASE CommitDone
    <2>1. /\ lpc = "done" /\ lpc' = "idle"
          /\ UNCHANGED <<disk, logd, head, cache, dirty, lh, active, hold, tail>>
      BY <1>5 DEF CommitDone, diskVars
    <2>2. LogSound'
      BY <1>t, <2>1 DEF ShapeInv, LogSound, TypeOK, NothingToReplay, n
    <2>3. Writers = {} /\ lh = <<>>
      BY <2>1, Zenon DEF ShapeInv
    <2>4. n + Cardinality(Writers) <= Longest
      BY <2>3, FS_EmptySet, LongestIs DEF n
    <2> QED
      BY <2>1, <2>2, <2>4, ShapeSameOps, Zenon DEF ShapeInv
  <1>6. CASE ReadHead
    <2>1. /\ lpc = "boot" /\ lh' = head /\ lpc' = "recover" /\ tail' = 1
          /\ UNCHANGED <<disk, logd, head, cache, dirty, active, hold>>
      BY <1>6 DEF ReadHead, diskVars
    <2>2. LogSound'
      BY <1>t, <2>1, SMTT(30) DEF ShapeInv, LogSound, TypeOK, NothingToReplay, n
    <2>3. active = {} /\ Writers' = Writers /\ outstanding' = outstanding
      BY <2>1, Zenon DEF ShapeInv, Writers, outstanding
    <2> QED
      BY <2>1, <2>2, <2>3, Zenon DEF ShapeInv
  <1> QED
    BY <1>1, <1>2, <1>3, <1>4, <1>5, <1>6, Zenon

\* A crash forgets what is in memory; the reuse of a buffer changes the cache only.
LEMMA ShapeCrash ==
  ASSUME ShapeInv, Crash \/ \E b \in Blocks : Evict(b)
  PROVE  ShapeInv'
  <1>t. TypeOK
    BY Zenon DEF ShapeInv, LogSound
  <1>1. CASE Crash
    <2>1. /\ cache' = [b \in Blocks |-> NoVal] /\ dirty' = {} /\ lh' = <<>> /\ active' = {}
          /\ hold' = [p \in Ops |-> NoBlock]
          /\ lpc' = "boot" /\ tail' = 1 /\ UNCHANGED <<disk, logd, head>>
      BY <1>1, Zenon DEF Crash, diskVars
    <2>2. <<>> \in Seq(Blocks) /\ IsInjective(<<>>) /\ n' = 0 /\ 0 <= Longest /\ 1 \in Nat \ {0}
      BY <2>1, LongestIs DEF IsInjective, n
    <2>3. LogSound'
      BY <1>t, <2>1, <2>2, Zenon DEF LogSound, TypeOK, NothingToReplay
    <2>4. Writers' = {}
      BY <2>1, Zenon DEF Writers
    <2>5. outstanding' = 0
      BY <2>1, FS_EmptySet, Zenon DEF outstanding
    <2> QED
      BY <2>1, <2>2, <2>3, <2>4, <2>5, LongestIs DEF ShapeInv
  <1>2. ASSUME NEW b \in Blocks, Evict(b) PROVE ShapeInv'
    <2>1. /\ cache' = [cache EXCEPT ![b] = NoVal]
          /\ UNCHANGED <<disk, logd, head, dirty, lh, active, hold, lpc, tail>>
      BY <1>2 DEF Evict, diskVars
    <2>2. LogSound'
      BY <1>t, <2>1 DEF ShapeInv, LogSound, TypeOK, NothingToReplay, n
    <2> QED
      BY <2>1, <2>2, ShapeSameOps, Zenon DEF ShapeInv
  <1> QED
    BY <1>1, <1>2, Zenon

\* The invariant of the log in memory and of its header.
THEOREM LogShape == Spec => []ShapeInv
  <1>1. ShapeInv /\ [Next]_vars => ShapeInv'
    <2> SUFFICES ASSUME ShapeInv, [Next]_vars PROVE ShapeInv'
      BY Zenon
    <2>1. CASE Next
      BY <2>1, ShapeBeginOp, ShapeLogCheck, ShapeLogWrite, ShapeEndOp, ShapeCommit, ShapeCrash DEF Next
    <2>2. CASE UNCHANGED vars
      BY <2>2, Zenon DEF vars, ShapeInv, LogSound, TypeOK, NothingToReplay, n, outstanding, Writers
    <2> QED
      BY <2>1, <2>2
  <1> QED
    BY <1>1, ShapeInit, PTL DEF Spec

\* However many operations run at a time, however many blocks each of them logs and however
\* they race past log_write's unlocked test, a transaction names no block twice and has at
\* most Longest blocks, and a crash between two commits replays nothing (begin_op, log_write,
\* end_op, commit).
THEOREM LogKeepsShape == Spec => []LogSound
  <1>1. ShapeInv => LogSound
    BY Zenon DEF ShapeInv
  <1> QED
    BY <1>1, LogShape, PTL

-----------------------------------------------------------------------------
(* What is on disk, in the log and in the buffers *)

\* Where the dirty blocks start in each phase.
LEMMA FirstDirtyIs ==
  /\ lpc = "install" => FirstDirty = tail
  /\ lpc = "recover" => FirstDirty = n + 1
  /\ lpc \notin {"install", "recover"} => FirstDirty = 1
  BY DEF FirstDirty

\* The same of the next state.
LEMMA FirstDirtyWillBe ==
  /\ lpc' = "install" => FirstDirty' = tail'
  /\ lpc' = "recover" => FirstDirty' = n' + 1
  /\ lpc' \notin {"install", "recover"} => FirstDirty' = 1
  BY DEF FirstDirty

\* A new file system: nothing is cached.
LEMMA ImagesInit == Init => Images
  <1> SUFFICES ASSUME Init PROVE Images
    OBVIOUS
  <1>1. lpc = "boot" /\ n = 0 /\ dirty = {} /\ tail = 1 /\ FirstDirty = 1
    BY FirstDirtyIs, Zenon DEF Init, n
  <1>2. \A b \in Blocks : cache[b] = NoVal /\ ~Held(b)
    BY LogAssumption, Zenon DEF Init, Held
  <1> QED
    BY <1>1, <1>2 DEF Images

\* begin_op, end_op and the end of commit() change no contents.
LEMMA ImagesOps ==
  ASSUME ImageInv, (\E p \in Ops : BeginOp(p) \/ EndOp(p)) \/ CommitDone
  PROVE  Images'
  <1>t. TypeOK /\ n \in Nat
    BY DEF ImageInv, ShapeInv, LogSound, TypeOK, n
  <1>1. /\ UNCHANGED <<disk, logd, head, cache, dirty, lh, hold>>
        /\ lpc \in {"idle", "done"} /\ lpc' \in {"idle", "write", "done"}
        /\ lpc' = "write" => tail' = 1
    BY Zenon DEF BeginOp, EndOp, CommitDone, diskVars
  <1>2. n' = n /\ FirstDirty = 1 /\ FirstDirty' = 1 /\ \A b \in Blocks : Held(b)' <=> Held(b)
    BY <1>1, FirstDirtyIs, FirstDirtyWillBe, Zenon DEF n, Held
  <1> QED
    BY <1>t, <1>1, <1>2 DEF ImageInv, Images

\* The caller of log_write changes a buffer that it has locked.
LEMMA ImagesLogCheck ==
  ASSUME ImageInv, NEW p \in Ops, NEW b \in Blocks, NEW v \in Val, LogCheck(p, b, v)
  PROVE  Images'
  <1>t. TypeOK
    BY Zenon DEF ImageInv, ShapeInv, LogSound
  <1>1. /\ UNCHANGED <<disk, logd, head, dirty, lh>>
        /\ cache' = [cache EXCEPT ![b] = v]
        /\ hold[p] = NoBlock /\ hold' = [hold EXCEPT ![p] = b]
        /\ lpc = "idle" /\ lpc' \in {"idle", "panic"}
    BY Zenon DEF LogCheck, diskVars
  <1>2. n' = n /\ FirstDirty = 1 /\ FirstDirty' = 1
    BY <1>1, FirstDirtyIs, FirstDirtyWillBe, Zenon DEF n
  <1>3. \A c \in Blocks : Held(c)' <=> Held(c) \/ c = b
    BY <1>t, <1>1, LogAssumption, Zenon DEF Held, TypeOK
  <1>4. cache'[b] = v /\ v # NoVal /\ \A c \in Blocks \ {b} : cache'[c] = cache[c]
    BY <1>t, <1>1, LogAssumption, Zenon DEF TypeOK
  <1> QED
    BY <1>1, <1>2, <1>3, <1>4 DEF ImageInv, Images

\* log_write pins the buffer that its caller unlocks.
LEMMA ImagesLogWrite ==
  ASSUME ImageInv, NEW p \in Ops, LogWrite(p)
  PROVE  Images'
  <1>t. TypeOK /\ n \in Nat
    BY DEF ImageInv, ShapeInv, LogSound, TypeOK, n
  <1>1. PICK b \in Blocks :
          /\ hold[p] = b /\ b # NoBlock /\ lpc = "idle" /\ lpc' \in {"idle", "wild"}
          /\ lh' = Absorb(b) /\ dirty' = dirty \cup {b}
          /\ hold' = [hold EXCEPT ![p] = NoBlock]
          /\ UNCHANGED <<disk, logd, head, cache>>
    BY <1>t, LogAssumption, Zenon DEF LogWrite, Pin, TypeOK, diskVars
  <1>2. FirstDirty = 1 /\ FirstDirty' = 1
    BY <1>1, FirstDirtyIs, FirstDirtyWillBe, Zenon
  <1>3. \A c \in Blocks : c \in dirty' <=> \E i \in 1 .. n' : lh'[i] = c
    <2>1. \A c \in Blocks : (\E i \in 1 .. n' : lh'[i] = c) <=> Listed(lh', c)
      BY Zenon DEF n, Listed
    <2>2. \A c \in Blocks : (\E i \in 1 .. n : lh[i] = c) <=> Listed(lh, c)
      BY Zenon DEF n, Listed
    <2>3. \A c \in Blocks : Listed(lh', c) <=> Listed(lh, c) \/ c = b
      BY <1>t, <1>1, AbsorbAdds, Zenon
    <2> QED
      BY <1>1, <1>2, <2>1, <2>2, <2>3, Zenon DEF ImageInv, Images
  <1>4. cache[b] # NoVal
    BY <1>1, Zenon DEF ImageInv, Images, Held
  <1>5. \A c \in Blocks \ {b} : Held(c)' <=> Held(c)
    BY <1>t, <1>1, LogAssumption DEF Held, TypeOK
  <1>6. \A c \in Blocks : Held(c)' => Held(c) \/ c = b
    BY <1>5, Zenon
  <1>7. \A c \in Blocks : c \in dirty' \/ Held(c)' => cache'[c] # NoVal
    BY <1>1, <1>4, <1>6, Zenon DEF ImageInv, Images
  <1>8. \A c \in Blocks : c \notin dirty' /\ ~Held(c)' => cache'[c] \in {NoVal, disk'[c]}
    BY <1>1, <1>5 DEF ImageInv, Images
  <1> QED
    BY <1>1, <1>2, <1>3, <1>7, <1>8 DEF Images

\* Only a clean buffer that nobody holds is reused: what it held is on disk.
LEMMA ImagesEvict ==
  ASSUME ImageInv, NEW b \in Blocks, Evict(b)
  PROVE  Images' /\ \A c \in Blocks : Bread(c)' = Bread(c)
  <1>t. TypeOK /\ n \in Nat
    BY DEF ImageInv, ShapeInv, LogSound, TypeOK, n
  <1>1. /\ UNCHANGED <<disk, logd, head, dirty, lh, hold, lpc, tail>>
        /\ cache' = [cache EXCEPT ![b] = NoVal]
        /\ b \notin dirty /\ ~Held(b) /\ cache[b] # NoVal
    BY Zenon DEF Evict, diskVars, Held
  <1>2. n' = n /\ FirstDirty' = FirstDirty /\ \A c \in Blocks : Held(c)' <=> Held(c)
    BY <1>1, Zenon DEF FirstDirty, n, Held
  <1>3. cache'[b] = NoVal /\ \A c \in Blocks \ {b} : cache'[c] = cache[c]
    BY <1>t, <1>1, Zenon DEF TypeOK
  <1>4. cache[b] = disk[b]
    BY <1>1, Zenon DEF ImageInv, Images
  <1>5. \A c \in Blocks : Bread(c)' = Bread(c)
    BY <1>1, <1>3, <1>4, Zenon DEF Bread
  <1>6. \A i \in 1 .. n : lh[i] \in Blocks
    BY <1>t DEF TypeOK, n
  <1>7. ASSUME lpc = "write", NEW i \in 1 .. tail - 1 PROVE logd[i] = cache'[lh[i]]
    <2>1. i \in 1 .. n
      BY <1>t, <1>7 DEF ImageInv, Images, TypeOK
    <2>2. lh[i] \in dirty
      BY <1>6, <1>7, <2>1, FirstDirtyIs, Zenon DEF ImageInv, Images
    <2> QED
      BY <1>1, <1>3, <1>6, <1>7, <2>1, <2>2 DEF ImageInv, Images
  <1> QED
    BY <1>1, <1>2, <1>3, <1>4, <1>5, <1>6, <1>7 DEF ImageInv, Images

\* write_log copies the pinned buffers, one after the other.
LEMMA ImagesWriteLog ==
  ASSUME ImageInv, LogFits, WriteLog
  PROVE  Images' /\ cache' = cache /\ disk' = disk
  <1>t. TypeOK /\ n \in Nat /\ tail \in Nat \ {0} /\ IsInjective(lh)
    BY DEF ImageInv, ShapeInv, LogSound, TypeOK, n
  <1>1. tail \in 1 .. n /\ tail \in 1 .. (LogBlocks - 1) /\ lpc = "write"
    BY <1>t, LogAssumption DEF WriteLog, LogFits
  <1>2. \A i \in 1 .. n : lh[i] \in Blocks
    BY <1>t DEF TypeOK, n
  <1>3. lh[tail] \in Blocks /\ cache[lh[tail]] # NoVal
    <2>1. lh[tail] \in dirty
      BY <1>1, <1>2, FirstDirtyIs, Zenon DEF ImageInv, Images
    <2> QED
      BY <1>1, <1>2, <2>1, Zenon DEF ImageInv, Images
  <1>4. Bread(lh[tail]) = cache[lh[tail]]
    BY <1>3, Zenon DEF Bread
  <1>5. /\ logd' = [logd EXCEPT ![tail] = cache[lh[tail]]] /\ disk' = disk
        /\ cache' = [cache EXCEPT ![lh[tail]] = cache[lh[tail]]]
        /\ tail' = tail + 1 /\ UNCHANGED <<dirty, lh, hold, lpc>>
    BY <1>1, <1>4 DEF WriteLog
  <1>6. cache' = cache
    BY <1>t, <1>5, Zenon DEF TypeOK
  <1>7. n' = n /\ FirstDirty = 1 /\ FirstDirty' = 1 /\ \A c \in Blocks : Held(c)' <=> Held(c)
    BY <1>1, <1>5, FirstDirtyIs, FirstDirtyWillBe, Zenon DEF n, Held
  <1>8. \A i \in 1 .. tail : logd'[i] = cache[lh[i]]
    <2>1. logd'[tail] = cache[lh[tail]] /\ \A i \in 1 .. tail - 1 : logd'[i] = logd[i]
      BY <1>t, <1>1, <1>5 DEF TypeOK
    <2> QED
      BY <1>t, <1>1, <2>1 DEF ImageInv, Images
  <1> QED
    BY <1>t, <1>1, <1>5, <1>6, <1>7, <1>8 DEF ImageInv, Images

\* The commit: all of the transaction is in the log, and every buffer of it is in memory.
LEMMA ImagesWriteHead ==
  ASSUME ImageInv, WriteHead
  PROVE  /\ Images'
         /\ \A i \in 1 .. n : logd[i] = Bread(lh[i])
  <1>t. TypeOK /\ n \in Nat /\ tail \in Nat \ {0}
    BY DEF ImageInv, ShapeInv, LogSound, TypeOK, n
  <1>1. /\ lpc = "write" /\ tail > n /\ lpc' = "install" /\ tail' = 1
        /\ UNCHANGED <<disk, logd, cache, dirty, lh, hold>>
    BY Zenon DEF WriteHead
  <1>2. \A i \in 1 .. n : lh[i] \in Blocks
    BY <1>t DEF TypeOK, n
  <1>3. \A i \in 1 .. n : logd[i] = cache[lh[i]] /\ cache[lh[i]] # NoVal
    <2>1. \A i \in 1 .. n : lh[i] \in dirty
      BY <1>1, <1>2, FirstDirtyIs, Zenon DEF ImageInv, Images
    <2>2. \A i \in 1 .. n : i \in 1 .. tail - 1
      BY <1>t, <1>1
    <2> QED
      BY <1>1, <1>2, <2>1, <2>2, Zenon DEF ImageInv, Images
  <1>4. \A i \in 1 .. n : logd[i] = Bread(lh[i])
    BY <1>3 DEF Bread
  <1>5. \A i \in 1 .. n' : logd'[i] = Bread(lh[i])'
    BY <1>1, <1>4 DEF Bread, n
  <1>6. n' = n /\ FirstDirty = 1 /\ FirstDirty' = 1 /\ \A c \in Blocks : Held(c)' <=> Held(c)
    BY <1>1, FirstDirtyIs, FirstDirtyWillBe DEF n, Held
  <1> QED
    BY <1>t, <1>1, <1>4, <1>5, <1>6 DEF ImageInv, Images

\* install_trans copies one block home; its buffer holds the same.
LEMMA ImagesInstall ==
  ASSUME ImageInv, LogFits, InstallTrans
  PROVE  /\ Images' /\ tail \in 1 .. n /\ lh[tail] \in Blocks
         /\ disk' = [disk EXCEPT ![lh[tail]] = logd[tail]]
         /\ \A b \in Blocks : lpc = "install" => Bread(b)' = Bread(b)
  <1>t. TypeOK /\ n \in Nat /\ tail \in Nat \ {0} /\ IsInjective(lh)
    BY DEF ImageInv, ShapeInv, LogSound, TypeOK, n
  <1>1. tail \in 1 .. n /\ tail \in 1 .. (LogBlocks - 1) /\ lpc \in {"install", "recover"}
    BY <1>t, LogAssumption DEF InstallTrans, LogFits
  <1>2. \A i \in 1 .. n : lh[i] \in Blocks
    BY <1>t DEF TypeOK, n
  <1>3. PICK b \in Blocks : b = lh[tail]
    BY <1>1, <1>2, Zenon
  <1>4. PICK v \in Val : v = logd[tail]
    BY <1>t, <1>1, Zenon DEF TypeOK
  <1>5. /\ disk' = [disk EXCEPT ![b] = v] /\ cache' = [cache EXCEPT ![b] = v]
        /\ dirty' = dirty \ {b} /\ tail' = tail + 1
        /\ UNCHANGED <<logd, head, lh, hold, lpc>>
    BY <1>1, <1>3, <1>4 DEF InstallTrans
  <1>6. /\ disk'[b] = v /\ \A c \in Blocks \ {b} : disk'[c] = disk[c]
        /\ cache'[b] = v /\ \A c \in Blocks \ {b} : cache'[c] = cache[c]
        /\ v # NoVal
    BY <1>t, <1>5, LogAssumption, Zenon DEF TypeOK
  <1>7. \A i \in 1 .. n : lh[i] = b => i = tail
    BY <1>t, <1>1, <1>3 DEF IsInjective, TypeOK, n
  <1>8. n' = n /\ \A c \in Blocks : Held(c)' <=> Held(c)
    BY <1>5, Zenon DEF n, Held
  <1>9. \A c \in Blocks : c \in dirty' <=> \E i \in FirstDirty' .. n' : lh'[i] = c
    <2>1. CASE lpc = "install"
      <3>1. FirstDirty = tail /\ FirstDirty' = tail + 1
        BY <1>5, <2>1, FirstDirtyIs, FirstDirtyWillBe, Zenon
      <3>2. \A i \in tail .. n : i \in tail + 1 .. n <=> lh[i] # b
        BY <1>t, <1>1, <1>3, <1>7
      <3> QED
        BY <1>t, <1>1, <1>5, <1>8, <3>1, <3>2 DEF ImageInv, Images
    <2>2. CASE lpc = "recover"
      <3>1. FirstDirty = n + 1 /\ FirstDirty' = n + 1
        BY <1>5, <1>8, <2>2, FirstDirtyIs, FirstDirtyWillBe, Zenon
      <3> QED
        BY <1>t, <1>5, <1>8, <3>1 DEF ImageInv, Images
    <2> QED
      BY <1>1, <2>1, <2>2, Zenon
  <1>10. \A c \in Blocks : c \in dirty' \/ Held(c)' => cache'[c] # NoVal
    BY <1>5, <1>6, <1>8, Zenon DEF ImageInv, Images
  <1>11. \A c \in Blocks : c \notin dirty' /\ ~Held(c)' => cache'[c] \in {NoVal, disk'[c]}
    BY <1>5, <1>6, <1>8 DEF ImageInv, Images
  <1>12. \A c \in Blocks : lpc = "install" => Bread(c)' = Bread(c)
    <2>1. lpc = "install" => Bread(b) = v
      BY <1>1, <1>3, <1>4 DEF ImageInv, Images
    <2>2. Bread(b)' = v
      BY <1>6 DEF Bread
    <2>3. \A c \in Blocks \ {b} : Bread(c)' = Bread(c)
      BY <1>6, Zenon DEF Bread
    <2> QED
      BY <2>1, <2>2, <2>3
  <1>13. \A i \in 1 .. tail : disk'[lh[i]] = logd[i]
    <2>1. \A i \in 1 .. tail - 1 : disk[lh[i]] = logd[i] /\ lh[i] # b /\ lh[i] \in Blocks
      BY <1>t, <1>1, <1>2, <1>7 DEF ImageInv, Images
    <2> QED
      BY <1>t, <1>3, <1>4, <1>6, <2>1
  <1>14. lpc = "install" => \A i \in 1 .. n : logd[i] = Bread(lh[i])'
    BY <1>2, <1>5, <1>12 DEF ImageInv, Images
  <1>15. Images'
    BY <1>t, <1>1, <1>5, <1>8, <1>9, <1>10, <1>11, <1>13, <1>14 DEF Images
  <1> QED
    BY <1>1, <1>3, <1>4, <1>5, <1>12, <1>15, Zenon

\* Erasing the header, a crash and the reading of the header change no home block.
LEMMA ImagesHeads ==
  ASSUME ImageInv, ClearLog \/ Crash \/ ReadHead
  PROVE  Images'
  <1>t. TypeOK /\ n \in Nat /\ tail \in Nat \ {0} /\ Len(head) \in Nat
    BY DEF ImageInv, ShapeInv, LogSound, TypeOK, n
  <1>1. CASE ClearLog
    <2>1. /\ lpc \in {"install", "recover"} /\ tail > n /\ lh' = <<>> /\ lpc' \in {"done", "idle"}
          /\ UNCHANGED <<disk, cache, dirty, hold>>
      BY <1>1 DEF ClearLog
    <2>2. n' = 0 /\ FirstDirty' = 1 /\ \A c \in Blocks : Held(c)' <=> Held(c)
      BY <2>1, FirstDirtyWillBe DEF n, Held
    <2>3. FirstDirty > n /\ FirstDirty \in Nat
      BY <1>t, <2>1, FirstDirtyIs
    <2>4. \A c \in Blocks : c \notin dirty
      BY <1>t, <2>3 DEF ImageInv, Images
    <2> QED
      BY <2>1, <2>2, <2>4 DEF ImageInv, Images
  <1>2. CASE Crash
    <2>1. /\ lpc' = "boot" /\ lh' = <<>> /\ dirty' = {} /\ cache' = [b \in Blocks |-> NoVal]
          /\ hold' = [p \in Ops |-> NoBlock]
      BY <1>2, Zenon DEF Crash
    <2>2. n' = 0 /\ FirstDirty' = 1 /\ \A c \in Blocks : ~Held(c)' /\ cache'[c] = NoVal
      BY <2>1, FirstDirtyWillBe, LogAssumption DEF n, Held
    <2> QED
      BY <2>1, <2>2 DEF Images
  <1>3. CASE ReadHead
    <2>1. /\ lpc = "boot" /\ lh' = head /\ lpc' = "recover" /\ tail' = 1
          /\ UNCHANGED <<disk, cache, dirty, hold>>
      BY <1>3 DEF ReadHead, diskVars
    <2>2. n = 0 /\ FirstDirty = 1
      BY <2>1, FirstDirtyIs DEF ImageInv, ShapeInv, n
    <2>3. n' = Len(head) /\ FirstDirty' = n' + 1 /\ \A c \in Blocks : Held(c)' <=> Held(c)
      BY <2>1, FirstDirtyWillBe DEF n, Held
    <2>4. \A c \in Blocks : c \notin dirty
      BY <2>2 DEF ImageInv, Images
    <2>5. n' \in Nat /\ tail' <= n' + 1 /\ FirstDirty' .. n' = {} /\ 1 .. tail' - 1 = {}
      BY <1>t, <2>1, <2>3
    <2>6. /\ \A c \in Blocks : c \notin dirty'
          /\ \A c \in Blocks : Held(c)' => cache'[c] # NoVal
          /\ \A c \in Blocks : ~Held(c)' => cache'[c] \in {NoVal, disk'[c]}
      BY <2>1, <2>3, <2>4, Zenon DEF ImageInv, Images
    <2> QED
      BY <2>1, <2>5, <2>6, Zenon DEF Images
  <1> QED
    BY <1>1, <1>2, <1>3, Zenon

\* The inductive invariant of the contents, for as long as a transaction fits the log.
LEMMA ImageStep == ImageInv /\ ShapeInv' /\ LogFits /\ [Next]_vars => Images'
  <1> SUFFICES ASSUME ImageInv, ShapeInv', LogFits, [Next]_vars PROVE Images'
    OBVIOUS
  <1>1. CASE Next
    BY <1>1, ImagesOps, ImagesLogCheck, ImagesLogWrite, ImagesEvict, ImagesWriteLog,
       ImagesWriteHead, ImagesInstall, ImagesHeads DEF Next
  <1>2. CASE UNCHANGED vars
    <2>1. n' = n /\ FirstDirty' = FirstDirty
          /\ \A c \in Blocks : (Held(c)' <=> Held(c)) /\ Bread(c)' = Bread(c)
      BY <1>2, Zenon DEF vars, n, FirstDirty, Held, Bread
    <2>2. \A i \in 1 .. n : Bread(lh[i])' = Bread(lh[i])
      BY <1>2 DEF vars, Bread
    <2> QED
      BY <1>2, <2>1, <2>2 DEF vars, ImageInv, Images
  <1> QED
    BY <1>1, <1>2

-----------------------------------------------------------------------------
(* The log implements AtomicDisk *)

\* What recovery makes of the disk: the blocks of the header as the log has them.
Recovers ==
  /\ head = <<>> => Recovered = disk
  /\ \A i \in 1 .. Len(head) : Recovered[head[i]] = logd[i]
  /\ \A b \in Blocks : ~Listed(head, b) => Recovered[b] = disk[b]

\* It does so for a header that names no block twice.
LEMMA RecoveredIs == ShapeInv => Recovers
  <1> SUFFICES ASSUME ShapeInv PROVE Recovers
    OBVIOUS
  <1>t. disk \in [Blocks -> Val] /\ head \in Seq(Blocks) /\ IsInjective(head)
    BY DEF ShapeInv, LogSound, TypeOK
  <1>1. \A b \in Blocks : ~Listed(head, b) => Recovered[b] = disk[b]
    BY DEF Recovered
  <1>2. ASSUME NEW i \in 1 .. Len(head) PROVE Recovered[head[i]] = logd[i]
    <2>1. head[i] \in Blocks /\ Listed(head, head[i])
      BY <1>t DEF Listed
    <2>2. \A j \in 1 .. Len(head) : head[j] = head[i] => j = i
      BY <1>t DEF IsInjective
    <2>3. (CHOOSE j \in 1 .. Len(head) : head[j] = head[i]) = i
      BY <2>2, Zenon
    <2> QED
      BY <2>1, <2>3, Zenon DEF Recovered
  <1>3. ASSUME head = <<>> PROVE Recovered = disk
    <2>1. \A b \in Blocks : ~Listed(head, b)
      BY <1>3 DEF Listed
    <2>2. Recovered = [b \in Blocks |-> disk[b]]
      BY <2>1, Zenon DEF Recovered
    <2> QED
      BY <1>t, <2>2, Zenon
  <1> QED
    BY <1>1, <1>2, <1>3 DEF Recovers

\* The image that operations read and write, as the refinement mapping has it.
Current == IF lpc \in {"boot", "recover"} THEN Recovered ELSE [b \in Blocks |-> Bread(b)]

\* The same of the next state.
LEMMA RecoveredWillBe == ShapeInv' => Recovers'
  BY RecoveredIs, PTL

\* Recovery depends on the disk alone; operations read the buffers.
LEMMA SameImage ==
  ASSUME UNCHANGED diskVars
  PROVE  /\ Recovered' = Recovered
         /\ (\A b \in Blocks : Bread(b)' = Bread(b)) /\ lpc \notin {"boot", "recover"}
              /\ lpc' \notin {"boot", "recover"} => Current' = Current
  <1>1. Recovered' = Recovered
    BY DEF Recovered, diskVars
  <1>2. ASSUME \A b \in Blocks : Bread(b)' = Bread(b), lpc \notin {"boot", "recover"},
               lpc' \notin {"boot", "recover"}
        PROVE  Current' = Current
    BY <1>2 DEF Current
  <1> QED
    BY <1>1, <1>2, Zenon

\* The steps of operations.
LEMMA AtomicOps ==
  ASSUME ImageInv, NEW p \in Ops, NEW b \in Blocks, NEW v \in Val
  PROVE  /\ BeginOp(p) => UNCHANGED <<Recovered, Current>>
         /\ LogCheck(p, b, v) => /\ UNCHANGED <<Recovered, active>>
                                 /\ Current' = [Current EXCEPT ![b] = v]
         /\ LogWrite(p) => UNCHANGED <<Recovered, Current, active>>
         /\ EndOp(p) => UNCHANGED <<Recovered, Current>>
  <1>t. TypeOK
    BY Zenon DEF ImageInv, ShapeInv, LogSound
  <1>2. ASSUME BeginOp(p) \/ EndOp(p) PROVE UNCHANGED <<Recovered, Current>>
    <2>1. /\ UNCHANGED diskVars /\ cache' = cache /\ disk' = disk
          /\ lpc = "idle" /\ lpc' \in {"idle", "write", "done"}
      BY <1>2 DEF BeginOp, EndOp, diskVars
    <2>2. \A c \in Blocks : Bread(c)' = Bread(c)
      BY <2>1 DEF Bread
    <2> QED
      BY <2>1, <2>2, SameImage
  <1>3. ASSUME LogWrite(p) PROVE UNCHANGED <<Recovered, Current, active>>
    <2>1. UNCHANGED diskVars /\ UNCHANGED <<cache, disk, active>> /\ lpc = "idle" /\ lpc' \in {"idle", "wild"}
      BY <1>3 DEF LogWrite, diskVars
    <2>2. \A c \in Blocks : Bread(c)' = Bread(c)
      BY <2>1 DEF Bread
    <2> QED
      BY <2>1, <2>2, SameImage
  <1>4. ASSUME LogCheck(p, b, v)
        PROVE  UNCHANGED <<Recovered, active>> /\ Current' = [Current EXCEPT ![b] = v]
    <2>1. /\ UNCHANGED diskVars /\ cache' = [cache EXCEPT ![b] = v] /\ UNCHANGED <<disk, active>>
          /\ lpc = "idle" /\ lpc' \in {"idle", "panic"}
      BY <1>4 DEF LogCheck, diskVars
    <2>2. Bread(b)' = v /\ \A c \in Blocks \ {b} : Bread(c)' = Bread(c)
      BY <1>t, <2>1, LogAssumption DEF Bread, TypeOK
    <2>3. Current = [c \in Blocks |-> Bread(c)] /\ Current' = [c \in Blocks |-> Bread(c)']
      BY <2>1 DEF Current
    <2>4. [c \in Blocks |-> Bread(c)'] = [[c \in Blocks |-> Bread(c)] EXCEPT ![b] = v]
      BY <2>2, Zenon
    <2> QED
      BY <2>1, <2>3, <2>4, SameImage
  <1> QED
    BY <1>2, <1>3, <1>4

\* The steps of commit() and of recovery, and a crash.
LEMMA AtomicCommit ==
  ASSUME ImageInv, ImageInv', LogFits
  PROVE  /\ WriteLog \/ InstallTrans \/ ClearLog \/ CommitDone \/ ReadHead =>
              UNCHANGED <<Recovered, Current, active>>
         /\ WriteHead => /\ active = {} /\ UNCHANGED <<Current, active>>
                         /\ Recovered' = Current
         /\ Crash => UNCHANGED Recovered /\ Current' = Recovered /\ active' = {}
  <1>t. /\ TypeOK /\ n \in Nat /\ tail \in Nat \ {0} /\ ShapeInv /\ ShapeInv' /\ IsInjective(lh)
        /\ \A i \in 1 .. n : lh[i] \in Blocks
    <2>1. ShapeInv /\ ShapeInv'
      BY Zenon DEF ImageInv
    <2>2. TypeOK
      BY <2>1, Zenon DEF ShapeInv, LogSound
    <2> QED
      BY <2>1, <2>2 DEF TypeOK, n
  <1>d. Recovered = [b \in Blocks |-> Recovered[b]] /\ Recovered' = [b \in Blocks |-> Recovered'[b]]
    BY DEF Recovered
  <1>1. ASSUME WriteLog PROVE UNCHANGED <<Recovered, Current, active>>
    <2>1. cache' = cache /\ disk' = disk /\ UNCHANGED <<head, lpc, active>> /\ lpc = "write"
      BY <1>1, ImagesWriteLog DEF WriteLog
    <2>2. head = <<>> /\ head' = <<>>
      BY <2>1, <1>t DEF ShapeInv
    <2>3. Recovered' = Recovered
      BY <2>1, <2>2, <1>t, RecoveredIs, RecoveredWillBe DEF Recovers
    <2>4. \A c \in Blocks : Bread(c)' = Bread(c)
      BY <2>1 DEF Bread
    <2> QED
      BY <2>1, <2>3, <2>4 DEF Current
  <1>2. ASSUME InstallTrans PROVE UNCHANGED <<Recovered, Current, active>>
    <2>1. /\ UNCHANGED <<head, logd, lpc, active>> /\ lpc \in {"install", "recover"} /\ lh = head
          /\ tail \in 1 .. n /\ lh[tail] \in Blocks
          /\ disk' = [disk EXCEPT ![lh[tail]] = logd[tail]]
          /\ \A c \in Blocks : lpc = "install" => Bread(c)' = Bread(c)
      BY <1>2, <1>t, ImagesInstall DEF InstallTrans, ShapeInv
    <2>2. \A c \in Blocks : ~Listed(head, c) => disk'[c] = disk[c]
      BY <1>t, <2>1 DEF TypeOK, Listed, n
    <2>3. Recovered' = Recovered
      BY <2>1, <2>2 DEF Recovered
    <2> QED
      BY <2>1, <2>3 DEF Current
  <1>3. ASSUME ClearLog PROVE UNCHANGED <<Recovered, Current, active>>
    <2>1. /\ UNCHANGED <<disk, cache, active>> /\ head' = <<>> /\ lpc \in {"install", "recover"}
          /\ tail > n /\ lpc' \in {"done", "idle"} /\ lh = head
      BY <1>3, <1>t, Zenon DEF ClearLog, EmptyHead, ShapeInv
    <2>2. Recovered' = disk
      BY <2>1, <1>t, RecoveredWillBe, Zenon DEF Recovers
    <2>3. \A c \in Blocks : Recovered[c] = disk[c]
      <3>1. \A i \in 1 .. n : disk[lh[i]] = logd[i]
        <4>1. \A i \in 1 .. tail - 1 : disk[lh[i]] = logd[i]
          BY <2>1, Zenon DEF ImageInv, Images
        <4>2. \A i \in 1 .. n : i \in 1 .. tail - 1
          BY <2>1, <1>t
        <4> QED
          BY <4>1, <4>2, Zenon
      <3>2. \A c \in Blocks : Listed(head, c) => \E i \in 1 .. Len(head) : head[i] = c
        BY Zenon DEF Listed
      <3> QED
        BY <2>1, <3>1, <3>2, <1>t, RecoveredIs DEF n, Recovers
    <2>4. Recovered = disk
      BY <1>d, <1>t, <2>3, Zenon DEF TypeOK
    <2>5. \A c \in Blocks : Bread(c)' = Bread(c)
      BY <2>1, Zenon DEF Bread
    <2>6. lpc = "recover" => \A c \in Blocks : Bread(c) = disk[c]
      <3>1. SUFFICES ASSUME lpc = "recover" PROVE \A c \in Blocks : Bread(c) = disk[c]
        BY Zenon
      <3>2. \A c \in Blocks : c \notin dirty
        BY <3>1, <1>t, FirstDirtyIs DEF ImageInv, Images
      <3>3. \A c \in Blocks : ~Held(c)
        BY <3>1, <1>t, LogAssumption, Zenon DEF ShapeInv, Held, Writers
      <3> QED
        BY <3>2, <3>3, Zenon DEF ImageInv, Images, Bread
    <2>7. CASE lpc = "install"
      BY <2>1, <2>2, <2>4, <2>5, <2>7, Zenon DEF Current
    <2>8. CASE lpc = "recover"
      <3>1. Current = disk
        BY <2>4, <2>8, Zenon DEF Current
      <3>2. Current' = [c \in Blocks |-> disk[c]]
        BY <2>1, <2>5, <2>6, <2>8, Zenon DEF Current
      <3> QED
        BY <3>1, <3>2, <2>1, <2>2, <2>4, <1>t, Zenon DEF TypeOK
    <2> QED
      BY <2>1, <2>7, <2>8, Zenon
  <1>4. ASSUME CommitDone PROVE UNCHANGED <<Recovered, Current, active>>
    <2>1. UNCHANGED diskVars /\ UNCHANGED <<disk, cache, active>> /\ lpc = "done" /\ lpc' = "idle"
      BY <1>4 DEF CommitDone, diskVars
    <2>2. \A c \in Blocks : Bread(c)' = Bread(c)
      BY <2>1 DEF Bread
    <2> QED
      BY <2>1, <2>2, SameImage
  <1>5. ASSUME ReadHead PROVE UNCHANGED <<Recovered, Current, active>>
    <2>1. UNCHANGED diskVars /\ active' = active /\ lpc = "boot" /\ lpc' = "recover"
      BY <1>5 DEF ReadHead
    <2> QED
      BY <2>1, SameImage DEF Current
  <1>6. ASSUME WriteHead
        PROVE  active = {} /\ UNCHANGED <<Current, active>> /\ Recovered' = Current
    <2>1. /\ lpc = "write" /\ lpc' = "install" /\ head' = lh /\ UNCHANGED <<disk, logd, cache, active>>
      BY <1>6 DEF WriteHead
    <2>2. active = {} /\ \A c \in Blocks : ~Held(c)
      BY <2>1, <1>t, LogAssumption, Zenon DEF ShapeInv, Held, Writers
    <2>3. \A c \in Blocks : Bread(c)' = Bread(c)
      BY <2>1, Zenon DEF Bread
    <2>4. Current = [c \in Blocks |-> Bread(c)] /\ Current' = Current
      BY <2>1, <2>3 DEF Current
    <2>5. \A i \in 1 .. n : Recovered'[lh[i]] = Bread(lh[i])
      BY <1>6, <1>t, <2>1, RecoveredWillBe, ImagesWriteHead, Zenon DEF n, Recovers
    <2>6. \A c \in Blocks : ~Listed(lh, c) => Recovered'[c] = Bread(c)
      <3>1. \A c \in Blocks : ~Listed(lh, c) => c \notin dirty
        BY <2>1, FirstDirtyIs DEF ImageInv, Images, Listed, n
      <3>2. \A c \in Blocks : ~Listed(lh, c) => Bread(c) = disk[c]
        BY <3>1, <2>2, Zenon DEF ImageInv, Images, Bread
      <3> QED
        BY <3>2, <2>1, <1>t, RecoveredWillBe, Zenon DEF Recovers
    <2>7. \A c \in Blocks : Recovered'[c] = Bread(c)
      BY <2>5, <2>6, Zenon DEF Listed, n
    <2> QED
      BY <1>d, <2>1, <2>2, <2>4, <2>7
  <1>7. ASSUME Crash PROVE UNCHANGED Recovered /\ Current' = Recovered /\ active' = {}
    BY <1>7, SameImage, Zenon DEF Crash, Current
  <1> QED
    BY <1>1, <1>2, <1>3, <1>4, <1>5, <1>6, <1>7

\* Every step of the log is a step of AtomicDisk, or leaves its variables alone.
LEMMA AtomicStep ==
  ImageInv /\ ImageInv' /\ LogFits /\ [Next]_vars => [Abstract!Next]_(Abstract!vars)
  <1> SUFFICES ASSUME ImageInv, ImageInv', LogFits, [Next]_vars
               PROVE  [Abstract!Next]_(Abstract!vars)
    BY Zenon
  <1>a. AfterLog \in Blocks /\ Zero \in Val
    BY LogAssumption, Zenon
  <1>1. UNCHANGED <<Recovered, Current, active>> => UNCHANGED Abstract!vars
    BY DEF Abstract!vars, Current
  <1>2. ASSUME NEW p \in Ops, BeginOp(p) PROVE Abstract!Next
    <2>1. UNCHANGED <<Recovered, Current>>
      BY <1>2, <1>a, AtomicOps, Zenon
    <2>2. Abstract!Begin(p)
      BY <1>2, <2>1 DEF Abstract!Begin, BeginOp, Current
    <2> QED
      BY <2>2, Zenon DEF Abstract!Next
  <1>3. ASSUME NEW p \in Ops, EndOp(p) PROVE Abstract!Next
    <2>1. UNCHANGED <<Recovered, Current>>
      BY <1>3, <1>a, AtomicOps, Zenon
    <2>2. Abstract!End(p)
      BY <1>3, <2>1 DEF Abstract!End, EndOp, Current
    <2> QED
      BY <2>2 DEF Abstract!Next
  <1>4. ASSUME NEW p \in Ops, NEW b \in Blocks, NEW v \in Val, LogCheck(p, b, v) PROVE Abstract!Next
    <2>1. Abstract!Write(p, b, v)
      BY <1>4, AtomicOps, Zenon DEF Abstract!Write, LogCheck, Current
    <2> QED
      BY <2>1 DEF Abstract!Next
  <1>5. ASSUME WriteHead PROVE Abstract!Next
    <2>1. Abstract!Commit
      BY <1>5, AtomicCommit, Zenon DEF Abstract!Commit, Current
    <2> QED
      BY <2>1, Zenon DEF Abstract!Next
  <1>6. ASSUME Crash PROVE Abstract!Next
    <2>1. Abstract!Crash
      BY <1>6, AtomicCommit, Zenon DEF Abstract!Crash, Current
    <2> QED
      BY <2>1 DEF Abstract!Next
  <1>7. ASSUME \/ \E b \in Blocks : Evict(b)
               \/ \E p \in Ops : LogWrite(p)
               \/ WriteLog \/ InstallTrans \/ ClearLog \/ CommitDone \/ ReadHead
        PROVE  UNCHANGED <<Recovered, Current, active>>
    <2>1. ASSUME NEW p \in Ops, LogWrite(p) PROVE UNCHANGED <<Recovered, Current, active>>
      BY <2>1, <1>a, AtomicOps, Zenon
    <2>2. ASSUME NEW b \in Blocks, Evict(b) PROVE UNCHANGED <<Recovered, Current, active>>
      <3>1. UNCHANGED diskVars /\ UNCHANGED <<lpc, active>>
        BY <2>2, Zenon DEF Evict
      <3>2. Recovered' = Recovered /\ \A c \in Blocks : Bread(c)' = Bread(c)
        BY <2>2, <3>1, SameImage, ImagesEvict, Zenon
      <3> QED
        BY <3>1, <3>2, Zenon DEF Current
    <2> QED
      BY <1>7, <2>1, <2>2, AtomicCommit, Zenon
  <1>8. ASSUME UNCHANGED vars PROVE UNCHANGED <<Recovered, Current, active>>
    BY <1>8 DEF vars, Recovered, Current, Bread
  <1> QED
    BY <1>1, <1>2, <1>3, <1>4, <1>5, <1>6, <1>7, <1>8, Zenon DEF Next

\* A new file system is one whose committed image is all zero.
LEMMA AtomicInit == Init => Abstract!Init
  <1> SUFFICES ASSUME Init PROVE Abstract!Init
    BY Zenon
  <1>1. Recovered = disk /\ Current = Recovered
    BY ShapeInit, RecoveredIs DEF Init, Current, Recovers
  <1> QED
    BY <1>1, Zenon DEF Init, Abstract!Init, Current

\* As long as no transaction outgrows the log on disk, the log implements AtomicDisk: whatever
\* is absorbed, evicted and interrupted by crashes, also in recovery, a read sees the latest
\* write, and a crash undoes exactly the operations since the last commit.
THEOREM LogIsAtomic == Spec /\ []LogFits => Atomic
  <1>1. Init /\ ShapeInv => ImageInv
    BY ImagesInit, Zenon DEF ImageInv
  <1>2. ImageInv /\ LogFits /\ ShapeInv' /\ [Next]_vars => ImageInv'
    BY ImageStep DEF ImageInv
  <1>3. Spec /\ []LogFits => []ImageInv
    BY <1>1, <1>2, LogShape, PTL DEF Spec
  <1> QED
    BY <1>3, AtomicInit, AtomicStep, PTL DEF Spec, Atomic, Abstract!Spec

=============================================================================
