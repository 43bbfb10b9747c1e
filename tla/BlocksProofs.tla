---------------------------- MODULE BlocksProofs ----------------------------
(***************************************************************************)
(* Proofs about module Blocks, for any disk, block size, numbers of direct *)
(* and indirect blocks, processes and files: a block has one owner, and    *)
(* what was written is what is read.                                       *)
(***************************************************************************)
EXTENDS Blocks, TLAPS

-----------------------------------------------------------------------------
(* The inductive invariant *)

Places == 0 .. MAXFILE
Offset == 0 .. MAXFILE * BSIZE
Number == Block \union {0}
Pc     == {"idle", "chunk", "copy", "commit", "trunc"}
Call   == [pc : Pc, n : Nat, n1 : Nat, tot : Nat, at : 0 .. MAXFILE + 1, calls : Nat]

BlockTypes ==
    /\ bitmap \subseteq Block /\ data \in [Block -> [Bytes -> Nat]]
    /\ addrs \in [Inode -> [0 .. NDIRECT -> Number]]
    /\ isize \in [Inode -> Offset] /\ fp \in [BProc -> [ip : Inode, off : Offset]]
    /\ wr \in [BProc -> Call] /\ flat \in [Inode -> Seq(Nat)]

\* p has inode i locked
Holds(p, i) == fp[p].ip = i /\ wr[p].pc \in {"copy", "trunc"}

\* The lock of an inode, and what its holder may rely on: nobody else has a file open that is
\* being freed, a write starts inside the file and ends inside its largest size.
LockInv ==
    /\ \A p, q \in BProc : \A i \in Inode : Holds(p, i) /\ Holds(q, i) => p = q
    /\ \A p, q \in BProc : wr[p].pc = "trunc" /\ fp[q].ip = fp[p].ip => p = q
    /\ \A p \in BProc : wr[p].pc = "copy" =>
          wr[p].tot <= wr[p].n1 /\ wr[p].n1 <= wr[p].n /\ fp[p].off + wr[p].n1 <= MAXFILE * BSIZE
    /\ \A p \in BProc : fp[p].off <= isize[fp[p].ip]

\* itrunc has given back the block of place k of inode i
Gone(i, k) == \E p \in BProc : fp[p].ip = i /\ wr[p].pc = "trunc" /\ k < wr[p].at

\* The blocks that the bitmap marks are those of the places not yet given back, and no two
\* places have the same one.
Marked == \A b \in Block : b \in bitmap <=> \E i \in Inode, k \in Places : ~Gone(i, k) /\ Place(i, k) = b
Twice(i, k, j, l) == ~Gone(i, k) /\ ~Gone(j, l) /\ Place(i, k) = Place(j, l) /\ Place(i, k) # 0
Owned  == \A i, j \in Inode : \A k, l \in Places : Twice(i, k, j, l) => i = j /\ k = l
Named  == \A i \in Inode : \A k \in Places : Place(i, k) \in Number
Struck == \A i \in Inode : /\ \A k \in 0 .. NDIRECT - 1 : Gone(i, k) => addrs[i][k] = 0
                           /\ Gone(i, MAXFILE) => addrs[i][NDIRECT] = 0

\* byte x of inode i, through its blocks, and what it has to be: a write in progress shows
Byte(i, x)       == data[bmap(i, x \div BSIZE)][x % BSIZE]
Written(p, i, x) == /\ fp[p].ip = i /\ wr[p].pc = "copy"
                    /\ fp[p].off <= x /\ x < fp[p].off + wr[p].tot
Holding(i, x, v) == bmap(i, x \div BSIZE) # 0 /\ Byte(i, x) = v
Truncating(i)    == \E p \in BProc : fp[p].ip = i /\ wr[p].pc = "trunc"
Contents ==
    \A i \in Inode : ~Truncating(i) =>
      \A x \in 0 .. MAXFILE * BSIZE - 1 :
        /\ \A p \in BProc : Written(p, i, x) => Holding(i, x, p)
        /\ x < isize[i] /\ ~(\E p \in BProc : Written(p, i, x)) => Holding(i, x, flat[i][x + 1])
Sizes == \A i \in Inode : Len(flat[i]) = isize[i]

BlocksInv == BlockTypes /\ LockInv /\ Marked /\ Owned /\ Named /\ Struck /\ Contents /\ Sizes

-----------------------------------------------------------------------------
(* Numbers *)

\* The sizes are numbers.
LEMMA Consts ==
    /\ NDIRECT \in Nat /\ NINDIRECT \in Nat /\ BSIZE \in Nat \ {0} /\ NBLOCKS \in Nat
    /\ MAXFILE \in Nat /\ MAXFILE = NDIRECT + NINDIRECT /\ MAXFILE * BSIZE \in Nat
  BY BlocksAssumption DEF MAXFILE

\* The two sizes that the arithmetic below is about.
LEMMA BlockSize == BSIZE \in Nat \ {0} /\ MAXFILE \in Nat
  BY Consts, Zenon

\* A byte below the largest size of a file is in a data block of the file.
LEMMA DivIn ==
    ASSUME NEW n \in Nat, NEW m \in Nat \ {0}, NEW x \in 0 .. n * m - 1
    PROVE  x \div m \in 0 .. n - 1 /\ x % m \in 0 .. m - 1
  OBVIOUS

\* The same for the files of this disk.
LEMMA InFile ==
    ASSUME NEW x \in 0 .. MAXFILE * BSIZE - 1
    PROVE  x \div BSIZE \in 0 .. MAXFILE - 1 /\ x % BSIZE \in 0 .. BSIZE - 1
  BY BlockSize, DivIn, Zenon

\* Bytes of one block are as far apart in the block as they are in the file.
LEMMA DivSame ==
    ASSUME NEW x \in Nat, NEW y \in Nat, NEW m \in Nat \ {0}, x \div m = y \div m
    PROVE  x - y = (x % m) - (y % m)
  OBVIOUS

\* The same for blocks of BSIZE bytes.
LEMMA SameBlock ==
    ASSUME NEW x \in Nat, NEW y \in Nat, x \div BSIZE = y \div BSIZE
    PROVE  x - y = (x % BSIZE) - (y % BSIZE)
  BY BlockSize, DivSame, Zenon

\* What writei copies at once, from y on, stays in the block of y.
LEMMA DivNext ==
    ASSUME NEW x \in Nat, NEW y \in Nat, NEW m \in Nat \ {0}, y <= x, x - y < m - (y % m)
    PROVE  x \div m = y \div m
  OBVIOUS

\* The same for blocks of BSIZE bytes.
LEMMA NextInBlock ==
    ASSUME NEW x \in Nat, NEW y \in Nat, y <= x, x - y < BSIZE - (y % BSIZE)
    PROVE  x \div BSIZE = y \div BSIZE
  BY BlockSize

-----------------------------------------------------------------------------
(* What the steps do to the process that takes them *)

\* Only p moves, and it stays with its file.
Moves(p) ==
    /\ fp' \in [BProc -> [ip : Inode, off : Offset]] /\ wr' \in [BProc -> Call]
    /\ fp'[p].ip = fp[p].ip
    /\ \A q \in BProc \ {p} : fp'[q] = fp[q] /\ wr'[q] = wr[q]

Goes(p, a, b) == Moves(p) /\ wr[p].pc = a /\ wr'[p].pc = b

Disk == <<bitmap, addrs, data, isize, flat>>

\* A process at rest is idle.
LEMMA RestIs == Rest \in Call /\ Rest.pc = "idle"
  BY Consts DEF Rest, Call, Pc

\* fileread moves the offset within the file and touches nothing else.
LEMMA FileReadGoes ==
    ASSUME BlockTypes, LockInv, NEW p \in BProc, FileRead(p)
    PROVE  /\ Goes(p, "idle", "idle") /\ fp'[p].off <= isize[fp[p].ip]
           /\ UNCHANGED Disk /\ bPanic' = bPanic
  <1>1. PICK n \in Lengths : fp' = [fp EXCEPT ![p].off = @ + Len(readi(fp[p].ip, fp[p].off, n))]
    BY Zenon DEF FileRead
  <1>2. /\ wr' = [wr EXCEPT ![p].calls = @ + 1] /\ wr[p].pc = "idle"
        /\ UNCHANGED Disk /\ bPanic' = bPanic
    BY Zenon DEF FileRead, Doing, Disk
  <1>3. PICK i \in Inode, off \in Offset : i = fp[p].ip /\ off = fp[p].off
    BY Zenon DEF BlockTypes
  <1>4. off <= isize[i] /\ isize[i] \in Offset
    BY <1>3, Zenon DEF LockInv, BlockTypes
  <1>5. off + Len(readi(i, off, n)) \in Offset /\ off + Len(readi(i, off, n)) <= isize[i]
    <2>1. PICK m \in Nat : /\ m = IF off + n > isize[i] THEN isize[i] - off ELSE n
                           /\ off + m \in Offset /\ off + m <= isize[i]
      <3>1. n \in Nat
        BY BlocksAssumption
      <3>2. /\ (IF off + n > isize[i] THEN isize[i] - off ELSE n) \in Nat
            /\ off + (IF off + n > isize[i] THEN isize[i] - off ELSE n) \in Offset
            /\ off + (IF off + n > isize[i] THEN isize[i] - off ELSE n) <= isize[i]
        BY <1>4, <3>1, Consts DEF Offset
      <3> QED BY <3>2, Zenon
    <2>2. PICK s : s = readi(i, off, n)
      OBVIOUS
    <2>3. s = [k \in 1 .. m |-> data[bmap(i, (off + k - 1) \div BSIZE)][(off + k - 1) % BSIZE]]
      BY <2>1, <2>2, Zenon DEF readi
    <2>4. Len(s) = m
      BY <2>1, <2>3
    <2> QED BY <2>1, <2>2, <2>4, Zenon
  <1>6. /\ fp' \in [BProc -> [ip : Inode, off : Offset]] /\ fp'[p].ip = i /\ fp'[p].off <= isize[i]
        /\ \A q \in BProc \ {p} : fp'[q] = fp[q]
    <2>1. PICK o \in Offset : o = off + Len(readi(i, off, n)) /\ o <= isize[i]
      BY <1>5, Zenon
    <2>2. fp' = [fp EXCEPT ![p] = [fp[p] EXCEPT !.off = o]]
      BY <1>1, <1>3, <2>1, Zenon
    <2> QED BY <1>3, <2>1, <2>2, Zenon DEF BlockTypes
  <1>7. /\ wr' \in [BProc -> Call] /\ wr'[p].pc = "idle"
        /\ \A q \in BProc \ {p} : wr'[q] = wr[q]
    <2>1. wr \in [BProc -> Call]
      BY Zenon DEF BlockTypes
    <2>2. wr' = [wr EXCEPT ![p].calls = @ + 1] /\ wr[p].pc = "idle"
      BY <1>2, Zenon
    <2> QED BY <2>1, <2>2 DEF Call
  <1> QED BY <1>2, <1>3, <1>6, <1>7, Zenon DEF Goes, Moves

\* filewrite starts with a number of bytes to write and touches nothing yet.
LEMMA FileWriteGoes ==
    ASSUME BlockTypes, NEW p \in BProc, FileWrite(p)
    PROVE  Goes(p, "idle", "chunk") /\ fp' = fp /\ UNCHANGED Disk /\ bPanic' = bPanic
  <1>1. PICK n \in Lengths : wr' = [wr EXCEPT ![p].pc = "chunk", ![p].n = n, ![p].calls = @ + 1]
    BY Zenon DEF FileWrite
  <1>2. wr[p].pc = "idle" /\ fp' = fp /\ UNCHANGED Disk /\ bPanic' = bPanic
    BY Zenon DEF FileWrite, Doing, Disk
  <1>3. n \in Nat /\ wr \in [BProc -> Call]
    BY BlocksAssumption, Zenon DEF BlockTypes
  <1>4. wr' \in [BProc -> Call] /\ wr'[p].pc = "chunk" /\ \A q \in BProc \ {p} : wr'[q] = wr[q]
    BY <1>1, <1>3 DEF Call, Pc
  <1> QED BY <1>2, <1>4, Zenon DEF Goes, Moves, BlockTypes

\* writei starts inside the file and ends inside the largest one.
LEMMA ChunkGoes ==
    ASSUME BlockTypes, NEW p \in BProc, Chunk(p)
    PROVE  /\ fp' = fp /\ UNCHANGED Disk /\ bPanic' = bPanic /\ ~Locked(fp[p].ip)
           /\ \/ Goes(p, "chunk", "idle")
              \/ /\ Goes(p, "chunk", "copy") /\ wr'[p].tot = 0 /\ wr'[p].n1 <= wr'[p].n
                 /\ fp[p].off + wr'[p].n1 <= MAXFILE * BSIZE
  <1>1. /\ wr[p].pc = "chunk" /\ fp' = fp /\ UNCHANGED Disk /\ bPanic' = bPanic /\ ~Locked(fp[p].ip)
    BY Zenon DEF Chunk, Doing, Disk
  <1>2. wr \in [BProc -> Call] /\ wr[p].n \in Nat /\ wr[p].calls \in Nat /\ fp \in [BProc -> [ip : Inode, off : Offset]]
    BY DEF BlockTypes, Call
  <1>3. PICK n1 \in Nat : n1 = Min2(wr[p].n, maxWrite) /\ n1 <= wr[p].n
    <2>1. maxWrite \in Nat
      <3>1. (LOGSIZE - 1 - 1 - 2) \div 2 \in Nat
        BY BlocksAssumption
      <3>2. PICK h \in Nat : h = (LOGSIZE - 1 - 1 - 2) \div 2
        BY <3>1, Zenon
      <3>3. h * BSIZE \in Nat
        BY Consts
      <3> QED BY <3>2, <3>3, Zenon DEF maxWrite
    <2>2. Min2(wr[p].n, maxWrite) \in Nat /\ Min2(wr[p].n, maxWrite) <= wr[p].n
      BY <1>2, <2>1 DEF Min2
    <2> QED BY <2>2, Zenon
  <1>4. CASE fp[p].off > isize[fp[p].ip] \/ fp[p].off + n1 > MAXFILE * BSIZE
    <2>1. wr' = [wr EXCEPT ![p] = [Rest EXCEPT !.calls = wr[p].calls]]
      BY <1>3, <1>4, Zenon DEF Chunk
    <2>2. [Rest EXCEPT !.calls = wr[p].calls] \in Call /\ [Rest EXCEPT !.calls = wr[p].calls].pc = "idle"
      BY <1>2, Consts DEF Rest, Call, Pc
    <2>3. wr' \in [BProc -> Call] /\ wr'[p].pc = "idle" /\ \A q \in BProc \ {p} : wr'[q] = wr[q]
      BY <1>2, <2>1, <2>2, Zenon
    <2> QED BY <1>1, <1>2, <2>3, Zenon DEF Goes, Moves
  <1>5. CASE ~(fp[p].off > isize[fp[p].ip] \/ fp[p].off + n1 > MAXFILE * BSIZE)
    <2>1. wr' = [wr EXCEPT ![p].pc = "copy", ![p].n1 = n1, ![p].tot = 0]
      BY <1>3, <1>5, Zenon DEF Chunk
    <2>2. /\ wr' \in [BProc -> Call] /\ \A q \in BProc \ {p} : wr'[q] = wr[q]
          /\ wr'[p].pc = "copy" /\ wr'[p].n1 = n1 /\ wr'[p].tot = 0 /\ wr'[p].n = wr[p].n
      <3>1. PICK r : r = [wr[p] EXCEPT !.pc = "copy", !.n1 = n1, !.tot = 0]
        BY Zenon
      <3>2. wr' = [wr EXCEPT ![p] = r]
        BY <2>1, <3>1, Zenon
      <3>3. r \in Call /\ r.pc = "copy" /\ r.n1 = n1 /\ r.tot = 0 /\ r.n = wr[p].n
        <4>1. wr[p] \in Call
          BY <1>2, Zenon
        <4> QED BY <3>1, <4>1, Zenon DEF Call, Pc
      <3> QED BY <1>2, <3>2, <3>3, Zenon
    <2>3. fp[p].off \in Nat
      BY <1>2, Consts DEF Offset
    <2>4. fp[p].off + n1 <= MAXFILE * BSIZE
      BY <1>3, <1>5, <2>3, Consts
    <2> QED BY <1>1, <1>2, <1>3, <2>2, <2>4, Zenon DEF Goes, Moves
  <1> QED BY <1>1, <1>4, <1>5, Zenon

\* After a transaction filewrite goes on with what is left, or returns.
LEMMA EndOpGoes ==
    ASSUME BlockTypes, NEW p \in BProc, EndOp(p)
    PROVE  /\ Goes(p, "commit", "chunk") \/ Goes(p, "commit", "idle")
           /\ fp' = fp /\ UNCHANGED Disk /\ bPanic' = bPanic
  <1>1. wr[p].pc = "commit" /\ fp' = fp /\ UNCHANGED Disk /\ bPanic' = bPanic
    BY Zenon DEF EndOp, Doing, Disk
  <1>2. wr \in [BProc -> Call] /\ wr[p].calls \in Nat /\ fp \in [BProc -> [ip : Inode, off : Offset]]
    BY DEF BlockTypes, Call
  <1>3. PICK r : /\ wr' = [wr EXCEPT ![p] = r]
                 /\ r = IF wr[p].n > 0 THEN [wr[p] EXCEPT !.pc = "chunk"]
                                       ELSE [Rest EXCEPT !.calls = wr[p].calls]
    BY Zenon DEF EndOp
  <1>4. r \in Call /\ r.pc \in {"chunk", "idle"}
    <2>1. [wr[p] EXCEPT !.pc = "chunk"] \in Call /\ [wr[p] EXCEPT !.pc = "chunk"].pc = "chunk"
      BY <1>2 DEF Call, Pc
    <2>2. [Rest EXCEPT !.calls = wr[p].calls] \in Call /\ [Rest EXCEPT !.calls = wr[p].calls].pc = "idle"
      BY <1>2, Consts DEF Rest, Call, Pc
    <2> QED BY <1>3, <2>1, <2>2, Zenon
  <1>5. wr' \in [BProc -> Call] /\ wr'[p] = r /\ \A q \in BProc \ {p} : wr'[q] = wr[q]
    BY <1>2, <1>3, <1>4, Zenon
  <1>6. wr'[p].pc = "chunk" \/ wr'[p].pc = "idle"
    BY <1>4, <1>5, Zenon
  <1> QED BY <1>1, <1>2, <1>5, <1>6, Zenon DEF Goes, Moves

\* itrunc starts at the first place of the file.
LEMMA ITruncStartGoes ==
    ASSUME BlockTypes, NEW p \in BProc, ITruncStart(p)
    PROVE  /\ Goes(p, "idle", "trunc") /\ wr'[p].at = 0
           /\ \A q \in BProc \ {p} : fp[q].ip # fp[p].ip
           /\ fp' = fp /\ UNCHANGED Disk /\ bPanic' = bPanic
  <1>1. /\ wr[p].pc = "idle" /\ fp' = fp /\ UNCHANGED Disk /\ bPanic' = bPanic
        /\ wr' = [wr EXCEPT ![p].pc = "trunc", ![p].at = 0, ![p].calls = @ + 1]
        /\ \A q \in BProc \ {p} : fp[q].ip # fp[p].ip
    BY Zenon DEF ITruncStart, Doing, Disk
  <1>2. wr \in [BProc -> Call] /\ 0 \in 0 .. MAXFILE + 1
    BY Consts DEF BlockTypes
  <1>3. /\ wr' \in [BProc -> Call] /\ wr'[p].pc = "trunc" /\ wr'[p].at = 0
        /\ \A q \in BProc \ {p} : wr'[q] = wr[q]
    BY <1>1, <1>2 DEF Call, Pc
  <1> QED BY <1>1, <1>3, Zenon DEF Goes, Moves, BlockTypes

-----------------------------------------------------------------------------
(* Steps that leave the disk alone *)

\* What a step of p has to respect for the locks.
LEMMA LockKept ==
    ASSUME LockInv, NEW p \in BProc, Moves(p),
           wr'[p].pc \in {"copy", "trunc"} => \A q \in BProc \ {p} : ~Holds(q, fp[p].ip),
           wr'[p].pc = "trunc" => \A q \in BProc \ {p} : fp[q].ip # fp[p].ip,
           wr'[p].pc = "copy" => /\ wr'[p].tot <= wr'[p].n1 /\ wr'[p].n1 <= wr'[p].n
                                 /\ fp'[p].off + wr'[p].n1 <= MAXFILE * BSIZE,
           \A q \in BProc : fp'[q].off <= isize'[fp'[q].ip]
    PROVE  LockInv'
  <1>1. \A q \in BProc : fp'[q].ip = fp[q].ip
    BY Zenon DEF Moves
  <1>2. ASSUME NEW q \in BProc, q # p PROVE fp'[q] = fp[q] /\ wr'[q] = wr[q]
    BY <1>2, Zenon DEF Moves
  <1>3. \A q \in BProc : q # p => \A i \in Inode : Holds(q, i)' <=> Holds(q, i)
    BY <1>2, Zenon DEF Holds
  <1>4. ASSUME NEW q \in BProc, NEW r \in BProc, NEW i \in Inode, Holds(q, i)', Holds(r, i)'
        PROVE  q = r
    <2>1. Holds(p, i)' => fp[p].ip = i /\ wr'[p].pc \in {"copy", "trunc"}
      BY <1>1, Zenon DEF Holds
    <2>2. CASE q = p /\ r # p
      BY <1>3, <1>4, <2>1, <2>2, Zenon
    <2>3. CASE r = p /\ q # p
      BY <1>3, <1>4, <2>1, <2>3, Zenon
    <2>4. CASE q # p /\ r # p
      BY <1>3, <1>4, <2>4, Zenon DEF LockInv
    <2> QED BY <2>2, <2>3, <2>4, Zenon
  <1>5. ASSUME NEW q \in BProc, NEW r \in BProc, wr'[q].pc = "trunc", fp'[r].ip = fp'[q].ip
        PROVE  q = r
    <2>1. fp[r].ip = fp[q].ip
      BY <1>1, <1>5, Zenon
    <2>2. CASE q = p
      BY <1>5, <2>1, <2>2, Zenon
    <2>3. CASE q # p
      BY <1>2, <1>5, <2>1, <2>3, Zenon DEF LockInv
    <2> QED BY <2>2, <2>3, Zenon
  <1>6. ASSUME NEW q \in BProc, wr'[q].pc = "copy"
        PROVE  wr'[q].tot <= wr'[q].n1 /\ wr'[q].n1 <= wr'[q].n /\ fp'[q].off + wr'[q].n1 <= MAXFILE * BSIZE
    <2>1. CASE q = p
      BY <1>6, <2>1, Zenon
    <2>2. CASE q # p
      BY <1>2, <1>6, <2>2, Zenon DEF LockInv
    <2> QED BY <2>1, <2>2, Zenon
  <1> QED BY <1>4, <1>5, <1>6, Zenon DEF LockInv

\* What itrunc has given back changes only with its own steps.
LEMMA GoneKept ==
    ASSUME NEW p \in BProc, Moves(p), wr[p].pc # "trunc", wr'[p].pc # "trunc"
    PROVE  \A i \in Inode : /\ Truncating(i)' <=> Truncating(i)
                            /\ \A k \in Places : Gone(i, k)' <=> Gone(i, k)
  <1>1. \A q \in BProc : /\ fp'[q].ip = fp[q].ip
                         /\ wr'[q].pc = "trunc" \/ wr[q].pc = "trunc" => wr'[q] = wr[q]
    BY Zenon DEF Moves
  <1> QED BY <1>1, Zenon DEF Gone, Truncating

PlacesStay == \A i \in Inode, k \in Places : Place(i, k)' = Place(i, k)
GoneStays  == \A i \in Inode, k \in Places : Gone(i, k)' <=> Gone(i, k)

\* Two places with the same block are one place.
LEMMA OnePlace ==
    ASSUME Owned, NEW i \in Inode, NEW j \in Inode, NEW k \in Places, NEW l \in Places, Twice(i, k, j, l)
    PROVE  i = j /\ k = l
  BY Zenon DEF Owned

\* A step that moves no block, marks none and gives none back keeps the ownership of blocks.
LEMMA PlacesKept ==
    ASSUME Marked, Owned, Named, bitmap' = bitmap, PlacesStay, GoneStays
    PROVE  Marked' /\ Owned' /\ Named'
  <1>1. Marked'
    BY Zenon DEF Marked, PlacesStay, GoneStays
  <1>2. ASSUME NEW i \in Inode, NEW j \in Inode, NEW k \in Places, NEW l \in Places, Twice(i, k, j, l)'
        PROVE  i = j /\ k = l
    <2>1. Place(i, k)' = Place(i, k) /\ Place(j, l)' = Place(j, l) /\ ~Gone(i, k) /\ ~Gone(j, l)
      BY <1>2, Zenon DEF PlacesStay, GoneStays, Twice
    <2>2. Twice(i, k, j, l)
      BY <1>2, <2>1, Zenon DEF Twice
    <2> QED BY <2>2, OnePlace, Zenon
  <1>3. Named'
    BY Zenon DEF Named, PlacesStay
  <1> QED BY <1>1, <1>2, <1>3, Zenon DEF Owned

\* A step that changes no address and gives nothing back keeps struck out what was.
LEMMA StruckKept ==
    ASSUME Struck, addrs' = addrs, GoneStays
    PROVE  Struck'
  <1>1. MAXFILE \in Places /\ 0 .. NDIRECT - 1 \subseteq Places
    BY Consts DEF Places
  <1> QED BY <1>1, Zenon DEF Struck, GoneStays

\* With the disk unchanged, places keep their blocks and bytes their values.
LEMMA SameDisk ==
    ASSUME UNCHANGED Disk
    PROVE  /\ PlacesStay /\ UNCHANGED <<bitmap, addrs, data, isize, flat>>
           /\ \A i, x, v : Holding(i, x, v)' <=> Holding(i, x, v)
  <1>1. UNCHANGED <<bitmap, addrs, data, isize, flat>>
    BY Zenon DEF Disk
  <1>2. \A i, k : bmap(i, k)' = bmap(i, k)
    BY <1>1, Zenon DEF bmap
  <1>3. PlacesStay
    BY <1>1, <1>2, Zenon DEF PlacesStay, Place
  <1>4. \A i, x, v : Holding(i, x, v)' <=> Holding(i, x, v)
    BY <1>1, <1>2, Zenon DEF Holding, Byte
  <1> QED BY <1>1, <1>3, <1>4, Zenon

\* A step that leaves the disk alone and is not one of a copy or of itrunc.
LEMMA Quiet ==
    ASSUME BlocksInv, NEW p \in BProc, Moves(p), UNCHANGED Disk, bPanic' = bPanic,
           wr[p].pc \notin {"copy", "trunc"},
           wr'[p].pc \in {"copy", "trunc"} => ~Locked(fp[p].ip),
           wr'[p].pc = "trunc" => wr'[p].at = 0 /\ \A q \in BProc \ {p} : fp[q].ip # fp[p].ip,
           wr'[p].pc = "copy" => /\ wr'[p].tot = 0 /\ wr'[p].n1 <= wr'[p].n
                                 /\ fp'[p].off + wr'[p].n1 <= MAXFILE * BSIZE,
           fp'[p].off <= isize[fp[p].ip]
    PROVE  BlocksInv'
  <1>1. /\ PlacesStay /\ UNCHANGED <<bitmap, addrs, data, isize, flat>>
        /\ \A i, x, v : Holding(i, x, v)' <=> Holding(i, x, v)
    BY SameDisk, Zenon
  <1>2. BlockTypes'
    BY <1>1, Zenon DEF BlocksInv, BlockTypes, Moves
  <1>3. LockInv'
    <2>1. ASSUME NEW q \in BProc PROVE fp'[q].off <= isize'[fp'[q].ip]
      <3>1. CASE q = p
        BY <1>1, <3>1, Zenon DEF Moves
      <3>2. CASE q # p
        BY <1>1, <3>2, Zenon DEF Moves, BlocksInv, LockInv
      <3> QED BY <3>1, <3>2, Zenon
    <2>2. wr'[p].pc \in {"copy", "trunc"} => \A q \in BProc \ {p} : ~Holds(q, fp[p].ip)
      BY Zenon DEF Locked, Holds
    <2>3. wr'[p].pc = "copy" => wr'[p].tot <= wr'[p].n1
      <3>1. wr'[p].n1 \in Nat
        BY DEF Moves, Call
      <3> QED BY <3>1
    <2> QED BY <2>1, <2>2, <2>3, LockKept, Zenon DEF BlocksInv
  <1>4. GoneStays /\ \A i \in Inode : Truncating(i) => Truncating(i)'
    <2>1. CASE wr'[p].pc # "trunc"
      BY <2>1, GoneKept, Zenon DEF GoneStays
    <2>2. CASE wr'[p].pc = "trunc"
      <3>1. \A k \in Places : ~(k < wr'[p].at)
        BY <2>2, Consts DEF Places
      <3>2. \A q \in BProc : fp'[q].ip = fp[q].ip /\ (q # p => wr'[q] = wr[q])
        BY Zenon DEF Moves
      <3> QED BY <3>1, <3>2, Zenon DEF GoneStays, Gone, Truncating
    <2> QED BY <2>1, <2>2, Zenon
  <1>5. Marked' /\ Owned' /\ Named' /\ Struck'
    BY <1>1, <1>4, PlacesKept, StruckKept, Zenon DEF BlocksInv
  <1>6. ASSUME NEW q \in BProc, NEW i \in Inode, NEW x \in 0 .. MAXFILE * BSIZE - 1
        PROVE  Written(q, i, x)' <=> Written(q, i, x)
    <2>1. CASE q # p
      BY <2>1, Zenon DEF Moves, Written
    <2>2. CASE q = p
      <3>1. ~Written(p, i, x)
        BY Zenon DEF Written
      <3>2. ASSUME Written(p, i, x)' PROVE FALSE
        <4>1. wr'[p].pc = "copy" /\ fp'[p].off <= x /\ x < fp'[p].off + wr'[p].tot
          BY <3>2, Zenon DEF Written
        <4>2. wr'[p].tot = 0 /\ fp'[p].off \in Offset
          BY <4>1, Zenon DEF Moves
        <4> QED BY <4>1, <4>2, Consts DEF Offset
      <3> QED BY <2>2, <3>1, <3>2, Zenon
    <2> QED BY <2>1, <2>2, Zenon
  <1>7. Contents'
    BY <1>1, <1>4, <1>6, Zenon DEF BlocksInv, Contents
  <1>8. Sizes'
    BY <1>1, Zenon DEF BlocksInv, Sizes
  <1> QED BY <1>2, <1>3, <1>5, <1>7, <1>8, Zenon DEF BlocksInv

\* fileread, and the steps of filewrite and itrunc outside of their loops, are quiet.
LEMMA QuietSteps ==
    ASSUME BlocksInv, NEW p \in BProc,
           FileRead(p) \/ FileWrite(p) \/ Chunk(p) \/ EndOp(p) \/ ITruncStart(p)
    PROVE  BlocksInv'
  <1>1. BlockTypes /\ LockInv /\ fp[p].off <= isize[fp[p].ip]
    BY Zenon DEF BlocksInv, LockInv
  <1>2. CASE FileRead(p)
    BY <1>1, <1>2, FileReadGoes, Quiet, Zenon DEF Goes
  <1>3. CASE FileWrite(p)
    BY <1>1, <1>3, FileWriteGoes, Quiet, Zenon DEF Goes
  <1>4. CASE Chunk(p)
    BY <1>1, <1>4, ChunkGoes, Quiet, Zenon DEF Goes
  <1>5. CASE EndOp(p)
    BY <1>1, <1>5, EndOpGoes, Quiet, Zenon DEF Goes
  <1>6. CASE ITruncStart(p)
    <2>1. ~Locked(fp[p].ip)
      BY <1>1, <1>6, ITruncStartGoes, Zenon DEF Goes, Locked
    <2> QED BY <1>1, <1>6, <2>1, ITruncStartGoes, Quiet, Zenon DEF Goes
  <1> QED BY <1>2, <1>3, <1>4, <1>5, <1>6, Zenon

\* A panic stops the machine and changes nothing else.
LEMMA PanicStep ==
    ASSUME BlocksInv, NEW msg, BPanic(msg)
    PROVE  BlocksInv'
  <1>1. UNCHANGED <<bitmap, addrs, data, isize, fp, wr, flat>>
    BY Zenon DEF BPanic
  <1>2. UNCHANGED Disk
    BY <1>1, Zenon DEF Disk
  <1>3. PlacesStay /\ \A i, x, v : Holding(i, x, v)' <=> Holding(i, x, v)
    BY <1>2, SameDisk, Zenon
  <1>4. GoneStays /\ \A i : Truncating(i)' <=> Truncating(i)
    BY <1>1, Zenon DEF GoneStays, Gone, Truncating
  <1>5. \A q, i, x : Written(q, i, x)' <=> Written(q, i, x)
    BY <1>1, Zenon DEF Written
  <1>6. Marked' /\ Owned' /\ Named' /\ Struck'
    BY <1>1, <1>3, <1>4, PlacesKept, StruckKept, Zenon DEF BlocksInv
  <1>7. BlockTypes' /\ LockInv' /\ Sizes'
    BY <1>1, Zenon DEF BlocksInv, BlockTypes, LockInv, Holds, Sizes
  <1>8. Contents'
    BY <1>1, <1>3, <1>4, <1>5, Zenon DEF BlocksInv, Contents
  <1> QED BY <1>6, <1>7, <1>8, Zenon DEF BlocksInv

-----------------------------------------------------------------------------
(* bmap allocates *)

\* Address 0 is no block.
LEMMA ZeroIsNone == 0 \notin Block
  BY Consts DEF Block

\* The places below MAXFILE are those bmap looks up.
LEMMA DataPlaces ==
    ASSUME NEW i, NEW l \in 0 .. MAXFILE - 1
    PROVE  l \in Places /\ l # MAXFILE /\ Place(i, l) = bmap(i, l) /\ Place(i, l)' = bmap(i, l)'
  <1>1. l \in Places /\ l # MAXFILE /\ l < MAXFILE
    BY Consts DEF Places
  <1> QED BY <1>1, Zenon DEF Place

\* Place MAXFILE is the indirect block.
LEMMA LastPlace ==
    ASSUME NEW i
    PROVE  /\ MAXFILE \in Places /\ Place(i, MAXFILE) = addrs[i][NDIRECT]
           /\ Place(i, MAXFILE)' = addrs'[i][NDIRECT]
  <1>1. MAXFILE \in Places /\ ~(MAXFILE < MAXFILE)
    BY Consts DEF Places
  <1> QED BY <1>1, Zenon DEF Place

\* The indirect block of an inode is marked, until it is struck out.
LEMMA Indirects ==
    ASSUME BlocksInv, NEW j \in Inode, addrs[j][NDIRECT] # 0
    PROVE  ~Gone(j, MAXFILE) /\ addrs[j][NDIRECT] \in bitmap /\ addrs[j][NDIRECT] \in Block
  <1>1. ~Gone(j, MAXFILE)
    BY Zenon DEF BlocksInv, Struck
  <1>2. Place(j, MAXFILE) = addrs[j][NDIRECT] /\ MAXFILE \in Places
    BY LastPlace, Zenon
  <1>3. addrs[j][NDIRECT] \in Block
    BY <1>2, Zenon DEF BlocksInv, Named, Number
  <1> QED BY <1>1, <1>2, <1>3, Zenon DEF BlocksInv, Marked

\* Place k of inode i, which had no block, gets a free one.
Gains(i, k, b) ==
    /\ Place(i, k) = 0 /\ b \in Block /\ b \notin bitmap /\ bitmap' = bitmap \union {b}
    /\ Place(i, k)' = b
    /\ \A j \in Inode, l \in Places : j # i \/ l # k => Place(j, l)' = Place(j, l)

\* A place that gains a block which was not marked keeps the ownership of blocks.
LEMMA GainKeeps ==
    ASSUME Marked, Owned, Named, GoneStays, NEW i \in Inode, NEW k \in Places, NEW b,
           ~Gone(i, k), Gains(i, k, b)
    PROVE  Marked' /\ Owned' /\ Named'
  <1>1. Marked'
    <2>1. ASSUME NEW c \in Block, c \in bitmap'
          PROVE  \E j \in Inode, l \in Places : ~Gone(j, l)' /\ Place(j, l)' = c
      <3>1. CASE c = b
        BY <3>1, Zenon DEF GoneStays, Gains
      <3>2. CASE c # b
        <4>1. PICK j \in Inode, l \in Places : ~Gone(j, l) /\ Place(j, l) = c
          BY <2>1, <3>2, Zenon DEF Marked, Gains
        <4>2. j # i \/ l # k
          BY <4>1, ZeroIsNone, Zenon DEF Gains
        <4> QED BY <4>1, <4>2, Zenon DEF GoneStays, Gains
      <3> QED BY <3>1, <3>2, Zenon
    <2>2. ASSUME NEW c \in Block, NEW j \in Inode, NEW l \in Places, ~Gone(j, l)', Place(j, l)' = c
          PROVE  c \in bitmap'
      <3>1. CASE j = i /\ l = k
        BY <2>2, <3>1, Zenon DEF Gains
      <3>2. CASE j # i \/ l # k
        <4>1. Place(j, l) = c /\ ~Gone(j, l)
          BY <2>2, <3>2, Zenon DEF Gains, GoneStays
        <4> QED BY <4>1, Zenon DEF Marked, Gains
      <3> QED BY <3>1, <3>2, Zenon
    <2> QED BY <2>1, <2>2, Zenon DEF Marked
  <1>2. ASSUME NEW j \in Inode, NEW l \in Places, ~Gone(j, l)', Place(j, l)' = b
        PROVE  j = i /\ l = k
    <2> SUFFICES ASSUME j # i \/ l # k PROVE FALSE
      BY Zenon
    <2>1. Place(j, l) = b /\ ~Gone(j, l)
      BY <1>2, Zenon DEF Gains, GoneStays
    <2> QED BY <2>1, Zenon DEF Marked, Gains
  <1>3. Owned'
    <2>1. ASSUME NEW j \in Inode, NEW l \in Places, NEW m \in Inode, NEW n \in Places, Twice(j, l, m, n)'
          PROVE  j = m /\ l = n
      <3>a. ~Gone(j, l)' /\ ~Gone(m, n)' /\ Place(j, l)' = Place(m, n)' /\ Place(j, l)' # 0
        BY <2>1, Zenon DEF Twice
      <3>1. CASE Place(j, l)' = b
        <4>1. Place(m, n)' = b
          BY <3>a, <3>1, Zenon
        <4>2. j = i /\ l = k
          BY <1>2, <3>a, <3>1, Zenon
        <4>3. m = i /\ n = k
          BY <1>2, <3>a, <4>1, Zenon
        <4> QED BY <4>2, <4>3, Zenon
      <3>2. CASE Place(j, l)' # b
        <4>1. Place(j, l)' = Place(j, l) /\ Place(m, n)' = Place(m, n)
          BY <3>a, <3>2, Zenon DEF Gains
        <4>2. Twice(j, l, m, n)
          BY <3>a, <4>1, Zenon DEF GoneStays, Twice
        <4> QED BY <4>2, OnePlace, Zenon
      <3> QED BY <3>1, <3>2, Zenon
    <2> QED BY <2>1, Zenon DEF Owned
  <1>4. Named'
    <2>1. ASSUME NEW j \in Inode, NEW l \in Places PROVE Place(j, l)' \in Number
      <3>1. CASE j = i /\ l = k
        BY <3>1, Zenon DEF Gains, Number
      <3>2. CASE j # i \/ l # k
        BY <3>2, Zenon DEF Gains, Named
      <3> QED BY <3>1, <3>2, Zenon
    <2> QED BY <2>1, Zenon DEF Named
  <1> QED BY <1>1, <1>3, <1>4, Zenon

\* The block of a byte is marked, and is nobody's indirect block.
LEMMA ByteBlock ==
    ASSUME BlocksInv, NEW j \in Inode, ~Truncating(j), NEW l \in 0 .. MAXFILE - 1, bmap(j, l) # 0
    PROVE  /\ ~Gone(j, l) /\ bmap(j, l) \in bitmap /\ bmap(j, l) \in Block
           /\ \A i \in Inode : addrs[i][NDIRECT] # bmap(j, l)
           /\ \A i \in Inode : \A k \in 0 .. MAXFILE - 1 :
                 ~Truncating(i) /\ bmap(i, k) = bmap(j, l) => i = j /\ k = l
  <1>o. Owned
    BY Zenon DEF BlocksInv
  <1>1. l \in Places /\ l # MAXFILE /\ Place(j, l) = bmap(j, l)
    BY DataPlaces, Zenon
  <1>2. ~Gone(j, l)
    BY Zenon DEF Gone, Truncating
  <1>3. bmap(j, l) \in Block
    BY <1>1, Zenon DEF BlocksInv, Named, Number
  <1>4. bmap(j, l) \in bitmap
    BY <1>1, <1>2, <1>3, Zenon DEF BlocksInv, Marked
  <1>5. ASSUME NEW i \in Inode, addrs[i][NDIRECT] = bmap(j, l) PROVE FALSE
    <2>1. ~Gone(i, MAXFILE)
      BY <1>5, Indirects, Zenon
    <2>2. MAXFILE \in Places /\ Place(i, MAXFILE) = addrs[i][NDIRECT]
      BY LastPlace, Zenon
    <2>3. Twice(i, MAXFILE, j, l)
      BY <1>1, <1>2, <1>5, <2>1, <2>2, Zenon DEF Twice
    <2> QED BY <1>o, <1>1, <2>2, <2>3, OnePlace, Zenon
  <1>6. ASSUME NEW i \in Inode, NEW k \in 0 .. MAXFILE - 1, ~Truncating(i), bmap(i, k) = bmap(j, l)
        PROVE  i = j /\ k = l
    <2>1. k \in Places /\ Place(i, k) = bmap(i, k)
      BY DataPlaces, Zenon
    <2>2. ~Gone(i, k)
      BY <1>6, Zenon DEF Gone, Truncating
    <2>3. Twice(i, k, j, l)
      BY <1>1, <1>2, <1>6, <2>1, <2>2, Zenon DEF Twice
    <2> QED BY <1>o, <1>1, <2>1, <2>3, OnePlace, Zenon
  <1> QED BY <1>2, <1>3, <1>4, <1>5, <1>6, Zenon

\* Allocation leaves every byte of the files alone.
LEMMA GainContents ==
    ASSUME BlocksInv, NEW i \in Inode, NEW k \in Places, NEW b, Gains(i, k, b),
           UNCHANGED <<isize, flat, fp, wr>>,
           \A c \in bitmap : c # addrs[i][NDIRECT] => data'[c] = data[c]
    PROVE  Contents'
  <1>1. ASSUME NEW j \in Inode, ~Truncating(j), NEW x \in 0 .. MAXFILE * BSIZE - 1, NEW v, Holding(j, x, v)
        PROVE  Holding(j, x, v)'
    <2>1. PICK l \in 0 .. MAXFILE - 1 : l = x \div BSIZE
      BY InFile, Zenon
    <2>2. bmap(j, l) # 0 /\ data[bmap(j, l)][x % BSIZE] = v
      BY <1>1, <2>1, Zenon DEF Holding, Byte
    <2>3. bmap(j, l) \in bitmap /\ addrs[i][NDIRECT] # bmap(j, l)
      BY <1>1, <2>2, ByteBlock, Zenon
    <2>4. bmap(j, l)' = bmap(j, l)
      BY <2>2, DataPlaces, Zenon DEF Gains
    <2>5. data'[bmap(j, l)] = data[bmap(j, l)]
      BY <2>3, Zenon
    <2>6. bmap(j, l)' # 0 /\ data'[bmap(j, l)'][x % BSIZE] = v
      BY <2>2, <2>4, <2>5, Zenon
    <2> QED BY <2>1, <2>6, Zenon DEF Holding, Byte
  <1>2. \A j : Truncating(j)' <=> Truncating(j)
    BY Zenon DEF Truncating
  <1>3. \A q, j, x : Written(q, j, x)' <=> Written(q, j, x)
    BY Zenon DEF Written
  <1> QED BY <1>1, <1>2, <1>3, Zenon DEF BlocksInv, Contents

\* A file that is being written is not being freed.
LEMMA Writing ==
    ASSUME BlocksInv, NEW p \in BProc, wr[p].pc = "copy"
    PROVE  /\ fp[p].ip \in Inode /\ ~Truncating(fp[p].ip) /\ \A k : ~Gone(fp[p].ip, k)
           /\ \A q \in BProc \ {p} : ~Holds(q, fp[p].ip)
  <1>1. fp[p].ip \in Inode
    BY DEF BlocksInv, BlockTypes
  <1>2. Holds(p, fp[p].ip)
    BY Zenon DEF Holds
  <1>3. \A q \in BProc \ {p} : ~Holds(q, fp[p].ip)
    BY <1>1, <1>2, Zenon DEF BlocksInv, LockInv
  <1>4. ~Truncating(fp[p].ip)
    <2> SUFFICES ASSUME NEW q \in BProc, fp[q].ip = fp[p].ip, wr[q].pc = "trunc" PROVE FALSE
      BY Zenon DEF Truncating
    <2>1. Holds(q, fp[p].ip) /\ q # p
      BY Zenon DEF Holds
    <2> QED BY <1>3, <2>1, Zenon
  <1> QED BY <1>1, <1>3, <1>4, Zenon DEF Gone, Truncating

\* What a call counts are numbers.
LEMMA InNat ==
    ASSUME BlocksInv, NEW p \in BProc
    PROVE  fp[p].off \in Nat /\ wr[p].tot \in Nat /\ wr[p].n1 \in Nat /\ wr[p].n \in Nat
  <1>1. fp[p] \in [ip : Inode, off : Offset] /\ wr[p] \in Call
    BY Zenon DEF BlocksInv, BlockTypes
  <1>2. fp[p].off \in Nat
    BY <1>1, Consts DEF Offset
  <1>3. wr[p].tot \in Nat /\ wr[p].n1 \in Nat /\ wr[p].n \in Nat
    BY <1>1 DEF Call
  <1> QED BY <1>2, <1>3, Zenon

\* writei asks bmap for a block of the file.
LEMMA WrittenBlock ==
    ASSUME BlocksInv, NEW p \in BProc, wr[p].pc = "copy", wr[p].tot < wr[p].n1
    PROVE  (fp[p].off + wr[p].tot) \div BSIZE \in 0 .. MAXFILE - 1
  <1>1. /\ fp[p].off \in Nat /\ wr[p].tot \in Nat /\ wr[p].n1 \in Nat
        /\ fp[p].off + wr[p].n1 <= MAXFILE * BSIZE
    BY InNat, Zenon DEF BlocksInv, LockInv
  <1>2. fp[p].off + wr[p].tot \in 0 .. MAXFILE * BSIZE - 1
    BY <1>1, Consts
  <1> QED BY <1>2, InFile, Zenon

\* Of the rest, only the inode and its indirect block change.
Spares(i) ==
    /\ UNCHANGED <<isize, flat, fp, wr, bPanic>>
    /\ addrs' \in [Inode -> [0 .. NDIRECT -> Number]] /\ data' \in [Block -> [Bytes -> Nat]]
    /\ \A j \in Inode : j # i => addrs'[j] = addrs[j]
    /\ \A c \in bitmap : c # addrs[i][NDIRECT] => data'[c] = data[c]

\* An allocation in a file that is being written keeps the invariant.
LEMMA AllocKeeps ==
    ASSUME BlocksInv, NEW p \in BProc, wr[p].pc = "copy", NEW i \in Inode, i = fp[p].ip,
           NEW k \in Places, NEW b, Gains(i, k, b), Spares(i)
    PROVE  BlocksInv'
  <1>a. /\ UNCHANGED <<isize, flat, fp, wr, bPanic>>
        /\ addrs' \in [Inode -> [0 .. NDIRECT -> Number]] /\ data' \in [Block -> [Bytes -> Nat]]
        /\ \A j \in Inode : j # i => addrs'[j] = addrs[j]
        /\ \A c \in bitmap : c # addrs[i][NDIRECT] => data'[c] = data[c]
    BY Zenon DEF Spares
  <1>1. GoneStays
    BY <1>a, Zenon DEF GoneStays, Gone
  <1>2. \A l : ~Gone(i, l)
    BY Writing, Zenon
  <1>3. Marked' /\ Owned' /\ Named'
    BY <1>1, <1>2, GainKeeps, Zenon DEF BlocksInv
  <1>4. Contents'
    BY <1>a, GainContents, Zenon
  <1>5. LockInv' /\ Sizes'
    BY <1>a, Zenon DEF BlocksInv, LockInv, Holds, Sizes
  <1>6. BlockTypes'
    BY <1>a, Zenon DEF BlocksInv, BlockTypes, Gains
  <1>7. Struck'
    <2>1. MAXFILE \in Places /\ 0 .. NDIRECT - 1 \subseteq Places
      BY Consts DEF Places
    <2>2. ASSUME NEW j \in Inode, NEW l \in Places, Gone(j, l)' PROVE Gone(j, l) /\ addrs'[j] = addrs[j]
      BY <1>a, <1>1, <1>2, <2>2, Zenon DEF GoneStays
    <2>3. ASSUME NEW j \in Inode, NEW l \in 0 .. NDIRECT - 1, Gone(j, l)' PROVE addrs'[j][l] = 0
      <3>1. Gone(j, l) /\ addrs'[j] = addrs[j]
        BY <2>1, <2>2, <2>3, Zenon
      <3>2. addrs[j][l] = 0
        BY <3>1, Zenon DEF BlocksInv, Struck
      <3> QED BY <3>1, <3>2, Zenon
    <2>4. ASSUME NEW j \in Inode, Gone(j, MAXFILE)' PROVE addrs'[j][NDIRECT] = 0
      <3>1. Gone(j, MAXFILE) /\ addrs'[j] = addrs[j]
        BY <2>1, <2>2, <2>4, Zenon
      <3>2. addrs[j][NDIRECT] = 0
        BY <3>1, Zenon DEF BlocksInv, Struck
      <3> QED BY <3>1, <3>2, Zenon
    <2> QED BY <2>3, <2>4, Zenon DEF Struck
  <1> QED BY <1>3, <1>4, <1>5, <1>6, <1>7, Zenon DEF BlocksInv

\* The entries of an indirect block and the bytes of a data block are within a block.
LEMMA Sets ==
    /\ \A l \in 0 .. NINDIRECT - 1 : l \in Bytes
    /\ \A l \in 0 .. BSIZE - 1 : l \in Bytes
    /\ Zero \in [Bytes -> Nat] /\ NDIRECT \in 0 .. NDIRECT /\ \A l \in Bytes : Zero[l] = 0
    /\ Number \subseteq Nat /\ Block \subseteq Nat
  <1>1. /\ \A l \in 0 .. NINDIRECT - 1 : l \in Bytes
        /\ \A l \in 0 .. BSIZE - 1 : l \in Bytes
    BY Consts DEF Bytes
  <1>2. Zero \in [Bytes -> Nat] /\ NDIRECT \in 0 .. NDIRECT /\ \A l \in Bytes : Zero[l] = 0
    BY Consts DEF Zero
  <1>3. Number \subseteq Nat /\ Block \subseteq Nat
    BY Consts DEF Number, Block
  <1> QED BY <1>1, <1>2, <1>3, Zenon

\* The places of an inode: direct, indirect, and the indirect block.
LEMMA PlaceCases ==
    ASSUME NEW i, NEW l \in Places
    PROVE  \/ l \in 0 .. NDIRECT - 1 /\ Place(i, l) = addrs[i][l] /\ Place(i, l)' = addrs'[i][l]
           \/ /\ l - NDIRECT \in 0 .. NINDIRECT - 1 /\ l # MAXFILE
              /\ Place(i, l) = IF addrs[i][NDIRECT] = 0 THEN 0 ELSE data[addrs[i][NDIRECT]][l - NDIRECT]
              /\ Place(i, l)' = IF addrs'[i][NDIRECT] = 0 THEN 0 ELSE data'[addrs'[i][NDIRECT]][l - NDIRECT]
           \/ l = MAXFILE /\ Place(i, l) = addrs[i][NDIRECT] /\ Place(i, l)' = addrs'[i][NDIRECT]
  <1>1. CASE l \in 0 .. NDIRECT - 1
    <2>1. l < NDIRECT /\ l < MAXFILE
      BY <1>1, Consts
    <2> QED BY <1>1, <2>1, Zenon DEF Place, bmap
  <1>2. CASE l = MAXFILE
    BY <1>2, LastPlace, Zenon
  <1>3. CASE l \notin 0 .. NDIRECT - 1 /\ l # MAXFILE
    <2>1. ~(l < NDIRECT) /\ l < MAXFILE /\ l - NDIRECT \in 0 .. NINDIRECT - 1
      BY <1>3, Consts DEF Places
    <2> QED BY <1>3, <2>1, Zenon DEF Place, bmap
  <1> QED BY <1>1, <1>2, <1>3, Zenon

\* A place keeps its block when its address, or the indirect block it is in, stays as it is.
LEMMA PlaceSame ==
    ASSUME NEW j, NEW l \in Places, addrs'[j][NDIRECT] = addrs[j][NDIRECT],
           l \in 0 .. NDIRECT - 1 => addrs'[j][l] = addrs[j][l],
           addrs[j][NDIRECT] # 0 => data'[addrs[j][NDIRECT]] = data[addrs[j][NDIRECT]]
    PROVE  Place(j, l)' = Place(j, l)
  <1>1. CASE l \in 0 .. NDIRECT - 1 /\ Place(j, l) = addrs[j][l] /\ Place(j, l)' = addrs'[j][l]
    BY <1>1, Zenon
  <1>2. CASE /\ Place(j, l) = IF addrs[j][NDIRECT] = 0 THEN 0 ELSE data[addrs[j][NDIRECT]][l - NDIRECT]
             /\ Place(j, l)' = IF addrs'[j][NDIRECT] = 0 THEN 0 ELSE data'[addrs'[j][NDIRECT]][l - NDIRECT]
    <2>1. CASE addrs[j][NDIRECT] = 0
      BY <1>2, <2>1, Zenon
    <2>2. CASE addrs[j][NDIRECT] # 0
      BY <1>2, <2>2, Zenon
    <2> QED BY <2>1, <2>2, Zenon
  <1>3. CASE Place(j, l) = addrs[j][NDIRECT] /\ Place(j, l)' = addrs'[j][NDIRECT]
    BY <1>3, Zenon
  <1> QED BY <1>1, <1>2, <1>3, PlaceCases, Zenon

-----------------------------------------------------------------------------
(* writei copies, and ends *)

\* A turn of the loop of writei adds the bytes it copies to those written, and no other byte changes.
LEMMA CopyBlockStep ==
    ASSUME BlocksInv, NEW p \in BProc, CopyBlock(p)
    PROVE  BlocksInv'
  <1>1. PICK i \in Inode : i = fp[p].ip
    BY DEF BlocksInv, BlockTypes
  <1>2. PICK off \in Nat, tot \in Nat, n1 \in Nat :
          /\ off = fp[p].off /\ tot = wr[p].tot /\ n1 = wr[p].n1
    BY InNat, Zenon
  <1>3. PICK y \in Nat : y = off + tot
    BY <1>2
  <1>4. wr[p].pc = "copy" /\ tot < n1 /\ off + n1 <= MAXFILE * BSIZE /\ n1 <= wr[p].n
    BY <1>1, <1>2, Zenon DEF CopyBlock, Doing, BlocksInv, LockInv
  <1>5. y \in 0 .. MAXFILE * BSIZE - 1
    BY <1>2, <1>3, <1>4, Consts
  <1>6. PICK l \in 0 .. MAXFILE - 1, r \in 0 .. BSIZE - 1 : l = y \div BSIZE /\ r = y % BSIZE
    BY <1>5, InFile, Zenon
  <1>7. PICK b : b = bmap(i, l)
    BY Zenon
  <1>8. PICK m \in Nat : m = Min2(n1 - tot, BSIZE - r) /\ tot + m <= n1 /\ r + m <= BSIZE
    <2>1. /\ Min2(n1 - tot, BSIZE - r) \in Nat /\ tot + Min2(n1 - tot, BSIZE - r) <= n1
          /\ r + Min2(n1 - tot, BSIZE - r) <= BSIZE
      BY <1>2, <1>4, <1>6, Consts DEF Min2
    <2> QED BY <2>1, Zenon
  <1>9. /\ b # 0 /\ UNCHANGED <<bitmap, addrs, isize, fp, flat, bPanic>>
        /\ data' = [data EXCEPT ![b] = [k \in Bytes |-> IF k >= r /\ k < r + m THEN p ELSE data[b][k]]]
        /\ wr' = [wr EXCEPT ![p].tot = tot + m]
    BY <1>1, <1>2, <1>3, <1>6, <1>7, <1>8, Zenon DEF CopyBlock
  <1>10. ~Truncating(i) /\ (\A k : ~Gone(i, k)) /\ \A q \in BProc \ {p} : ~Holds(q, i)
    BY <1>1, <1>4, Writing, Zenon
  <1>11. /\ b \in bitmap /\ b \in Block /\ \A j \in Inode : addrs[j][NDIRECT] # b
         /\ \A j \in Inode : \A k \in 0 .. MAXFILE - 1 : ~Truncating(j) /\ bmap(j, k) = b => j = i /\ k = l
    BY <1>7, <1>9, <1>10, ByteBlock, Zenon
  <1>12. /\ data' \in [Block -> [Bytes -> Nat]] /\ \A c \in Block : c # b => data'[c] = data[c]
         /\ \A k \in Bytes : data'[b][k] = IF k >= r /\ k < r + m THEN p ELSE data[b][k]
    <2>1. PICK f : f = [k \in Bytes |-> IF k >= r /\ k < r + m THEN p ELSE data[b][k]]
      BY Zenon
    <2>2. data \in [Block -> [Bytes -> Nat]] /\ p \in Nat
      BY BlocksAssumption, Zenon DEF BlocksInv, BlockTypes
    <2>3. data[b] \in [Bytes -> Nat]
      BY <1>11, <2>2, Zenon
    <2>4. f \in [Bytes -> Nat] /\ \A k \in Bytes : f[k] = IF k >= r /\ k < r + m THEN p ELSE data[b][k]
      <3>1. \A k \in Bytes : (IF k >= r /\ k < r + m THEN p ELSE data[b][k]) \in Nat
        BY <2>2, <2>3, Zenon
      <3> QED BY <2>1, <3>1, Zenon
    <2>5. data' = [data EXCEPT ![b] = f]
      BY <1>9, <2>1, Zenon
    <2> QED BY <1>11, <2>2, <2>4, <2>5, Zenon
  <1>13. /\ Moves(p) /\ wr'[p].pc = "copy" /\ wr'[p].tot = tot + m /\ wr'[p].n1 = n1 /\ wr'[p].n = wr[p].n
    <2>1. wr \in [BProc -> Call] /\ tot + m \in Nat
      BY DEF BlocksInv, BlockTypes
    <2>2. /\ wr' \in [BProc -> Call] /\ \A q \in BProc \ {p} : wr'[q] = wr[q]
          /\ wr'[p].pc = wr[p].pc /\ wr'[p].tot = tot + m /\ wr'[p].n1 = wr[p].n1 /\ wr'[p].n = wr[p].n
      BY <1>9, <2>1 DEF Call
    <2> QED BY <1>2, <1>4, <1>9, <2>2, Zenon DEF Moves, BlocksInv, BlockTypes
  <1>14. BlockTypes'
    BY <1>9, <1>12, <1>13, Zenon DEF BlocksInv, BlockTypes, Moves
  <1>15. LockInv'
    <2>1. \A q \in BProc : fp'[q].off <= isize'[fp'[q].ip]
      BY <1>9, Zenon DEF BlocksInv, LockInv
    <2>2. /\ wr'[p].tot <= wr'[p].n1 /\ wr'[p].n1 <= wr'[p].n /\ fp'[p].off + wr'[p].n1 <= MAXFILE * BSIZE
      BY <1>2, <1>4, <1>8, <1>9, <1>13, Zenon
    <2>3. wr'[p].pc # "trunc"
      BY <1>13, Zenon
    <2> QED BY <1>1, <1>10, <1>13, <2>1, <2>2, <2>3, LockKept, Zenon DEF BlocksInv
  <1>16. \A j \in Inode : addrs[j][NDIRECT] # 0 => data'[addrs[j][NDIRECT]] = data[addrs[j][NDIRECT]]
    BY <1>11, <1>12, Indirects, Zenon
  <1>17. PlacesStay
    <2>1. ASSUME NEW j \in Inode, NEW k \in Places PROVE Place(j, k)' = Place(j, k)
      <3>1. addrs' = addrs
        BY <1>9, Zenon
      <3> QED BY <1>16, <3>1, PlaceSame, Zenon
    <2> QED BY <2>1, Zenon DEF PlacesStay
  <1>18. GoneStays /\ \A j \in Inode : Truncating(j)' <=> Truncating(j)
    <2>1. wr[p].pc # "trunc" /\ wr'[p].pc # "trunc"
      BY <1>4, <1>13, Zenon
    <2> QED BY <1>13, <2>1, GoneKept, Zenon DEF GoneStays
  <1>19. Marked' /\ Owned' /\ Named' /\ Struck' /\ Sizes'
    BY <1>9, <1>17, <1>18, PlacesKept, StruckKept, Zenon DEF BlocksInv, Sizes
  <1>20. ASSUME NEW j \in Inode, ~Truncating(j), NEW x \in 0 .. MAXFILE * BSIZE - 1, NEW v, Holding(j, x, v),
                j # i \/ x < y \/ x >= y + m \/ v = p
         PROVE  Holding(j, x, v)'
    <2>1. PICK k \in 0 .. MAXFILE - 1, s \in 0 .. BSIZE - 1 : k = x \div BSIZE /\ s = x % BSIZE
      BY InFile, Zenon
    <2>2. bmap(j, k) # 0 /\ data[bmap(j, k)][s] = v
      BY <1>20, <2>1, Zenon DEF Holding, Byte
    <2>3. bmap(j, k)' = bmap(j, k)
      BY <1>17, DataPlaces, Zenon DEF PlacesStay
    <2>4. data'[bmap(j, k)][s] = v
      <3>1. CASE bmap(j, k) # b
        <4>1. bmap(j, k) \in Block
          BY <1>20, <2>2, ByteBlock, Zenon
        <4> QED BY <1>12, <2>2, <3>1, <4>1, Zenon
      <3>2. CASE bmap(j, k) = b
        <4>1. j = i /\ k = l
          BY <1>11, <1>20, <3>2, Zenon
        <4>2. s \in Bytes
          BY <2>1, Sets, Zenon
        <4>3. x - y = s - r
          <5>1. x \in Nat /\ x \div BSIZE = y \div BSIZE
            BY <1>6, <2>1, <4>1
          <5> QED BY <1>6, <2>1, <5>1, SameBlock, Zenon
        <4>4. v = p \/ ~(s >= r /\ s < r + m)
          BY <1>20, <4>1, <4>3
        <4> QED BY <1>12, <2>2, <3>2, <4>2, <4>4, Zenon
      <3> QED BY <3>1, <3>2, Zenon
    <2> QED BY <2>1, <2>2, <2>3, <2>4, Zenon DEF Holding, Byte
  <1>21. ASSUME NEW x \in 0 .. MAXFILE * BSIZE - 1, y <= x, x < y + m PROVE Holding(i, x, p)'
    <2>1. PICK s \in 0 .. BSIZE - 1 : s = x % BSIZE
      BY InFile, Zenon
    <2>2. x \in Nat /\ x - y < BSIZE - r
      BY <1>6, <1>8, <1>21, Consts
    <2>3. x \div BSIZE = l
      BY <1>6, <1>21, <2>2, NextInBlock, Zenon
    <2>4. x - y = s - r
      BY <1>6, <2>1, <2>2, <2>3, SameBlock, Zenon
    <2>5. s >= r /\ s < r + m
      BY <1>6, <1>21, <2>1, <2>4
    <2>6. s \in Bytes
      BY <2>1, Sets, Zenon
    <2>7. bmap(i, l)' = b
      BY <1>7, <1>17, DataPlaces, Zenon DEF PlacesStay
    <2>8. data'[b][s] = p
      BY <1>12, <2>5, <2>6, Zenon
    <2> QED BY <1>9, <2>1, <2>3, <2>7, <2>8, Zenon DEF Holding, Byte
  <1>22. ASSUME NEW q \in BProc, NEW j \in Inode, NEW x \in 0 .. MAXFILE * BSIZE - 1
         PROVE  /\ q # p => (Written(q, j, x)' <=> Written(q, j, x))
                /\ Written(p, j, x) <=> j = i /\ off <= x /\ x < y
                /\ Written(p, j, x)' <=> j = i /\ off <= x /\ x < y + m
                /\ Written(q, i, x) => q = p
    <2>1. q # p => (Written(q, j, x)' <=> Written(q, j, x))
      BY <1>13, Zenon DEF Moves, Written
    <2>2. Written(p, j, x) <=> j = i /\ off <= x /\ x < y
      BY <1>1, <1>2, <1>3, <1>4, Zenon DEF Written
    <2>3. off + (tot + m) = y + m
      BY <1>3
    <2>4. Written(p, j, x)' <=> j = i /\ off <= x /\ x < y + m
      BY <1>1, <1>2, <1>9, <1>13, <2>3, Zenon DEF Written
    <2>5. Written(q, i, x) => q = p
      BY <1>10, Zenon DEF Written, Holds
    <2> QED BY <2>1, <2>2, <2>4, <2>5, Zenon
  <1>23. Contents'
    <2> SUFFICES ASSUME NEW j \in Inode, ~Truncating(j), NEW x \in 0 .. MAXFILE * BSIZE - 1
                 PROVE  /\ \A q \in BProc : Written(q, j, x)' => Holding(j, x, q)'
                        /\ x < isize[j] /\ ~(\E q \in BProc : Written(q, j, x)') => Holding(j, x, flat[j][x + 1])'
      BY <1>9, <1>18, Zenon DEF Contents
    <2>1. ASSUME NEW q \in BProc, Written(q, j, x)' PROVE Holding(j, x, q)'
      <3>1. CASE q # p
        <4>1. Written(q, j, x)
          BY <1>22, <2>1, <3>1, Zenon
        <4>2. Holding(j, x, q) /\ j # i
          BY <1>22, <3>1, <4>1, Zenon DEF BlocksInv, Contents
        <4> QED BY <1>20, <4>2, Zenon
      <3>2. CASE q = p
        <4>1. j = i /\ off <= x /\ x < y + m
          BY <1>22, <2>1, <3>2, Zenon
        <4>2. CASE x < y
          <5>1. Holding(i, x, p)
            BY <1>22, <4>1, <4>2, Zenon DEF BlocksInv, Contents
          <5> QED BY <1>20, <3>2, <4>1, <5>1, Zenon
        <4>3. CASE ~(x < y)
          <5>1. y <= x
            BY <4>3
          <5> QED BY <1>21, <3>2, <4>1, <5>1, Zenon
        <4> QED BY <4>2, <4>3, Zenon
      <3> QED BY <3>1, <3>2, Zenon
    <2>2. ASSUME x < isize[j], ~(\E q \in BProc : Written(q, j, x)') PROVE Holding(j, x, flat[j][x + 1])'
      <3>1. ~(j = i /\ off <= x /\ x < y + m)
        BY <1>22, <2>2, Zenon
      <3>2. j # i \/ x < y \/ x >= y + m
        BY <1>2, <1>3, <1>8, <3>1
      <3>3. ASSUME NEW q \in BProc, Written(q, j, x) PROVE FALSE
        <4>1. CASE q # p
          BY <1>22, <2>2, <3>3, <4>1, Zenon
        <4>2. CASE q = p
          <5>1. j = i /\ off <= x /\ x < y
            BY <1>22, <3>3, <4>2, Zenon
          <5>2. x < y + m
            BY <1>8, <5>1
          <5> QED BY <3>1, <5>1, <5>2, Zenon
        <4> QED BY <4>1, <4>2, Zenon
      <3>4. Holding(j, x, flat[j][x + 1])
        BY <2>2, <3>3, Zenon DEF BlocksInv, Contents
      <3>5. PICK v : v = flat[j][x + 1]
        BY Zenon
      <3>6. Holding(j, x, v)'
        BY <1>20, <3>2, <3>4, <3>5, Zenon
      <3> QED BY <1>9, <3>5, <3>6, Zenon DEF Holding, Byte
    <2> QED BY <2>1, <2>2, Zenon
  <1> QED BY <1>14, <1>15, <1>19, <1>23, Zenon DEF BlocksInv

\* What the reference sequence becomes.
Reaches(len, s, off, n) == len = IF off + n > Len(s) THEN off + n ELSE Len(s)
Laid(o, len, s, off, n, v) ==
    /\ o \in Seq(Nat) /\ Len(o) = len
    /\ \A k \in 1 .. len : o[k] = IF k > off /\ k <= off + n THEN v ELSE s[k]

\* A function on 1 .. n is a sequence of length n.
LEMMA SeqIs ==
    ASSUME NEW n \in Nat, NEW o \in [1 .. n -> Nat]
    PROVE  o \in Seq(Nat) /\ Len(o) = n
  OBVIOUS

\* The length and the bytes of a plain sequence after a write.
LEMMA OverlayIs ==
    ASSUME NEW s \in Seq(Nat), NEW off \in Nat, NEW n \in Nat, NEW v \in Nat, off <= Len(s),
           NEW len \in Nat, Reaches(len, s, off, n)
    PROVE  Laid(Overlay(s, off, n, v), len, s, off, n, v)
  <1>r. len = IF off + n > Len(s) THEN off + n ELSE Len(s)
    BY Zenon DEF Reaches
  <1>1. PICK o : o = Overlay(s, off, n, v)
    BY Zenon
  <1>2. o = [k \in 1 .. len |-> IF k > off /\ k <= off + n THEN v ELSE s[k]]
    BY <1>r, <1>1, Zenon DEF Overlay
  <1>3. ASSUME NEW k \in 1 .. len PROVE (IF k > off /\ k <= off + n THEN v ELSE s[k]) \in Nat
    <2>1. CASE k > off /\ k <= off + n
      BY <2>1, Zenon
    <2>2. CASE ~(k > off /\ k <= off + n)
      <3>1. k \in 1 .. Len(s)
        BY <1>r, <2>2
      <3>2. s[k] \in Nat
        BY <3>1
      <3> QED BY <2>2, <3>2, Zenon
    <2> QED BY <2>1, <2>2, Zenon
  <1>4. o \in [1 .. len -> Nat]
    BY <1>2, <1>3, Zenon
  <1>5. o \in Seq(Nat) /\ Len(o) = len
    BY <1>4, SeqIs, Zenon
  <1>6. \A k \in 1 .. len : o[k] = IF k > off /\ k <= off + n THEN v ELSE s[k]
    BY <1>2, Zenon
  <1> QED BY <1>1, <1>5, <1>6, Zenon DEF Laid

\* The end of writei makes the bytes copied those of the file, up to its new size.
LEMMA EndWriteStep ==
    ASSUME BlocksInv, NEW p \in BProc, EndWrite(p)
    PROVE  BlocksInv'
  <1>1. PICK i \in Inode : i = fp[p].ip
    BY DEF BlocksInv, BlockTypes
  <1>2. PICK off \in Nat, n1 \in Nat : off = fp[p].off /\ n1 = wr[p].n1
    BY InNat, Zenon
  <1>3. /\ wr[p].pc = "copy" /\ wr[p].tot = n1 /\ off + n1 <= MAXFILE * BSIZE
        /\ n1 <= wr[p].n /\ off <= isize[i]
    BY <1>1, <1>2, Zenon DEF EndWrite, Doing, BlocksInv, LockInv
  <1>4. PICK size \in Offset : size = isize[i]
    BY DEF BlocksInv, BlockTypes
  <1>5. PICK len \in Offset : len = (IF off + n1 > size THEN off + n1 ELSE size) /\ size <= len /\ off + n1 <= len
    <2>1. /\ (IF off + n1 > size THEN off + n1 ELSE size) \in Offset
          /\ size <= (IF off + n1 > size THEN off + n1 ELSE size)
          /\ off + n1 <= (IF off + n1 > size THEN off + n1 ELSE size)
      BY <1>3, Consts DEF Offset
    <2> QED BY <2>1, Zenon
  <1>6. /\ isize' = [isize EXCEPT ![i] = len] /\ fp' = [fp EXCEPT ![p].off = off + n1]
        /\ flat' = [flat EXCEPT ![i] = Overlay(flat[i], off, n1, p)]
        /\ wr' = [wr EXCEPT ![p].pc = "commit", ![p].n = wr[p].n - n1]
        /\ UNCHANGED <<bitmap, addrs, data, bPanic>>
    BY <1>1, <1>2, <1>4, <1>5, Zenon DEF EndWrite, Grown
  <1>7. ~Truncating(i) /\ \A q \in BProc \ {p} : ~Holds(q, i)
    BY <1>1, <1>3, Writing, Zenon
  <1>8. off + n1 \in Offset /\ off + n1 \in Nat /\ len \in Nat /\ size \in Nat
    BY <1>3, Consts DEF Offset
  <1>9. /\ Moves(p) /\ wr'[p].pc = "commit" /\ fp'[p].off = off + n1
    <2>1. wr \in [BProc -> Call] /\ wr[p].n - n1 \in Nat
      <3>1. wr[p].n \in Nat
        BY InNat, Zenon
      <3>2. wr[p].n - n1 \in Nat
        BY <1>3, <3>1
      <3> QED BY <3>2, Zenon DEF BlocksInv, BlockTypes
    <2>2. /\ wr' \in [BProc -> Call] /\ wr'[p].pc = "commit" /\ \A q \in BProc \ {p} : wr'[q] = wr[q]
      BY <1>6, <2>1, Zenon DEF Call, Pc
    <2>3. fp \in [BProc -> [ip : Inode, off : Offset]]
      BY Zenon DEF BlocksInv, BlockTypes
    <2>4. /\ fp' \in [BProc -> [ip : Inode, off : Offset]] /\ fp'[p].ip = fp[p].ip /\ fp'[p].off = off + n1
          /\ \A q \in BProc \ {p} : fp'[q] = fp[q]
      BY <1>6, <1>8, <2>3
    <2> QED BY <2>2, <2>4, Zenon DEF Moves
  <1>10. PICK s \in Seq(Nat) : s = flat[i] /\ Len(s) = size
    BY <1>4, Zenon DEF BlocksInv, BlockTypes, Sizes
  <1>11. PICK o : o = Overlay(s, off, n1, p)
    BY Zenon
  <1>12. /\ o \in Seq(Nat) /\ Len(o) = len
         /\ \A k \in 1 .. len : o[k] = IF k > off /\ k <= off + n1 THEN p ELSE s[k]
    <2>1. p \in Nat /\ off <= Len(s)
      BY <1>3, <1>4, <1>10, BlocksAssumption, Zenon
    <2>2. Reaches(len, s, off, n1)
      BY <1>5, <1>10, Zenon DEF Reaches
    <2>3. Laid(o, len, s, off, n1, p)
      BY <1>8, <1>11, <2>1, <2>2, OverlayIs, Zenon
    <2> QED BY <2>3, Zenon DEF Laid
  <1>13. /\ flat' \in [Inode -> Seq(Nat)] /\ flat'[i] = o /\ \A j \in Inode : j # i => flat'[j] = flat[j]
         /\ isize' \in [Inode -> Offset] /\ isize'[i] = len /\ \A j \in Inode : j # i => isize'[j] = isize[j]
    <2>1. flat' = [flat EXCEPT ![i] = o]
      BY <1>6, <1>10, <1>11, Zenon
    <2>2. flat \in [Inode -> Seq(Nat)] /\ isize \in [Inode -> Offset]
      BY Zenon DEF BlocksInv, BlockTypes
    <2>3. o \in Seq(Nat)
      BY <1>12, Zenon
    <2>4. flat' \in [Inode -> Seq(Nat)] /\ flat'[i] = o /\ \A j \in Inode : j # i => flat'[j] = flat[j]
      BY <2>1, <2>2, <2>3, Zenon
    <2>5. isize' = [isize EXCEPT ![i] = len]
      BY <1>6, Zenon
    <2>6. isize' \in [Inode -> Offset] /\ isize'[i] = len /\ \A j \in Inode : j # i => isize'[j] = isize[j]
      BY <2>2, <2>5, Zenon
    <2> QED BY <2>4, <2>6, Zenon
  <1>14. BlockTypes'
    BY <1>6, <1>9, <1>13, Zenon DEF BlocksInv, BlockTypes, Moves
  <1>15. Sizes'
    BY <1>12, <1>13, Zenon DEF BlocksInv, Sizes
  <1>16. LockInv'
    <2>1. ASSUME NEW q \in BProc PROVE fp'[q].off <= isize'[fp'[q].ip]
      <3>1. CASE q = p
        BY <1>1, <1>5, <1>9, <1>13, <3>1, Zenon DEF Moves
      <3>2. CASE q # p
        <4>1. fp'[q] = fp[q] /\ fp[q].off <= isize[fp[q].ip] /\ fp[q].ip \in Inode /\ fp[q].off \in Nat
          <5>1. fp[q].ip \in Inode /\ fp[q].off \in Nat
            BY Consts DEF BlocksInv, BlockTypes, Offset
          <5> QED BY <1>9, <3>2, <5>1, Zenon DEF Moves, BlocksInv, LockInv
        <4>2. CASE fp[q].ip = i
          <5>1. fp[q].off <= size
            BY <1>4, <4>1, <4>2, Zenon
          <5>2. fp[q].off <= len
            BY <1>5, <1>8, <4>1, <5>1
          <5> QED BY <1>13, <4>1, <4>2, <5>2, Zenon
        <4>3. CASE fp[q].ip # i
          BY <1>13, <4>1, <4>3, Zenon
        <4> QED BY <4>2, <4>3, Zenon
      <3> QED BY <3>1, <3>2, Zenon
    <2>2. wr'[p].pc # "copy" /\ wr'[p].pc # "trunc"
      BY <1>9, Zenon
    <2> QED BY <1>9, <2>1, <2>2, LockKept, Zenon DEF BlocksInv
  <1>17. PlacesStay /\ \A j, x, v : Holding(j, x, v)' <=> Holding(j, x, v)
    <2>1. \A j, k : bmap(j, k)' = bmap(j, k)
      BY <1>6, Zenon DEF bmap
    <2> QED BY <1>6, <2>1, Zenon DEF PlacesStay, Place, Holding, Byte
  <1>18. GoneStays /\ \A j \in Inode : Truncating(j)' <=> Truncating(j)
    <2>1. wr[p].pc # "trunc" /\ wr'[p].pc # "trunc"
      BY <1>3, <1>9, Zenon
    <2> QED BY <1>9, <2>1, GoneKept, Zenon DEF GoneStays
  <1>19. Marked' /\ Owned' /\ Named' /\ Struck'
    BY <1>6, <1>17, <1>18, PlacesKept, StruckKept, Zenon DEF BlocksInv
  <1>20. ASSUME NEW q \in BProc, NEW j \in Inode, NEW x \in 0 .. MAXFILE * BSIZE - 1
         PROVE  /\ q # p => (Written(q, j, x)' <=> Written(q, j, x))
                /\ ~Written(p, j, x)' /\ ~Written(q, i, x)'
                /\ Written(q, i, x) <=> q = p /\ off <= x /\ x < off + n1
                /\ j # i => ~Written(p, j, x)
    <2>1. q # p => (Written(q, j, x)' <=> Written(q, j, x))
      BY <1>9, Zenon DEF Moves, Written
    <2>2. ~Written(p, j, x)'
      BY <1>9, Zenon DEF Written
    <2>3. q # p => ~Written(q, i, x) /\ ~Written(q, i, x)'
      BY <1>7, <1>9, Zenon DEF Moves, Written, Holds
    <2>4. Written(p, i, x) <=> off <= x /\ x < off + n1
      BY <1>1, <1>2, <1>3, Zenon DEF Written
    <2>5. j # i => ~Written(p, j, x)
      BY <1>1, Zenon DEF Written
    <2>6. ~Written(p, i, x)'
      BY <1>9, Zenon DEF Written
    <2> QED BY <2>1, <2>2, <2>3, <2>4, <2>5, <2>6, Zenon
  <1>21. Contents'
    <2> SUFFICES ASSUME NEW j \in Inode, ~Truncating(j), NEW x \in 0 .. MAXFILE * BSIZE - 1
                 PROVE  /\ \A q \in BProc : Written(q, j, x)' => Holding(j, x, q)
                        /\ x < isize'[j] /\ ~(\E q \in BProc : Written(q, j, x)') => Holding(j, x, flat'[j][x + 1])
      BY <1>17, <1>18, Zenon DEF Contents
    <2>1. ASSUME NEW q \in BProc, Written(q, j, x)' PROVE Holding(j, x, q)
      <3>1. Written(q, j, x)
        BY <1>20, <2>1, Zenon
      <3> QED BY <3>1, Zenon DEF BlocksInv, Contents
    <2>2. ASSUME x < isize'[j], ~(\E q \in BProc : Written(q, j, x)') PROVE Holding(j, x, flat'[j][x + 1])
      <3>1. CASE j # i
        <4>1. ~(\E q \in BProc : Written(q, j, x)) /\ x < isize[j]
          BY <1>13, <1>20, <2>2, <3>1, Zenon
        <4>2. Holding(j, x, flat[j][x + 1])
          BY <4>1, Zenon DEF BlocksInv, Contents
        <4> QED BY <1>13, <3>1, <4>2, Zenon
      <3>2. CASE j = i
        <4>1. x < len
          BY <1>13, <2>2, <3>2, Zenon
        <4>2. x + 1 \in 1 .. len /\ x \in Nat
          BY <1>8, <4>1, Consts
        <4>3. CASE off <= x /\ x < off + n1
          <5>1. x + 1 > off /\ x + 1 <= off + n1
            BY <4>2, <4>3
          <5>2. flat'[i][x + 1] = p
            BY <1>12, <1>13, <4>2, <5>1, Zenon
          <5>3. Holding(i, x, p)
            BY <1>7, <1>20, <4>3, Zenon DEF BlocksInv, Contents
          <5> QED BY <3>2, <5>2, <5>3, Zenon
        <4>4. CASE ~(off <= x /\ x < off + n1)
          <5>1. ~(x + 1 > off /\ x + 1 <= off + n1) /\ x < size
            BY <1>3, <1>4, <1>5, <1>8, <4>1, <4>2, <4>4
          <5>2. flat'[i][x + 1] = flat[i][x + 1]
            BY <1>10, <1>12, <1>13, <4>2, <5>1, Zenon
          <5>3. Holding(i, x, flat[i][x + 1])
            BY <1>4, <1>7, <1>20, <4>4, <5>1, Zenon DEF BlocksInv, Contents
          <5> QED BY <3>2, <5>2, <5>3, Zenon
        <4> QED BY <4>3, <4>4, Zenon
      <3> QED BY <3>1, <3>2, Zenon
    <2> QED BY <2>1, <2>2, Zenon
  <1> QED BY <1>14, <1>15, <1>16, <1>19, <1>21, Zenon DEF BlocksInv

-----------------------------------------------------------------------------
(* itrunc *)

\* One turn of itrunc finds its block marked, and leaves the places that are not its own alone.
LEMMA BFreeStep ==
    ASSUME BlocksInv, NEW p \in BProc, BFree(p)
    PROVE  BlocksInv' /\ bPanic' = bPanic
  <1>1. PICK i \in Inode : i = fp[p].ip
    BY DEF BlocksInv, BlockTypes
  <1>2. PICK k : k = wr[p].at
    BY Zenon
  <1>3. wr[p].pc = "trunc" /\ k <= MAXFILE
    BY <1>2, Zenon DEF BFree, Doing
  <1>4. k \in Places /\ k + 1 \in 0 .. MAXFILE + 1
    <2>1. k \in 0 .. MAXFILE + 1
      BY <1>2 DEF BlocksInv, BlockTypes, Call
    <2> QED BY <1>3, <2>1, Consts DEF Places
  <1>5. PICK b : b = Place(i, k)
    BY Zenon
  <1>6. \A q \in BProc \ {p} : fp[q].ip # i
    BY <1>1, <1>3, Zenon DEF BlocksInv, LockInv
  <1>7. \A l : Gone(i, l) <=> l < k
    BY <1>1, <1>2, <1>3, <1>6, Zenon DEF Gone
  <1>8. ~Gone(i, k)
    <2>1. ~(k < k)
      BY <1>4, Consts DEF Places
    <2> QED BY <1>7, <2>1, Zenon
  <1>9. b # 0 => b \in bitmap
    BY <1>4, <1>5, <1>8, Zenon DEF BlocksInv, Named, Number, Marked
  <1>10. /\ bitmap' = bitmap \ {b} /\ wr' = [wr EXCEPT ![p].at = k + 1]
         /\ addrs' = IF k \in NDIRECT .. MAXFILE - 1 THEN addrs
                     ELSE [addrs EXCEPT ![i][Min2(k, NDIRECT)] = 0]
         /\ UNCHANGED <<data, isize, fp, flat, bPanic>>
    BY <1>1, <1>2, <1>5, <1>9, Zenon DEF BFree
  <1>11. /\ Moves(p) /\ wr'[p].pc = "trunc" /\ wr'[p].at = k + 1
    <2>1. wr \in [BProc -> Call]
      BY Zenon DEF BlocksInv, BlockTypes
    <2>2. /\ wr' \in [BProc -> Call] /\ \A q \in BProc \ {p} : wr'[q] = wr[q]
          /\ wr'[p].pc = wr[p].pc /\ wr'[p].at = k + 1
      BY <1>4, <1>10, <2>1 DEF Call
    <2> QED BY <1>3, <1>10, <2>2, Zenon DEF Moves, BlocksInv, BlockTypes
  <1>12. /\ addrs' \in [Inode -> [0 .. NDIRECT -> Number]]
         /\ \A j \in Inode : j # i => addrs'[j] = addrs[j]
         /\ \A l \in 0 .. NDIRECT : addrs'[i][l] = addrs[i][l] \/ addrs'[i][l] = 0
         /\ \A l \in 0 .. NDIRECT - 1 : addrs'[i][l] = IF l = k THEN 0 ELSE addrs[i][l]
         /\ addrs'[i][NDIRECT] = IF k = MAXFILE THEN 0 ELSE addrs[i][NDIRECT]
    <2>1. addrs \in [Inode -> [0 .. NDIRECT -> Number]] /\ 0 \in Number
      BY Zenon DEF BlocksInv, BlockTypes, Number
    <2>2. CASE k \in NDIRECT .. MAXFILE - 1
      <3>1. addrs' = addrs
        BY <1>10, <2>2, Zenon
      <3>2. k # MAXFILE /\ \A l \in 0 .. NDIRECT - 1 : l # k
        BY <2>2, Consts
      <3> QED BY <2>1, <3>1, <3>2, Zenon
    <2>3. CASE k < NDIRECT
      <3>1. Min2(k, NDIRECT) = k /\ k \in 0 .. NDIRECT /\ k # NDIRECT /\ k # MAXFILE /\ k \notin NDIRECT .. MAXFILE - 1
        BY <1>4, <2>3, Consts DEF Min2, Places
      <3>2. addrs' = [addrs EXCEPT ![i][k] = 0]
        BY <1>10, <3>1, Zenon
      <3>3. \A l \in 0 .. NDIRECT - 1 : l \in 0 .. NDIRECT
        BY Consts
      <3> QED BY <2>1, <3>1, <3>2, <3>3, Sets
    <2>4. CASE k = MAXFILE
      <3>1. Min2(k, NDIRECT) = NDIRECT /\ k \notin NDIRECT .. MAXFILE - 1
        BY <2>4, Consts DEF Min2
      <3>2. addrs' = [addrs EXCEPT ![i][NDIRECT] = 0]
        BY <1>10, <3>1, Zenon
      <3>3. \A l \in 0 .. NDIRECT - 1 : l \in 0 .. NDIRECT /\ l # NDIRECT /\ l # k
        BY <2>4, Consts
      <3> QED BY <2>1, <2>4, <3>2, <3>3, Sets
    <2>5. k \in NDIRECT .. MAXFILE - 1 \/ k < NDIRECT \/ k = MAXFILE
      BY <1>4, Consts DEF Places
    <2> QED BY <2>2, <2>3, <2>4, <2>5, Zenon
  <1>13. /\ \A j \in Inode, l \in Places : Place(j, l)' = Place(j, l) \/ Place(j, l)' = 0
         /\ \A j \in Inode, l \in Places : j # i \/ k < l => Place(j, l)' = Place(j, l)
    <2>1. ASSUME NEW j \in Inode, NEW l \in Places, j # i PROVE Place(j, l)' = Place(j, l)
      BY <1>10, <1>12, <2>1, PlaceSame, Zenon
    <2>2. ASSUME NEW l \in Places PROVE /\ Place(i, l)' = Place(i, l) \/ Place(i, l)' = 0
                                        /\ k < l => Place(i, l)' = Place(i, l)
      <3>1. k < l => k # l /\ k # MAXFILE
        BY <1>4, Consts DEF Places
      <3>2. CASE l \in 0 .. NDIRECT - 1 /\ Place(i, l) = addrs[i][l] /\ Place(i, l)' = addrs'[i][l]
        BY <1>12, <3>1, <3>2, Zenon
      <3>3. CASE l = MAXFILE /\ Place(i, l) = addrs[i][NDIRECT] /\ Place(i, l)' = addrs'[i][NDIRECT]
        BY <1>12, <3>1, <3>3, Zenon
      <3>4. CASE /\ Place(i, l) = IF addrs[i][NDIRECT] = 0 THEN 0 ELSE data[addrs[i][NDIRECT]][l - NDIRECT]
                 /\ Place(i, l)' = IF addrs'[i][NDIRECT] = 0 THEN 0 ELSE data'[addrs'[i][NDIRECT]][l - NDIRECT]
        <4>1. CASE addrs'[i][NDIRECT] = 0
          <5>1. Place(i, l)' = 0
            BY <3>4, <4>1, Zenon
          <5>2. k < l => Place(i, l) = 0
            BY <1>12, <3>1, <3>4, <4>1, Zenon
          <5> QED BY <5>1, <5>2, Zenon
        <4>2. CASE addrs'[i][NDIRECT] # 0
          <5>1. addrs'[i][NDIRECT] = addrs[i][NDIRECT] /\ data' = data
            BY <1>10, <1>12, <4>2, Zenon
          <5> QED BY <3>4, <4>2, <5>1, Zenon
        <4> QED BY <4>1, <4>2, Zenon
      <3> QED BY <3>2, <3>3, <3>4, PlaceCases, Zenon
    <2> QED BY <2>1, <2>2, Zenon
  <1>14. /\ \A j \in Inode, l \in Places : Gone(j, l)' <=> (Gone(j, l) \/ (j = i /\ l = k))
         /\ \A j \in Inode : Truncating(j)' <=> Truncating(j)
    <2>1. \A q \in BProc : fp'[q].ip = fp[q].ip /\ wr'[q].pc = wr[q].pc /\ (q # p => wr'[q] = wr[q])
      BY <1>3, <1>11, Zenon DEF Moves
    <2>2. \A j \in Inode : Truncating(j)' <=> Truncating(j)
      BY <2>1, Zenon DEF Truncating
    <2>3. ASSUME NEW j \in Inode, NEW l \in Places, j # i PROVE Gone(j, l)' <=> Gone(j, l)
      BY <1>1, <2>1, <2>3, Zenon DEF Gone
    <2>4. ASSUME NEW l \in Places PROVE Gone(i, l)' <=> Gone(i, l) \/ l = k
      <3>1. Gone(i, l)' <=> l < k + 1
        BY <1>1, <1>3, <1>6, <1>11, <2>1, Zenon DEF Gone
      <3>2. l < k + 1 <=> l < k \/ l = k
        BY <1>4, Consts DEF Places
      <3> QED BY <1>7, <3>1, <3>2, Zenon
    <2> QED BY <2>2, <2>3, <2>4, Zenon
  <1>15. ASSUME NEW j \in Inode, NEW l \in Places, ~Gone(j, l)'
         PROVE  ~Gone(j, l) /\ Place(j, l)' = Place(j, l) /\ (j # i \/ l # k)
    <2>1. ~Gone(j, l) /\ (j # i \/ l # k)
      BY <1>14, <1>15, Zenon
    <2>2. CASE j # i
      BY <1>13, <2>1, <2>2, Zenon
    <2>3. CASE j = i
      <3>1. ~(l < k) /\ l # k
        BY <1>7, <2>1, <2>3, Zenon
      <3>2. k < l
        BY <1>4, <3>1, Consts DEF Places
      <3> QED BY <1>13, <2>1, <2>3, <3>2, Zenon
    <2> QED BY <2>2, <2>3, Zenon
  <1>16. Marked'
    <2>1. ASSUME NEW c \in Block, c \in bitmap'
          PROVE  \E j \in Inode, l \in Places : ~Gone(j, l)' /\ Place(j, l)' = c
      <3>1. c \in bitmap /\ c # b
        BY <1>10, <2>1, Zenon
      <3>2. PICK j \in Inode, l \in Places : ~Gone(j, l) /\ Place(j, l) = c
        BY <3>1, Zenon DEF BlocksInv, Marked
      <3>3. ~Gone(j, l)'
        BY <1>5, <1>14, <3>1, <3>2, Zenon
      <3> QED BY <1>15, <3>2, <3>3, Zenon
    <2>2. ASSUME NEW c \in Block, NEW j \in Inode, NEW l \in Places, ~Gone(j, l)', Place(j, l)' = c
          PROVE  c \in bitmap'
      <3>1. ~Gone(j, l) /\ Place(j, l) = c /\ (j # i \/ l # k)
        BY <1>15, <2>2, Zenon
      <3>2. c \in bitmap
        BY <3>1, Zenon DEF BlocksInv, Marked
      <3>3. c # b
        <4>1. ASSUME c = b PROVE FALSE
          <5>1. Twice(j, l, i, k)
            BY <1>5, <1>8, <3>1, <4>1, ZeroIsNone, Zenon DEF Twice
          <5> QED BY <1>4, <3>1, <5>1, OnePlace, Zenon DEF BlocksInv
        <4> QED BY <4>1, Zenon
      <3> QED BY <1>10, <3>2, <3>3, Zenon
    <2> QED BY <2>1, <2>2, Zenon DEF Marked
  <1>17. Owned'
    <2>1. ASSUME NEW j \in Inode, NEW l \in Places, NEW m \in Inode, NEW n \in Places, Twice(j, l, m, n)'
          PROVE  j = m /\ l = n
      <3>1. ~Gone(j, l)' /\ ~Gone(m, n)' /\ Place(j, l)' = Place(m, n)' /\ Place(j, l)' # 0
        BY <2>1, Zenon DEF Twice
      <3>2. ~Gone(j, l) /\ ~Gone(m, n) /\ Place(j, l)' = Place(j, l) /\ Place(m, n)' = Place(m, n)
        BY <1>15, <3>1, Zenon
      <3>3. Twice(j, l, m, n)
        BY <3>1, <3>2, Zenon DEF Twice
      <3> QED BY <3>3, OnePlace, Zenon DEF BlocksInv
    <2> QED BY <2>1, Zenon DEF Owned
  <1>18. Named'
    BY <1>13, Zenon DEF BlocksInv, Named, Number
  <1>19. Struck'
    <2>1. MAXFILE \in Places /\ \A l \in 0 .. NDIRECT - 1 : l \in Places
      BY Consts DEF Places
    <2>2. ASSUME NEW j \in Inode, NEW l \in 0 .. NDIRECT - 1, Gone(j, l)' PROVE addrs'[j][l] = 0
      <3>1. Gone(j, l) \/ (j = i /\ l = k)
        BY <1>14, <2>1, <2>2, Zenon
      <3>2. Gone(j, l) => addrs[j][l] = 0
        BY Zenon DEF BlocksInv, Struck
      <3> QED BY <1>12, <3>1, <3>2, Zenon
    <2>3. ASSUME NEW j \in Inode, Gone(j, MAXFILE)' PROVE addrs'[j][NDIRECT] = 0
      <3>1. Gone(j, MAXFILE) \/ (j = i /\ MAXFILE = k)
        BY <1>14, <2>1, <2>3, Zenon
      <3>2. Gone(j, MAXFILE) => addrs[j][NDIRECT] = 0
        BY Zenon DEF BlocksInv, Struck
      <3> QED BY <1>12, <3>1, <3>2, Zenon
    <2> QED BY <2>2, <2>3, Zenon DEF Struck
  <1>20. BlockTypes'
    <2>1. bitmap' \subseteq Block
      BY <1>10, Zenon DEF BlocksInv, BlockTypes
    <2> QED BY <1>10, <1>11, <1>12, <2>1, Zenon DEF BlocksInv, BlockTypes, Moves
  <1>21. LockInv'
    <2>1. \A q \in BProc : fp'[q].off <= isize'[fp'[q].ip]
      BY <1>10, Zenon DEF BlocksInv, LockInv
    <2>2. \A q \in BProc \ {p} : ~Holds(q, fp[p].ip) /\ fp[q].ip # fp[p].ip
      BY <1>1, <1>6, Zenon DEF Holds
    <2>3. wr'[p].pc # "copy"
      BY <1>11, Zenon
    <2> QED BY <1>11, <2>1, <2>2, <2>3, LockKept, Zenon DEF BlocksInv
  <1>22. Contents'
    <2>1. Truncating(i)
      BY <1>1, <1>3, Zenon DEF Truncating
    <2>2. \A j \in Inode : j # i => \A x, v : Holding(j, x, v)' <=> Holding(j, x, v)
      <3>1. \A j \in Inode : j # i => \A n : bmap(j, n)' = bmap(j, n)
        BY <1>10, <1>12, Zenon DEF bmap
      <3> QED BY <1>10, <3>1, Zenon DEF Holding, Byte
    <2>3. \A q \in BProc : \A j, x : Written(q, j, x)' <=> Written(q, j, x)
      <3>1. \A q \in BProc : q # p => wr'[q] = wr[q]
        BY <1>11, Zenon DEF Moves
      <3>2. \A j, x : ~Written(p, j, x) /\ ~Written(p, j, x)'
        BY <1>3, <1>11, Zenon DEF Written
      <3> QED BY <1>10, <3>1, <3>2, Zenon DEF Written
    <2> QED BY <1>10, <1>14, <2>1, <2>2, <2>3, Zenon DEF BlocksInv, Contents
  <1>23. Sizes'
    BY <1>10, Zenon DEF BlocksInv, Sizes
  <1> QED BY <1>10, <1>16, <1>17, <1>18, <1>19, <1>20, <1>21, <1>22, <1>23, Zenon DEF BlocksInv

\* After its last turn itrunc has struck out every block, and the file is empty.
LEMMA ITruncEndStep ==
    ASSUME BlocksInv, NEW p \in BProc, ITruncEnd(p)
    PROVE  BlocksInv' /\ bPanic' = bPanic
  <1>1. PICK i \in Inode : i = fp[p].ip
    BY DEF BlocksInv, BlockTypes
  <1>2. /\ wr[p].pc = "trunc" /\ wr[p].at > MAXFILE
        /\ isize' = [isize EXCEPT ![i] = 0] /\ flat' = [flat EXCEPT ![i] = <<>>]
        /\ fp' = [fp EXCEPT ![p].off = 0]
        /\ wr' = [wr EXCEPT ![p] = [Rest EXCEPT !.calls = wr[p].calls]]
        /\ UNCHANGED <<bitmap, addrs, data, bPanic>>
    BY <1>1, Zenon DEF ITruncEnd, Doing
  <1>3. \A q \in BProc \ {p} : fp[q].ip # i
    BY <1>1, <1>2, Zenon DEF BlocksInv, LockInv
  <1>4. \A l \in Places : Gone(i, l)
    <2>1. wr[p].at \in 0 .. MAXFILE + 1
      BY DEF BlocksInv, BlockTypes, Call
    <2>2. \A l \in Places : l < wr[p].at
      BY <1>2, <2>1, Consts DEF Places
    <2> QED BY <1>1, <1>2, <2>2, Zenon DEF Gone
  <1>5. \A l \in Places : Place(i, l) = 0
    <2>1. MAXFILE \in Places /\ \A l \in 0 .. NDIRECT - 1 : l \in Places
      BY Consts DEF Places
    <2>2. addrs[i][NDIRECT] = 0 /\ \A l \in 0 .. NDIRECT - 1 : addrs[i][l] = 0
      BY <1>4, <2>1, Zenon DEF BlocksInv, Struck
    <2> QED BY <2>2, PlaceCases, Zenon
  <1>6. Moves(p) /\ wr'[p].pc = "idle" /\ fp'[p].off = 0
    <2>1. wr \in [BProc -> Call] /\ wr[p].calls \in Nat /\ fp \in [BProc -> [ip : Inode, off : Offset]] /\ 0 \in Offset
      BY Consts DEF BlocksInv, BlockTypes, Call, Offset
    <2>2. [Rest EXCEPT !.calls = wr[p].calls] \in Call /\ [Rest EXCEPT !.calls = wr[p].calls].pc = "idle"
      BY <2>1, Consts DEF Rest, Call, Pc
    <2>3. wr' \in [BProc -> Call] /\ wr'[p].pc = "idle" /\ \A q \in BProc \ {p} : wr'[q] = wr[q]
      BY <1>2, <2>1, <2>2, Zenon
    <2>4. /\ fp' \in [BProc -> [ip : Inode, off : Offset]] /\ fp'[p].ip = fp[p].ip /\ fp'[p].off = 0
          /\ \A q \in BProc \ {p} : fp'[q] = fp[q]
      BY <1>2, <2>1
    <2> QED BY <2>3, <2>4, Zenon DEF Moves
  <1>7. /\ isize' \in [Inode -> Offset] /\ isize'[i] = 0 /\ \A j \in Inode : j # i => isize'[j] = isize[j]
        /\ flat' \in [Inode -> Seq(Nat)] /\ flat'[i] = <<>> /\ \A j \in Inode : j # i => flat'[j] = flat[j]
    <2>1. 0 \in Offset /\ <<>> \in Seq(Nat)
      BY Consts DEF Offset
    <2> QED BY <1>2, <2>1, Zenon DEF BlocksInv, BlockTypes
  <1>8. BlockTypes'
    BY <1>2, <1>6, <1>7, Zenon DEF BlocksInv, BlockTypes, Moves
  <1>9. Sizes'
    <2>1. Len(<<>>) = 0
      OBVIOUS
    <2> QED BY <1>7, <2>1, Zenon DEF BlocksInv, Sizes
  <1>10. LockInv'
    <2>1. ASSUME NEW q \in BProc PROVE fp'[q].off <= isize'[fp'[q].ip]
      <3>1. CASE q = p
        <4>1. 0 <= 0
          OBVIOUS
        <4> QED BY <1>1, <1>6, <1>7, <3>1, <4>1, Zenon DEF Moves
      <3>2. CASE q # p
        <4>1. fp'[q] = fp[q] /\ fp[q].ip # i /\ fp[q].ip \in Inode /\ fp[q].off <= isize[fp[q].ip]
          <5>1. fp[q].ip \in Inode
            BY DEF BlocksInv, BlockTypes
          <5> QED BY <1>3, <1>6, <3>2, <5>1, Zenon DEF Moves, BlocksInv, LockInv
        <4> QED BY <1>7, <4>1, Zenon
      <3> QED BY <3>1, <3>2, Zenon
    <2>2. wr'[p].pc # "copy" /\ wr'[p].pc # "trunc"
      BY <1>6, Zenon
    <2> QED BY <1>6, <2>1, <2>2, LockKept, Zenon DEF BlocksInv
  <1>11. \A q \in BProc : fp'[q].ip = fp[q].ip /\ (q # p => wr'[q] = wr[q])
    BY <1>6, Zenon DEF Moves
  <1>12. /\ \A j \in Inode, l \in Places : j # i => (Gone(j, l)' <=> Gone(j, l))
         /\ \A l \in Places : ~Gone(i, l)'
         /\ \A j \in Inode : j # i => (Truncating(j)' <=> Truncating(j))
    <2>1. \A j \in Inode, l \in Places : j # i => (Gone(j, l)' <=> Gone(j, l))
      BY <1>1, <1>11, Zenon DEF Gone
    <2>2. \A l \in Places : ~Gone(i, l)'
      BY <1>1, <1>3, <1>6, <1>11, Zenon DEF Gone
    <2>3. \A j \in Inode : j # i => (Truncating(j)' <=> Truncating(j))
      BY <1>1, <1>11, Zenon DEF Truncating
    <2> QED BY <2>1, <2>2, <2>3, Zenon
  <1>13. PlacesStay /\ \A j, x, v : Holding(j, x, v)' <=> Holding(j, x, v)
    <2>1. \A j, k : bmap(j, k)' = bmap(j, k)
      BY <1>2, Zenon DEF bmap
    <2> QED BY <1>2, <2>1, Zenon DEF PlacesStay, Place, Holding, Byte
  <1>14. ASSUME NEW j \in Inode, NEW l \in Places, Place(j, l) # 0
         PROVE  j # i /\ (Gone(j, l)' <=> Gone(j, l)) /\ Place(j, l)' = Place(j, l)
    BY <1>5, <1>12, <1>13, <1>14, Zenon DEF PlacesStay
  <1>15. Marked'
    <2>1. ASSUME NEW c \in Block, c \in bitmap'
          PROVE  \E j \in Inode, l \in Places : ~Gone(j, l)' /\ Place(j, l)' = c
      <3>1. PICK j \in Inode, l \in Places : ~Gone(j, l) /\ Place(j, l) = c
        BY <1>2, <2>1, Zenon DEF BlocksInv, Marked
      <3>2. Place(j, l) # 0
        BY <3>1, ZeroIsNone, Zenon
      <3> QED BY <1>14, <3>1, <3>2, Zenon
    <2>2. ASSUME NEW c \in Block, NEW j \in Inode, NEW l \in Places, ~Gone(j, l)', Place(j, l)' = c
          PROVE  c \in bitmap'
      <3>1. Place(j, l) = c /\ c # 0
        BY <1>13, <2>2, ZeroIsNone, Zenon DEF PlacesStay
      <3>2. ~Gone(j, l)
        BY <1>14, <2>2, <3>1, Zenon
      <3> QED BY <1>2, <3>1, <3>2, Zenon DEF BlocksInv, Marked
    <2> QED BY <2>1, <2>2, Zenon DEF Marked
  <1>16. Owned'
    <2>1. ASSUME NEW j \in Inode, NEW l \in Places, NEW m \in Inode, NEW n \in Places, Twice(j, l, m, n)'
          PROVE  j = m /\ l = n
      <3>1. Place(j, l) = Place(m, n) /\ Place(j, l) # 0 /\ Place(m, n) # 0
        BY <1>13, <2>1, Zenon DEF PlacesStay, Twice
      <3>2. ~Gone(j, l) /\ ~Gone(m, n)
        BY <1>14, <2>1, <3>1, Zenon DEF Twice
      <3>3. Twice(j, l, m, n)
        BY <3>1, <3>2, Zenon DEF Twice
      <3> QED BY <3>3, OnePlace, Zenon DEF BlocksInv
    <2> QED BY <2>1, Zenon DEF Owned
  <1>17. Named'
    BY <1>13, Zenon DEF BlocksInv, Named, PlacesStay
  <1>18. Struck'
    <2>1. MAXFILE \in Places /\ \A l \in 0 .. NDIRECT - 1 : l \in Places
      BY Consts DEF Places
    <2>2. \A j \in Inode, l \in Places : Gone(j, l)' => Gone(j, l)
      BY <1>12, Zenon
    <2> QED BY <1>2, <2>1, <2>2, Zenon DEF BlocksInv, Struck
  <1>19. Contents'
    <2>1. \A q \in BProc : \A j, x : Written(q, j, x)' <=> Written(q, j, x)
      <3>1. \A q \in BProc : q # p => wr'[q] = wr[q] /\ fp'[q] = fp[q]
        BY <1>6, Zenon DEF Moves
      <3>2. \A j, x : ~Written(p, j, x) /\ ~Written(p, j, x)'
        BY <1>2, <1>6, Zenon DEF Written
      <3> QED BY <3>1, <3>2, Zenon DEF Written
    <2>2. \A q \in BProc : \A x : ~Written(q, i, x)
      BY <1>2, <1>3, Zenon DEF Written
    <2>3. ASSUME NEW x \in 0 .. MAXFILE * BSIZE - 1 PROVE ~(x < isize'[i])
      BY <1>7, Consts
    <2>4. ASSUME NEW j \in Inode, j # i, ~Truncating(j)', NEW x \in 0 .. MAXFILE * BSIZE - 1
          PROVE  /\ \A q \in BProc : Written(q, j, x)' => Holding(j, x, q)'
                 /\ x < isize'[j] /\ ~(\E q \in BProc : Written(q, j, x)') => Holding(j, x, flat[j][x + 1])
      BY <1>7, <1>12, <1>13, <2>1, <2>4, Zenon DEF BlocksInv, Contents
    <2>5. ASSUME NEW j \in Inode, ~Truncating(j)', NEW x \in 0 .. MAXFILE * BSIZE - 1
          PROVE  /\ \A q \in BProc : Written(q, j, x)' => Holding(j, x, q)'
                 /\ x < isize'[j] /\ ~(\E q \in BProc : Written(q, j, x)') => Holding(j, x, flat'[j][x + 1])
      BY <1>7, <2>1, <2>2, <2>3, <2>4, <2>5, Zenon
    <2> QED BY <1>13, <2>5, Zenon DEF Contents
  <1> QED BY <1>2, <1>8, <1>9, <1>10, <1>15, <1>16, <1>17, <1>18, <1>19, Zenon DEF BlocksInv

-----------------------------------------------------------------------------
(* balloc *)

LOCAL INSTANCE WellFoundedInduction

\* A nonempty set of numbers has a least one.
LEMMA LeastOf ==
    ASSUME NEW F, F \subseteq Nat, F # {}
    PROVE  \E x \in F : \A y \in F : x <= y
  <1>1. PICK x \in F : \A y \in F : ~(<<y, x>> \in OpToRel(<, Nat))
    BY NatLessThanWellFounded, WFMin, Zenon
  <1>2. ASSUME NEW y \in F PROVE x <= y
    <2>1. x \in Nat /\ y \in Nat
      BY Zenon
    <2>2. ~(y < x)
      BY <1>1, <2>1, Zenon DEF OpToRel
    <2> QED BY <2>1, <2>2
  <1> QED BY <1>2, Zenon

\* balloc returns a block whose bit is clear, when there is one.
LEMMA Allocated ==
    ASSUME bitmap \subseteq Block, bitmap # Block
    PROVE  balloc \in Block /\ balloc \notin bitmap
  <1>1. Block \ bitmap # {}
    BY Zenon
  <1>2. Block \ bitmap \subseteq Nat
    BY Consts DEF Block
  <1>3. \E b \in Block \ bitmap : \A c \in Block \ bitmap : b <= c
    BY <1>1, <1>2, LeastOf, Zenon
  <1> QED BY <1>3, Zenon DEF balloc

\* bmap allocates an indirect block: all its entries are 0, so no data block comes with it.
LEMMA AllocIndirectStep ==
    ASSUME BlocksInv, NEW p \in BProc, AllocIndirect(p)
    PROVE  BlocksInv'
  <1>1. PICK i \in Inode : i = fp[p].ip
    BY DEF BlocksInv, BlockTypes
  <1>2. wr[p].pc = "copy" /\ addrs[i][NDIRECT] = 0
    BY <1>1, Zenon DEF AllocIndirect, Doing
  <1>3. CASE bitmap = Block
    <2>1. BPanic("balloc: out of blocks")
      BY <1>3, Zenon DEF AllocIndirect
    <2> QED BY <2>1, PanicStep, Zenon
  <1>4. CASE bitmap # Block
    <2>1. PICK b : b = balloc
      BY Zenon
    <2>2. b \in Block /\ b \notin bitmap
      BY <1>4, <2>1, Allocated, Zenon DEF BlocksInv, BlockTypes
    <2>3. /\ bitmap' = bitmap \union {b} /\ data' = [data EXCEPT ![b] = Zero]
          /\ addrs' = [addrs EXCEPT ![i][NDIRECT] = b] /\ UNCHANGED <<isize, flat, fp, wr, bPanic>>
      BY <1>1, <1>4, <2>1, Zenon DEF AllocIndirect
    <2>4. /\ addrs' \in [Inode -> [0 .. NDIRECT -> Number]] /\ addrs'[i][NDIRECT] = b
          /\ \A j \in Inode : j # i => addrs'[j] = addrs[j]
          /\ \A l \in 0 .. NDIRECT - 1 : addrs'[i][l] = addrs[i][l]
      <3>1. b \in Number /\ NDIRECT \in Nat
        BY <2>2, Consts DEF Number
      <3> QED BY <2>3, <3>1 DEF BlocksInv, BlockTypes
    <2>5. /\ data' \in [Block -> [Bytes -> Nat]] /\ data'[b] = Zero
          /\ \A c \in bitmap : data'[c] = data[c]
      BY <2>2, <2>3, Sets, Zenon DEF BlocksInv, BlockTypes
    <2>6. ASSUME NEW j \in Inode, NEW l \in Places, j # i \/ l # MAXFILE
          PROVE  Place(j, l)' = Place(j, l)
      <3>1. CASE j # i
        <4>1. addrs'[j] = addrs[j]
          BY <2>4, <3>1, Zenon
        <4>2. addrs[j][NDIRECT] # 0 => data'[addrs[j][NDIRECT]] = data[addrs[j][NDIRECT]]
          BY <2>5, Indirects, Zenon
        <4> QED BY <4>1, <4>2, PlaceSame, Zenon
      <3>2. CASE j = i
        <4>1. l # MAXFILE
          BY <2>6, <3>2, Zenon
        <4>2. CASE l \in 0 .. NDIRECT - 1 /\ Place(i, l) = addrs[i][l] /\ Place(i, l)' = addrs'[i][l]
          BY <2>4, <3>2, <4>2, Zenon
        <4>3. CASE /\ l - NDIRECT \in 0 .. NINDIRECT - 1
                   /\ Place(i, l) = IF addrs[i][NDIRECT] = 0 THEN 0 ELSE data[addrs[i][NDIRECT]][l - NDIRECT]
                   /\ Place(i, l)' = IF addrs'[i][NDIRECT] = 0 THEN 0 ELSE data'[addrs'[i][NDIRECT]][l - NDIRECT]
          <5>1. Place(i, l) = 0
            BY <1>2, <4>3, Zenon
          <5>2. Place(i, l)' = Zero[l - NDIRECT]
            BY <2>2, <2>4, <2>5, <4>3, ZeroIsNone, Zenon
          <5>3. Zero[l - NDIRECT] = 0
            BY <4>3, Sets, Zenon
          <5> QED BY <3>2, <5>1, <5>2, <5>3, Zenon
        <4> QED BY <4>1, <4>2, <4>3, PlaceCases, Zenon
      <3> QED BY <3>1, <3>2, Zenon
    <2>7. Gains(i, MAXFILE, b) /\ MAXFILE \in Places
      BY <1>2, <2>2, <2>3, <2>4, <2>6, LastPlace, Zenon DEF Gains
    <2>8. \A c \in bitmap : c # addrs[i][NDIRECT] => data'[c] = data[c]
      BY <2>5, Zenon
    <2>9. Spares(i)
      BY <2>3, <2>4, <2>5, <2>8, Zenon DEF Spares
    <2> QED BY <1>1, <1>2, <2>7, <2>9, AllocKeeps, Zenon
  <1> QED BY <1>3, <1>4, Zenon

\* bmap allocates a data block, direct or in the indirect block.
LEMMA AllocBlockStep ==
    ASSUME BlocksInv, NEW p \in BProc, AllocBlock(p)
    PROVE  BlocksInv'
  <1>1. PICK i \in Inode : i = fp[p].ip
    BY DEF BlocksInv, BlockTypes
  <1>2. PICK bn : bn = (fp[p].off + wr[p].tot) \div BSIZE
    BY Zenon
  <1>3. wr[p].pc = "copy" /\ bmap(i, bn) = 0 /\ (bn < NDIRECT \/ addrs[i][NDIRECT] # 0) /\ wr[p].tot < wr[p].n1
    BY <1>1, <1>2, Zenon DEF AllocBlock, Doing
  <1>4. bn \in 0 .. MAXFILE - 1
    BY <1>2, <1>3, WrittenBlock, Zenon
  <1>5. bn \in Places /\ Place(i, bn) = 0 /\ bn # MAXFILE
    BY <1>3, <1>4, DataPlaces, Zenon
  <1>6. CASE bitmap = Block
    <2>1. BPanic("balloc: out of blocks")
      BY <1>1, <1>2, <1>6, Zenon DEF AllocBlock
    <2> QED BY <2>1, PanicStep, Zenon
  <1>7. CASE bitmap # Block
    <2>1. PICK b : b = balloc
      BY Zenon
    <2>2. b \in Block /\ b \notin bitmap /\ b \in Number /\ b \in Nat
      BY <1>7, <2>1, Allocated, Sets, Zenon DEF BlocksInv, BlockTypes, Number
    <2>3. bitmap' = bitmap \union {b} /\ UNCHANGED <<isize, flat, fp, wr, bPanic>>
      BY <1>7, <2>1, Zenon DEF AllocBlock
    <2>4. CASE bn < NDIRECT
      <3>1. addrs' = [addrs EXCEPT ![i][bn] = b] /\ data' = [data EXCEPT ![b] = Zero]
        BY <1>1, <1>2, <1>7, <2>1, <2>4, Zenon DEF AllocBlock
      <3>2. bn \in 0 .. NDIRECT - 1 /\ bn \in 0 .. NDIRECT /\ bn # NDIRECT
        BY <1>4, <2>4, Consts
      <3>3. /\ addrs' \in [Inode -> [0 .. NDIRECT -> Number]] /\ addrs'[i][bn] = b
            /\ \A j \in Inode : j # i => addrs'[j] = addrs[j]
            /\ \A l \in 0 .. NDIRECT : l # bn => addrs'[i][l] = addrs[i][l]
        BY <2>2, <3>1, <3>2, Zenon DEF BlocksInv, BlockTypes
      <3>4. data' \in [Block -> [Bytes -> Nat]] /\ \A c \in bitmap : data'[c] = data[c]
        BY <2>2, <3>1, Sets, Zenon DEF BlocksInv, BlockTypes
      <3>5. \A j \in Inode : addrs'[j][NDIRECT] = addrs[j][NDIRECT]
        BY <3>2, <3>3, Sets, Zenon
      <3>6. ASSUME NEW j \in Inode, NEW l \in Places, j # i \/ l # bn
            PROVE  Place(j, l)' = Place(j, l)
        <4>1. addrs[j][NDIRECT] # 0 => data'[addrs[j][NDIRECT]] = data[addrs[j][NDIRECT]]
          BY <3>4, Indirects, Zenon
        <4>2. l \in 0 .. NDIRECT - 1 => addrs'[j][l] = addrs[j][l]
          <5>1. l \in 0 .. NDIRECT - 1 => l \in 0 .. NDIRECT
            BY Consts
          <5> QED BY <3>3, <3>6, <5>1, Zenon
        <4> QED BY <3>5, <4>1, <4>2, PlaceSame, Zenon
      <3>7. Place(i, bn)' = b
        <4>1. bn < MAXFILE
          BY <1>4, Consts
        <4> QED BY <2>4, <3>3, <4>1, Zenon DEF Place, bmap
      <3>8. Gains(i, bn, b)
        BY <1>5, <2>2, <2>3, <3>6, <3>7, Zenon DEF Gains
      <3>9. Spares(i)
        BY <2>3, <3>3, <3>4, Zenon DEF Spares
      <3> QED BY <1>1, <1>3, <1>5, <3>8, <3>9, AllocKeeps, Zenon
    <2>5. CASE ~(bn < NDIRECT)
      <3>1. PICK ind : ind = addrs[i][NDIRECT]
        BY Zenon
      <3>2. ind # 0 /\ ind \in bitmap /\ ind \in Block /\ ~Gone(i, MAXFILE) /\ ind # b
        BY <1>3, <2>2, <2>5, <3>1, Indirects, Zenon
      <3>3. data' = [data EXCEPT ![b] = Zero, ![ind][bn - NDIRECT] = b] /\ addrs' = addrs
        BY <1>1, <1>2, <1>7, <2>1, <2>5, <3>1, Zenon DEF AllocBlock
      <3>4. bn - NDIRECT \in 0 .. NINDIRECT - 1 /\ bn - NDIRECT \in Bytes
        <4>1. bn - NDIRECT \in 0 .. NINDIRECT - 1
          BY <1>4, <2>5, Consts
        <4> QED BY <4>1, Sets, Zenon
      <3>5. /\ data' \in [Block -> [Bytes -> Nat]] /\ \A c \in bitmap : c # ind => data'[c] = data[c]
            /\ data'[ind][bn - NDIRECT] = b
            /\ \A l \in Bytes : l # bn - NDIRECT => data'[ind][l] = data[ind][l]
        <4>1. data \in [Block -> [Bytes -> Nat]] /\ Zero \in [Bytes -> Nat]
          BY Sets, Zenon DEF BlocksInv, BlockTypes
        <4>2. PICK row : row = [data[ind] EXCEPT ![bn - NDIRECT] = b]
          BY Zenon
        <4>3. data[ind] \in [Bytes -> Nat]
          BY <3>2, <4>1, Zenon
        <4>4. /\ row \in [Bytes -> Nat] /\ row[bn - NDIRECT] = b
              /\ \A l \in Bytes : l # bn - NDIRECT => row[l] = data[ind][l]
          <5>1. PICK e \in Bytes : e = bn - NDIRECT
            BY <3>4, Zenon
          <5>2. row = [data[ind] EXCEPT ![e] = b] /\ b \in Nat
            BY <2>2, <4>2, <5>1, Zenon
          <5>3. row \in [Bytes -> Nat] /\ row[e] = b /\ \A l \in Bytes : l # e => row[l] = data[ind][l]
            BY <4>3, <5>2, Zenon
          <5> QED BY <5>1, <5>3, Zenon
        <4>5. data' = [[data EXCEPT ![b] = Zero] EXCEPT ![ind] = row]
          BY <2>2, <3>2, <3>3, <4>1, <4>2
        <4>6. PICK d : d = [data EXCEPT ![b] = Zero] /\ data' = [d EXCEPT ![ind] = row]
          BY <4>5, Zenon
        <4>7. d \in [Block -> [Bytes -> Nat]] /\ \A c \in Block : c # b => d[c] = data[c]
          BY <2>2, <4>1, <4>6, Zenon
        <4>8. data' \in [Block -> [Bytes -> Nat]] /\ data'[ind] = row /\ \A c \in Block : c # ind => data'[c] = d[c]
          BY <3>2, <4>4, <4>6, <4>7, Zenon
        <4>9. \A c \in bitmap : c \in Block /\ c # b
          BY <2>2, Zenon DEF BlocksInv, BlockTypes
        <4> QED BY <4>4, <4>7, <4>8, <4>9, Zenon
      <3>6. ASSUME NEW j \in Inode, NEW l \in Places, j # i \/ l # bn
            PROVE  Place(j, l)' = Place(j, l)
        <4>1. CASE l \in 0 .. NDIRECT - 1 /\ Place(j, l) = addrs[j][l] /\ Place(j, l)' = addrs'[j][l]
          BY <3>3, <4>1, Zenon
        <4>2. CASE l = MAXFILE /\ Place(j, l) = addrs[j][NDIRECT] /\ Place(j, l)' = addrs'[j][NDIRECT]
          BY <3>3, <4>2, Zenon
        <4>3. CASE /\ l - NDIRECT \in 0 .. NINDIRECT - 1
                   /\ Place(j, l) = IF addrs[j][NDIRECT] = 0 THEN 0 ELSE data[addrs[j][NDIRECT]][l - NDIRECT]
                   /\ Place(j, l)' = IF addrs'[j][NDIRECT] = 0 THEN 0 ELSE data'[addrs'[j][NDIRECT]][l - NDIRECT]
          <5>1. CASE j = i
            <6>1. l - NDIRECT # bn - NDIRECT /\ l - NDIRECT \in Bytes
              <7>1. l - NDIRECT # bn - NDIRECT
                BY <1>4, <3>6, <5>1, Consts DEF Places
              <7> QED BY <4>3, <7>1, Sets, Zenon
            <6>2. data'[ind][l - NDIRECT] = data[ind][l - NDIRECT]
              BY <3>5, <6>1, Zenon
            <6> QED BY <3>1, <3>2, <3>3, <4>3, <5>1, <6>2, Zenon
          <5>2. CASE j # i
            <6>1. ASSUME addrs[j][NDIRECT] # 0 PROVE data'[addrs[j][NDIRECT]] = data[addrs[j][NDIRECT]]
              <7>1. ~Gone(j, MAXFILE) /\ addrs[j][NDIRECT] \in bitmap
                BY <6>1, Indirects, Zenon
              <7>2. ASSUME addrs[j][NDIRECT] = ind PROVE FALSE
                <8>1. MAXFILE \in Places /\ Place(j, MAXFILE) = ind /\ Place(i, MAXFILE) = ind
                  BY <3>1, <7>2, LastPlace, Zenon
                <8>2. Owned /\ Twice(i, MAXFILE, j, MAXFILE)
                  BY <3>2, <7>1, <8>1, Zenon DEF BlocksInv, Twice
                <8> QED BY <5>2, <8>1, <8>2, OnePlace, Zenon
              <7> QED BY <3>5, <7>1, <7>2, Zenon
            <6>2. addrs' = addrs
              BY <3>3, Zenon
            <6> QED BY <6>1, <6>2, PlaceSame, Zenon
          <5> QED BY <5>1, <5>2, Zenon
        <4> QED BY <4>1, <4>2, <4>3, PlaceCases, Zenon
      <3>7. Place(i, bn)' = b
        <4>1. bn < MAXFILE
          BY <1>4, Consts
        <4>2. addrs'[i][NDIRECT] = ind
          BY <3>1, <3>3, Zenon
        <4> QED BY <2>5, <3>2, <3>5, <4>1, <4>2, Zenon DEF Place, bmap
      <3>8. Gains(i, bn, b)
        BY <1>5, <2>2, <2>3, <3>6, <3>7, Zenon DEF Gains
      <3>9. \A c \in bitmap : c # addrs[i][NDIRECT] => data'[c] = data[c]
        BY <3>1, <3>5, Zenon
      <3>10. addrs' \in [Inode -> [0 .. NDIRECT -> Number]] /\ \A j \in Inode : j # i => addrs'[j] = addrs[j]
        BY <3>3, Zenon DEF BlocksInv, BlockTypes
      <3>11. Spares(i)
        BY <2>3, <3>5, <3>9, <3>10, Zenon DEF Spares
      <3> QED BY <1>1, <1>3, <1>5, <3>8, <3>11, AllocKeeps, Zenon
    <2> QED BY <2>4, <2>5, Zenon
  <1> QED BY <1>6, <1>7, Zenon

-----------------------------------------------------------------------------
(* The invariant *)

\* The invariant holds of an empty disk.
LEMMA BlocksInit ==
    ASSUME BInit
    PROVE  BlocksInv
  <1>1. PICK o \in Opens : fp = [p \in BProc |-> [ip |-> o[p], off |-> 0]]
    BY Zenon DEF BInit
  <1>2. o \in [BProc -> Inode] /\ 0 \in Offset /\ 0 \in Number
    BY BlocksAssumption, Consts DEF Offset, Number
  <1>3. \A p \in BProc : fp[p] \in [ip : Inode, off : Offset] /\ fp[p].off = 0
    BY <1>1, <1>2
  <1>4. fp \in [BProc -> [ip : Inode, off : Offset]]
    BY <1>1, <1>3, Zenon
  <1>5. wr \in [BProc -> Call] /\ \A p \in BProc : wr[p].pc = "idle"
    BY RestIs, Zenon DEF BInit
  <1>6. /\ bitmap = {} /\ isize = [i \in Inode |-> 0] /\ flat = [i \in Inode |-> <<>>]
        /\ addrs = [i \in Inode |-> [k \in 0 .. NDIRECT |-> 0]] /\ data = [b \in Block |-> Zero]
    BY Zenon DEF BInit
  <1>7. BlockTypes
    <2>1. data \in [Block -> [Bytes -> Nat]] /\ bitmap \subseteq Block
      BY <1>6, Sets, Zenon
    <2>2. addrs \in [Inode -> [0 .. NDIRECT -> Number]] /\ isize \in [Inode -> Offset]
      BY <1>2, <1>6, Zenon
    <2>3. <<>> \in Seq(Nat)
      OBVIOUS
    <2>4. flat \in [Inode -> Seq(Nat)]
      BY <1>6, <2>3, Zenon
    <2> QED BY <1>4, <1>5, <2>1, <2>2, <2>4, Zenon DEF BlockTypes
  <1>8. LockInv
    <2>1. \A p \in BProc : wr[p].pc \notin {"copy", "trunc"}
      BY <1>5
    <2>2. \A p \in BProc : fp[p].off <= isize[fp[p].ip]
      <3>1. \A p \in BProc : isize[fp[p].ip] = 0
        BY <1>1, <1>2, <1>6
      <3>2. 0 <= 0
        OBVIOUS
      <3> QED BY <1>3, <3>1, <3>2, Zenon
    <2> QED BY <2>1, <2>2, Zenon DEF LockInv, Holds
  <1>9. \A i \in Inode : \A k \in Places : Place(i, k) = 0
    <2>1. \A i \in Inode : addrs[i][NDIRECT] = 0 /\ \A k \in 0 .. NDIRECT - 1 : addrs[i][k] = 0
      BY <1>6, Consts
    <2> QED BY <2>1, PlaceCases, Zenon
  <1>10. \A i, k : ~Gone(i, k)
    BY <1>5, Zenon DEF Gone
  <1>11. Marked /\ Owned /\ Named /\ Struck
    <2>1. Marked
      BY <1>6, <1>9, ZeroIsNone, Zenon DEF Marked
    <2>2. Owned /\ Named
      BY <1>9, Zenon DEF Owned, Twice, Named, Number
    <2>3. Struck
      BY <1>10, Zenon DEF Struck
    <2> QED BY <2>1, <2>2, <2>3, Zenon
  <1>12. Contents
    <2>1. \A p \in BProc : \A i, x : ~Written(p, i, x)
      BY <1>5, Zenon DEF Written
    <2>2. \A i \in Inode : \A x \in 0 .. MAXFILE * BSIZE - 1 : ~(x < isize[i])
      BY <1>6, Consts
    <2> QED BY <2>1, <2>2, Zenon DEF Contents
  <1>13. Sizes
    BY <1>6 DEF Sizes
  <1> QED BY <1>7, <1>8, <1>11, <1>12, <1>13, Zenon DEF BlocksInv

\* The invariant is about the variables of Blocks.
LEMMA BlocksStutter ==
    ASSUME BlocksInv, UNCHANGED bVars
    PROVE  BlocksInv'
  <1>1. UNCHANGED <<bitmap, addrs, data, isize, fp, wr, flat, bPanic>>
    BY Zenon DEF bVars
  <1>2. PlacesStay /\ \A i, x, v : Holding(i, x, v)' <=> Holding(i, x, v)
    BY <1>1, SameDisk, Zenon DEF Disk
  <1>3. GoneStays /\ \A i : Truncating(i)' <=> Truncating(i)
    BY <1>1, Zenon DEF GoneStays, Gone, Truncating
  <1>4. \A q, i, x : Written(q, i, x)' <=> Written(q, i, x)
    BY <1>1, Zenon DEF Written
  <1>5. Marked' /\ Owned' /\ Named' /\ Struck'
    BY <1>1, <1>2, <1>3, PlacesKept, StruckKept, Zenon DEF BlocksInv
  <1>6. BlockTypes' /\ LockInv' /\ Sizes'
    BY <1>1, Zenon DEF BlocksInv, BlockTypes, LockInv, Holds, Sizes
  <1>7. Contents'
    BY <1>1, <1>2, <1>3, <1>4, Zenon DEF BlocksInv, Contents
  <1> QED BY <1>5, <1>6, <1>7, Zenon DEF BlocksInv

\* Every step keeps the invariant.
LEMMA BlocksNext ==
    ASSUME BlocksInv, [BNext]_bVars
    PROVE  BlocksInv'
  <1>1. CASE UNCHANGED bVars
    BY <1>1, BlocksStutter, Zenon
  <1>2. CASE BNext
    <2>1. PICK p \in BProc :
            \/ FileRead(p) \/ FileWrite(p) \/ Chunk(p) \/ AllocIndirect(p) \/ AllocBlock(p)
            \/ CopyBlock(p) \/ EndWrite(p) \/ EndOp(p)
            \/ ITruncStart(p) \/ BFree(p) \/ ITruncEnd(p)
      BY <1>2, Zenon DEF BNext
    <2>2. CASE FileRead(p) \/ FileWrite(p) \/ Chunk(p) \/ EndOp(p) \/ ITruncStart(p)
      BY <2>2, QuietSteps, Zenon
    <2>3. CASE AllocIndirect(p)
      BY <2>3, AllocIndirectStep, Zenon
    <2>4. CASE AllocBlock(p)
      BY <2>4, AllocBlockStep, Zenon
    <2>5. CASE CopyBlock(p)
      BY <2>5, CopyBlockStep, Zenon
    <2>6. CASE EndWrite(p)
      BY <2>6, EndWriteStep, Zenon
    <2>7. CASE BFree(p)
      BY <2>7, BFreeStep, Zenon
    <2>8. CASE ITruncEnd(p)
      BY <2>8, ITruncEndStep, Zenon
    <2> QED BY <2>1, <2>2, <2>3, <2>4, <2>5, <2>6, <2>7, <2>8, Zenon
  <1> QED BY <1>1, <1>2, Zenon

\* The invariant holds always: the marked blocks are those of the places not yet given back,
\* each has one place, and the bytes behind the places are those written.
THEOREM BlocksInvariant == BSpec => []BlocksInv
  BY BlocksInit, BlocksNext, PTL DEF BSpec

-----------------------------------------------------------------------------
(* What is read *)

\* The invariant gives ReadsBack: outside of a write no byte is only written.
LEMMA InvReads ==
    ASSUME BlocksInv
    PROVE  ReadsBack
  <1> SUFFICES ASSUME NEW i \in Inode, ~Locked(i) PROVE readi(i, 0, isize[i]) = flat[i]
    BY Zenon DEF ReadsBack
  <1>1. PICK s \in Seq(Nat) : s = flat[i]
    BY Zenon DEF BlocksInv, BlockTypes
  <1>2. PICK m \in Nat : m = isize[i] /\ m <= MAXFILE * BSIZE
    BY Consts DEF BlocksInv, BlockTypes, Offset
  <1>3. Len(s) = m
    BY <1>1, <1>2, Zenon DEF BlocksInv, Sizes
  <1>4. ASSUME NEW x \in 0 .. m - 1 PROVE Byte(i, x) = s[x + 1]
    <2>1. x \in 0 .. MAXFILE * BSIZE - 1 /\ x < isize[i]
      BY <1>2, Consts
    <2>2. ~Truncating(i) /\ ~(\E p \in BProc : Written(p, i, x))
      BY Zenon DEF Locked, Truncating, Written
    <2>3. Holding(i, x, flat[i][x + 1])
      BY <2>1, <2>2, Zenon DEF BlocksInv, Contents
    <2> QED BY <1>1, <2>3, Zenon DEF Holding
  <1>5. PICK r : r = readi(i, 0, m)
    BY Zenon
  <1>6. r = [k \in 1 .. m |-> data[bmap(i, (0 + k - 1) \div BSIZE)][(0 + k - 1) % BSIZE]]
    <2>1. ~(0 + m > m)
      OBVIOUS
    <2> QED BY <1>2, <1>5, <2>1, Zenon DEF readi
  <1>7. ASSUME NEW k \in 1 .. m PROVE r[k] = s[k]
    <2>1. PICK x \in 0 .. m - 1 : x = 0 + k - 1 /\ x + 1 = k
      <3>1. 0 + k - 1 \in 0 .. m - 1 /\ (0 + k - 1) + 1 = k
        OBVIOUS
      <3> QED BY <3>1, Zenon
    <2>2. r[k] = Byte(i, x)
      BY <1>6, <2>1, Zenon DEF Byte
    <2> QED BY <1>4, <2>1, <2>2, Zenon
  <1>8. r = s
    <2>1. r = [k \in 1 .. m |-> s[k]]
      BY <1>6, <1>7, Zenon
    <2>2. s = [k \in 1 .. m |-> s[k]]
      BY <1>3
    <2> QED BY <2>1, <2>2, Zenon
  <1> QED BY <1>1, <1>2, <1>5, <1>8, Zenon

\* Whatever the interleaving of reads, writes and itrunc, and for any geometry of the disk:
\* outside a write, readi finds through bmap exactly what the completed writes left in the file.
THEOREM ReadsWhatWasWritten == BSpec => []ReadsBack
  BY BlocksInvariant, InvReads, PTL

-----------------------------------------------------------------------------
(* Who owns a block *)

FreedOnce == bPanic # "freeing free block"

\* bfree never finds a block free.
LEMMA FreesUsed ==
    ASSUME BlocksInv, bPanic # "freeing free block", [BNext]_bVars
    PROVE  bPanic' # "freeing free block"
  <1>1. CASE UNCHANGED bVars
    BY <1>1, Zenon DEF bVars
  <1>2. CASE BNext
    <2>1. PICK p \in BProc :
            \/ FileRead(p) \/ FileWrite(p) \/ Chunk(p) \/ AllocIndirect(p) \/ AllocBlock(p)
            \/ CopyBlock(p) \/ EndWrite(p) \/ EndOp(p)
            \/ ITruncStart(p) \/ BFree(p) \/ ITruncEnd(p)
      BY <1>2, Zenon DEF BNext
    <2>2. "balloc: out of blocks" # "freeing free block"
      OBVIOUS
    <2>3. CASE AllocIndirect(p)
      BY <2>2, <2>3, Zenon DEF AllocIndirect, BPanic
    <2>4. CASE AllocBlock(p)
      BY <2>2, <2>4, Zenon DEF AllocBlock, BPanic
    <2>5. CASE BFree(p)
      BY <2>5, BFreeStep, Zenon
    <2>6. CASE FileRead(p) \/ FileWrite(p) \/ Chunk(p) \/ CopyBlock(p)
      BY <2>6, Zenon DEF FileRead, FileWrite, Chunk, CopyBlock
    <2>7. CASE EndWrite(p) \/ EndOp(p) \/ ITruncStart(p) \/ ITruncEnd(p)
      BY <2>7, Zenon DEF EndWrite, EndOp, ITruncStart, ITruncEnd
    <2> QED BY <2>1, <2>3, <2>4, <2>5, <2>6, <2>7, Zenon
  <1> QED BY <1>1, <1>2, Zenon

\* The last place is that of the indirect block.
LEMMA PlacesEnd == \A k \in Places : k \in 0 .. MAXFILE - 1 \/ k = MAXFILE
  BY Consts DEF Places

\* The blocks in use are those of the uses of the files.
LEMMA InUse ==
    \A b : b \in UNION {{u[2] : u \in Used(i)} : i \in Inode} <=> \E i \in Inode : \E u \in Used(i) : b = u[2]
  <1>1. ASSUME NEW b
        PROVE  b \in UNION {{u[2] : u \in Used(i)} : i \in Inode} <=> \E i \in Inode : b \in {u[2] : u \in Used(i)}
    OBVIOUS
  <1>2. ASSUME NEW b, NEW i \in Inode
        PROVE  b \in {u[2] : u \in Used(i)} <=> \E u \in Used(i) : b = u[2]
    OBVIOUS
  <1> QED BY <1>1, <1>2, Zenon

\* The invariant gives BlocksOwned.
LEMMA InvOwned ==
    ASSUME BlocksInv, bPanic # "freeing free block"
    PROVE  BlocksOwned
  <1>1. BTypeOK
    <2>1. \A p \in BProc : fp[p].ip \in Inode /\ fp[p].off \in Offset
      BY DEF BlocksInv, BlockTypes
    <2> QED BY <2>1, Zenon DEF BTypeOK, BlocksInv, BlockTypes, Offset, Number
  <1>2. ASSUME NEW i \in Inode, NEW u
        PROVE  u \in Used(i) <=> \E k \in Places : u = <<k, Place(i, k)>> /\ Place(i, k) # 0
    <2>1. u \in Uses(i) <=> \E k \in Places : u = <<k, Place(i, k)>>
      <3>1. \A k \in Places : k \in 0 .. MAXFILE - 1 \/ k = MAXFILE
        BY PlacesEnd, Zenon
      <3>2. \A k \in 0 .. MAXFILE - 1 : k \in Places /\ Place(i, k) = bmap(i, k)
        BY DataPlaces, Zenon
      <3>3. MAXFILE \in Places /\ Place(i, MAXFILE) = addrs[i][NDIRECT]
        BY LastPlace, Zenon
      <3> QED BY <3>1, <3>2, <3>3, Zenon DEF Uses
    <2>2. \A k, b : <<k, b>>[2] = b
      OBVIOUS
    <2> QED BY <2>1, <2>2, Zenon DEF Used
  <1>3. ASSUME NEW i \in Inode, ~Locked(i) PROVE \A k : ~Gone(i, k)
    BY <1>3, Zenon DEF Locked, Gone
  <1>4. ASSUME NEW i \in Inode, NEW j \in Inode, ~Locked(i), ~Locked(j),
               NEW u \in Used(i), NEW v \in Used(j), u[2] = v[2]
        PROVE  i = j /\ u = v
    <2>1. PICK k \in Places : u = <<k, Place(i, k)>> /\ Place(i, k) # 0
      BY <1>2, Zenon
    <2>2. PICK l \in Places : v = <<l, Place(j, l)>> /\ Place(j, l) # 0
      BY <1>2, Zenon
    <2>3. Place(i, k) = Place(j, l)
      BY <1>4, <2>1, <2>2
    <2>4. i = j /\ k = l
      <3>1. Twice(i, k, j, l)
        BY <1>3, <1>4, <2>1, <2>3, Zenon DEF Twice
      <3> QED BY <3>1, OnePlace, Zenon DEF BlocksInv
    <2> QED BY <2>1, <2>2, <2>4, Zenon
  <1>5. ASSUME \A i \in Inode : ~Locked(i)
        PROVE  bitmap = UNION {{u[2] : u \in Used(i)} : i \in Inode}
    <2>1. \A i \in Inode, k \in Places : ~Gone(i, k)
      BY <1>3, <1>5, Zenon
    <2>2. ASSUME NEW b \in bitmap PROVE \E i \in Inode : \E u \in Used(i) : b = u[2]
      <3>1. b \in Block
        BY Zenon DEF BlocksInv, BlockTypes
      <3>2. PICK i \in Inode, k \in Places : Place(i, k) = b
        BY <3>1, Zenon DEF BlocksInv, Marked
      <3>3. <<k, Place(i, k)>> \in Used(i)
        BY <1>2, <3>1, <3>2, ZeroIsNone, Zenon
      <3>4. <<k, Place(i, k)>>[2] = b
        BY <3>2
      <3> QED BY <3>3, <3>4, Zenon
    <2>3. ASSUME NEW i \in Inode, NEW u \in Used(i) PROVE u[2] \in bitmap
      <3>1. PICK k \in Places : u = <<k, Place(i, k)>> /\ Place(i, k) # 0
        BY <1>2, Zenon
      <3>2. u[2] = Place(i, k)
        BY <3>1
      <3>3. Place(i, k) \in Block
        BY <3>1, Zenon DEF BlocksInv, Named, Number
      <3> QED BY <2>1, <3>2, <3>3, Zenon DEF BlocksInv, Marked
    <2>4. \A b : b \in UNION {{u[2] : u \in Used(i)} : i \in Inode} <=> \E i \in Inode : \E u \in Used(i) : b = u[2]
      BY InUse, Zenon
    <2>5. \A b : b \in bitmap <=> \E i \in Inode : \E u \in Used(i) : b = u[2]
      BY <2>2, <2>3, Zenon
    <2>6. \A b : b \in bitmap <=> b \in UNION {{u[2] : u \in Used(i)} : i \in Inode}
      BY <2>4, <2>5, Zenon
    <2> QED BY <2>6
  <1> QED BY <1>1, <1>4, <1>5, Zenon DEF BlocksOwned

\* Whatever the processes allocate and free at once, on a disk of any size, full or not: a
\* block belongs to one place of one file, the bitmap marks exactly the blocks in use once no
\* file is locked, and bfree does not panic.
THEOREM EachBlockOwned == BSpec => []BlocksOwned
  <1>1. BInit => FreedOnce
    <2>1. "none" # "freeing free block"
      OBVIOUS
    <2> QED BY <2>1, Zenon DEF BInit, FreedOnce
  <1>2. BlocksInv /\ FreedOnce /\ [BNext]_bVars => FreedOnce'
    BY FreesUsed, Zenon DEF FreedOnce
  <1>3. BlocksInv /\ FreedOnce => BlocksOwned
    BY InvOwned, Zenon DEF FreedOnce
  <1> QED BY <1>1, <1>2, <1>3, BlocksInvariant, PTL DEF BSpec
=============================================================================
