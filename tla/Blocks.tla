------------------------------- MODULE Blocks -------------------------------
(***************************************************************************)
(* The contents of regular files: the block bitmap (balloc, bfree), the    *)
(* direct and indirect blocks of an inode (bmap, itrunc), readi and        *)
(* writei, and the way filewrite cuts a write into transactions.           *)
(*                                                                         *)
(* Each process has one file open.  Every step between ilock and iunlock   *)
(* that touches the bitmap, which is shared, is a step of its own; flat is *)
(* the reference: what a file is as a plain sequence of bytes.             *)
(***************************************************************************)
EXTENDS Integers, Sequences, FiniteSets

CONSTANTS
    BProc,        \* processes, positive numbers; a process writes its own number
    Inode,
    Opens,        \* which inode each process has open: a set of [BProc -> Inode]
    NBLOCKS,      \* data blocks are 1 .. NBLOCKS
    NDIRECT, NINDIRECT, BSIZE,
    LOGSIZE, MAXOPBLOCKS,
    Lengths,      \* how much one write call writes
    MaxCalls      \* calls a process makes

ASSUME BlocksAssumption ==
    /\ BProc \subseteq Nat /\ Opens \subseteq [BProc -> Inode] /\ Lengths \subseteq Nat
    /\ NBLOCKS \in Nat /\ NDIRECT \in Nat /\ NINDIRECT \in Nat /\ BSIZE \in Nat \ {0}
    /\ LOGSIZE \in Nat /\ LOGSIZE >= 4

VARIABLES
    bitmap,       \* blocks marked in use
    addrs,        \* ip->addrs: block numbers, 0 for none; NDIRECT is the indirect one
    data,         \* contents of the blocks
    isize,        \* ip->size
    fp,           \* the open file of a process: ip and off
    wr,           \* its call: where it is, what is left
    logged,       \* blocks its open transaction has passed to log_write
    flat,         \* reference contents of the files
    bPanic        \* the panic that has stopped the machine

bVars == <<bitmap, addrs, data, isize, fp, wr, logged, flat, bPanic>>

Block   == 1 .. NBLOCKS
BITMAP  == 0            \* the bitmap block and the inode's block, in logged
INODES  == -1
MAXFILE == NDIRECT + NINDIRECT
Bytes == 0 .. (IF BSIZE > NINDIRECT THEN BSIZE ELSE NINDIRECT) - 1
Zero  == [k \in Bytes |-> 0]
Rest  == [pc |-> "idle", n |-> 0, n1 |-> 0, tot |-> 0, at |-> 0, calls |-> 0]

BInit ==
    /\ bitmap = {}
    /\ addrs = [i \in Inode |-> [k \in 0 .. NDIRECT |-> 0]]
    /\ data = [b \in Block |-> Zero]
    /\ isize = [i \in Inode |-> 0]
    /\ fp \in {[p \in BProc |-> [ip |-> o[p], off |-> 0]] : o \in Opens}
    /\ wr = [p \in BProc |-> Rest]
    /\ logged = [p \in BProc |-> {}]
    /\ flat = [i \in Inode |-> <<>>]
    /\ bPanic = "none"

Locked(i) == \E p \in BProc : fp[p].ip = i /\ wr[p].pc \in {"copy", "trunc"}
Doing(p, pc) == bPanic = "none" /\ wr[p].pc = pc
Min2(a, b) == IF a < b THEN a ELSE b

\* balloc: the lowest block whose bit is clear
balloc == CHOOSE b \in Block \ bitmap : \A c \in Block \ bitmap : b <= c

BPanic(msg) == bPanic' = msg /\ UNCHANGED <<bitmap, addrs, data, isize, fp, wr, logged, flat>>

\* bmap, when no block has to be allocated; 0 otherwise
bmap(i, bn) == IF bn < NDIRECT THEN addrs[i][bn]
               ELSE IF addrs[i][NDIRECT] = 0 THEN 0
               ELSE data[addrs[i][NDIRECT]][bn - NDIRECT]

\* readi: byte by byte what the loop copies block by block, cut at the end of the file
readi(i, off, n) ==
    LET m == IF off + n > isize[i] THEN isize[i] - off ELSE n
    IN  [k \in 1 .. m |-> data[bmap(i, (off + k - 1) \div BSIZE)][(off + k - 1) % BSIZE]]

\* what a write at off makes of a plain sequence
Overlay(s, off, n, v) == [k \in 1 .. (IF off + n > Len(s) THEN off + n ELSE Len(s)) |->
                             IF k > off /\ k <= off + n THEN v ELSE s[k]]

-----------------------------------------------------------------------------
\* fileread
FileRead(p) ==
    /\ Doing(p, "idle") /\ wr[p].calls < MaxCalls /\ ~Locked(fp[p].ip)
    /\ \E n \in Lengths :
          fp' = [fp EXCEPT ![p].off = @ + Len(readi(fp[p].ip, fp[p].off, n))]
    /\ wr' = [wr EXCEPT ![p].calls = @ + 1]
    /\ UNCHANGED <<bitmap, addrs, data, isize, logged, flat, bPanic>>

\* filewrite(f, addr, n)
FileWrite(p) ==
    /\ Doing(p, "idle") /\ wr[p].calls < MaxCalls
    /\ \E n \in Lengths :
          wr' = [wr EXCEPT ![p].pc = "chunk", ![p].n = n, ![p].calls = @ + 1]
    /\ UNCHANGED <<bitmap, addrs, data, isize, fp, logged, flat, bPanic>>

maxWrite == ((LOGSIZE - 1 - 1 - 2) \div 2) * BSIZE

\* one turn of the loop of filewrite up to the loop of writei: begin_op, ilock, the bounds
Chunk(p) ==
    LET i == fp[p].ip  n1 == Min2(wr[p].n, maxWrite)
    IN  /\ Doing(p, "chunk") /\ ~Locked(i)
        /\ wr' = IF fp[p].off > isize[i] \/ fp[p].off + n1 > MAXFILE * BSIZE
                 THEN [wr EXCEPT ![p] = [Rest EXCEPT !.calls = wr[p].calls]]
                 ELSE [wr EXCEPT ![p].pc = "copy", ![p].n1 = n1, ![p].tot = 0]
        /\ UNCHANGED <<bitmap, addrs, data, isize, fp, logged, flat, bPanic>>

\* bmap finds no indirect block
AllocIndirect(p) ==
    LET i == fp[p].ip  bn == (fp[p].off + wr[p].tot) \div BSIZE
    IN  /\ Doing(p, "copy") /\ wr[p].tot < wr[p].n1
        /\ bn >= NDIRECT /\ addrs[i][NDIRECT] = 0
        /\ IF bitmap = Block THEN BPanic("balloc: out of blocks")
           ELSE /\ bitmap' = bitmap \union {balloc}
                /\ data' = [data EXCEPT ![balloc] = Zero]
                /\ addrs' = [addrs EXCEPT ![i][NDIRECT] = balloc]
                /\ logged' = [logged EXCEPT ![p] = @ \union {BITMAP, balloc}]
                /\ UNCHANGED <<isize, fp, wr, flat, bPanic>>

\* bmap finds no data block
AllocBlock(p) ==
    LET i == fp[p].ip  bn == (fp[p].off + wr[p].tot) \div BSIZE  ind == addrs[i][NDIRECT]
    IN  /\ Doing(p, "copy") /\ wr[p].tot < wr[p].n1
        /\ bn < NDIRECT \/ ind # 0
        /\ bmap(i, bn) = 0
        /\ IF bitmap = Block THEN BPanic("balloc: out of blocks")
           ELSE /\ bitmap' = bitmap \union {balloc}
                /\ IF bn < NDIRECT
                   THEN /\ addrs' = [addrs EXCEPT ![i][bn] = balloc]
                        /\ data' = [data EXCEPT ![balloc] = Zero]
                        /\ logged' = [logged EXCEPT ![p] = @ \union {BITMAP, balloc}]
                   ELSE /\ data' = [data EXCEPT ![balloc] = Zero, ![ind][bn - NDIRECT] = balloc]
                        /\ logged' = [logged EXCEPT ![p] = @ \union {BITMAP, balloc, ind}]
                        /\ UNCHANGED addrs
                /\ UNCHANGED <<isize, fp, wr, flat, bPanic>>

\* the body of the loop of writei: as much as fits into this block
CopyBlock(p) ==
    LET i == fp[p].ip  off == fp[p].off + wr[p].tot  b == bmap(i, off \div BSIZE)
        m == Min2(wr[p].n1 - wr[p].tot, BSIZE - (off % BSIZE))
    IN  /\ Doing(p, "copy") /\ wr[p].tot < wr[p].n1 /\ b # 0
        /\ data' = [data EXCEPT ![b] = [k \in Bytes |->
                       IF k >= (off % BSIZE) /\ k < (off % BSIZE) + m THEN p ELSE @[k]]]
        /\ wr' = [wr EXCEPT ![p].tot = @ + m]
        /\ logged' = [logged EXCEPT ![p] = @ \union {b}]
        /\ UNCHANGED <<bitmap, addrs, isize, fp, flat, bPanic>>

\* the size after a write that ends at off; wrong when it is set without the test
GrownAlways(i, off) == off
Grown(i, off) == IF off > isize[i] THEN off ELSE isize[i]

\* writei ends: the size, iupdate; iunlock, end_op; filewrite goes on or returns
EndWrite(p) ==
    LET i == fp[p].ip  off == fp[p].off + wr[p].n1  left == wr[p].n - wr[p].n1
    IN  /\ Doing(p, "copy") /\ wr[p].tot = wr[p].n1
        /\ isize' = [isize EXCEPT ![i] = Grown(i, off)]
        /\ logged' = [logged EXCEPT ![p] = IF off > isize[i] THEN @ \union {INODES} ELSE @]
        /\ fp' = [fp EXCEPT ![p].off = off]
        /\ flat' = [flat EXCEPT ![i] = Overlay(@, fp[p].off, wr[p].n1, p)]
        /\ wr' = [wr EXCEPT ![p].pc = "commit", ![p].n = left]
        /\ UNCHANGED <<bitmap, addrs, data, bPanic>>

EndOp(p) ==
    /\ Doing(p, "commit")
    /\ logged' = [logged EXCEPT ![p] = {}]
    /\ wr' = [wr EXCEPT ![p] = IF wr[p].n > 0 THEN [@ EXCEPT !.pc = "chunk"]
                               ELSE [Rest EXCEPT !.calls = wr[p].calls]]
    /\ UNCHANGED <<bitmap, addrs, data, isize, fp, flat, bPanic>>

-----------------------------------------------------------------------------
(* itrunc, when the last reference to a file without links goes: the blocks *)
(* go back one by one while other processes allocate                        *)

\* the block that turn k of itrunc gives back, 0 for none: first the direct ones, then the
\* entries of the indirect block, then that block itself
PlaceKept(i, k) == IF k < MAXFILE THEN bmap(i, k) ELSE 0   \* wrong: it stays allocated
Place(i, k)     == IF k < MAXFILE THEN bmap(i, k) ELSE addrs[i][NDIRECT]

ITruncStart(p) ==
    /\ Doing(p, "idle") /\ wr[p].calls < MaxCalls
    /\ \A q \in BProc \ {p} : fp[q].ip # fp[p].ip
    /\ wr' = [wr EXCEPT ![p].pc = "trunc", ![p].at = 0, ![p].calls = @ + 1]
    /\ UNCHANGED <<bitmap, addrs, data, isize, fp, logged, flat, bPanic>>

\* one turn, with bfree; a direct block and the indirect one are struck out of ip->addrs
BFree(p) ==
    LET i == fp[p].ip  k == wr[p].at  b == Place(i, k)
    IN  /\ Doing(p, "trunc") /\ k <= MAXFILE
        /\ IF b # 0 /\ b \notin bitmap THEN BPanic("freeing free block")
           ELSE /\ bitmap' = bitmap \ {b}
                /\ logged' = [logged EXCEPT ![p] = IF b = 0 THEN @ ELSE @ \union {BITMAP}]
                /\ addrs' = IF k \in NDIRECT .. MAXFILE - 1 THEN addrs
                            ELSE [addrs EXCEPT ![i][Min2(k, NDIRECT)] = 0]
                /\ wr' = [wr EXCEPT ![p].at = k + 1]
                /\ UNCHANGED <<data, isize, fp, flat, bPanic>>

\* size = 0, iupdate, end_op; the inode is opened anew
ITruncEnd(p) ==
    LET i == fp[p].ip
    IN  /\ Doing(p, "trunc") /\ wr[p].at > MAXFILE
        /\ isize' = [isize EXCEPT ![i] = 0]
        /\ flat' = [flat EXCEPT ![i] = <<>>]
        /\ fp' = [fp EXCEPT ![p].off = 0]
        /\ logged' = [logged EXCEPT ![p] = {}]
        /\ wr' = [wr EXCEPT ![p] = [Rest EXCEPT !.calls = wr[p].calls]]
        /\ UNCHANGED <<bitmap, addrs, data, bPanic>>

BNext == \E p \in BProc :
    \/ FileRead(p) \/ FileWrite(p) \/ Chunk(p) \/ AllocIndirect(p) \/ AllocBlock(p)
    \/ CopyBlock(p) \/ EndWrite(p) \/ EndOp(p)
    \/ ITruncStart(p) \/ BFree(p) \/ ITruncEnd(p)

BSpec == BInit /\ [][BNext]_bVars

-----------------------------------------------------------------------------
(* Properties *)

\* Types of the bitmap, the inodes and the contents.
BTypeOK ==
    /\ bitmap \subseteq Block
    /\ addrs \in [Inode -> [0 .. NDIRECT -> Block \union {0}]]
    /\ isize \in [Inode -> 0 .. MAXFILE * BSIZE]
    /\ \A p \in BProc : fp[p].ip \in Inode /\ fp[p].off \in 0 .. MAXFILE * BSIZE

\* the blocks of an inode, with the place that names each: its data blocks, and the indirect one
Uses(i) == {<<k, bmap(i, k)>> : k \in 0 .. MAXFILE - 1} \union {<<MAXFILE, addrs[i][NDIRECT]>>}
Used(i) == {u \in Uses(i) : u[2] # 0}

\* A block belongs to one place of one file, and the blocks in use are exactly the ones the
\* bitmap marks, whatever two processes allocate and free at once (balloc, bfree, bmap,
\* itrunc), also when the disk has filled up and balloc has panicked in the middle of a write:
\* no block is handed out twice, none is lost, and bfree never finds a block free.
BlocksOwned ==
    /\ BTypeOK /\ bPanic # "freeing free block"
    /\ \A i, j \in Inode : ~Locked(i) /\ ~Locked(j) =>
          \A u \in Used(i), v \in Used(j) : u[2] = v[2] => i = j /\ u = v
    /\ (\A i \in Inode : ~Locked(i)) =>
          bitmap = UNION {{u[2] : u \in Used(i)} : i \in Inode}

\* What readi finds through direct and indirect blocks is what the completed writes, taken as
\* writes to a plain sequence of bytes, left there (writei, bmap, filewrite).
ReadsBack == \A i \in Inode : ~Locked(i) => readi(i, 0, isize[i]) = flat[i]

\* "#define MAXOPBLOCKS 10 // max # of blocks any FS op writes" (param.h): begin_op reserves
\* that many log blocks for the transaction filewrite opens.
OpBlocksFit == \A p \in BProc : Cardinality(logged[p]) <= MAXOPBLOCKS
=============================================================================
