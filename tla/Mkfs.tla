-------------------------------- MODULE Mkfs --------------------------------
(***************************************************************************)
(* mkfs, the program of the build host that makes the first file system:   *)
(* it lays out the image, allocates inodes and blocks by counting upwards, *)
(* appends to files through iappend, and writes the bitmap at the end.     *)
(*                                                                         *)
(* The kernel takes over what it leaves, so the properties read the image  *)
(* the way fs.c does.  A directory entry is one cell of a block, as is a   *)
(* byte of a file; given is the reference: what was appended to an inode.  *)
(***************************************************************************)
EXTENDS Integers, Sequences, FiniteSets

CONSTANTS
    FSSIZE, MkBSIZE, MkNDIRECT, MkNINDIRECT, MkNINODES,
    MkLOGSIZE,
    IPB,          \* inodes per block
    NARGS,        \* files named on the command line
    Byte          \* contents of the files

VARIABLES
    freeinode, freeblock,
    dinodes,       \* the inodes on the image
    sect,         \* the blocks on the image, as data
    indirect,     \* the blocks on the image, as tables of block numbers
    bits,         \* the bitmap on the image
    din,          \* iappend's copy of the inode
    mk,           \* where main is: pc, and iappend's inum, p, off and return
    given

mkVars == <<freeinode, freeblock, dinodes, sect, indirect, bits, din, mk, given>>

nbitmap      == FSSIZE \div (MkBSIZE * 8) + 1
ninodeblocks == MkNINODES \div IPB + 1
inodestart   == 2 + MkLOGSIZE
bmapstart    == 2 + MkLOGSIZE + ninodeblocks
nmeta        == 2 + MkLOGSIZE + ninodeblocks + nbitmap
IBLOCK(i)    == i \div IPB + inodestart
MkMAXFILE    == MkNDIRECT + MkNINDIRECT

RootIno == 1
Inum    == 1 .. NARGS + 1
Dirent(i, name) == <<i, name>>
ZeroCell == <<0, "">>
NoInode == [type |-> "none", nlink |-> 0, size |-> 0, addrs |-> [k \in 0 .. MkNDIRECT |-> 0]]
MainAt(pc) == [pc |-> pc, inum |-> RootIno, p |-> <<>>, off |-> 0, return |-> pc]

MkInit ==
    /\ freeinode = 1 /\ freeblock = nmeta
    /\ dinodes = [i \in Inum |-> NoInode]
    /\ sect = [b \in 0 .. FSSIZE - 1 |-> [k \in 0 .. MkBSIZE - 1 |-> ZeroCell]]
    /\ indirect = [b \in 0 .. FSSIZE - 1 |-> [k \in 0 .. MkNINDIRECT - 1 |-> 0]]
    /\ bits = {}
    /\ din = NoInode
    /\ mk = MainAt("root")
    /\ given = [i \in Inum |-> <<>>]

\* ialloc: the next inode, written with one link and no blocks
Ialloc(type) ==
    /\ freeinode' = freeinode + 1
    /\ dinodes' = [dinodes EXCEPT ![freeinode] = [NoInode EXCEPT !.type = type, !.nlink = 1]]

\* the call iappend(i, p, n), which begins with rinode
CallAppend(i, p, return) ==
    /\ din' = dinodes'[i]
    /\ mk' = [pc |-> "append", inum |-> i, p |-> p, off |-> dinodes'[i].size, return |-> return]
    /\ given' = [given EXCEPT ![i] = @ \o p]

\* a failed assert, or a read behind the end of the image: exit(1), without a file system
MkFails == mk' = MainAt("failed") /\ UNCHANGED <<freeinode, freeblock, dinodes, sect, indirect, bits, din, given>>

-----------------------------------------------------------------------------
\* n1: what fits into the block that off lies in
ChunkLen == LET room == (mk.off \div MkBSIZE + 1) * MkBSIZE - mk.off
            IN  IF Len(mk.p) < room THEN Len(mk.p) ELSE room

\* one round of iappend's loop, with x the block of the file that off lies in
CopyTo(x) ==
    /\ sect' = [sect EXCEPT ![x] = [k \in DOMAIN @ |->
                   LET j == k - (mk.off % MkBSIZE)
                   IN  IF j \in 0 .. ChunkLen - 1 THEN mk.p[j + 1] ELSE @[k]]]
    /\ mk' = [mk EXCEPT !.p = SubSeq(@, ChunkLen + 1, Len(@)), !.off = @ + ChunkLen]

Fbn == mk.off \div MkBSIZE
Appending == mk.pc = "append" /\ mk.p # <<>> /\ Fbn < MkMAXFILE

AppendDirect ==
    LET old == din.addrs[Fbn]
        x   == IF old = 0 THEN freeblock ELSE old
    IN  /\ Appending /\ Fbn < MkNDIRECT
        /\ IF x >= FSSIZE
             THEN MkFails
             ELSE /\ CopyTo(x)
                  /\ din' = [din EXCEPT !.addrs[Fbn] = x]
                  /\ freeblock' = freeblock + (IF old = 0 THEN 1 ELSE 0)
                  /\ UNCHANGED <<freeinode, dinodes, indirect, bits, given>>

\* the indirect block is allocated first, and its entry may be: two blocks in one round
AppendIndirect ==
    LET table == IF din.addrs[MkNDIRECT] = 0 THEN freeblock ELSE din.addrs[MkNDIRECT]
        next  == IF din.addrs[MkNDIRECT] = 0 THEN freeblock + 1 ELSE freeblock
        old   == indirect[table][Fbn - MkNDIRECT]
        x     == IF old = 0 THEN next ELSE old
    IN  /\ Appending /\ Fbn >= MkNDIRECT
        /\ IF table >= FSSIZE \/ x >= FSSIZE
             THEN MkFails
             ELSE /\ CopyTo(x)
                  /\ din' = [din EXCEPT !.addrs[MkNDIRECT] = table]
                  /\ indirect' = [indirect EXCEPT ![table][Fbn - MkNDIRECT] = x]
                  /\ freeblock' = IF old = 0 THEN next + 1 ELSE next
                  /\ UNCHANGED <<freeinode, dinodes, bits, given>>

AppendTooBig == mk.pc = "append" /\ mk.p # <<>> /\ Fbn >= MkMAXFILE /\ MkFails

\* the end of iappend: the size, and winode
AppendReturn ==
    /\ mk.pc = "append" /\ mk.p = <<>>
    /\ dinodes' = [dinodes EXCEPT ![mk.inum] = [din EXCEPT !.size = mk.off]]
    /\ mk' = MainAt(mk.return)
    /\ UNCHANGED <<freeinode, freeblock, sect, indirect, bits, din, given>>

-----------------------------------------------------------------------------
MakeRoot ==
    /\ mk.pc = "root"
    /\ Ialloc("dir")
    /\ CallAppend(RootIno, <<Dirent(RootIno, ".")>>, "dotdot")
    /\ UNCHANGED <<freeblock, sect, indirect, bits>>

MakeDotDot ==
    /\ mk.pc = "dotdot"
    /\ UNCHANGED <<freeinode, freeblock, dinodes, sect, indirect, bits>>
    /\ CallAppend(RootIno, <<Dirent(RootIno, "..")>>, "arg")

\* the next file of the command line
MakeFile ==
    /\ mk.pc = "arg" /\ freeinode <= NARGS + 1
    /\ Ialloc("file")
    /\ CallAppend(RootIno, <<Dirent(freeinode, "file")>>, "read")
    /\ UNCHANGED <<freeblock, sect, indirect, bits>>

\* the host's read returns up to a block, not always a whole one
ReadArg ==
    /\ mk.pc = "read"
    /\ UNCHANGED <<freeinode, freeblock, dinodes, sect, indirect, bits>>
    /\ \/ \E cc \in 1 .. MkBSIZE : \E s \in [1 .. cc -> Byte] :
             CallAppend(freeinode - 1, [k \in 1 .. cc |-> <<s[k], "byte">>], "read")
       \/ mk' = MainAt("arg") /\ UNCHANGED <<din, given>>

\* the size of the root directory goes up to the next block boundary; from a size that is one
\* already, by a whole block, for which nothing has been allocated
WholeBlocks(off) == (off \div MkBSIZE + 1) * MkBSIZE
FixRoot ==
    /\ mk.pc = "arg"
    /\ dinodes' = [dinodes EXCEPT ![RootIno].size = WholeBlocks(@)]
    /\ mk' = MainAt("balloc")
    /\ UNCHANGED <<freeinode, freeblock, sect, indirect, bits, din, given>>

\* mutant: only the blocks that iappend took are marked
UsedBitsData(used) == nmeta .. used - 1
UsedBits(used) == 0 .. used - 1
BallocImage ==
    /\ mk.pc = "balloc"
    /\ IF freeblock >= MkBSIZE * 8
         THEN MkFails
         ELSE /\ bits' = UsedBits(freeblock)
              /\ mk' = MainAt("done")
              /\ UNCHANGED <<freeinode, freeblock, dinodes, sect, indirect, din, given>>

MkNext ==
    \/ MakeRoot \/ MakeDotDot \/ MakeFile \/ ReadArg \/ FixRoot \/ BallocImage
    \/ AppendDirect \/ AppendIndirect \/ AppendTooBig \/ AppendReturn
MkSpec == MkInit /\ [][MkNext]_mkVars

-----------------------------------------------------------------------------
(* Properties *)

\* the block an inode of the image names at an index: NDIRECT is the indirect block, what
\* lies behind it the entries of that block
Names(i, k) ==
    IF k <= MkNDIRECT THEN dinodes[i].addrs[k]
    ELSE IF dinodes[i].addrs[MkNDIRECT] = 0 THEN 0
    ELSE indirect[dinodes[i].addrs[MkNDIRECT]][k - MkNDIRECT - 1]
Owners == {u \in Inum \X (0 .. MkMAXFILE) : Names(u[1], u[2]) # 0}
Owned  == {Names(u[1], u[2]) : u \in Owners}
BlockOf(i, n) == Names(i, IF n < MkNDIRECT THEN n ELSE n + 1)

Stored(i) == [k \in 1 .. Len(given[i]) |->
                 sect[BlockOf(i, (k - 1) \div MkBSIZE)][(k - 1) % MkBSIZE]]

\* Between two calls of iappend the image is sound: every block that was
\* handed out belongs to exactly one place of one inode, none is lost and none is one of the
\* meta blocks; readi finds in each file what was appended to it; the root has an entry for
\* every inode and only zeros behind the last one.  The bitmap, once written, marks the meta
\* blocks and the blocks in use and no other (fs.c's balloc would give away the rest).
ImageSound ==
    mk.pc \in {"dotdot", "arg", "read", "balloc", "done"} =>
        /\ Owned = nmeta .. freeblock - 1 /\ Cardinality(Owners) = Cardinality(Owned)
        /\ Owned \subseteq 0 .. FSSIZE - 1
        /\ \A i \in Inum :
              /\ Stored(i) = given[i]
              /\ dinodes[i].type = "file" => dinodes[i].size = Len(given[i])
              /\ i < freeinode => dinodes[i].nlink = 1 /\ IBLOCK(i) \in inodestart .. bmapstart - 1
        /\ mk.pc \in {"balloc", "done"} =>
              /\ dinodes[RootIno].size % MkBSIZE = 0
              /\ \A i \in 2 .. freeinode - 1 : \E k \in DOMAIN given[RootIno] : given[RootIno][k][1] = i
              /\ \A k \in Len(given[RootIno]) .. MkMAXFILE * MkBSIZE - 1 :
                    LET b == BlockOf(RootIno, k \div MkBSIZE)
                    IN  b # 0 => sect[b][k % MkBSIZE] = ZeroCell
        /\ mk.pc = "done" => bits = (0 .. nmeta - 1) \union Owned
=============================================================================
