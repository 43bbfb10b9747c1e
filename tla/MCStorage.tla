------------------------------ MODULE MCStorage ------------------------------
(***************************************************************************)
(* Instances of the modules about what is kept where (inodes and names,    *)
(* disk blocks, the image mkfs writes, page frames, also while the machine *)
(* boots, the heap of a process, the console's lines),                     *)
(* side by side: part says which of them a behaviour belongs to, and the   *)
(* variables of the others rest.                                           *)
(***************************************************************************)
EXTENDS Fs, Usertests, Blocks, Vm, Console, Umalloc, Mkfs, Boot

VARIABLE part

storeVars == <<fsVars, bVars, vmVars, conVars, heapVars, mkVars, bootVars, part>>

\* the root directory with three files, as mkfs leaves it
PlainFile == [node |-> [type |-> "file", nlink |-> 1, size |-> 2], ents |-> <<>>]
Root == [node |-> [type |-> "dir", nlink |-> 1, size |-> 0],
         ents |-> <<Entry(".", 1), Entry("..", 1), Entry("echo", 2), Entry("cat", 3), Entry("README", 4)>>]
MkfsImage == <<Root, PlainFile, PlainFile, PlainFile>>

Tests ==
    {iputtest, exitiputtest, openiputtest, opentest, writetest(2), createtest(3), dirtest, sharedfd(2),
     unlinkread, linktest, bigdir(3), rmdot, dirfile, iref(2), subdir}
    \union linkunlink(2) \union {concreate(i) : i \in {0, 1, 2, 4, 6}}

\* two processes in and around one directory, which one of them may remove
DirCalls ==
    LET dx == <<"d", "x">>
    IN  {creat(dx, Either), mkdir(dx, Either), unlink(dx, Either), unlink(<<"d">>, Either),
         link(<<"cat">>, dx, Either), link(dx, <<"y">>, Either), open(dx, Either),
         chdir(<<"d">>, Either)}
DirTests == {<<mkdir(<<"d">>, Ok), fork(<<c, exit>>), q, r, wait>> : c, q, r \in DirCalls}

\* descriptors, devices and full tables
TableTests ==
    {<<mknod(<<"dev">>, Ok), open(<<"dev">>, Ok), dup(0, Ok), dup(0, No), open(<<"cat">>, No),
       fork(<<close(0), exit>>), close(1), open(<<"cat">>, Ok), open(<<"echo">>, No), wait, close(5)>>}

MCPrograms == Tests \union DirTests \union TableTests

MCOpens == {<<1, 2>>, <<1, 1>>}

\* process 1 executes a program of two segments, one that cannot be read to the end and one
\* with more arguments than fit; its child a program that fits, unless memory runs out
Segment2(ok) == <<[vaddr |-> 0, end |-> 2, ok |-> TRUE], [vaddr |-> 2, end |-> 4, ok |-> ok]>>
MCImages ==
    <<{[segs |-> Segment2(ok), args |-> 1] : ok \in BOOLEAN}
        \union {[segs |-> <<[vaddr |-> 0, end |-> 1, ok |-> TRUE]>>, args |-> 3]},
      {[segs |-> <<[vaddr |-> 0, end |-> 2, ok |-> TRUE]>>, args |-> 2]}>>
MCSbrks == <<{}, {4, -3}>>

-----------------------------------------------------------------------------
StoreInit ==
    /\ part \in {"fs", "blocks", "vm", "console", "heap", "mkfs", "boot"}
    /\ FsInit /\ (part = "fs" \/ prog[Parent] = opentest)
    /\ BInit /\ (part = "blocks" \/ fp[1].ip = fp[2].ip)
    /\ VInit /\ ConInit /\ HeapInit /\ MkInit /\ BootInit

StoreNext ==
    \/ part = "fs" /\ FsNext /\ UNCHANGED <<bVars, vmVars, conVars, heapVars, mkVars, bootVars, part>>
    \/ part = "blocks" /\ BNext /\ UNCHANGED <<fsVars, vmVars, conVars, heapVars, mkVars, bootVars, part>>
    \/ part = "vm" /\ VNext /\ UNCHANGED <<fsVars, bVars, conVars, heapVars, mkVars, bootVars, part>>
    \/ part = "console" /\ ConNext /\ UNCHANGED <<fsVars, bVars, vmVars, heapVars, mkVars, bootVars, part>>
    \/ part = "heap" /\ HeapNext /\ UNCHANGED <<fsVars, bVars, vmVars, conVars, mkVars, bootVars, part>>
    \/ part = "mkfs" /\ MkNext /\ UNCHANGED <<fsVars, bVars, vmVars, conVars, heapVars, bootVars, part>>
    \/ part = "boot" /\ BootNext /\ UNCHANGED <<fsVars, bVars, vmVars, conVars, heapVars, mkVars, part>>

StoreSpec == StoreInit /\ [][StoreNext]_storeVars
=============================================================================
