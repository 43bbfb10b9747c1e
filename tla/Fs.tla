--------------------------------- MODULE Fs ---------------------------------
(***************************************************************************)
(* The file-system calls of sysfile.c over the inode cache, directories    *)
(* and path walk of fs.c and the open-file table of file.c.                *)
(*                                                                         *)
(* A process executes a program, a sequence of system calls.  The steps of *)
(* a call are cut where the code can be interrupted by another process     *)
(* with a visible effect: a section that runs with one inode locked        *)
(* (I_BUSY) and waits for nothing is one step; a second ilock taken while  *)
(* the first is held (sys_unlink, create) is a step of its own, and so is  *)
(* every iunlock that follows it, every iput, and each stage of the iput   *)
(* that frees an inode.  Block contents are the business of module Blocks; *)
(* here a regular file is its size.  Commit and crash are the business of  *)
(* module Log: what is on disk when no call is active is what a crash can  *)
(* leave behind.                                                           *)
(***************************************************************************)
EXTENDS Integers, Sequences, FiniteSets, SequencesExt

CONSTANTS
    FsProc,      \* processes; Parent runs first, the others are forked
    Parent,
    NINODES,     \* inodes on disk are 1 .. NINODES - 1 (sb.ninodes)
    NINODE,      \* entries of icache
    NFILE,       \* entries of ftable
    NOFILE,      \* descriptors of a process
    Image,       \* the tree mkfs and earlier calls left: inum -> [node, ents]
    Programs     \* the programs Parent may run

VARIABLES
    dinode,      \* on-disk inodes: type, nlink, size
    dirents,     \* contents of directories: sequences of entries
    icache,      \* in-memory inodes: ref, busy, and the copy (NoCopy: not I_VALID)
    ftable,      \* open files: ref, ip, off, writable
    ofile,       \* descriptors of each process: index into ftable, 0 free
    cwd,         \* current directory of each process
    thr,         \* what each process is doing inside its call
    prog,        \* the calls each process has still to make
    active,      \* processes between begin_op and end_op
    fsPanic,     \* the kernel called panic
    unexpected   \* a call returned what its caller did not want

fsVars == <<dinode, dirents, icache, ftable, ofile, cwd, thr, prog, active,
            fsPanic, unexpected>>

ROOTINO == 1
Inums   == 1 .. NINODES - 1
Files   == 1 .. NFILE
Fds     == 0 .. NOFILE - 1
NoCopy  == [type |-> "none", nlink |-> 0, size |-> 0]
FreeNode == [type |-> "free", nlink |-> 0, size |-> 0]
Unused  == [ref |-> 0, busy |-> FALSE, copy |-> NoCopy]
NoFile  == [ref |-> 0, ip |-> 0, off |-> 0, writable |-> FALSE]
Idle    == [pc |-> "idle", next |-> "idle", path |-> <<>>, parent |-> FALSE,
            cur |-> 0, dp |-> 0, ip |-> 0, name |-> "", todo |-> <<>>, ret |-> 0]
Dead    == [Idle EXCEPT !.pc = "dead"]

Entry(name, inum) == [name |-> name, inum |-> inum]
NoEntry == Entry("", 0)

Init_Ents(i) == IF i \in DOMAIN Image THEN Image[i].ents ELSE <<>>
Init_Node(i) == IF i \in DOMAIN Image THEN Image[i].node ELSE FreeNode

FsInit ==
    /\ dinode  = [i \in Inums |-> Init_Node(i)]
    /\ dirents = [i \in Inums |-> Init_Ents(i)]
    /\ icache  = [i \in Inums |-> IF i = ROOTINO THEN [Unused EXCEPT !.ref = 1] ELSE Unused]
    /\ ftable  = [f \in Files |-> NoFile]
    /\ ofile   = [p \in FsProc |-> [d \in Fds |-> 0]]
    /\ cwd     = [p \in FsProc |-> IF p = Parent THEN ROOTINO ELSE 0]
    /\ thr     = [p \in FsProc |-> IF p = Parent THEN Idle ELSE Dead]
    /\ prog \in {[p \in FsProc |-> IF p = Parent THEN s ELSE <<>>] : s \in Programs}
    /\ active = {}
    /\ fsPanic = FALSE
    /\ unexpected = FALSE

-----------------------------------------------------------------------------
(* The inode layer.  An entry of icache is identified with its inode: iget *)
(* finds or recycles the entry under icache.lock, so which slot it gets is *)
(* not observable; that there may be none is.                              *)

Least(S) == CHOOSE x \in S : \A y \in S : x <= y

\* ip as its holder sees it: ilock reads the disk inode into an entry that is not I_VALID
Node(i)     == IF icache[i].copy = NoCopy THEN dinode[i] ELSE icache[i].copy
NoType(i)   == Node(i).type = "free"                  \* ilock: no type
Loaded(ic, i) == [ic EXCEPT ![i].copy = Node(i)]
CacheFull(i)  == /\ icache[i].ref = 0
                 /\ Cardinality({j \in Inums : icache[j].ref > 0}) >= NINODE
iget(ic, i)   == [ic EXCEPT ![i] = IF @.ref = 0 THEN [Unused EXCEPT !.ref = 1]
                                                ELSE [@ EXCEPT !.ref = @ + 1]]
\* the lowest free inode of the disk; 0 when there is none
ialloc == LET free == {i \in Inums : dinode[i].type = "free"}
          IN  IF free = {} THEN 0 ELSE Least(free)

\* dirlookup: where directory i holds the name (*poff), and the inode there; 0 when it does not
Slots(i, name) == {k \in DOMAIN dirents[i] : dirents[i][k].inum # 0 /\ dirents[i][k].name = name}
dirlookup(i, name) == IF Slots(i, name) = {} THEN 0 ELSE dirents[i][Least(Slots(i, name))].inum
\* dirlink: the entry goes into the first empty slot, or at the end
dirlink(ents, name, inum) ==
    LET at == {k \in DOMAIN ents : ents[k].inum = 0}
    IN  IF at = {} THEN Append(ents, Entry(name, inum))
        ELSE [ents EXCEPT ![Least(at)] = Entry(name, inum)]
\* wrong: starts behind the first entry after the dots
isdiremptySkips(i) == \A k \in DOMAIN dirents[i] : k > 3 => dirents[i][k].inum = 0
isdirempty(i) == \A k \in DOMAIN dirents[i] : k > 2 => dirents[i][k].inum = 0

-----------------------------------------------------------------------------
(* The pieces of a call. *)

At(p, pc) == ~fsPanic /\ thr[p].pc = pc /\ thr[p].todo = <<>>
Call(p)   == Head(prog[p])
Put(i)    == <<"put", i>>
Unlock(i) == <<"unlock", i>>

Panic == fsPanic' = TRUE /\ UNCHANGED <<dinode, dirents, icache, ftable, ofile,
                                        cwd, thr, prog, active, unexpected>>
Kept  == UNCHANGED <<cwd, prog, active, fsPanic, unexpected>>
Files_Kept == UNCHANGED <<ftable, ofile>>

\* the call has done its work: it drops the references in todo and returns ret
Leaving(t, todo, ret) == [t EXCEPT !.pc = "ret", !.todo = todo, !.ret = ret,
                                   !.cur = 0, !.dp = 0, !.ip = 0]
Leave(p, ic, todo, ret) ==
    /\ thr' = [thr EXCEPT ![p] = Leaving(@, todo, ret)]
    /\ icache' = ic
    /\ UNCHANGED <<dinode, dirents>> /\ Files_Kept /\ Kept

\* namex before its loop: the root or the current directory, referenced.
\* An empty path names that directory, and has no parent.
Start_Of(p, path) == IF path # <<>> /\ Head(path) = "/" THEN ROOTINO ELSE cwd[p]
Rest_Of(path)     == IF path # <<>> /\ Head(path) = "/" THEN Tail(path) ELSE path
Walking(t, p, path, parent, next) ==
    LET at == Start_Of(p, path)
    IN  IF Rest_Of(path) # <<>>
        THEN [t EXCEPT !.pc = "walk", !.cur = at, !.path = Rest_Of(path),
                       !.parent = parent, !.next = next]
        ELSE IF parent THEN [t EXCEPT !.pc = next, !.dp = 0, !.todo = <<Put(at)>>]
        ELSE [t EXCEPT !.pc = next, !.ip = at]

\* how sys_link, sys_unlink, sys_open, sys_mkdir, sys_mknod and sys_chdir look up
\* their path: namei or nameiparent, and where they go on
First == [link   |-> [parent |-> FALSE, next |-> "link1"],
          unlink |-> [parent |-> TRUE,  next |-> "unlink1"],
          creat  |-> [parent |-> TRUE,  next |-> "create1"],
          mkdir  |-> [parent |-> TRUE,  next |-> "create1"],
          mknod  |-> [parent |-> TRUE,  next |-> "create1"],
          open   |-> [parent |-> FALSE, next |-> "open1"],
          chdir  |-> [parent |-> FALSE, next |-> "chdir1"]]

\* begin_op, and the start of the walk
Start(p) ==
    /\ At(p, "idle") /\ prog[p] # <<>> /\ Call(p).op \in DOMAIN First
    /\ LET c == Call(p)  at == Start_Of(p, c.path)  f == First[c.op]
       IN  IF CacheFull(at) THEN Panic
           ELSE /\ thr' = [thr EXCEPT ![p] = Walking(@, p, c.path, f.parent, f.next)]
                /\ icache' = iget(icache, at)
                /\ active' = active \union {p}
                /\ UNCHANGED <<dinode, dirents, cwd, prog, fsPanic, unexpected>> /\ Files_Kept

\* one turn of the loop of namex: lock, look the next element up, unlock
Walk(p) ==
    LET t == thr[p]  i == t.cur  name == Head(t.path)  last == Len(t.path) = 1
        found == dirlookup(i, name)
        lose  == [t EXCEPT !.pc = t.next, !.cur = 0, !.todo = <<Put(i)>>,
                           !.ip = IF t.parent THEN @ ELSE 0]
        stop  == [t EXCEPT !.pc = t.next, !.cur = 0, !.dp = i, !.name = name]
        move  == IF last THEN [t EXCEPT !.pc = t.next, !.cur = 0, !.ip = found, !.todo = <<Put(i)>>]
                         ELSE [t EXCEPT !.cur = found, !.path = Tail(@), !.todo = <<Put(i)>>]
    IN  /\ At(p, "walk") /\ ~icache[i].busy
        /\ IF NoType(i) THEN Panic
           ELSE IF Node(i).type = "dir" /\ ~(last /\ t.parent) /\ found # 0 /\ CacheFull(found)
           THEN Panic
           ELSE /\ \/ /\ Node(i).type # "dir" \/ (~(last /\ t.parent) /\ found = 0)
                      /\ thr' = [thr EXCEPT ![p] = lose]
                      /\ icache' = Loaded(icache, i)
                   \/ /\ Node(i).type = "dir" /\ last /\ t.parent
                      /\ thr' = [thr EXCEPT ![p] = stop]
                      /\ icache' = Loaded(icache, i)
                   \/ /\ Node(i).type = "dir" /\ ~(last /\ t.parent) /\ found # 0
                      /\ thr' = [thr EXCEPT ![p] = move]
                      /\ icache' = iget(Loaded(icache, i), found)
                /\ UNCHANGED <<dinode, dirents>> /\ Files_Kept /\ Kept

-----------------------------------------------------------------------------
(* iput, and the end of a call *)

\* the last reference to an inode without links; wrong without ref == 1
DoomedAny(i) == icache[i].copy # NoCopy /\ icache[i].copy.nlink = 0
Doomed(i) == icache[i].ref = 1 /\ icache[i].copy # NoCopy /\ icache[i].copy.nlink = 0

\* iput: a doomed inode is claimed for truncation
IPut(p) ==
    LET t == thr[p]  i == Head(t.todo)[2]  e == icache[i]
    IN  /\ ~fsPanic /\ t.todo # <<>> /\ Head(t.todo)[1] = "put"
        /\ IF Doomed(i)
           THEN IF e.busy THEN Panic                       \* iput busy
                ELSE /\ icache' = [icache EXCEPT ![i].busy = TRUE]
                     /\ thr' = [thr EXCEPT ![p].todo = <<<<"trunc", i>>>> \o Tail(@)]
                     /\ UNCHANGED <<dinode, dirents>> /\ Files_Kept /\ Kept
           ELSE /\ icache' = [icache EXCEPT ![i] = IF e.ref = 1 THEN Unused ELSE [@ EXCEPT !.ref = @ - 1]]
                /\ thr' = [thr EXCEPT ![p].todo = Tail(@)]
                /\ UNCHANGED <<dinode, dirents>> /\ Files_Kept /\ Kept

\* itrunc, type = 0, iupdate, without icache.lock: ialloc may now hand the inode out
ITrunc(p) ==
    LET t == thr[p]  i == Head(t.todo)[2]
    IN  /\ ~fsPanic /\ t.todo # <<>> /\ Head(t.todo)[1] = "trunc"
        /\ dinode' = [dinode EXCEPT ![i] = FreeNode]
        /\ dirents' = [dirents EXCEPT ![i] = <<>>]
        /\ thr' = [thr EXCEPT ![p].todo = <<<<"drop", i>>>> \o Tail(@)]
        /\ UNCHANGED icache /\ Files_Kept /\ Kept

\* icache.lock again: flags = 0, wakeup, ref--
IDrop(p) ==
    LET t == thr[p]  i == Head(t.todo)[2]
    IN  /\ ~fsPanic /\ t.todo # <<>> /\ Head(t.todo)[1] = "drop"
        /\ icache' = [icache EXCEPT ![i] = [Unused EXCEPT !.ref = icache[i].ref - 1]]
        /\ thr' = [thr EXCEPT ![p].todo = Tail(@)]
        /\ UNCHANGED <<dinode, dirents>> /\ Files_Kept /\ Kept

IUnlock(p) ==
    LET t == thr[p]  i == Head(t.todo)[2]
    IN  /\ ~fsPanic /\ t.todo # <<>> /\ Head(t.todo)[1] = "unlock"
        /\ icache' = [icache EXCEPT ![i].busy = FALSE]
        /\ thr' = [thr EXCEPT ![p].todo = Tail(@)]
        /\ UNCHANGED <<dinode, dirents>> /\ Files_Kept /\ Kept

\* end_op and return; exit goes on until the last file and the directory are put
Return(p) ==
    LET c == Call(p)
    IN  /\ At(p, "ret")
        /\ active' = active \ {p}
        /\ IF c.op = "exit" /\ cwd[p] # 0
           THEN thr' = [thr EXCEPT ![p] = Idle] /\ UNCHANGED <<prog, unexpected>>
           ELSE /\ thr' = [thr EXCEPT ![p] = IF c.op = "exit" THEN Dead ELSE Idle]
                /\ prog' = [prog EXCEPT ![p] = Tail(@)]
                /\ unexpected' = (unexpected \/ thr[p].ret \notin c.want)
        /\ UNCHANGED <<dinode, dirents, icache, cwd, fsPanic>> /\ Files_Kept

-----------------------------------------------------------------------------
(* sys_link: count the new link first, then enter it, or take the count back *)

\* nlink++, iupdate, iunlock; wrong: ip stays locked while the new path is looked up
CountedLocked(i, n) == [icache EXCEPT ![i].copy = n, ![i].busy = TRUE]
Counted(i, n) == [icache EXCEPT ![i].copy = n]

Link1(p) ==
    LET t == thr[p]  i == t.ip  c == Call(p)  at == Start_Of(p, c.arg)
        n == [Node(i) EXCEPT !.nlink = @ + 1]
    IN  /\ At(p, "link1")
        /\ IF i = 0 THEN Leave(p, icache, <<>>, -1)
           ELSE /\ ~icache[i].busy
                /\ IF NoType(i) \/ (Node(i).type # "dir" /\ CacheFull(at)) THEN Panic
                   ELSE IF Node(i).type = "dir" THEN Leave(p, Loaded(icache, i), <<Put(i)>>, -1)
                   ELSE /\ icache' = iget(Counted(i, n), at)
                        /\ dinode' = [dinode EXCEPT ![i] = n]
                        /\ thr' = [thr EXCEPT ![p] = Walking(t, p, c.arg, TRUE, "link2")]
                        /\ UNCHANGED dirents /\ Files_Kept /\ Kept

Link2(p) ==
    LET t == thr[p]  d == t.dp  found == dirlookup(d, t.name)
    IN  /\ At(p, "link2")
        /\ IF d = 0 THEN /\ thr' = [thr EXCEPT ![p].pc = "linkbad"]
                         /\ UNCHANGED <<dinode, dirents, icache>> /\ Files_Kept /\ Kept
           ELSE /\ ~icache[d].busy
                /\ IF NoType(d) \/ Node(d).type # "dir" \/ (found # 0 /\ CacheFull(found)) THEN Panic
                   ELSE IF found = 0
                   THEN /\ dirents' = [dirents EXCEPT ![d] = dirlink(@, t.name, t.ip)]
                        /\ icache' = Loaded(icache, d)
                        /\ thr' = [thr EXCEPT ![p] = Leaving(t, <<Put(d), Put(t.ip)>>, 0)]
                        /\ UNCHANGED dinode /\ Files_Kept /\ Kept
                   ELSE /\ icache' = [iget(Loaded(icache, d), found) EXCEPT ![d].busy = TRUE]
                        /\ thr' = [thr EXCEPT ![p].pc = "linkbad", ![p].dp = 0,
                                              ![p].todo = <<Put(found), Unlock(d), Put(d)>>]
                        /\ UNCHANGED <<dinode, dirents>> /\ Files_Kept /\ Kept

\* bad: wrong without the iput, and as it is
LinkBadKeeps(p) ==
    LET i == thr[p].ip  n == [Node(i) EXCEPT !.nlink = @ - 1]
    IN  /\ At(p, "linkbad") /\ ~icache[i].busy
        /\ icache' = [icache EXCEPT ![i].copy = n]
        /\ dinode' = [dinode EXCEPT ![i] = n]
        /\ thr' = [thr EXCEPT ![p] = Leaving(@, <<>>, -1)]
        /\ UNCHANGED dirents /\ Files_Kept /\ Kept
LinkBad(p) ==
    LET i == thr[p].ip  n == [Node(i) EXCEPT !.nlink = @ - 1]
    IN  /\ At(p, "linkbad") /\ ~icache[i].busy
        /\ IF NoType(i) THEN Panic
           ELSE /\ icache' = [icache EXCEPT ![i].copy = n]
                /\ dinode' = [dinode EXCEPT ![i] = n]
                /\ thr' = [thr EXCEPT ![p] = Leaving(@, <<Put(i)>>, -1)]
                /\ UNCHANGED dirents /\ Files_Kept /\ Kept

(* sys_unlink: the directory stays locked while the inode is locked and checked *)

Unlink1(p) ==
    LET t == thr[p]  d == t.dp  found == dirlookup(d, t.name)
    IN  /\ At(p, "unlink1")
        /\ IF d = 0 THEN Leave(p, icache, <<>>, -1)
           ELSE /\ ~icache[d].busy
                /\ IF NoType(d) THEN Panic
                   ELSE IF t.name \in {".", ".."} \/ found = 0
                   THEN Leave(p, Loaded(icache, d), <<Put(d)>>, -1)
                   ELSE IF CacheFull(found) THEN Panic
                   ELSE /\ icache' = [iget(Loaded(icache, d), found) EXCEPT ![d].busy = TRUE]
                        /\ thr' = [thr EXCEPT ![p].pc = "unlink2", ![p].ip = found]
                        /\ UNCHANGED <<dinode, dirents>> /\ Files_Kept /\ Kept

Unlink2(p) ==
    LET t == thr[p]  d == t.dp  i == t.ip  isdir == Node(i).type = "dir"
        dn == [Node(d) EXCEPT !.nlink = IF isdir THEN @ - 1 ELSE @]
    IN  /\ At(p, "unlink2") /\ ~icache[i].busy
        /\ IF NoType(i) \/ Node(i).nlink < 1 THEN Panic     \* unlink: nlink < 1
           ELSE IF isdir /\ ~isdirempty(i)
           THEN Leave(p, Loaded(icache, i), <<Put(i), Unlock(d), Put(d)>>, -1)
           ELSE /\ dirents' = [dirents EXCEPT ![d][Least(Slots(d, t.name))] = NoEntry]
                /\ dinode' = [dinode EXCEPT ![d] = dn]
                /\ icache' = [Loaded(icache, i) EXCEPT ![d].copy = dn, ![i].busy = TRUE]
                /\ thr' = [thr EXCEPT ![p].pc = "unlink3", ![p].dp = 0,
                                      ![p].todo = <<Unlock(d), Put(d)>>]
                /\ Files_Kept /\ Kept

Unlink3(p) ==
    LET i == thr[p].ip  n == [Node(i) EXCEPT !.nlink = @ - 1]
    IN  /\ At(p, "unlink3")
        /\ dinode' = [dinode EXCEPT ![i] = n]
        /\ icache' = [icache EXCEPT ![i].copy = n, ![i].busy = FALSE]
        /\ thr' = [thr EXCEPT ![p] = Leaving(@, <<Put(i)>>, 0)]
        /\ UNCHANGED dirents /\ Files_Kept /\ Kept

-----------------------------------------------------------------------------
(* create, and the calls that end in it or in an open file *)

TypeOf == [creat |-> "file", mkdir |-> "dir", mknod |-> "dev"]
\* sys_open from filealloc on, with ip locked: ip stays referenced by the file
Open_Tail(p, i, ic) ==
    LET fs == {f \in Files : ftable[f].ref = 0}  ds == {d \in Fds : ofile[p][d] = 0}
    IN  /\ icache' = [ic EXCEPT ![i].busy = FALSE]
        /\ IF fs = {} \/ ds = {}
           THEN /\ thr' = [thr EXCEPT ![p] = Leaving(@, <<Put(i)>>, -1)]
                /\ Files_Kept
           ELSE /\ thr' = [thr EXCEPT ![p] = Leaving(@, <<>>, Least(ds))]
                /\ ftable' = [ftable EXCEPT ![Least(fs)] =
                       [ref |-> 1, ip |-> i, off |-> 0, writable |-> Call(p).arg]]
                /\ ofile' = [ofile EXCEPT ![p][Least(ds)] = Least(fs)]
        /\ UNCHANGED <<dinode, dirents>> /\ Kept

Create1(p) ==
    LET t == thr[p]  d == t.dp  found == dirlookup(d, t.name)
        new == [FreeNode EXCEPT !.type = TypeOf[Call(p).op]]
    IN  /\ At(p, "create1")
        /\ IF d = 0 THEN Leave(p, icache, <<>>, -1)
           ELSE /\ ~icache[d].busy
                /\ IF NoType(d) THEN Panic
                   ELSE IF found # 0
                   THEN IF CacheFull(found) THEN Panic
                        ELSE /\ icache' = iget(Loaded(icache, d), found)
                             /\ thr' = [thr EXCEPT ![p].pc = "exist", ![p].ip = found, ![p].dp = 0,
                                                   ![p].todo = <<Put(d)>>]
                             /\ UNCHANGED <<dinode, dirents>> /\ Files_Kept /\ Kept
                   ELSE IF ialloc = 0 \/ CacheFull(ialloc) THEN Panic
                   ELSE /\ dinode' = [dinode EXCEPT ![ialloc] = new]
                        /\ icache' = [iget(Loaded(icache, d), ialloc) EXCEPT ![d].busy = TRUE]
                        /\ thr' = [thr EXCEPT ![p].pc = "create2", ![p].ip = ialloc]
                        /\ UNCHANGED dirents /\ Files_Kept /\ Kept

\* the name exists: create succeeds only for a file where a file is wanted
Exist(p) ==
    LET i == thr[p].ip
    IN  /\ At(p, "exist") /\ ~icache[i].busy
        /\ IF NoType(i) THEN Panic
           ELSE IF Call(p).op = "creat" /\ Node(i).type = "file"
           THEN Open_Tail(p, i, Loaded(icache, i))
           ELSE Leave(p, Loaded(icache, i), <<Put(i)>>, -1)

Create2(p) ==
    LET t == thr[p]  d == t.dp  i == t.ip  isdir == Node(i).type = "dir"
        n  == [Node(i) EXCEPT !.nlink = 1]
        dn == [Node(d) EXCEPT !.nlink = IF isdir THEN @ + 1 ELSE @]
        dots == <<Entry(".", i), Entry("..", d)>>
    IN  /\ At(p, "create2") /\ ~icache[i].busy
        /\ IF NoType(i) THEN Panic
           ELSE /\ dinode' = [dinode EXCEPT ![i] = n, ![d] = dn]
                /\ icache' = [icache EXCEPT ![i].copy = n, ![i].busy = TRUE, ![d].copy = dn]
                /\ dirents' = [dirents EXCEPT ![i] = IF isdir THEN dots ELSE @,
                                              ![d] = dirlink(@, t.name, i)]
                /\ thr' = [thr EXCEPT ![p].pc = "created", ![p].dp = 0,
                                      ![p].todo = <<Unlock(d), Put(d)>>]
                /\ Files_Kept /\ Kept

\* back in the caller of create, with the new inode locked
Created(p) ==
    LET i == thr[p].ip
    IN  /\ At(p, "created")
        /\ IF Call(p).op = "creat" THEN Open_Tail(p, i, icache)
           ELSE Leave(p, [icache EXCEPT ![i].busy = FALSE], <<Put(i)>>, 0)

Open1(p) ==
    LET i == thr[p].ip
    IN  /\ At(p, "open1")
        /\ IF i = 0 THEN Leave(p, icache, <<>>, -1)
           ELSE /\ ~icache[i].busy
                /\ IF NoType(i) THEN Panic
                   ELSE IF Node(i).type = "dir" /\ Call(p).arg
                   THEN Leave(p, Loaded(icache, i), <<Put(i)>>, -1)
                   ELSE Open_Tail(p, i, Loaded(icache, i))

Chdir1(p) ==
    LET i == thr[p].ip
    IN  /\ At(p, "chdir1")
        /\ IF i = 0 THEN Leave(p, icache, <<>>, -1)
           ELSE /\ ~icache[i].busy
                /\ IF NoType(i) THEN Panic
                   ELSE IF Node(i).type # "dir" THEN Leave(p, Loaded(icache, i), <<Put(i)>>, -1)
                   ELSE /\ cwd' = [cwd EXCEPT ![p] = i]
                        /\ icache' = Loaded(icache, i)
                        /\ thr' = [thr EXCEPT ![p] = Leaving(@, <<Put(cwd[p])>>, 0)]
                        /\ UNCHANGED <<dinode, dirents, prog, active, fsPanic, unexpected>>
                        /\ Files_Kept

-----------------------------------------------------------------------------
(* calls on descriptors, and what fork and exit do to them *)

\* the file a descriptor argument names, 0 when argfd refuses it
argfd(p, d) == IF d \in Fds THEN ofile[p][d] ELSE 0

\* fileclose: the last reference puts the inode, in a transaction of its own
Close_Fd(p, d) ==
    LET f == ofile[p][d]  last == ftable[f].ref = 1
    IN  /\ ofile' = [ofile EXCEPT ![p][d] = 0]
        /\ ftable' = [ftable EXCEPT ![f] = IF last THEN NoFile ELSE [@ EXCEPT !.ref = @ - 1]]
        /\ active' = IF last THEN active \union {p} ELSE active
        /\ thr' = [thr EXCEPT ![p] = Leaving(@, IF last THEN <<Put(ftable[f].ip)>> ELSE <<>>, 0)]
        /\ UNCHANGED <<dinode, dirents, icache, cwd, prog, fsPanic, unexpected>>

Close(p) ==
    /\ At(p, "idle") /\ prog[p] # <<>> /\ Call(p).op = "close"
    /\ IF argfd(p, Call(p).path) = 0 THEN Leave(p, icache, <<>>, -1)
       ELSE Close_Fd(p, Call(p).path)

Dup(p) ==
    LET f == argfd(p, Call(p).path)  ds == {d \in Fds : ofile[p][d] = 0}
    IN  /\ At(p, "idle") /\ prog[p] # <<>> /\ Call(p).op = "dup"
        /\ IF f = 0 \/ ds = {} THEN Leave(p, icache, <<>>, -1)
           ELSE /\ ftable' = [ftable EXCEPT ![f].ref = @ + 1]
                /\ ofile' = [ofile EXCEPT ![p][Least(ds)] = f]
                /\ thr' = [thr EXCEPT ![p] = Leaving(@, <<>>, Least(ds))]
                /\ UNCHANGED <<dinode, dirents, icache>> /\ Kept

\* fileread and filewrite on an inode: lock, move the data and the offset, unlock
Transfer(p) ==
    LET c == Call(p)  f == argfd(p, c.path)  i == ftable[f].ip  off == ftable[f].off
        n == IF c.op = "write" THEN c.arg
             ELSE IF off + c.arg > Node(i).size THEN Node(i).size - off ELSE c.arg
        node == [Node(i) EXCEPT !.size = IF c.op = "write" /\ off + n > @ THEN off + n ELSE @]
    IN  /\ At(p, "idle") /\ prog[p] # <<>> /\ c.op \in {"read", "write"}
        /\ IF f = 0 \/ (c.op = "write" /\ ~ftable[f].writable) THEN Leave(p, icache, <<>>, -1)
           ELSE /\ ~icache[i].busy
                /\ IF NoType(i) THEN Panic
                   ELSE /\ ftable' = [ftable EXCEPT ![f].off = @ + n]
                        /\ dinode' = [dinode EXCEPT ![i] = node]
                        /\ icache' = [icache EXCEPT ![i].copy = node]
                        /\ thr' = [thr EXCEPT ![p] = Leaving(@, <<>>, n)]
                        /\ UNCHANGED <<dirents, ofile>> /\ Kept

\* fork: the child shares the open files (filedup) and the directory (idup)
Fork(p) ==
    /\ At(p, "idle") /\ prog[p] # <<>> /\ Call(p).op = "fork"
    /\ \E q \in FsProc :
          /\ thr[q].pc = "dead"
          /\ thr' = [thr EXCEPT ![p] = Leaving(@, <<>>, 0), ![q] = Idle]
          /\ prog' = [prog EXCEPT ![q] = Call(p).arg]
          /\ cwd' = [cwd EXCEPT ![q] = cwd[p]]
          /\ icache' = iget(icache, cwd[p])
          /\ ofile' = [ofile EXCEPT ![q] = ofile[p]]
          /\ ftable' = [f \in Files |-> [ftable[f] EXCEPT
                 !.ref = @ + Cardinality({d \in Fds : ofile[p][d] = f})]]
          /\ UNCHANGED <<dinode, dirents, active, fsPanic, unexpected>>

\* exit: close every file, then put the directory in a transaction
Exit(p) ==
    LET open == {d \in Fds : ofile[p][d] # 0}
    IN  /\ At(p, "idle") /\ prog[p] # <<>> /\ Call(p).op = "exit"
        /\ IF open # {} THEN Close_Fd(p, Least(open))
           ELSE /\ cwd' = [cwd EXCEPT ![p] = 0]
                /\ active' = active \union {p}
                /\ thr' = [thr EXCEPT ![p] = Leaving(@, <<Put(cwd[p])>>, 0)]
                /\ UNCHANGED <<dinode, dirents, icache, prog, fsPanic, unexpected>> /\ Files_Kept

Wait(p) ==
    /\ At(p, "idle") /\ prog[p] # <<>> /\ Call(p).op = "wait"
    /\ \A q \in FsProc \ {p} : thr[q].pc = "dead"
    /\ Leave(p, icache, <<>>, 0)

Syscall(p) ==
    \/ Start(p) \/ Walk(p) \/ Return(p)
    \/ IPut(p) \/ ITrunc(p) \/ IDrop(p) \/ IUnlock(p)
    \/ Link1(p) \/ Link2(p) \/ LinkBad(p)
    \/ Unlink1(p) \/ Unlink2(p) \/ Unlink3(p)
    \/ Create1(p) \/ Exist(p) \/ Create2(p) \/ Created(p)
    \/ Open1(p) \/ Chdir1(p)
    \/ Close(p) \/ Dup(p) \/ Transfer(p) \/ Fork(p) \/ Exit(p) \/ Wait(p)

FsNext == \E p \in FsProc : Syscall(p)

FsSpec == FsInit /\ [][FsNext]_fsVars

-----------------------------------------------------------------------------
(* Properties *)

Node_Type == [type : {"none", "free", "dir", "file", "dev"}, nlink : Nat, size : Nat]

\* Types of the inode cache, the tables and the calls in progress.
FsTypeOK ==
    /\ \A i \in Inums : dinode[i] \in Node_Type /\ icache[i].copy \in Node_Type
    /\ \A i \in Inums : icache[i].ref \in Nat /\ icache[i].busy \in BOOLEAN
    /\ \A i \in Inums : \A k \in DOMAIN dirents[i] : dirents[i][k].inum \in Inums \union {0}
    /\ \A f \in Files : ftable[f].ref \in Nat /\ ftable[f].ip \in Inums \union {0}
    /\ ofile \in [FsProc -> [Fds -> Files \union {0}]]
    /\ cwd \in [FsProc -> Inums \union {0}]
    /\ active \subseteq FsProc

\* the pointers to inode i that processes and open files hold
Pending(p, i) == Cardinality({k \in DOMAIN thr[p].todo :
                     thr[p].todo[k][2] = i /\ thr[p].todo[k][1] # "unlock"})
Count(S, P(_)) == Cardinality({x \in S : P(x)})
Pointers(i) ==
      Count(FsProc, LAMBDA p : cwd[p] = i)     + Count(Files, LAMBDA f : ftable[f].ip = i)
    + Count(FsProc, LAMBDA p : thr[p].cur = i) + Count(FsProc, LAMBDA p : thr[p].dp = i)
    + Count(FsProc, LAMBDA p : thr[p].ip = i)
    + Cardinality({<<p, k>> \in FsProc \X (1 .. 3) : k <= Pending(p, i)})

\* ip->ref is exactly the number of pointers to the entry (fs.c:129 "ip->ref tracks the
\* number of in-memory pointers to the entry"), across every early return and error path
\* of the calls, and through the truncation in iput; likewise the references of a file.
RefsExact ==
    /\ FsTypeOK
    /\ ~fsPanic =>
      /\ \A i \in Inums : icache[i].ref = Pointers(i)
      /\ \A f \in Files : ftable[f].ref = Cardinality({<<p, d>> \in FsProc \X Fds : ofile[p][d] = f})

\* the directory entries that count as links: not "." and not the root's or a removed
\* directory's ".."
Links(i) ==
    Cardinality(UNION {{d} \X {k \in DOMAIN dirents[d] :
        LET e == dirents[d][k]
        IN  e.inum = i /\ e.name # "." /\ (e.name = ".." => d # ROOTINO /\ dinode[d].nlink > 0)} : d \in Inums})

\* An inode some process or open file still points to is not freed under it: a file that
\* was unlinked while open, or while it was someone's directory, keeps its inode until the
\* last iput.  And whenever no transaction is open, which is what a crash can leave, no
\* directory entry names a free inode and no inode has fewer links counted than it has
\* entries: sys_link counts first, sys_unlink and create change both in one transaction.
InUseNotFree ==
    /\ \A p \in FsProc : cwd[p] # 0 => dinode[cwd[p]].type = "dir"
    /\ \A f \in Files : ftable[f].ref > 0 => dinode[ftable[f].ip].type # "free"
    /\ active = {} => \A i \in Inums : LET n == Links(i)
                                      IN  dinode[i].nlink >= n /\ (n > 0 => dinode[i].type # "free")

\* the inode the next step of p has to lock
Wants(p) ==
    LET t == thr[p]
    IN  IF t.todo # <<>> THEN 0
        ELSE IF t.pc = "walk" THEN t.cur
        ELSE IF t.pc \in {"link2", "unlink1", "create1"} THEN t.dp
        ELSE IF t.pc \in {"link1", "linkbad", "unlink2", "exist", "create2", "open1", "chdir1"} THEN t.ip
        ELSE 0
Blocked(p) == Wants(p) # 0 /\ icache[Wants(p)].busy

\* Processes that lock a directory and then an inode in it, or wait for an inode another
\* one is freeing, never all wait for one another (sys_unlink, create, namex).
NoInodeDeadlock ==
    (~fsPanic /\ \E p \in FsProc : Blocked(p)) =>
        \E p \in FsProc : thr[p].pc \notin {"idle", "dead"} /\ ~Blocked(p)

\* Every call returns what the program that makes it expects, as the programs of usertests.c
\* check, and none of the panics of fs.c and sysfile.c is reached: "ilock: no type", "iput
\* busy", "iget: no inodes", "ialloc: no inodes", "unlink: nlink < 1", "dirlookup not DIR".
TestsPass == ~unexpected /\ ~fsPanic
=============================================================================
