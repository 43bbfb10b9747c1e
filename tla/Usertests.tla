----------------------------- MODULE Usertests ------------------------------
(***************************************************************************)
(* File-system tests of usertests.c as programs of module Fs: the calls in *)
(* the order the test makes them, each with the results after which the    *)
(* test goes on.  A path is the sequence of its elements, "/" first when   *)
(* it is absolute.  Descriptors 0, 1 and 2 are left out: the first file a  *)
(* test opens is descriptor 0.                                             *)
(***************************************************************************)
EXTENDS Integers, Sequences, SequencesExt, TLC

Ok == 0 .. 9          \* the test goes on when the call succeeds
No == {-1}            \* ... when it fails
Either == -1 .. 9        \* the test does not look

Do(op, path, arg, want) == [op |-> op, path |-> path, arg |-> arg, want |-> want]
mkdir(path, want)     == Do("mkdir", path, FALSE, want)
chdir(path, want)     == Do("chdir", path, FALSE, want)
unlink(path, want)    == Do("unlink", path, FALSE, want)
link(old, new, want)  == Do("link", old, new, want)
open(path, want)      == Do("open", path, FALSE, want)      \* O_RDONLY
openw(path, want)     == Do("open", path, TRUE, want)       \* O_RDWR, O_WRONLY
creat(path, want)     == Do("creat", path, TRUE, want)      \* O_CREATE|O_RDWR
creatr(path, want)    == Do("creat", path, FALSE, want)     \* O_CREATE
mknod(path, want)     == Do("mknod", path, FALSE, want)
close(d)              == Do("close", d, FALSE, Either)
dup(d, want)          == Do("dup", d, FALSE, want)
read(d, n, want)      == Do("read", d, n, want)
write(d, n, want)     == Do("write", d, n, want)
fork(child)           == Do("fork", <<>>, child, Ok)
wait                  == Do("wait", <<>>, FALSE, Either)
exit                  == Do("exit", <<>>, FALSE, Either)

iputtest == <<mkdir(<<"iputdir">>, Ok), chdir(<<"iputdir">>, Ok),
              unlink(<<"..", "iputdir">>, Ok), chdir(<<"/">>, Ok)>>

exitiputtest == <<fork(<<mkdir(<<"iputdir">>, Ok), chdir(<<"iputdir">>, Ok),
                         unlink(<<"..", "iputdir">>, Ok), exit>>), wait>>

openiputtest == <<mkdir(<<"oidir">>, Ok), fork(<<openw(<<"oidir">>, No), exit>>),
                  unlink(<<"oidir">>, Ok), wait>>

opentest == <<open(<<"echo">>, Ok), close(0), open(<<"doesnotexist">>, No)>>

\* n turns of the loops of writetest and createtest
writetest(n) == <<creat(<<"small">>, Ok)>> \o [k \in 1 .. 2 * n |-> write(0, 1, {1})]
                \o <<close(0), open(<<"small">>, Ok), read(0, 2 * n, {2 * n}), close(0), unlink(<<"small">>, Ok)>>
createtest(n) == LET a(k) == <<"a" \o ToString(k)>>
                 IN  FlattenSeq([k \in 1 .. n |-> <<creat(a(k), Either), close(0)>>])
                     \o [k \in 1 .. n |-> unlink(a(k), Either)]

dirtest == <<mkdir(<<"dir0">>, Ok), chdir(<<"dir0">>, Ok), chdir(<<"..">>, Ok), unlink(<<"dir0">>, Ok)>>

\* parent and child write through one descriptor: every byte of both is there in the end
sharedfd(n) == LET writes == [k \in 1 .. n |-> write(0, 2, {2})]
               IN  <<unlink(<<"sharedfd">>, Either), creat(<<"sharedfd">>, Ok), fork(Append(writes, exit))>>
                   \o writes \o <<wait, close(0), open(<<"sharedfd">>, Ok)>>
                   \o [k \in 1 .. 2 * n |-> read(0, 2, {2})]
                   \o <<read(0, 2, {0}), close(0), unlink(<<"sharedfd">>, Either)>>

\* in units of one byte; "yyy" and "hello" are 3 and 5 long, the final write is 4 of the 10
unlinkread == <<creat(<<"unlinkread">>, Ok), write(0, 5, {5}), close(0),
                openw(<<"unlinkread">>, Ok), unlink(<<"unlinkread">>, Ok),
                creat(<<"unlinkread">>, Either), write(1, 3, Either), close(1),
                read(0, 9, {5}), write(0, 4, {4}), close(0), unlink(<<"unlinkread">>, Either)>>

linktest == <<unlink(<<"lf1">>, Either), unlink(<<"lf2">>, Either),
              creat(<<"lf1">>, Ok), write(0, 5, {5}), close(0),
              link(<<"lf1">>, <<"lf2">>, Ok), unlink(<<"lf1">>, Either), open(<<"lf1">>, No),
              open(<<"lf2">>, Ok), read(0, 9, {5}), close(0),
              link(<<"lf2">>, <<"lf2">>, No), unlink(<<"lf2">>, Either),
              link(<<"lf2">>, <<"lf1">>, No), link(<<".">>, <<"lf1">>, No)>>

\* turn i of the first and of the last loop of concreate, after turn 0 has made C0; two of the
\* four calls that a process makes in the last loop
concreate_file(i) == <<"C" \o ToString(i)>>
concreate_make(i) ==
    LET f == concreate_file(i)
        do(linked) == IF linked THEN <<link(<<"C0">>, f, Either)>> ELSE <<creat(f, Ok), close(0)>>
    IN  <<unlink(f, Either), fork(Append(do(i % 5 = 1), exit))>> \o do(i % 3 = 1) \o <<wait>>
concreate_drop(i) ==
    LET f == concreate_file(i)
        do(opens) == IF opens THEN <<open(f, Either), close(0), open(f, Either), close(0)>>
                     ELSE <<unlink(f, Either), unlink(f, Either)>>
    IN  <<fork(Append(do(i % 3 = 0), exit))>> \o do(i % 3 = 1) \o <<wait>>
concreate(i) == concreate_make(0) \o (IF i = 0 THEN <<>> ELSE concreate_make(i)) \o concreate_drop(i)

bigdir(n) == LET x(k) == <<"x" \o ToString(k)>>
             IN  <<unlink(<<"bd">>, Either), creatr(<<"bd">>, Ok), close(0)>>
                 \o [k \in 1 .. n |-> link(<<"bd">>, x(k), {0})] \o <<unlink(<<"bd">>, Either)>>
                 \o [k \in 1 .. n |-> unlink(x(k), {0})]

\* the two processes of linkunlink choose their calls by a pseudo-random number
linkunlink_calls == {<<creat(<<"x">>, Either), close(0)>>, <<link(<<"cat">>, <<"x">>, Either)>>,
                     <<unlink(<<"x">>, Either)>>}
linkunlink_loops(n) == {FlattenSeq(s) : s \in [1 .. n -> linkunlink_calls]}
linkunlink(n) == {<<unlink(<<"x">>, Either), fork(Append(c, exit))>> \o q \o <<wait>> :
                    c \in linkunlink_loops(n), q \in linkunlink_loops(n)}

rmdot == <<mkdir(<<"dots">>, Ok), chdir(<<"dots">>, Ok), unlink(<<".">>, No), unlink(<<"..">>, No),
           chdir(<<"/">>, Ok), unlink(<<"dots", ".">>, No), unlink(<<"dots", "..">>, No),
           unlink(<<"dots">>, Ok)>>

dirfile == LET xx == <<"dirfile", "xx">>
           IN  <<creatr(<<"dirfile">>, Ok), close(0), chdir(<<"dirfile">>, No), open(xx, No),
                 creatr(xx, No), mkdir(xx, No), unlink(xx, No), link(<<"README">>, xx, No),
                 unlink(<<"dirfile">>, Ok), openw(<<".">>, No), open(<<".">>, Either),
                 write(0, 1, No), close(0)>>

\* n turns of the loop of iref; an empty path has no parent and creates nothing
iref_turn == <<mkdir(<<"irefd">>, Ok), chdir(<<"irefd">>, Ok), mkdir(<<>>, Either),
               link(<<"README">>, <<>>, Either), creatr(<<>>, Either),
               creatr(<<"xx">>, Either), close(0), unlink(<<"xx">>, Either)>>
iref(n) == FlattenSeq([k \in 1 .. n |-> iref_turn]) \o <<chdir(<<"/">>, Either)>>

subdir1 == <<unlink(<<"ff">>, Either), mkdir(<<"dd">>, Ok), creat(<<"dd", "ff">>, Ok), write(0, 2, Either), close(0),
             unlink(<<"dd">>, No), mkdir(<<"/", "dd", "dd">>, Ok),
             creat(<<"dd", "dd", "ff">>, Ok), write(0, 2, Either), close(0),
             open(<<"dd", "dd", "..", "ff">>, Ok), read(0, 9, {2}), close(0),
             link(<<"dd", "dd", "ff">>, <<"dd", "dd", "ffff">>, Ok), unlink(<<"dd", "dd", "ff">>, Ok),
             open(<<"dd", "dd", "ff">>, No), chdir(<<"dd">>, Ok), chdir(<<"dd", "..", "..", "dd">>, Ok),
             chdir(<<"dd", "..", "..", "..", "dd">>, Ok), chdir(<<".", "..">>, Ok),
             open(<<"dd", "dd", "ffff">>, Ok), read(0, 9, {2}), close(0)>>
subdir2 == LET fff == <<"dd", "ff", "ff">>  xff == <<"dd", "xx", "ff">>  ffff == <<"dd", "dd", "ffff">>
           IN  <<open(<<"dd", "dd", "ff">>, No), creat(fff, No), creat(xff, No), creatr(<<"dd">>, No),
                 openw(<<"dd">>, No), openw(<<"dd">>, No), link(fff, <<"dd", "dd", "xx">>, No),
                 link(xff, <<"dd", "dd", "xx">>, No), link(<<"dd", "ff">>, ffff, No), mkdir(fff, No),
                 mkdir(xff, No), mkdir(ffff, No), unlink(xff, No), unlink(fff, No),
                 chdir(<<"dd", "ff">>, No), chdir(<<"dd", "xx">>, No), unlink(ffff, Ok),
                 unlink(<<"dd", "ff">>, Ok), unlink(<<"dd">>, No), unlink(<<"dd", "dd">>, Ok),
                 unlink(<<"dd">>, Ok)>>
subdir == subdir1 \o subdir2
=============================================================================
