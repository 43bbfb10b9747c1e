--------------------------------- MODULE Sh ---------------------------------
(***************************************************************************)
(* The shell of sh.c, and init.c that restarts it: the parser on tokens    *)
(* (gettoken's words are all "a"), and runcmd with the processes, file     *)
(* descriptors and pipes it sets up.  A step of runcmd is one system call  *)
(* that other processes see.  A program is one that reads its standard     *)
(* input to the end and exits, the worst case for a pipe end left open.    *)
(***************************************************************************)
EXTENDS Integers, Sequences, FiniteSets

CONSTANTS
    NSH,          \* processes besides init
    NFD,          \* file descriptors of a process
    NPIPES,
    MAXARGS,
    Commands      \* Command(l) for the lines l, sequences of tokens, that may be typed

VARIABLES
    sh,           \* the processes: what they run, where they are, their descriptors
    init0         \* init: where it is, and pid, the shell it has started

shVars == <<sh, init0>>

-----------------------------------------------------------------------------
(* Parsing.  A result is [cmd, rest], or Panic. *)

Panic == [cmd |-> [type |-> "panic"], rest |-> <<>>]
Bad(r) == r.cmd.type = "panic"
Parsed(c, s) == [cmd |-> c, rest |-> s]

peek(s, toks) == s # <<>> /\ Head(s) \in toks
gettoken(s) == Tail(s)              \* *ps behind the token that peek has seen

execcmd(n)     == [type |-> "EXEC", argc |-> n]
redircmd(c, t) == [type |-> "REDIR", cmd |-> c, fd |-> IF t = "<" THEN 0 ELSE 1]
pipecmd(l, r)  == [type |-> "PIPE", left |-> l, right |-> r]
listcmd(l, r)  == [type |-> "LIST", left |-> l, right |-> r]
backcmd(c)     == [type |-> "BACK", cmd |-> c]

RECURSIVE parseline(_), parsepipe(_), parseredirs(_), parseargs(_, _), backs(_), wrap(_, _)

parseredirs(r) ==
    IF Bad(r) \/ ~peek(r.rest, {"<", ">", ">>"}) THEN r
    ELSE IF Len(r.rest) < 2 \/ r.rest[2] # "a" THEN Panic
    ELSE parseredirs(Parsed(redircmd(r.cmd, r.rest[1]), gettoken(gettoken(r.rest))))

\* the redirections around the command that collects the arguments
wrap(c, n) == IF c.type = "EXEC" THEN execcmd(n) ELSE [c EXCEPT !.cmd = wrap(@, n)]

\* the loop of parseexec
parseargs(r, argc) ==
    IF Bad(r) THEN r
    ELSE IF r.rest = <<>> \/ peek(r.rest, {"|", ")", "&", ";"}) THEN Parsed(wrap(r.cmd, argc), r.rest)
    ELSE IF Head(r.rest) # "a" \/ argc + 1 >= MAXARGS THEN Panic
    ELSE parseargs(parseredirs(Parsed(r.cmd, gettoken(r.rest))), argc + 1)

parseblock(s) ==
    LET r == parseline(gettoken(s))
    IN  IF Bad(r) \/ ~peek(r.rest, {")"}) THEN Panic ELSE parseredirs(Parsed(r.cmd, gettoken(r.rest)))

parseexec(s) ==
    IF peek(s, {"("}) THEN parseblock(s) ELSE parseargs(parseredirs(Parsed(execcmd(0), s)), 0)

parsepipe(s) ==
    LET l == parseexec(s)
        r == parsepipe(gettoken(l.rest))
    IN  IF Bad(l) \/ ~peek(l.rest, {"|"}) THEN l
        ELSE IF Bad(r) THEN Panic ELSE Parsed(pipecmd(l.cmd, r.cmd), r.rest)

backs(r) == IF Bad(r) \/ ~peek(r.rest, {"&"}) THEN r ELSE backs(Parsed(backcmd(r.cmd), gettoken(r.rest)))

parseline(s) ==
    LET l == backs(parsepipe(s))
        r == parseline(gettoken(l.rest))
    IN  IF Bad(l) \/ ~peek(l.rest, {";"}) THEN l
        ELSE IF Bad(r) THEN Panic ELSE Parsed(listcmd(l.cmd, r.cmd), r.rest)

\* wrong: ignores what is left of the line
parsecmdAny(s) == parseline(s).cmd
parsecmd(s) == LET r == parseline(s) IN IF r.rest # <<>> THEN Panic.cmd ELSE r.cmd

-----------------------------------------------------------------------------
(* Processes: 0 is init, the shell and its children are 1 .. NSH. *)

ShProc == 1 .. NSH
Unused == [at |-> "unused", cmd |-> execcmd(0), fd |-> [i \in 0 .. NFD - 1 |-> 0], par |-> 0, p |-> <<0, 0>>]

\* descriptors hold 0, the console or a file, or an end of pipe k
Plain == 1
ReadEnd(k)  == 10 + k
WriteEnd(k) == 20 + k
Open(e) == \E q \in ShProc : \E i \in 0 .. NFD - 1 : sh[q].fd[i] = e

Least(f) == CHOOSE i \in DOMAIN f : f[i] = 0 /\ \A j \in DOMAIN f : f[j] = 0 => i <= j
Room(f)  == {i \in DOMAIN f : f[i] = 0}
dup(f, i)   == [f EXCEPT ![Least(f)] = f[i]]
close(f, s) == [i \in DOMAIN f |-> IF i \in s THEN 0 ELSE f[i]]

ShInit == sh = [q \in ShProc |-> Unused] /\ init0 = [at |-> "fork", pid |-> 0]

FreeSlots == {q \in ShProc : sh[q].at = "unused"}
NextFree  == CHOOSE x \in FreeSlots : \A y \in FreeSlots : x <= y
Set(q, r) == sh' = [sh EXCEPT ![q] = r]
At(q, place) == [sh[q] EXCEPT !.at = place]

\* exit: descriptors closed, children to init, the parent may collect it
Exited(t, q) == [x \in ShProc |-> IF x = q THEN [Unused EXCEPT !.at = "zombie", !.par = t[q].par]
                                  ELSE IF t[x].par = q THEN [t[x] EXCEPT !.par = 0] ELSE t[x]]
ShExit(q) == sh' = Exited(sh, q)

\* fork1 with what the child and the parent do next; panic without a free process
fork1(q, child, parent) ==
    IF FreeSlots = {} THEN ShExit(q)
    ELSE sh' = [sh EXCEPT ![NextFree] = [child EXCEPT !.par = q], ![q] = parent]

\* what the child runs for a line: a syntax error makes it exit, like an empty command
Command(l) == LET c == parsecmd(l) IN IF c.type = "panic" THEN execcmd(0) ELSE c

\* main: read a line, fork a child that parses and runs it, wait
Prompt(q) ==
    /\ sh[q].at = "prompt"
    /\ \E c \in Commands : fork1(q, [sh[q] EXCEPT !.at = "run", !.cmd = c], At(q, "main-wait"))

\* main's cd: chdir concerns the file system only, and the shell is at its prompt again
Cd(q) == sh[q].at = "prompt" /\ UNCHANGED sh

\* the end of the input
Eof(q) == sh[q].at = "prompt" /\ ShExit(q)

\* wait: collect a zombie, or return at once when there is no child
waited(q, r) ==
    LET kids == {x \in ShProc : sh[x].par = q /\ sh[x].at # "unused"}
        dead == {x \in kids : sh[x].at = "zombie"}
    IN  \/ kids = {} /\ Set(q, r)
        \/ \E x \in dead : sh' = [sh EXCEPT ![x] = Unused, ![q] = r]

\* init's child becomes the shell, which has its three descriptors; or exec fails
ExecSh(q) == sh[q].at = "exec-sh" /\ (Set(q, At(q, "prompt")) \/ ShExit(q))

MainWait(q) == sh[q].at = "main-wait" /\ waited(q, At(q, "prompt"))

RunIs(q, type) == sh[q].at = "run" /\ sh[q].cmd.type = type

RunExec(q) ==
    /\ RunIs(q, "EXEC")
    /\ IF sh[q].cmd.argc = 0 THEN ShExit(q) ELSE Set(q, At(q, "program")) \/ ShExit(q)

\* the program ends when its standard input does
Program(q) ==
    /\ sh[q].at = "program"
    /\ \A k \in 1 .. NPIPES : sh[q].fd[0] = ReadEnd(k) => ~Open(WriteEnd(k))
    /\ ShExit(q)

\* close the descriptor, open the file in its place; the open may fail
RunRedir(q) ==
    LET f == close(sh[q].fd, {sh[q].cmd.fd})
    IN  /\ RunIs(q, "REDIR")
        /\ \/ ShExit(q)
           \/ Set(q, [sh[q] EXCEPT !.fd = [f EXCEPT ![Least(f)] = Plain], !.cmd = @.cmd])

RunList(q) ==
    /\ RunIs(q, "LIST")
    /\ fork1(q, [sh[q] EXCEPT !.cmd = @.left], At(q, "list-wait"))

ListWait(q) == sh[q].at = "list-wait" /\ waited(q, [At(q, "run") EXCEPT !.cmd = @.right])

\* sys_pipe: the two least descriptors, or panic
RunPipe(q) ==
    LET idle == {k \in 1 .. NPIPES : ~Open(ReadEnd(k)) /\ ~Open(WriteEnd(k))}
        k  == CHOOSE x \in idle : \A y \in idle : x <= y
        f0 == Least(sh[q].fd)
        f  == [sh[q].fd EXCEPT ![f0] = ReadEnd(k)]
        f1 == Least(f)
    IN  /\ RunIs(q, "PIPE")
        /\ IF idle = {} \/ Cardinality(Room(sh[q].fd)) < 2 THEN ShExit(q)
           ELSE Set(q, [At(q, "fork-left") EXCEPT !.fd = [f EXCEPT ![f1] = WriteEnd(k)], !.p = <<f0, f1>>])

\* a child of a pipe: descriptor e becomes end i of the pipe, both ends are closed
Side(q, e, i, c) ==
    LET s == sh[q]
    IN  [s EXCEPT !.at = "run", !.cmd = c,
                  !.fd = close(dup(close(s.fd, {e}), s.p[i]), {s.p[1], s.p[2]})]

ForkLeft(q) ==
    sh[q].at = "fork-left" /\ fork1(q, Side(q, 1, 2, sh[q].cmd.left), At(q, "fork-right"))

ForkRight(q) ==
    sh[q].at = "fork-right" /\ fork1(q, Side(q, 0, 1, sh[q].cmd.right), At(q, "close-pipe"))

\* wrong: the parent keeps both ends
ClosePipeNot(q) == sh[q].at = "close-pipe" /\ Set(q, At(q, "pipe-wait"))
ClosePipe(q) ==
    /\ sh[q].at = "close-pipe"
    /\ Set(q, [At(q, "pipe-wait") EXCEPT !.fd = close(@, {sh[q].p[1], sh[q].p[2]})])

PipeWait(q) == sh[q].at = "pipe-wait" /\ waited(q, At(q, "pipe-wait2"))
PipeWait2(q) == sh[q].at = "pipe-wait2" /\ waited(q, At(q, "last"))
RunEnd(q) == sh[q].at = "last" /\ ShExit(q)

RunBack(q) ==
    /\ RunIs(q, "BACK")
    /\ fork1(q, [sh[q] EXCEPT !.cmd = @.cmd], At(q, "last"))

ShStep(q) ==
    /\ \/ Prompt(q) \/ Cd(q) \/ Eof(q) \/ MainWait(q) \/ RunExec(q) \/ Program(q) \/ RunRedir(q) \/ RunList(q)
       \/ ListWait(q) \/ RunPipe(q) \/ ForkLeft(q) \/ ForkRight(q) \/ ClosePipe(q) \/ PipeWait(q) \/ PipeWait2(q)
       \/ RunEnd(q) \/ RunBack(q) \/ ExecSh(q)
    /\ init0.at # "exited" /\ UNCHANGED init0

-----------------------------------------------------------------------------
(* init *)

\* a child with the console on 0, 1 and 2, or no child: exit, and "init exiting" stops the kernel
InitFork ==
    /\ init0.at = "fork"
    /\ IF FreeSlots = {} THEN init0' = [init0 EXCEPT !.at = "exited"] /\ UNCHANGED sh
       ELSE /\ sh' = [sh EXCEPT ![NextFree] = [Unused EXCEPT !.at = "exec-sh",
                         !.fd = [@ EXCEPT ![0] = Plain, ![1] = Plain, ![2] = Plain]]]
            /\ init0' = [at |-> "wait", pid |-> NextFree]

\* wait, until it returns the shell (which stays a child of init until then)
InitWait ==
    /\ init0.at = "wait"
    /\ \E q \in ShProc : /\ sh[q].at = "zombie" /\ sh[q].par = 0
                         /\ Set(q, Unused)
                         /\ init0' = [init0 EXCEPT !.at = IF q = init0.pid THEN "fork" ELSE "wait"]

ShInitStep == InitFork \/ InitWait

ShNext == ShInitStep \/ \E q \in ShProc : ShStep(q)

\* every process goes on when it can, and the shell always reads another line
ShSpec == /\ ShInit /\ [][ShNext]_shVars
          /\ WF_shVars(ShInitStep) /\ \A q \in ShProc : WF_shVars(ShStep(q))

-----------------------------------------------------------------------------
(* Properties *)

\* The shell always comes back to its prompt: each foreground command ends, since no process
\* keeps an end of a pipe that its reader needs closed, although forks, pipes, opens and execs
\* may fail in any of the processes.  A shell that ends is collected and init starts another,
\* whose exec may fail again; and init itself is gone once it finds no free process to fork.
ShellPrompts == []<>(init0.at = "exited" \/ \E q \in ShProc : sh[q].at \in {"exec-sh", "prompt"})

\* the grammar that the parser is for
RECURSIVE Line(_), Backs(_), Pipes(_), Redirected(_, _)
Cut(s, t) == {i \in 1 .. Len(s) : s[i] = t}
Before(s, i) == SubSeq(s, 1, i - 1)
After(s, i)  == SubSeq(s, i + 1, Len(s))

\* commands c with the redirections s after them
Redirected(c, s) ==
    IF s = <<>> THEN {c}
    ELSE IF Len(s) >= 2 /\ s[1] \in {"<", ">", ">>"} /\ s[2] = "a" THEN Redirected(redircmd(c, s[1]), SubSeq(s, 3, Len(s)))
    ELSE {}

\* words and redirections in any order: the redirections apply from the left
Simple(s) ==
    LET isFile(i)  == i > 1 /\ s[i - 1] \in {"<", ">", ">>"}
        words  == {i \in 1 .. Len(s) : s[i] = "a" /\ ~isFile(i)}
        redirs == SelectSeq([i \in 1 .. Len(s) |-> IF i \in words THEN "word" ELSE s[i]], LAMBDA x : x # "word")
    IN  IF (\E i \in 1 .. Len(s) : s[i] \notin {"a", "<", ">", ">>"}) \/ Cardinality(words) >= MAXARGS THEN {}
        ELSE Redirected(execcmd(Cardinality(words)), redirs)

Block(s) ==
    UNION {UNION {Redirected(c, After(s, i)) : c \in Line(SubSeq(s, 2, i - 1))} : i \in Cut(s, ")")}

Unit(s) == IF s # <<>> /\ Head(s) = "(" THEN Block(s) ELSE Simple(s)

Pipes(s) == Unit(s) \union UNION {{pipecmd(l, r) : l \in Unit(Before(s, i)), r \in Pipes(After(s, i))} : i \in Cut(s, "|")}

Backs(s) == Pipes(s) \union IF s # <<>> /\ s[Len(s)] = "&" THEN {backcmd(c) : c \in Backs(Before(s, Len(s)))} ELSE {}

Line(s) == Backs(s) \union UNION {{listcmd(l, r) : l \in Backs(Before(s, i)), r \in Line(After(s, i))} : i \in Cut(s, ";")}

\* The recursive descent of parsecmd accepts exactly the command lines of the grammar, and
\* builds the one tree that the grammar gives them.
ParsesRight(s) == Line(s) = IF parsecmd(s).type = "panic" THEN {} ELSE {parsecmd(s)}
=============================================================================
