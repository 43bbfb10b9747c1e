------------------------------ MODULE MCSystem -------------------------------
(***************************************************************************)
(* Instances of the modules in which processors and processes wait for one *)
(* another (spin locks, the buffer cache and its drivers, pipes, the       *)
(* shell), of the two that read text (the shell's parser, grep), and of a  *)
(* log so small that it overflows, side by side: part says which of them a *)
(* behaviour belongs to, and the variables of the others rest.             *)
(***************************************************************************)
EXTENDS Spinlock, BufCache, Pipe, Sh, Grep

VARIABLES
    part,
    toks,       \* the token sequence that the parser is tried on
    disk, logd, head, cache, dirty, lh, active, hold, lpc, tail   \* the log's

\* Two operations of one block each fit a log of two blocks: between them they can overrun it
\* by one, and a fourth block would overrun it by two.
FullLog == INSTANCE Log WITH
    Ops <- {1, 2}, Blocks <- 1 .. 4, Val <- {0}, Zero <- 0, NoVal <- 1, NoBlock <- 0,
    MAXOPBLOCKS <- 1, LOGSIZE <- 2, LogBlocks <- 3, AfterLog <- 1

logVars == <<disk, logd, head, cache, dirty, lh, active, hold, lpc, tail>>
sysVars == <<spinVars, cVars, pipeVars, shVars, grepVars, logVars, toks, part>>

-----------------------------------------------------------------------------
(* Values of the constants *)

\* only block 1 is written; the others push one another out of the cache
MCAsks == <<{1, 2}, {4}>>
MCNested == {<<2, 3>>, <<4, 1>>}

MCWrites == {<<1, 0>>}

\* a | a, then ( a ; a < a ) &, and what Command makes of a line with a syntax error
MCCommands == {pipecmd(execcmd(1), execcmd(1)), backcmd(listcmd(execcmd(1), redircmd(execcmd(1), "<"))), execcmd(0)}
ASSUME CommandsParsed ==
    MCCommands = {Command(<<"a", "|", "a">>), Command(<<"(", "a", ";", "a", "<", "a", ")", "&">>), execcmd(0)}

Strings(S, n) == UNION {[1 .. k -> S] : k \in 0 .. n}
Tokens == Strings({"a", "|", ";", "&", "(", ")", "<"}, 5) \union Strings({"a", "|", "(", ")", "<", ">", ">>"}, 4)
MCPatterns == Strings({"a", ".", "*", "^", "$"}, 2)
    \union {<<"a", "*", "b">>, <<"^", "a", "$">>, <<".", "*", "a">>, <<"a", "*", "a">>, <<"*", "*", "b">>,
            <<"a", "$", "b">>, <<"^", "a", "*", "b", "$">>, <<"^", ".", "*", "$">>}
MCTexts == Strings({"a", "b", "nl"}, 5)

-----------------------------------------------------------------------------
Parts == {"spin", "cache", "pipe", "shell", "parse", "grep", "log"}

SysInit ==
    /\ part \in Parts
    /\ SpinInit /\ PipeInit /\ ShInit /\ FullLog!Init
    /\ CInit /\ (part = "cache" \/ drv = "ide")
    /\ IF part = "grep" THEN GrepInit
       ELSE re = <<>> /\ text = <<>> /\ off = 0 /\ gbuf = <<>> /\ printed = <<>>
    /\ toks \in IF part = "parse" THEN Tokens ELSE {<<>>}

InCache(A) == part = "cache" /\ A /\ UNCHANGED <<spinVars, pipeVars, shVars, grepVars, logVars, toks, part>>
InPipe(A)  == part = "pipe" /\ A /\ UNCHANGED <<spinVars, cVars, shVars, grepVars, logVars, toks, part>>
InShell(A) == part = "shell" /\ A /\ UNCHANGED <<spinVars, cVars, pipeVars, grepVars, logVars, toks, part>>

SysNext ==
    \/ part = "spin" /\ SpinNext /\ UNCHANGED <<cVars, pipeVars, shVars, grepVars, logVars, toks, part>>
    \/ InCache(CNext)
    \/ InPipe(PipeNext)
    \/ InShell(ShNext)
    \/ part = "grep" /\ GrepRead /\ UNCHANGED <<spinVars, cVars, pipeVars, shVars, logVars, toks, part>>
    \/ part = "log" /\ FullLog!Next /\ UNCHANGED <<spinVars, cVars, pipeVars, shVars, grepVars, toks, part>>

\* the fairness of BufCache, Pipe and Sh
SysSpec ==
    /\ SysInit /\ [][SysNext]_sysVars
    /\ WF_cVars(InCache(Disk)) /\ WF_cVars(InCache(IdeIntr))
    /\ \A u \in Use : WF_cVars(InCache(IoTest(u)))
    /\ \A p \in PipeProc : WF_pipeVars(InPipe(PipeStep(p)))
    /\ WF_shVars(InShell(ShInitStep)) /\ \A q \in ShProc : WF_shVars(InShell(ShStep(q)))

\* The parser is right about the tokens at hand: parsecmd accepts exactly the lines of the
\* grammar and builds the one tree the grammar gives them.
Parses == ParsesRight(toks)

\* The shape of the log, and the length of a transaction however its operations race past
\* log_write's test: see Log.
LogSound == FullLog!LogSound

\* The shell's liveness, for the behaviours in which the shell runs: with the command lines of
\* MCCommands it always comes back to its prompt.
Prompts == part = "shell" => ShellPrompts
=============================================================================
