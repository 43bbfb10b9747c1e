------------------------------ MODULE Console -------------------------------
(***************************************************************************)
(* The console of console.c: the input buffer that consoleintr fills and   *)
(* consoleread empties, the screen that both the echo and consolewrite     *)
(* write with cgaputc.  consoleread holds cons.lock from one character to  *)
(* the next.  A character is an ordinary one or stands for what            *)
(* consoleintr tells apart.                                                *)
(***************************************************************************)
EXTENDS Integers, Sequences, FiniteSets

CONSTANTS
    CReader,           \* processes that read the console
    Nobody,            \* holds cons.lock when no one does
    INPUT_BUF, CUINT,  \* size of the buffer, modulus of an unsigned
    CLen,              \* how many characters a read asks for
    ROWS, COLS         \* size of the screen: 25 by 80

ASSUME ConAssumption ==
    /\ Nobody \notin CReader /\ CLen \in Nat
    /\ INPUT_BUF \in Nat \ {0} /\ CUINT \in Nat /\ INPUT_BUF < CUINT /\ CUINT % INPUT_BUF = 0
    /\ ROWS \in Nat /\ ROWS >= 2 /\ COLS \in Nat \ {0}

VARIABLES
    cbuf, cr, cw, ce,          \* input.buf, r, w, e
    conlock, rpc, rgot,        \* holder of cons.lock; the readers, and what they have read
    conKilled,
    crt, pos, conPanic         \* screen and cursor

conVars == <<cbuf, cr, cw, ce, conlock, rpc, rgot, conKilled, crt, pos, conPanic>>
inVars  == <<cbuf, cr, cw, ce>>
scrVars == <<crt, pos, conPanic>>

Typed == {"a", "cr", "nl", "eof"}   \* characters that go into the buffer: 'a', '\r', '\n', ^D
Cells == 0 .. ROWS * COLS - 1

ConInit ==
    /\ cbuf = [i \in 0 .. INPUT_BUF - 1 |-> "a"] /\ cr = 0 /\ cw = 0 /\ ce = 0
    /\ conlock = Nobody
    /\ rpc = [r \in CReader |-> "out"] /\ rgot = [r \in CReader |-> <<>>]
    /\ conKilled = {}
    /\ crt = [i \in Cells |-> "blank"] /\ pos = 0
    /\ conPanic = FALSE

\* one cgaputc on a screen s = <<crt, pos, panic>>: the character, the scroll, the blank at
\* the cursor
cgaputc(s, c) ==
    LET p == CASE c = "nl" -> s[2] + COLS - (s[2] % COLS)
               [] c = "bs" -> IF s[2] > 0 THEN s[2] - 1 ELSE s[2]
               [] OTHER -> s[2] + 1
        put == IF c \in {"nl", "bs"} THEN s[1] ELSE [s[1] EXCEPT ![s[2]] = c]
        scroll == p \div COLS >= ROWS - 1
        q == IF scroll THEN p - COLS ELSE p
        moved == [i \in Cells |-> IF q <= i /\ i < (ROWS - 1) * COLS THEN "blank"
                                  ELSE IF i < (ROWS - 2) * COLS THEN put[i + COLS] ELSE put[i]]
    IN  <<[IF scroll THEN moved ELSE put EXCEPT ![q] = "blank"], q, s[3] \/ p < 0 \/ p > ROWS * COLS>>

\* consputc of c, n times
consputc(c, n) ==
    LET screen[k \in 0 .. n] == IF k = 0 THEN <<crt, pos, conPanic>> ELSE cgaputc(screen[k - 1], c)
    IN  crt' = screen[n][1] /\ pos' = screen[n][2] /\ conPanic' = screen[n][3]

-----------------------------------------------------------------------------
\* a line is complete with character c and edit index e; wrong: ^D does not end one
CompleteAtNewline(c, e) == c = "nl" \/ e = (cr + INPUT_BUF) % CUINT
Complete(c, e) == c \in {"nl", "eof"} \/ e = (cr + INPUT_BUF) % CUINT

\* wakeup(&input.r); wrong without it
ConWakeupNone == rpc
ConWakeup == [r \in CReader |-> IF rpc[r] = "sleep" THEN "lock" ELSE rpc[r]]

\* consoleintr for one character; ^D is echoed like any other
TypeChar(k) ==
    LET c == IF k = "cr" THEN "nl" ELSE k
        e == (ce + 1) % CUINT
    IN  /\ conlock = Nobody
        /\ (ce - cr) % CUINT < INPUT_BUF
        /\ cbuf' = [cbuf EXCEPT ![ce % INPUT_BUF] = c]
        /\ ce' = e
        /\ cw' = IF Complete(c, e) THEN e ELSE cw
        /\ rpc' = IF Complete(c, e) THEN ConWakeup ELSE rpc
        /\ consputc(IF c = "nl" THEN "nl" ELSE "a", 1)
        /\ UNCHANGED <<cr, conlock, rgot, conKilled>>

Backspace ==
    /\ conlock = Nobody /\ ce # cw
    /\ ce' = (ce - 1) % CUINT
    /\ consputc("bs", 1)
    /\ UNCHANGED <<cbuf, cr, cw, conlock, rpc, rgot, conKilled>>

\* how many characters ^U takes back
Unwound ==
    CHOOSE n \in 0 .. (ce - cw) % CUINT :
        /\ \A k \in 1 .. n : cbuf[((ce - k) % CUINT) % INPUT_BUF] # "nl"
        /\ n = (ce - cw) % CUINT \/ cbuf[((ce - n - 1) % CUINT) % INPUT_BUF] = "nl"

KillLine ==
    /\ conlock = Nobody /\ ce # cw
    /\ ce' = (ce - Unwound) % CUINT
    /\ consputc("bs", Unwound)
    /\ UNCHANGED <<cbuf, cr, cw, conlock, rpc, rgot, conKilled>>

ConsoleIntr == Backspace \/ KillLine \/ \E k \in Typed : TypeChar(k)

\* consolewrite and cprintf
ConsoleWrite ==
    /\ conlock = Nobody
    /\ \E c \in {"a", "nl"} : consputc(c, 1)
    /\ UNCHANGED <<inVars, conlock, rpc, rgot, conKilled>>

\* consoleread
ConsoleRead(r) ==
    /\ rpc[r] = "out" /\ r \notin conKilled
    /\ rpc' = [rpc EXCEPT ![r] = "lock"]
    /\ rgot' = [rgot EXCEPT ![r] = <<>>]
    /\ UNCHANGED <<inVars, conlock, conKilled, scrVars>>

ReadLock(r) ==
    /\ rpc[r] = "lock" /\ conlock = Nobody
    /\ conlock' = r /\ rpc' = [rpc EXCEPT ![r] = "loop"]
    /\ UNCHANGED <<inVars, rgot, conKilled, scrVars>>

\* nothing to read: give up, or go to sleep
ReadEmpty(r) ==
    /\ rpc[r] = "loop" /\ Len(rgot[r]) < CLen /\ cr = cw
    /\ IF r \in conKilled
       THEN conlock' = Nobody /\ rpc' = [rpc EXCEPT ![r] = "out"]
       ELSE rpc' = [rpc EXCEPT ![r] = "doze"] /\ UNCHANGED conlock
    /\ UNCHANGED <<inVars, rgot, conKilled, scrVars>>

\* sleep, under ptable.lock
ReadSleep(r) ==
    /\ rpc[r] = "doze"
    /\ conlock' = Nobody /\ rpc' = [rpc EXCEPT ![r] = "sleep"]
    /\ UNCHANGED <<inVars, rgot, conKilled, scrVars>>

\* one character; ^D stays for the next read when this one has something
ReadChar(r) ==
    LET c == cbuf[cr % INPUT_BUF]
        next == (cr + 1) % CUINT
    IN  /\ rpc[r] = "loop" /\ Len(rgot[r]) < CLen /\ cr # cw
        /\ cr' = IF c = "eof" /\ rgot[r] # <<>> THEN cr ELSE next
        /\ rgot' = IF c = "eof" THEN rgot ELSE [rgot EXCEPT ![r] = Append(@, c)]
        /\ rpc' = IF c \in {"eof", "nl"} THEN [rpc EXCEPT ![r] = "done"] ELSE rpc
        /\ UNCHANGED <<cbuf, cw, ce, conlock, conKilled, scrVars>>

ReadReturn(r) ==
    /\ rpc[r] = "done" \/ (rpc[r] = "loop" /\ Len(rgot[r]) = CLen)
    /\ conlock' = Nobody /\ rpc' = [rpc EXCEPT ![r] = "out"]
    /\ UNCHANGED <<inVars, rgot, conKilled, scrVars>>

\* kill of proc.c
KillReader(r) ==
    /\ r \notin conKilled /\ conKilled' = conKilled \union {r}
    /\ rpc' = [rpc EXCEPT ![r] = IF @ = "sleep" THEN "lock" ELSE @]
    /\ UNCHANGED <<inVars, conlock, rgot, scrVars>>

ConNext ==
    /\ ~conPanic
    /\ \/ ConsoleIntr \/ ConsoleWrite
       \/ \E r \in CReader : \/ ConsoleRead(r) \/ ReadLock(r) \/ ReadEmpty(r) \/ ReadSleep(r)
                             \/ ReadChar(r) \/ ReadReturn(r) \/ KillReader(r)

ConSpec == ConInit /\ [][ConNext]_conVars

-----------------------------------------------------------------------------
(* Properties *)

\* Types of the console.
ConTypeOK ==
    /\ {cr, cw, ce} \subseteq 0 .. CUINT - 1
    /\ conlock \in CReader \union {Nobody}
    /\ rpc \in [CReader -> {"out", "lock", "loop", "doze", "sleep", "done"}]

Chars(from, to) == [k \in 1 .. (to - from) % CUINT |-> cbuf[((from + k - 1) % CUINT) % INPUT_BUF]]

Editor == INSTANCE Lines WITH LReader <- CReader, LChar <- {"a", "nl", "eof"}, LMax <- INPUT_BUF,
                              ready <- Chars(cr, cw), line <- Chars(cw, ce), taken <- rgot

\* The circular buffer and its three wrapping indices are a line editor (consoleintr,
\* consoleread): what is edited away is never read, every line is read once and in order, and
\* an end of file is seen by exactly one read, which returns 0.
ConsoleIsLines == Editor!LSpec

\* A reader sleeps only while there is nothing to read, and the screen has its cursor inside
\* the 24 rows that cgaputc uses, with nothing but blanks from the cursor on.
ConsoleSound ==
    /\ ConTypeOK
    /\ \A r \in CReader : rpc[r] = "sleep" => cr = cw
    /\ ~conPanic /\ pos \in 0 .. (ROWS - 1) * COLS - 1
    /\ \A i \in Cells : i >= pos => crt[i] = "blank"
=============================================================================
