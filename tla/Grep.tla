--------------------------------- MODULE Grep ---------------------------------
(***************************************************************************)
(* grep.c on a file: the loop that fills the buffer and cuts it into lines, *)
(* and the matcher of Kernighan and Pike.  A string is a sequence of       *)
(* characters without the terminating 0; "nl" is the newline.  read on a   *)
(* file returns all the bytes that fit, up to the end of the file.         *)
(***************************************************************************)
EXTENDS Integers, SequencesExt

CONSTANTS
    GBUF,       \* sizeof(buf)
    Patterns,   \* the patterns tried
    Texts       \* the files tried

VARIABLES
    re,         \* argv[1]
    text,       \* the file
    off,        \* its offset
    gbuf,       \* the m bytes that the buffer holds
    printed     \* the lines written to descriptor 1

grepVars == <<re, text, off, gbuf, printed>>

GrepInit ==
    /\ re \in Patterns
    /\ text \in Texts
    /\ off = 0
    /\ gbuf = <<>>
    /\ printed = <<>>

RECURSIVE matchhere(_, _), matchstar(_, _, _)

\* a plausible slip: at least one instance is wanted
matchplus(c, r, t) == t # <<>> /\ (t[1] = c \/ c = ".") /\ (matchhere(r, Tail(t)) \/ matchstar(c, r, Tail(t)))

matchstar(c, r, t) ==
    \/ matchhere(r, t)
    \/ t # <<>> /\ (t[1] = c \/ c = ".") /\ matchstar(c, r, Tail(t))

matchhere(r, t) ==
    IF r = <<>> THEN TRUE
    ELSE IF Len(r) > 1 /\ r[2] = "*" THEN matchstar(r[1], SubSeq(r, 3, Len(r)), t)
    ELSE IF r = <<"$">> THEN t = <<>>
    ELSE t # <<>> /\ (r[1] = "." \/ r[1] = t[1]) /\ matchhere(Tail(r), Tail(t))

\* anchored, or at any suffix, the empty one included
match(r, t) ==
    IF r # <<>> /\ r[1] = "^" THEN matchhere(Tail(r), t)
    ELSE \E i \in 0 .. Len(t) : matchhere(r, SubSeq(t, i + 1, Len(t)))

\* the inner loop: the lines that b completes, without newlines, and the bytes behind them
RECURSIVE cut(_)
cut(b) ==
    IF ~Contains(b, "nl") THEN [lines |-> <<>>, rest |-> b]
    ELSE LET q == SelectInSeq(b, LAMBDA c : c = "nl")
             r == cut(SubSeq(b, q + 1, Len(b)))
         IN  [r EXCEPT !.lines = <<SubSeq(b, 1, q - 1)>> \o @]

\* one read: a buffer without a complete line is discarded
GrepRead ==
    LET room == GBUF - Len(gbuf) - 1
        n    == IF room < Len(text) - off THEN room ELSE Len(text) - off
        c    == cut(gbuf \o SubSeq(text, off + 1, off + n))
    IN  /\ n > 0
        /\ off' = off + n
        /\ printed' = printed \o SelectSeq(c.lines, LAMBDA l : match(re, l))
        /\ gbuf' = IF c.lines = <<>> THEN <<>> ELSE c.rest
        /\ UNCHANGED <<re, text>>

GrepSpec == GrepInit /\ [][GrepRead]_grepVars

-----------------------------------------------------------------------------
(* Properties *)

\* what a pattern is made of: characters, starred characters, and the end of the line
RECURSIVE Items(_)
Items(r) ==
    IF r = <<>> THEN <<>>
    ELSE IF Len(r) > 1 /\ r[2] = "*" THEN <<[kind |-> "star", c |-> r[1]]>> \o Items(SubSeq(r, 3, Len(r)))
    ELSE <<[kind |-> IF r = <<"$">> THEN "end" ELSE "one", c |-> r[1]]>> \o Items(Tail(r))

\* t can be cut so that each item covers a piece of its own kind
Matches(r, t) ==
    LET anchored == r # <<>> /\ r[1] = "^"
        w        == Items(IF anchored THEN Tail(r) ELSE r)
        Covers(x, i, j) ==
            /\ i <= j
            /\ \A k \in i + 1 .. j : x.c \in {".", t[k]}
            /\ x.kind = "one" => j = i + 1
            /\ x.kind = "end" => i = Len(t)
    IN  \E f \in [0 .. Len(w) -> 0 .. Len(t)] :
            /\ anchored => f[0] = 0
            /\ \A k \in 1 .. Len(w) : Covers(w[k], f[k - 1], f[k])

\* the lines of the file that end in a newline
FileLines ==
    LET ends == SetToSortSeq({i \in 1 .. Len(text) : text[i] = "nl"}, <)
    IN  [k \in 1 .. Len(ends) |-> SubSeq(text, (IF k = 1 THEN 0 ELSE ends[k - 1]) + 1, ends[k] - 1)]

\* grep has printed, at the end of a file whose lines fit in the buffer, exactly the lines that
\* the pattern describes, in order: no line is lost or cut in two where a read ends inside
\* it, and the recursive matcher finds a match whenever there is one.
GrepRight ==
    off = Len(text) /\ (\A i \in DOMAIN FileLines : Len(FileLines[i]) < GBUF - 1) =>
        printed = SelectSeq(FileLines, LAMBDA l : Matches(re, l))
=============================================================================
