------------------------------- MODULE Lines --------------------------------
(***************************************************************************)
(* What the console promises its readers: typed characters collect in a    *)
(* line that can still be edited, whole lines become ready in the order    *)
(* they were typed, and a read takes ready characters, never beyond the    *)
(* end of a line, and takes an end-of-file mark only when it has nothing.  *)
(***************************************************************************)
EXTENDS Naturals, Sequences

CONSTANTS LReader, LChar, LMax

VARIABLES ready, line, taken

lVars == <<ready, line, taken>>

LInit == ready = <<>> /\ line = <<>> /\ taken = [r \in LReader |-> <<>>]

Type(c) ==
    LET l == Append(line, c)
        complete == c \in {"nl", "eof"} \/ Len(ready) + Len(l) = LMax
    IN  /\ Len(ready) + Len(line) < LMax
        /\ ready' = IF complete THEN ready \o l ELSE ready
        /\ line' = IF complete THEN <<>> ELSE l
        /\ UNCHANGED taken

Erase == /\ \E n \in 0 .. Len(line) : line' = SubSeq(line, 1, n)
         /\ UNCHANGED <<ready, taken>>

Take(r) == /\ ready # <<>> /\ Head(ready) # "eof"
           /\ taken[r] = <<>> \/ taken[r][Len(taken[r])] # "nl"
           /\ taken' = [taken EXCEPT ![r] = Append(@, Head(ready))]
           /\ ready' = Tail(ready)
           /\ UNCHANGED line

TakeEof(r) == /\ ready # <<>> /\ Head(ready) = "eof" /\ taken[r] = <<>>
              /\ ready' = Tail(ready)
              /\ UNCHANGED <<line, taken>>

NewRead(r) == taken' = [taken EXCEPT ![r] = <<>>] /\ UNCHANGED <<ready, line>>

LNext == \/ Erase
         \/ \E c \in LChar : Type(c)
         \/ \E r \in LReader : Take(r) \/ TakeEof(r) \/ NewRead(r)

LSpec == LInit /\ [][LNext]_lVars
=============================================================================
