----------------------------- MODULE ByteQueue ------------------------------
(***************************************************************************)
(* What a pipe promises: bytes come out once, in the order they went in,   *)
(* at most PIPESIZE wait, and a reader is told the end of the stream only  *)
(* when nothing waits and nobody can write any more.                       *)
(***************************************************************************)
EXTENDS Integers, Sequences

CONSTANTS PipeReader, PIPESIZE, Byte

VARIABLES
    queue,      \* bytes written and not yet read
    got,        \* what the current or last read of each reader has returned
    ended,      \* readers whose last read returned zero bytes
    writing     \* the write end is open

queueVars == <<queue, got, ended, writing>>

QInit == /\ queue = <<>> /\ ended = {} /\ writing = TRUE
         /\ got = [r \in PipeReader |-> <<>>]

Put == /\ \E x \in Byte : queue' = Append(queue, x)
       /\ Len(queue) < PIPESIZE
       /\ UNCHANGED <<got, ended, writing>>

Get(r) == /\ queue # <<>>
          /\ queue' = Tail(queue)
          /\ got' = [got EXCEPT ![r] = Append(@, Head(queue))]
          /\ UNCHANGED <<ended, writing>>

Ask(r) == got' = [got EXCEPT ![r] = <<>>] /\ UNCHANGED <<queue, ended, writing>>

EndOfStream(r) == /\ queue = <<>> /\ ~writing
                  /\ ended' = ended \union {r}
                  /\ UNCHANGED <<queue, got, writing>>

Shut == writing' = FALSE /\ UNCHANGED <<queue, got, ended>>

QNext == Put \/ Shut \/ \E r \in PipeReader : Get(r) \/ Ask(r) \/ EndOfStream(r)

QSpec == QInit /\ [][QNext]_queueVars
=============================================================================
