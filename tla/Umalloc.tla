------------------------------- MODULE Umalloc -------------------------------
(***************************************************************************)
(* The user memory allocator of umalloc.c: a circular list of free blocks  *)
(* in address order, first fit from freep, coalescing in free.             *)
(*                                                                         *)
(* An address counts headers.  Address 0 is the static header base, which  *)
(* lies below the heap.  mem has the headers that mean something: those of *)
(* the free blocks and, with None for the link, of the blocks in use; a    *)
(* header that ends up inside a block is forgotten.  The program frees     *)
(* only what it holds, once.  It may also call sbrk itself, which separates *)
(* the regions that malloc gets.                                           *)
(***************************************************************************)
EXTENDS Integers, FiniteSets, TLC

CONSTANTS
    HDR,        \* sizeof(Header)
    MINCORE,    \* the least number of units morecore asks for (4096)
    MAXUNITS,   \* sbrk fails beyond this address
    Requests    \* values of nbytes

VARIABLES
    mem,        \* [ptr, size] of the header at an address
    freep,      \* where the search starts; None before the first malloc
    brk,        \* the end of the process
    live,       \* [at, nbytes]: the blocks the program holds
    core        \* the units that malloc got from sbrk

heapVars == <<mem, freep, brk, live, core>>

None == -1
Base == 0

HeapInit ==
    /\ mem = Base :> [ptr |-> None, size |-> 0]
    /\ freep = None
    /\ brk = 1
    /\ live = {}
    /\ core = {}

Heap == [mem |-> mem, freep |-> freep, brk |-> brk, core |-> core]
Become(h) == mem' = h.mem /\ freep' = h.freep /\ brk' = h.brk /\ core' = h.core

\* the free block after which bp belongs
RECURSIVE place(_, _, _)
place(m, p, bp) ==
    LET q == m[p].ptr
    IN  IF (bp > p /\ bp < q) \/ (p >= q /\ (bp > p \/ bp < q)) THEN p ELSE place(m, q, bp)

\* m with block a extended over the block b that starts where a ends
joined(m, a, b) ==
    [x \in DOMAIN m \ {b} |-> IF x = a THEN [ptr |-> m[b].ptr, size |-> m[a].size + m[b].size] ELSE m[x]]

\* a plausible slip: the block is not joined with the one below it
freeNoLower(h, bp) ==
    LET p == place(h.mem, h.freep, bp)
        q == h.mem[p].ptr
        m == IF bp + h.mem[bp].size = q THEN joined(h.mem, bp, q) ELSE [h.mem EXCEPT ![bp].ptr = q]
    IN  [h EXCEPT !.freep = p, !.mem = [m EXCEPT ![p].ptr = bp]]

\* join bp with the block above it, then with the block below it
free(h, bp) ==
    LET p == place(h.mem, h.freep, bp)
        q == h.mem[p].ptr
        m == IF bp + h.mem[bp].size = q THEN joined(h.mem, bp, q) ELSE [h.mem EXCEPT ![bp].ptr = q]
    IN  [h EXCEPT !.freep = p,
                  !.mem = IF p + m[p].size = bp THEN joined(m, p, bp) ELSE [m EXCEPT ![p].ptr = bp]]

units(nbytes) == (nbytes + HDR - 1) \div HDR + 1

\* the header of a block in use
held(a, n) == a :> [ptr |-> None, size |-> n]

\* what morecore asks sbrk for
wanted(nu) == IF nu < MINCORE THEN MINCORE ELSE nu

\* the new region is freed, which links it into the list
morecore(h, nu) ==
    LET hp == h.brk
        n  == wanted(nu)
    IN  free([h EXCEPT !.brk = hp + n, !.core = @ \union hp .. hp + n - 1, !.mem = @ @@ held(hp, n)], hp)

\* the loop of malloc: the heap after it and the header found, None without memory
RECURSIVE search(_, _, _, _)
search(h, prevp, p, nu) ==
    LET size == h.mem[p].size
        more == morecore(h, nu)
    IN  IF size = nu
        THEN [at |-> p, h |-> [h EXCEPT !.freep = prevp, !.mem = held(p, nu) @@ [@ EXCEPT ![prevp].ptr = h.mem[p].ptr]]]
        ELSE IF size > nu
        THEN [at |-> p + size - nu,
              h  |-> [h EXCEPT !.freep = prevp, !.mem = [@ EXCEPT ![p].size = size - nu] @@ held(p + size - nu, nu)]]
        ELSE IF p # h.freep THEN search(h, p, h.mem[p].ptr, nu)
        ELSE IF h.brk + wanted(nu) > MAXUNITS THEN [at |-> None, h |-> h]
        ELSE search(more, more.freep, more.mem[more.freep].ptr, nu)

malloc(nbytes) ==
    LET h == IF freep # None THEN Heap
             ELSE [Heap EXCEPT !.freep = Base, !.mem[Base] = [ptr |-> Base, size |-> 0]]
        r == search(h, h.freep, h.mem[h.freep].ptr, units(nbytes))
    IN  /\ Become(r.h)
        /\ live' = IF r.at = None THEN live ELSE live \union {[at |-> r.at, nbytes |-> nbytes]}

Free(b) == Become(free(Heap, b.at)) /\ live' = live \ {b}

\* the program's own sbrk
Gap ==
    /\ brk < MAXUNITS
    /\ brk' = brk + 1
    /\ UNCHANGED <<mem, freep, live, core>>

HeapNext ==
    \/ \E n \in Requests : malloc(n)
    \/ \E b \in live : Free(b)
    \/ Gap

HeapSpec == HeapInit /\ [][HeapNext]_heapVars

-----------------------------------------------------------------------------
(* Properties *)

Units(a) == a .. a + mem[a].size - 1

\* the free blocks that the list reaches from a
RECURSIVE Ring(_, _)
Ring(a, seen) == IF a \in seen THEN seen ELSE Ring(mem[a].ptr, seen \union {a})

\* The blocks that the program holds and the blocks of the free list partition the memory
\* that morecore got: nothing is handed out twice, lost, or still linked while in use.  A held
\* block has room for the bytes asked for, behind its header.  The list is in address order,
\* so that one turn meets every block, and free leaves no two adjacent blocks apart.
HeapSound ==
    LET list   == Ring(Base, {})
        blocks == (list \ {Base}) \union {b.at : b \in live}
        next(a) == {b \in list : b > a}
    IN  freep # None =>
        /\ freep \in list
        /\ \A a \in list : mem[a].ptr = IF next(a) = {} THEN Base
                                        ELSE CHOOSE b \in next(a) : \A c \in next(a) : b <= c
        /\ UNION {Units(a) : a \in blocks} = core
        /\ \A a, b \in blocks : a # b => Units(a) \intersect Units(b) = {}
        /\ list \intersect {b.at : b \in live} = {}
        /\ \A b \in live : (mem[b.at].size - 1) * HDR >= b.nbytes
        /\ \A a \in list : a + mem[a].size \notin list \ {a}
=============================================================================
