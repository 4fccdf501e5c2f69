------------------------------ MODULE Umalloc ------------------------------
(***************************************************************************)
(* umalloc.c: the heap of a user program.  Addresses count headers; base   *)
(* is below the heap, which grows by sbrk up to TOP.  The program may call *)
(* sbrk itself and so leave holes between the parts malloc obtains.        *)
(* Requests are far below 2^32 bytes, so nothing wraps.                    *)
(***************************************************************************)
EXTENDS Integers, FiniteSets, FiniteSetsExt

CONSTANTS
  Requests,     \* arguments of malloc, in bytes
  HeaderSize,   \* sizeof(Header)
  MoreUnits,    \* the least that morecore asks for (4096)
  TOP           \* the memory sbrk may give, in headers

HeapAssumption == HeaderSize > 0 /\ MoreUnits > 0 /\ TOP > 0 /\ \A b \in Requests : b >= 0

base == 0
NULL == -1
Addresses == 0..TOP

VARIABLES
  heap,      \* s.ptr and s.size at each address, freep, and the break
  live,      \* the blocks the program has, with the bytes it asked for
  holes      \* addresses that the program took by sbrk

vars == <<heap, live, holes>>

Init ==
  /\ heap = [ptr |-> [a \in Addresses |-> base], size |-> [a \in Addresses |-> 0], freep |-> NULL, brk |-> 1]
  /\ live = << >> /\ holes = {}

RECURSIVE Where(_, _, _), Search(_, _, _, _)

\* The block after which bp goes, searched from p on; the list is in address
\* order, but for the one place where it wraps around.
Where(h, p, bp) ==
  LET next == h.ptr[p] IN
  IF (p < bp /\ bp < next) \/ (p >= next /\ (bp > p \/ bp < next)) THEN p ELSE Where(h, next, bp)

JoinedUp(h, bp, next) ==
  IF bp + h.size[bp] = next
  THEN [h EXCEPT !.size[bp] = @ + h.size[next], !.ptr[bp] = h.ptr[next]]
  ELSE [h EXCEPT !.ptr[bp] = next]

\* Mutant: the block below keeps its size.
JoinedDown_lost(h, p, bp) ==
  IF p + h.size[p] = bp THEN [h EXCEPT !.ptr[p] = h.ptr[bp]] ELSE [h EXCEPT !.ptr[p] = bp]
JoinedDown(h, p, bp) ==
  IF p + h.size[p] = bp
  THEN [h EXCEPT !.size[p] = @ + h.size[bp], !.ptr[p] = h.ptr[bp]]
  ELSE [h EXCEPT !.ptr[p] = bp]

Freed(h, bp) ==
  LET p == Where(h, h.freep, bp) IN
  [JoinedDown(JoinedUp(h, bp, h.ptr[p]), p, bp) EXCEPT !.freep = p]

More(nu) == Max({nu, MoreUnits})
morecore(h, nu) ==
  Freed([h EXCEPT !.size[h.brk] = More(nu), !.brk = @ + More(nu)], h.brk)

\* The last nunits of block p are cut off.
Cut(h, p, nunits) == [h EXCEPT !.size = [@ EXCEPT ![p] = @ - nunits, ![p + h.size[p] - nunits] = nunits]]

\* malloc's loop: the heap and the address of the block, or NULL.
Search(h, prevp, p, nunits) ==
  IF h.size[p] = nunits THEN <<[h EXCEPT !.ptr[prevp] = h.ptr[p], !.freep = prevp], p>>
  ELSE IF h.size[p] > nunits THEN
    <<[Cut(h, p, nunits) EXCEPT !.freep = prevp], p + h.size[p] - nunits>>
  ELSE IF p # h.freep THEN Search(h, p, h.ptr[p], nunits)
  ELSE IF h.brk + More(nunits) > TOP THEN <<h, NULL>>
  ELSE LET m == morecore(h, nunits) IN Search(m, m.freep, m.ptr[m.freep], nunits)

units(nbytes) == (nbytes + HeaderSize - 1) \div HeaderSize + 1

malloc(nbytes) ==
  LET h == IF heap.freep = NULL THEN [heap EXCEPT !.ptr[base] = base, !.size[base] = 0, !.freep = base] ELSE heap
      found == Search(h, h.freep, h.ptr[h.freep], units(nbytes)) IN
  /\ heap' = found[1]
  /\ live' = IF found[2] = NULL THEN live
             ELSE [a \in DOMAIN live \cup {found[2]} |-> IF a = found[2] THEN nbytes ELSE live[a]]
  /\ UNCHANGED holes

free(a) ==
  /\ heap' = Freed(heap, a)
  /\ live' = [b \in DOMAIN live \ {a} |-> live[b]]
  /\ UNCHANGED holes

sbrk ==
  /\ heap.brk < TOP
  /\ heap' = [heap EXCEPT !.brk = @ + 1] /\ holes' = holes \cup {heap.brk}
  /\ UNCHANGED live

Next == (\E b \in Requests : malloc(b)) \/ (\E a \in DOMAIN live : free(a)) \/ sbrk
Spec == Init /\ [][Next]_vars

-----------------------------------------------------------------------------
RECURSIVE From(_, _)
\* The blocks of the list from p on, found being those before it.
From(p, found) == IF p \in found THEN found ELSE From(heap.ptr[p], found \cup {p})
FreeList == IF heap.freep = NULL THEN {} ELSE From(heap.freep, {})
FreeBlocks == FreeList \ {base}
Cells(a) == a..(a + heap.size[a] - 1)

\* The free list is a circle through base in the order of addresses, wherever
\* freep points: each block's successor is the next higher one, or base.
ListOrdered ==
  \A a \in FreeList :
    heap.ptr[a] = IF \E b \in FreeList : b > a THEN Min({b \in FreeList : b > a}) ELSE base

\* What malloc obtained by sbrk is divided between the blocks of the program,
\* each with room for the bytes asked for, and the blocks of the free list:
\* no splitting, joining or growing loses a unit or hands one out twice.
HeapDivided ==
  LET B == FreeBlocks \cup DOMAIN live IN
  /\ FreeBlocks \cap DOMAIN live = {}
  /\ \A a, b \in B : a # b => Cells(a) \cap Cells(b) = {}
  /\ UNION {Cells(a) : a \in B} = (1..(heap.brk - 1)) \ holes
  /\ \A a \in DOMAIN live : (heap.size[a] - 1) * HeaderSize >= live[a]

\* free joins a block with its free neighbours on both sides, also over the
\* border of two parts obtained by sbrk, so none is left next to another.
Joined == \A a, b \in FreeBlocks : a + heap.size[a] # b

\* The heap stays in order through every sequence of malloc, free and sbrk.
HeapSound == ListOrdered /\ HeapDivided /\ Joined
=============================================================================
