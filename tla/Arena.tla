------------------------------- MODULE Arena -------------------------------
(***************************************************************************)
(* The old space of src/src/alloc.c: blocks with headers, the next-fit     *)
(* search of arena_alloc_old_space, the sweep of gc_major that frees and   *)
(* coalesces, and the test of arena_alloc that decides which collection is *)
(* needed.  Sizes are words of eight bytes, a header is one word.  Headers *)
(* are kept by address as they lie in memory: one that was merged into its *)
(* neighbour is still there until its words are given out and cleared.     *)
(***************************************************************************)
EXTENDS Integers, FiniteSets, FiniteSetsExt

CONSTANTS
    Size,       \* words of the old space
    Nursery,    \* words of the nursery
    Sizes,      \* words of the blocks in use, header included
    MaxAllocs   \* bound: blocks given out

VARIABLES
    hdr,        \* [size, free] at every address; size 0: no header
    nextFit,    \* g_old_space_next_fit, -1 before the first use
    freeBytes,  \* g_old_space_free_bytes, in words
    live,       \* blocks the program can reach: [at, size, id]
    allocs,     \* blocks given out so far
    asked,      \* words arena_alloc is making room for, 0 outside of it
    major,      \* the collection under way is gc_major
    room,       \* words of survivors gc_minor may still promote, -1 outside of it
    outcome,    \* "ok", or how the process ended
    stale       \* history: a search began inside a block

vars == <<hdr, nextFit, freeBytes, live, allocs, asked, major, room, outcome, stale>>

Addresses == 0..Size - 1
NoHeader == [size |-> 0, free |-> FALSE]
None == -1
Forever == -2

\* arena_init: one free block.
Init ==
    /\ hdr = [a \in Addresses |-> IF a = 0 THEN [size |-> Size, free |-> TRUE] ELSE NoHeader]
    /\ nextFit = None /\ freeBytes = Size
    /\ live = {} /\ allocs = 0 /\ asked = 0 /\ major = FALSE /\ room = None
    /\ outcome = "ok" /\ stale = FALSE

\* The block behind b, and the same around the end of the space.
After(h, b) == b + h[b].size
Around(h, b) == IF After(h, b) >= Size THEN 0 ELSE After(h, b)

\* The blocks one meets from the beginning of the space.
RECURSIVE ChainFrom(_, _)
ChainFrom(h, b) ==
    IF b >= Size THEN {} ELSE IF h[b].size = 0 THEN {b} ELSE {b} \cup ChainFrom(h, After(h, b))

Chain(h) == ChainFrom(h, 0)

\* The first block from b on that is free and large enough, until the search
\* is back at its start.  From a start that is not on the chain it goes round
\* for ever, as it does at a header of size zero.
RECURSIVE Search(_, _, _, _, _)
Search(h, b, start, n, rounds) ==
    IF h[b].free /\ h[b].size >= n THEN b
    ELSE IF h[b].size # 0 /\ Around(h, b) = start THEN None
    ELSE IF h[b].size = 0 \/ rounds = 2 THEN Forever
    ELSE Search(h, Around(h, b), start, n, IF Around(h, b) = 0 THEN rounds + 1 ELSE rounds)

\* Mutant: the remainder begins one word late.
CarveLate(h, b, n) ==
    LET rest == h[b].size - n
        block == [size |-> IF rest >= 2 THEN n ELSE h[b].size, free |-> FALSE]
    IN  [a \in Addresses |->
            IF a = b THEN block
            ELSE IF rest >= 2 /\ a = b + n + 1 THEN [size |-> rest - 1, free |-> TRUE]
            ELSE IF a \in b + 1 .. b + block.size - 1 THEN NoHeader ELSE h[a]]

\* The block at b is given out: what is left of it becomes a free block when
\* it can hold a header and eight bytes; the payload is cleared.
Carve(h, b, n) ==
    LET rest == h[b].size - n
        block == [size |-> IF rest >= 2 THEN n ELSE h[b].size, free |-> FALSE]
    IN  [a \in Addresses |->
            IF a = b THEN block
            ELSE IF rest >= 2 /\ a = b + n THEN [size |-> rest, free |-> TRUE]
            ELSE IF a \in b + 1 .. b + block.size - 1 THEN NoHeader ELSE h[a]]

Start == IF nextFit = None THEN 0 ELSE nextFit

\* arena_alloc_old_space in a space with headers h and counter f.
GiveOut(h, f, n, b) ==
    LET h2 == Carve(h, b, n)
    IN  /\ hdr' = h2
        /\ freeBytes' = f - n
        /\ nextFit' = Around(h2, b)
        /\ live' = live \cup {[at |-> b, size |-> h2[b].size, id |-> allocs + 1]}
        /\ allocs' = allocs + 1

\* Phase 2 of gc_major, block by block: what is not marked is freed, and a
\* free block is merged into a free block before it.
RECURSIVE SweepFrom(_, _, _, _, _)
SweepFrom(h, f, b, prev, marked) ==
    IF b >= Size \/ h[b].size = 0 THEN [h |-> h, f |-> f]
    ELSE LET freed == ~h[b].free /\ b \notin marked
             h1 == IF freed THEN [h EXCEPT ![b].free = TRUE] ELSE h
             f1 == IF freed THEN f + h[b].size ELSE f
             merge == h1[b].free /\ prev # None /\ h1[prev].free
             h2 == IF merge THEN [h1 EXCEPT ![prev].size = @ + h1[b].size] ELSE h1
             cur == IF merge THEN prev ELSE b
         IN  SweepFrom(h2, f1, After(h2, cur), cur, marked)

Swept == SweepFrom(hdr, freeBytes, 0, None, {o.at : o \in live})

Running == outcome = "ok" /\ allocs < MaxAllocs

\* arena_alloc finds that n words do not fit in what is left of the nursery:
\* gc_major, when the counter says that the old space may not take all of the
\* nursery, or else gc_minor.
NurseryFull(n) ==
    /\ Running /\ asked = 0
    /\ asked' = n /\ major' = (freeBytes < Nursery) /\ room' = Nursery
    /\ UNCHANGED <<hdr, nextFit, freeBytes, live, allocs, outcome, stale>>

\* Either begins with gc_minor, in which minor_copy_value moves the survivors to
\* the old space as it was left; without room there the process exits.
Promote(n) ==
    LET b == Search(hdr, Start, Start, n, 0)
    IN  /\ Running /\ n <= room
        /\ stale' = (stale \/ Start \notin Chain(hdr))
        /\ \/ b >= 0 /\ GiveOut(hdr, freeBytes, n, b) /\ room' = room - n /\ UNCHANGED outcome
           \/ /\ b < 0 /\ outcome' = (IF b = None THEN "exhausted" ELSE "hangs")
              /\ UNCHANGED <<hdr, nextFit, freeBytes, live, allocs, room>>
        /\ UNCHANGED <<asked, major>>

\* The nursery is empty; gc_major goes on to mark and sweep.  The gc_minor that
\* arena_alloc makes after it finds nothing, and the second attempt succeeds
\* unless the nursery is too small for the block.
MinorEnds ==
    /\ room >= 0 /\ outcome = "ok"
    /\ room' = None /\ major' = FALSE
    /\ asked' = IF asked > Nursery THEN asked ELSE 0
    /\ IF major THEN hdr' = Swept.h /\ freeBytes' = Swept.f ELSE UNCHANGED <<hdr, freeBytes>>
    /\ UNCHANGED <<nextFit, live, allocs, outcome, stale>>

\* A block larger than the nursery then goes to the old space; if there is no
\* room gc_major, with an empty nursery, is made and the search repeated, then
\* the process exits.
AllocLarge ==
    LET b == Search(hdr, Start, Start, asked, 0)
        c == Search(Swept.h, Start, Start, asked, 0)
    IN  /\ Running /\ room = None /\ asked # 0
        /\ stale' = (stale \/ Start \notin Chain(hdr) \/ (b = None /\ Start \notin Chain(Swept.h)))
        /\ \/ b >= 0 /\ GiveOut(hdr, freeBytes, asked, b) /\ UNCHANGED outcome
           \/ b = None /\ c >= 0 /\ GiveOut(Swept.h, Swept.f, asked, c) /\ UNCHANGED outcome
           \/ /\ (b = Forever) \/ (b = None /\ c < 0)
              /\ outcome' = (IF Forever \in {b, c} THEN "hangs" ELSE "oom")
              /\ UNCHANGED <<hdr, nextFit, freeBytes, live, allocs>>
        /\ asked' = 0 /\ UNCHANGED <<major, room>>

\* The program drops its last reference to a block.
Drop(o) ==
    /\ outcome = "ok" /\ asked = 0
    /\ live' = live \ {o}
    /\ UNCHANGED <<hdr, nextFit, freeBytes, allocs, asked, major, room, outcome, stale>>

Next ==
    \/ MinorEnds \/ AllocLarge
    \/ \E n \in Sizes : NurseryFull(n) \/ Promote(n)
    \/ \E o \in live : Drop(o)

Spec == Init /\ [][Next]_vars

-----------------------------------------------------------------------------
(* Properties *)

\* Headers and the counter stay in range.
TypeOK ==
    /\ \A a \in Addresses : hdr[a].size \in 0..Size
    /\ nextFit \in {None} \cup Addresses /\ room \in None..Nursery
    /\ asked \in {0} \cup Sizes /\ (room # None => asked # 0) /\ (major => room # None)
    /\ live \subseteq [at : Addresses, size : 1..Size, id : 1..MaxAllocs]

Disjoint ==
    \A o, p \in live : o = p \/ o.at + o.size <= p.at \/ p.at + p.size <= o.at

\* Blocks the program can reach never overlap, each is a block of the chain
\* that the sweep walks, and the chain tiles the space, as long as no search
\* began inside a block: merging blocks leaves nextFit where it was.
BlocksSound ==
    ~stale =>
        /\ Disjoint
        /\ \A o \in live : o.at \in Chain(hdr) /\ hdr[o.at] = [size |-> o.size, free |-> FALSE]
        /\ FoldSet(LAMBDA a, s : s + hdr[a].size, 0, Chain(hdr)) = Size

\* The counter that decides between the collections never says less than what
\* is free, so that no major collection is made in vain; it may say more by
\* the word that a block given out whole has beyond its size.
FreeBytesNeverLow ==
    ~stale =>
        freeBytes >= FoldSet(LAMBDA a, s : s + hdr[a].size, 0, {a \in Chain(hdr) : hdr[a].free})

\* Violated: blocks the program can reach never overlap.
LiveBlocksDisjoint == Disjoint
=============================================================================
