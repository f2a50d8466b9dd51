-------------------------------- MODULE Heap --------------------------------
(***************************************************************************)
(* Generational collection in src/src/alloc.c: gc_minor copies what it     *)
(* reaches from the nursery to the old space, gc_major marks and frees, the *)
(* write barrier feeds the remembered set.  A reference is the block it was *)
(* made for and the space its address lies in, so that it dangles when the *)
(* block has moved or is gone.  Blocks are never reused under one number:  *)
(* Arena.tla is about the words they occupy.  A slot of a data block is a  *)
(* property or an element, its key included.                               *)
(***************************************************************************)
EXTENDS Integers, Sequences, FiniteSets, Functions

CONSTANTS
    Nursery,    \* blocks the nursery holds (two at least)
    MaxBlocks,  \* bound: blocks allocated
    Remember,   \* MAX_REMEMBERED_SET
    Scenarios   \* sets of operations to explore besides objects and stores

VARIABLES
    h,          \* the heap: see Init
    scenario,   \* the one of Scenarios this behaviour takes its operations from
    unrooted,   \* history: an allocator held an address across a collection
    resumed,    \* history: a coroutine was resumed with a stale register
    grown,      \* history: old blocks given young data or a young value without
                \* a barrier
    dropped     \* history: old blocks the full remembered set did not take

vars == <<h, scenario, unrooted, resumed, grown, dropped>>

Nil == [b |-> 0, at |-> "nil"]
Number == [b |-> 0, at |-> "int"]
Ref(i, p) == [b |-> i, at |-> p]
Regs == 1..2

Init ==
    /\ h = [blk    |-> <<>>,                    \* [place, kind, f]
            regs   |-> [r \in Regs |-> Nil],    \* registers, globals, frames
            roots  |-> <<>>,                    \* vm->gc_roots
            io     |-> Nil,                     \* a callback a handle or timer keeps
            saved  |-> Nil,                     \* a register of a suspended coroutine
            rem    |-> {},                      \* g_remembered_set
            intern |-> Nil,                     \* the table of interned strings
            wraps  |-> {}]                      \* weak references of native addons
    /\ scenario \in Scenarios
    /\ unrooted = FALSE /\ resumed = FALSE /\ grown = {} /\ dropped = {}

-----------------------------------------------------------------------------
(* Collections *)

Pointer(v) == v.b # 0
Valid(g, v) == g.blk[v.b].place = v.at
In(g, v, p) == Pointer(v) /\ v.at = p /\ Valid(g, v)

\* The fields minor_trace_object follows: all but the name of an error and what
\* a symbol, a regular expression, a Float16Array or a Buffer refers to.
Traced(k, n) == CASE k = "error" -> {2} [] k = "opaque" -> {} [] OTHER -> 1..n

\* Objects, arrays and sets keep their slots in a block of data.
WithData == {"object", "set"}

\* Blocks visited from block i: young ones are copied; the data of an object
\* is traced where it is, other old blocks are not.
Visits(g, i) ==
    LET Followed(b, v) == In(g, v, "young") \/ (b.kind \in WithData /\ In(g, v, "old"))
        Fields(b) == {b.f[n] : n \in Traced(b.kind, Len(b.f))}
        Of(b) == {v.b : v \in {v \in Fields(b) : Followed(b, v)}}
    IN  Of(g.blk[i])

Gone(b) == [b EXCEPT !.place = "gone", !.f = <<>>]

RECURSIVE Copied(_, _)
Copied(g, S) ==
    LET More(T) == IF T = S THEN S ELSE Copied(g, T)
    IN  More(S \cup UNION {Visits(g, i) : i \in S})

\* gc_minor: the virtual machine's roots and the remembered blocks, then the
\* interned strings (kept if they were copied by now), then the handles.
MinorFrom(g, remembered) ==
    LET YoungIn(vs) == {v.b : v \in {v \in vs : In(g, v, "young")}}
        Fix(S, v) == IF v.b \in S /\ In(g, v, "young") THEN Ref(v.b, "old") ELSE v
        Moved(S, b) ==
            [place |-> "old", kind |-> b.kind,
             f |-> [n \in DOMAIN b.f |->
                        IF n \in Traced(b.kind, Len(b.f)) THEN Fix(S, b.f[n]) ELSE b.f[n]]]
        Promoted(S1, S2) ==
            [g EXCEPT
                !.blk = [i \in DOMAIN g.blk |->
                            IF i \in S2 THEN Moved(S2, g.blk[i])
                            ELSE IF g.blk[i].place = "young" THEN Gone(g.blk[i])
                            ELSE g.blk[i]],
                !.regs = [r \in Regs |-> Fix(S2, @[r])],
                !.roots = [n \in DOMAIN @ |-> Fix(S2, @[n])],
                !.io = Fix(S2, @), !.rem = {},
                !.intern = IF @.at = "young" /\ @.b \notin S1 THEN Nil ELSE Fix(S2, @)]
        WithHandles(S1) == Promoted(S1, Copied(g, S1 \cup YoungIn({g.io})))
    IN  WithHandles(Copied(g, remembered \cup YoungIn(Range(g.regs) \cup Range(g.roots))))

\* Mutant: the remembered set is cleared without being traced.
MinorForgetting(g) == MinorFrom(g, {})

Minor(g) == MinorFrom(g, g.rem)

RECURSIVE Reach(_, _)
Reach(g, S) ==
    LET More(T) == IF T = S THEN S ELSE Reach(g, T)
        Fields == UNION {Range(g.blk[i].f) : i \in S}
    IN  More(S \cup {v.b : v \in {v \in Fields : Pointer(v) /\ Valid(g, v)}})

From(g, vs) == Reach(g, {v.b : v \in {v \in vs : Pointer(v) /\ Valid(g, v)}})

\* Mutant: the finalizers run before the roots of the handles are marked.
MarkSweepHasty(g, early) ==
    LET Swept(M1, M2) ==
            [g EXCEPT
                !.blk = [i \in DOMAIN g.blk |->
                            IF i \in M2 THEN g.blk[i] ELSE Gone(g.blk[i])],
                !.intern = IF @.b \in M1 THEN @ ELSE Nil,
                !.wraps = {w \in @ : IF Valid(g, w) THEN w.b \in M1 ELSE ~early}]
        WithHandles(M1) == Swept(M1, M1 \cup From(g, {g.io}))
    IN  WithHandles(From(g, Range(g.regs) \cup Range(g.roots)))

\* The rest of gc_major: marks, then weak strings, then the handles' roots,
\* then finalizers of wrapped objects that are not marked, then the sweep.  A
\* wrap made before its object moved reads the header of another block: early
\* says whether that one happens to be unmarked.
MarkSweep(g, early) ==
    LET Swept(M1, M2) ==
            [g EXCEPT
                !.blk = [i \in DOMAIN g.blk |->
                            IF i \in M2 THEN g.blk[i] ELSE Gone(g.blk[i])],
                !.intern = IF @.b \in M1 THEN @ ELSE Nil,
                !.wraps = {w \in @ : IF Valid(g, w) THEN w.b \in M2 ELSE ~early}]
        WithHandles(M1) == Swept(M1, M1 \cup From(g, {g.io}))
    IN  WithHandles(From(g, Range(g.regs) \cup Range(g.roots)))

Collect(g, m) ==
    LET Rest(young) == IF m = "minor" THEN young ELSE MarkSweep(young, m = "early")
    IN  Rest(Minor(g))

Young(g) == {i \in DOMAIN g.blk : g.blk[i].place = "young"}

Full(g) == Cardinality(Young(g)) = Nursery

\* arena_alloc: the new block is the last one, and it is young.
Alloc(g, m, kind, n) ==
    LET Carved(c) == [c EXCEPT !.blk = Append(@, [place |-> "young", kind |-> kind,
                                                  f |-> [k \in 1..n |-> Nil]])]
    IN  Carved(IF Full(g) THEN Collect(g, m) ELSE g)

\* The collections arena_alloc may make, none if the nursery is empty: the one
\* that finalizes early differs with a wrap only.
Collections ==
    CASE Young(h) = {} -> {"minor"}
      [] Young(h) # {} /\ h.wraps = {} -> {"minor", "major"}
      [] OTHER -> {"minor", "major", "early"}

Last(g) == Ref(Len(g.blk), "young")

-----------------------------------------------------------------------------
(* Operations of the runtime *)

\* What the program and the handles can reach, and the references among it
\* that dangle; beyond one the behaviour of the process is undefined.
Live(g) == From(g, Range(g.regs) \cup {g.io})
Stale(g, v) == Pointer(v) /\ ~Valid(g, v)
StaleRoots(g) == \E v \in Range(g.regs) \cup {g.io} : Stale(g, v)
StaleIn(g) == {i \in Live(g) : \E n \in DOMAIN g.blk[i].f : Stale(g, g.blk[i].f[n])}

Ready(n) == Len(h.blk) + n <= MaxBlocks

\* gc_write_barrier.
Barrier(g, o, v) ==
    IF In(g, o, "old") /\ In(g, v, "young") /\ Cardinality(g.rem) < Remember
    THEN [g EXCEPT !.rem = @ \cup {o.b}] ELSE g

\* The history of a store of v in object o of heap g: data without a barrier,
\* a barrier without room.
NoteStore(g, o, v) ==
    /\ grown' = IF In(g, o, "old") /\ In(g, g.blk[o.b].f[1], "young") /\ o.b \notin g.rem
                THEN grown \cup {o.b} ELSE grown
    /\ dropped' = IF In(g, o, "old") /\ In(g, v, "young") /\ o.b \notin g.rem
                  THEN dropped \cup {o.b} ELSE dropped

\* create_object, create_array: the object is rooted while its data is made.
\* If it is promoted meanwhile, its data is young and nothing remembers it.
NewObject(r, m) ==
    /\ Ready(2)
    /\ LET Rooted(g) == [g EXCEPT !.roots = <<Last(g)>>]
           Filled(g) == [g EXCEPT !.blk[g.roots[1].b].f[1] = Last(g),
                                  !.regs[r] = g.roots[1], !.roots = <<>>]
       IN  h' = Filled(Alloc(Rooted(Alloc(h, m, "object", 1)), m, "data", 1))
    /\ NoteStore(h', h'.regs[r], Nil)
    /\ UNCHANGED <<scenario, unrooted, resumed>>

\* create_set: as above without the root; the data is stored, and the set
\* returned, at the address the set had before the second allocation.
NewSet(r, m) ==
    /\ "set" \in scenario /\ Ready(2)
    /\ LET set == Ref(Len(h.blk) + 1, "young")
           Filled(g) == IF Valid(g, set) THEN [g EXCEPT !.blk[set.b].f[1] = Last(g)] ELSE g
       IN  /\ h' = [Filled(Alloc(Alloc(h, m, "set", 1), m, "data", 1)) EXCEPT !.regs[r] = set]
           /\ unrooted' = (unrooted \/ ~Valid(h', set))
    /\ UNCHANGED <<scenario, resumed, grown, dropped>>

\* create_string, of one content: the interned one, or a new one.
String(g, m) ==
    IF Pointer(g.intern) THEN [h |-> g, s |-> g.intern]
    ELSE LET Interned(a) == [h |-> [a EXCEPT !.intern = Last(a)], s |-> Last(a)]
         IN  Interned(Alloc(g, m, "string", 0))

NewString(r, m) ==
    /\ "string" \in scenario /\ Ready(1)
    /\ LET Assigned(a) == [a.h EXCEPT !.regs[r] = a.s] IN h' = Assigned(String(h, m))
    /\ UNCHANGED <<scenario, unrooted, resumed, grown, dropped>>

\* create_error: neither the error nor the message is rooted while the string
\* of its name is made.
NewError(r, s, m) ==
    /\ "error" \in scenario /\ Ready(2)
    /\ LET err == Ref(Len(h.blk) + 1, "young")
           Filled(a) == IF Valid(a.h, err)
                        THEN [a.h EXCEPT !.blk[err.b].f = <<a.s, h.regs[s]>>] ELSE a.h
           Named(g) == /\ h' = [Filled(String(g, m)) EXCEPT !.regs[r] = err]
                       /\ unrooted' = (unrooted \/ Full(h) \/ Full(g))
       IN  Named(Alloc(h, m, "error", 2))
    /\ UNCHANGED <<scenario, resumed, grown, dropped>>

\* create_symbol, and the constructors of the other kinds that a minor collection
\* does not trace: the value is taken from the arguments before the allocation.
\* Bound: one of them in use, and one promise below.
NewOpaque(r, s, m) ==
    /\ "opaque" \in scenario /\ Ready(1) /\ Pointer(h.regs[s])
    /\ \A i \in DOMAIN h.blk : h.blk[i].kind # "opaque"
    /\ LET Filled(g) == [g EXCEPT !.blk[Len(g.blk)].f = <<h.regs[s]>>, !.regs[r] = Last(g)]
       IN  h' = Filled(Alloc(h, m, "opaque", 1))
    /\ UNCHANGED <<scenario, unrooted, resumed, grown, dropped>>

\* create_promise of a pending promise.
NewPromise(r, m) ==
    /\ "promise" \in scenario /\ Ready(1)
    /\ \A i \in DOMAIN h.blk : h.blk[i].kind # "promise"
    /\ LET Assigned(g) == [g EXCEPT !.regs[r] = Last(g)]
       IN  h' = Assigned(Alloc(h, m, "promise", 1))
    /\ UNCHANGED <<scenario, unrooted, resumed, grown, dropped>>

Used(d) == Cardinality({n \in DOMAIN d.f : d.f[n] # Nil})

\* array_push, and object_set with a new key: data that is full is first
\* replaced by a copy twice as large, the object and the value being rooted
\* meanwhile.  (Data that this collection lost is copied from where it was.)
Grown(o, v, m) ==
    LET First(g, d) ==
            IF Valid(g, d) THEN g.blk[d.b].f[1] ELSE h.blk[h.blk[o.b].f[1].b].f[1]
        Copy(g, o2, v2) ==
            [h |-> [g EXCEPT !.blk[Len(g.blk)].f = <<First(g, g.blk[o2.b].f[1]), v2>>,
                             !.blk[o2.b].f[1] = Last(g), !.roots = <<>>],
             o |-> o2, v |-> v2]
        Unrooted(g) == Copy(g, g.roots[1], g.roots[2])
    IN  Unrooted(Alloc([h EXCEPT !.roots = <<o, v>>], m, "data", 2))

\* object_set and array_push: a value over a slot in use, or in the next one.
Store(r, v, i) ==
    LET o == h.regs[r]
        d == h.blk[o.b].f[1]
    IN  /\ Ready(1) /\ Pointer(o) /\ h.blk[o.b].kind = "object"
        /\ i <= Used(h.blk[d.b]) + 1 /\ i <= 2
        /\ LET Stored(s) == h' = Barrier(s.h, s.o, s.v) /\ NoteStore(h', s.o, s.v)
           IN  \/ /\ i <= Len(h.blk[d.b].f)
                  /\ Stored([h |-> [h EXCEPT !.blk[d.b].f[i] = v], o |-> o, v |-> v])
               \/ /\ i > Len(h.blk[d.b].f)
                  /\ \E m \in Collections : Stored(Grown(o, v, m))
        /\ UNCHANGED <<scenario, unrooted, resumed>>

\* The history of a store of v in o without a barrier.
NoteBare(o, v) ==
    /\ grown' = IF In(h, o, "old") /\ In(h, v, "young") /\ o.b \notin h.rem
                THEN grown \cup {o.b} ELSE grown
    /\ UNCHANGED <<scenario, unrooted, resumed, dropped>>

\* A store without a barrier: the property that the inline cache found, an
\* element of an array below its capacity, set_add with room in the table ...
StoreBare(r, v, i) ==
    LET o == h.regs[r]
        d == h.blk[o.b].f[1]
    IN  /\ {"cache", "set"} \cap scenario # {} /\ Pointer(o)
        /\ h.blk[o.b].kind = IF "set" \in scenario THEN "set" ELSE "object"
        /\ i <= Used(h.blk[d.b]) + 1 /\ i <= Len(h.blk[d.b].f)
        /\ h' = [h EXCEPT !.blk[d.b].f[i] = v]
        /\ NoteBare(o, v)

\* ... and the result of a promise that is settled.
Settle(r, v) ==
    LET o == h.regs[r]
    IN  /\ Pointer(o) /\ h.blk[o.b].kind = "promise" /\ h.blk[o.b].f[1] = Nil
        /\ h' = [h EXCEPT !.blk[o.b].f[1] = v]
        /\ NoteBare(o, v)

\* Registers: a property read, a copy, a value dropped; a callback handed to
\* the event loop and taken back; a native object wrapped.
Load(r, s, i) ==
    LET o == h.regs[s]
    IN  /\ Pointer(o) /\ h.blk[o.b].kind \in WithData
        /\ i <= Used(h.blk[h.blk[o.b].f[1].b])
        /\ h' = [h EXCEPT !.regs[r] = h.blk[h.blk[o.b].f[1].b].f[i]]
        /\ UNCHANGED <<scenario, unrooted, resumed, grown, dropped>>

Assign(r, v) ==
    /\ h' = [h EXCEPT !.regs[r] = v]
    /\ UNCHANGED <<scenario, unrooted, resumed, grown, dropped>>

Register(v) ==
    /\ "io" \in scenario /\ (h.io = Nil) # (v = Nil)
    /\ h' = [h EXCEPT !.io = v]
    /\ UNCHANGED <<scenario, unrooted, resumed, grown, dropped>>

Wrap(r) ==
    /\ "wrap" \in scenario /\ Pointer(h.regs[r]) /\ h.wraps = {}
    /\ h' = [h EXCEPT !.wraps = {h.regs[r]}]
    /\ UNCHANGED <<scenario, unrooted, resumed, grown, dropped>>

\* vm_coro: the registers of a suspended coroutine are copied out of the
\* virtual machine, where no collection looks, and back.
Suspend ==
    /\ "coroutine" \in scenario /\ h.saved = Nil /\ Pointer(h.regs[1])
    /\ h' = [h EXCEPT !.saved = h.regs[1], !.regs[1] = Nil]
    /\ UNCHANGED <<scenario, unrooted, resumed, grown, dropped>>

Resume ==
    /\ h.saved # Nil
    /\ h' = [h EXCEPT !.saved = Nil, !.regs[1] = h.saved]
    /\ resumed' = (resumed \/ Stale(h, h.saved))
    /\ UNCHANGED <<scenario, unrooted, grown, dropped>>

Step ==
    \/ \E r \in Regs, m \in Collections :
          \/ NewObject(r, m) \/ NewSet(r, m) \/ NewString(r, m) \/ NewPromise(r, m)
          \/ \E s \in Regs : NewError(r, s, m) \/ NewOpaque(r, s, m)
    \/ \E r \in Regs :
          \/ \E s \in Regs, i \in 1..2 : Load(r, s, i)
          \/ \E v \in {Nil} \cup Range(h.regs) : Assign(r, v)
          \/ \E v \in ({Number} \cup Range(h.regs)) \ {Nil} :
                Settle(r, v) \/ \E i \in 1..2 : Store(r, v, i) \/ StoreBare(r, v, i)
          \/ Wrap(r)
    \/ \E v \in {Nil} \cup Range(h.regs) : Register(v)
    \/ Suspend \/ Resume

\* Nothing is said of what follows a reference that dangles.
Next == ~StaleRoots(h) /\ StaleIn(h) = {} /\ Step

Spec == Init /\ [][Next]_vars

-----------------------------------------------------------------------------
(* Properties *)

Values == [b : 0..MaxBlocks, at : {"nil", "int", "young", "old"}]

\* The heap is made of blocks, and no C root outlives its operation.
TypeOK ==
    /\ \A i \in DOMAIN h.blk :
          /\ h.blk[i].place \in {"young", "old", "gone"}
          /\ \A n \in DOMAIN h.blk[i].f : h.blk[i].f[n] \in Values
    /\ Range(h.regs) \cup {h.io, h.saved, h.intern} \cup h.wraps \subseteq Values
    /\ h.roots = <<>> /\ Cardinality(h.rem) <= Remember

\* Every reference the program can reach leads to its block, but for the ways
\* the code loses one: what a minor collection does not trace (the name of an
\* error, what a symbol, regular expression, Float16Array or Buffer refers to),
\* young data or a young value given to an old block without a barrier, a store
\* the full remembered set dropped, an address held across a collection by
\* create_set and create_error, a coroutine's registers.
ReferencesValid ==
    /\ StaleRoots(h) => unrooted \/ resumed
    /\ \A i \in StaleIn(h) :
          h.blk[i].kind \in {"error", "opaque"} \/ i \in grown \cup dropped
            \/ \E j \in grown \cup dropped : i \in From(h, {Ref(j, "old")})

\* The remembered set holds every old object with young data or a young slot,
\* but for stores without a barrier or without room: a minor collection needs no
\* other old block.
RememberedComplete ==
    ~unrooted /\ ~resumed =>
        \A i \in Live(h) :
            /\ h.blk[i].place = "old" /\ h.blk[i].kind = "object"
            /\ \/ In(h, h.blk[i].f[1], "young")
               \/ \E v \in Range(h.blk[h.blk[i].f[1].b].f) : In(h, v, "young")
            => i \in h.rem \cup grown \cup dropped

\* A weak reference: the interned string is never one that was freed or moved.
WeakSound == Pointer(h.intern) => Valid(h, h.intern)

\* A step never finalizes a wrapped object the program can reach, while the
\* wrap knows the address of the object.
WrapsKept ==
    \A w \in h.wraps : Valid(h, w) /\ w.at = "old" /\ w \notin h'.wraps => w.b \notin Live(h')

\* Violated: live objects are moved, so every reference leads to its block.
NoDanglingReference == ~StaleRoots(h) /\ StaleIn(h) = {}
=============================================================================
