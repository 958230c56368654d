------------------------------- MODULE Memory -------------------------------
(***************************************************************************)
(* The memory of one process: the guest's seeded heap and the supervisor's *)
(* compact one (alloc.rs), and the region in which mappings are placed     *)
(* (vmmap.rs).  Heap addresses and sizes are counted in units of 16 bytes, *)
(* the header's length; those of mappings in pages.                        *)
(*                                                                         *)
(* Wherever the code draws from its seed the model takes any outcome.      *)
(* Threads of the schedule make one call at a time; outside threads (GCD   *)
(* workers) make theirs at any moment.                                     *)
(***************************************************************************)
EXTENDS Integers, Sequences, FiniteSets, SequencesExt

CONSTANTS
    Programs,     \* sets of calls, one of which the threads of a run make
    Requests,     \* <<size, alignment>> a program asks for
    MaxLive,      \* bound on blocks that are live at once (model)
    MaxLeaked,    \* bound on blocks outside threads have freed (model)
    Slab,         \* SLAB
    Slabs,        \* of the region
    SmallMax,     \* SMALL_MAX: classes up to this are one unit apart
    LargeMax,     \* the largest class, a power of two
    HeapPage,     \* PAGE, of the heap
    Pool,         \* POOL
    OwnEnd,       \* size of the supervisor's heap
    Pages,        \* of the region for mappings
    Lengths       \* of mappings asked for

Header == 1
WindowLen == Slabs \div 4
NoRoom == -1

ASSUME HeapAssumption ==
    /\ {Slab, Slabs, SmallMax, LargeMax, HeapPage, Pool, OwnEnd, Pages, MaxLive} \subseteq Nat \ {0} /\ MaxLeaked \in Nat
    /\ Requests \subseteq Nat \X (Nat \ {0}) /\ Lengths \subseteq 1..Pages
    /\ SmallMax < Slab /\ Slab <= LargeMax /\ WindowLen > 0

AllCalls == {"malloc", "free", "realloc", "outside", "own", "map", "shm", "exit", "kernel", "race"}
ASSUME ProgramsAssumption == Programs \subseteq SUBSET AllCalls

----------------------------------------------------------------------------
(***************************************************************************)
(* Size classes.  A class is named by its size.                            *)
(***************************************************************************)
MinOf(S) == CHOOSE x \in S : \A y \in S : x <= y
RoundUp(n, to) == ((n + to - 1) \div to) * to

Large == {SmallMax * 2 ^ i : i \in 1..LargeMax} \cap 1..LargeMax
ClassFor(raw) ==
    IF raw <= SmallMax THEN raw
    ELSE IF raw <= LargeMax THEN MinOf({s \in Large : raw <= s})
    ELSE RoundUp(raw, HeapPage)
Class      == (1..SmallMax) \cup Large
Pooled(c)  == c <= Slab
Wanted(size, align) ==
    (IF size = 0 THEN 1 ELSE size) + Header + (IF align > 1 THEN align ELSE 0)

\* The largest class is one of the powers of two.
ASSUME ClassesAssumption == LargeMax \in Large

----------------------------------------------------------------------------
(***************************************************************************)
(* State.                                                                  *)
(*                                                                         *)
(*   calls    what the threads do, chosen at the start                     *)
(*   heap     the seeded heap: `low' says at which end the window is,      *)
(*            `taken' is the slab bitmap; per class of the pooled ones the *)
(*            candidates, the other free blocks and how many both are;     *)
(*            `live' blocks per slab; `marks' are the blocks whose second  *)
(*            word reads IN_POOL                                           *)
(*   blocks   what the program holds, with the block around it; `leaked'   *)
(*            says an outside thread has freed it                          *)
(*   own      the supervisor's heap: where it was never used, free blocks  *)
(*            per class and free page-multiple ones; ownBlocks is what is  *)
(*            in use of it                                                 *)
(*   region   first page never handed out, stretches given back            *)
(*   page     what is at each page of the region: mapped by a thread of    *)
(*            the schedule, as its stack, by an outside thread, reserved   *)
(*            or nothing                                                   *)
(*   unmap    the stretch whose unmapping is under way                     *)
(***************************************************************************)
VARIABLES calls, heap, blocks, own, ownBlocks, region, page, unmap
vars     == <<calls, heap, blocks, own, ownBlocks, region, page, unmap>>
heapVars == <<heap, blocks>>
ownVars  == <<own, ownBlocks>>
mapVars  == <<region, page, unmap>>

SlabOf(p)  == p \div Slab
Slots(s, c) == {s * Slab + k * c : k \in 0..(Slab \div c) - 1}
PerSlab(c) == Slab \div c

----------------------------------------------------------------------------
(***************************************************************************)
(* Slabs.                                                                  *)
(***************************************************************************)
\* Where slabs of pooled classes, or runs, may be: the first and how many
Window(h) == [first |-> IF h.low THEN 0 ELSE Slabs - WindowLen, len |-> WindowLen]
Rest(h)   == [first |-> IF h.low THEN WindowLen ELSE 0, len |-> Slabs - WindowLen]

FreeAt(h, at, n) == (at..at + n - 1) \cap h.taken = {}

\* The first run of n free slabs that starts in from..last
FirstFit(h, from, last, n) ==
    LET fit == {at \in from..last : FreeAt(h, at, n)}
    IN  IF fit = {} THEN NoRoom ELSE MinOf(fit)

\* The first fit from a drawn place on, or else before it.
\* Mutant: no run is looked for that would reach over the place
FitAroundShort(h, start, span, last, n) ==
    LET after == FirstFit(h, start, last, n)
    IN  IF after # NoRoom THEN after ELSE FirstFit(h, span.first, start - n, n)
FitAround(h, start, span, last, n) ==
    LET after  == FirstFit(h, start, last, n)
        before == IF start - 1 < span.first THEN span.first ELSE start - 1
    IN  IF after # NoRoom THEN after ELSE FirstFit(h, span.first, before, n)

\* take_slabs: a few drawn places, any of which may be free, then a first fit
TakeSlabs(h, n, span) ==
    LET last   == span.first + span.len - n
        places == span.first..last
    IN  IF n > span.len THEN {NoRoom}
        ELSE {at \in places : FreeAt(h, at, n)} \cup {FitAround(h, s, span, last, n) : s \in places}

----------------------------------------------------------------------------
(***************************************************************************)
(* Pooled classes.  Which free blocks are among the candidates is any: the *)
(* slots of a new slab are shuffled, and candidates are drawn.             *)
(***************************************************************************)
Offer(h, c, p)  == [h EXCEPT !.pool[c] = @ \cup {p}, !.marks = @ \cup {p}]
OvPush(h, c, p) == [h EXCEPT !.over[c] = @ \cup {p}, !.marks = @ \ {p}]

\* refill: freed blocks that overflowed the pool, or a new slab's slots
Overflowed(h, c) ==
    {[h EXCEPT !.pool[c] = S, !.over[c] = @ \ S, !.marks = @ \cup S] :
        S \in {T \in SUBSET h.over[c] :
                 Cardinality(T) = IF Cardinality(h.over[c]) < Pool THEN Cardinality(h.over[c]) ELSE Pool}}
NewSlab(h, c, s) ==
    {[h EXCEPT !.taken = @ \cup {s}, !.pool[c] = S, !.over[c] = Slots(s, c) \ S,
               !.marks = (@ \ Slots(s, c)) \cup S, !.free[c] = @ + PerSlab(c)] :
        S \in {T \in SUBSET Slots(s, c) :
                 Cardinality(T) = IF PerSlab(c) < Pool THEN PerSlab(c) ELSE Pool}}
Refills(h, c) ==
    IF h.over[c] # {} THEN Overflowed(h, c)
    ELSE UNION {NewSlab(h, c, s) : s \in TakeSlabs(h, 1, Window(h)) \ {NoRoom}}

\* Outcomes are a heap and where the raw block is
Fails(h) == {[heap |-> h, raw |-> NoRoom]}
Draws(h, c) ==
    LET full == IF h.pool[c] # {} THEN {h} ELSE Refills(h, c) IN
    IF full = {} THEN Fails(h)
    ELSE UNION {{[heap |-> [g EXCEPT !.pool[c] = @ \ {p}, !.free[c] = @ - 1, !.live[SlabOf(p)] = @ + 1],
                  raw  |-> p] : p \in g.pool[c]} : g \in full}

\* Mutant: the slab's blocks stay on the list of those beside the pool
ReleaseSansList(h, c, s) ==
    IF h.free[c] < 2 * PerSlab(c) THEN h
    ELSE [h EXCEPT !.pool[c] = @ \ (Slots(s, c) \cap h.marks),
                   !.free[c] = @ - PerSlab(c), !.taken = @ \ {s}]
\* A slab without a live block goes back, unless it is most of what the
\* class has free
Release(h, c, s) ==
    IF h.free[c] < 2 * PerSlab(c) THEN h
    ELSE [h EXCEPT !.pool[c] = @ \ (Slots(s, c) \cap h.marks),
                   !.over[c] = @ \ (Slots(s, c) \ h.marks),
                   !.free[c] = @ - PerSlab(c), !.taken = @ \ {s}]

----------------------------------------------------------------------------
(***************************************************************************)
(* malloc and its kin, free and realloc of the guest's heap.               *)
(***************************************************************************)
SlabsFor(c) == (c + Slab - 1) \div Slab
AllocRaw(h, c) ==
    IF Pooled(c) THEN Draws(h, c)
    ELSE {IF s = NoRoom THEN [heap |-> h, raw |-> NoRoom]
          ELSE [heap |-> [h EXCEPT !.taken = @ \cup (s..s + SlabsFor(c) - 1)], raw |-> s * Slab] :
             s \in TakeSlabs(h, SlabsFor(c), Rest(h))}

\* The header goes just below the payload; at the start of the block it
\* covers the second word.
Payload(raw, align) == RoundUp(raw + Header, align)
Alloc(h, size, align) ==
    LET c == ClassFor(Wanted(size, align)) IN
    {IF o.raw = NoRoom THEN [heap |-> h, block |-> {}]
     ELSE LET p == Payload(o.raw, align) IN
          [heap  |-> IF p - Header = o.raw THEN [o.heap EXCEPT !.marks = @ \ {o.raw}] ELSE o.heap,
           block |-> {[raw |-> o.raw, class |-> c, at |-> p, size |-> size, leaked |-> FALSE]}] :
        o \in AllocRaw(h, c)}

FreeRaw(h, b) ==
    IF ~Pooled(b.class)
    THEN [h EXCEPT !.taken = @ \ (SlabOf(b.raw)..SlabOf(b.raw) + SlabsFor(b.class) - 1)]
    ELSE LET s == SlabOf(b.raw)
             f == IF Cardinality(h.pool[b.class]) < Pool THEN Offer(h, b.class, b.raw)
                                                         ELSE OvPush(h, b.class, b.raw)
             g == [f EXCEPT !.free[b.class] = @ + 1, !.live[s] = @ - 1]
         IN  IF g.live[s] = 0 THEN Release(g, b.class, s) ELSE g

Allocates(qs) ==
    /\ "malloc" \in calls /\ Cardinality(blocks) < MaxLive
    /\ \E q \in qs : \E o \in Alloc(heap, q[1], q[2]) :
         heap' = o.heap /\ blocks' = blocks \cup o.block
    /\ UNCHANGED <<calls, ownVars, mapVars>>
Malloc   == Allocates({q \in Requests : q[2] = 1})
Memalign == Allocates({q \in Requests : q[2] > 1})

Free ==
    /\ "free" \in calls
    /\ \E b \in {x \in blocks : ~x.leaked} :
         heap' = FreeRaw(heap, b) /\ blocks' = blocks \ {b}
    /\ UNCHANGED <<calls, ownVars, mapVars>>

\* A thread outside the schedule frees: the block is given up
OutsideFree ==
    /\ "outside" \in calls /\ Cardinality({x \in blocks : x.leaked}) < MaxLeaked
    /\ \E b \in {x \in blocks : ~x.leaked} :
         blocks' = (blocks \ {b}) \cup {[b EXCEPT !.leaked = TRUE]}
    /\ UNCHANGED <<calls, heap, ownVars, mapVars>>

\* Kept where it is if it fits and is not half empty, else moved
Usable(b) == b.raw + b.class - b.at
Realloc ==
    /\ "realloc" \in calls
    /\ \E b \in {x \in blocks : ~x.leaked}, q \in Requests :
         IF q[1] <= Usable(b) /\ q[1] >= Usable(b) \div 2
         THEN blocks' = (blocks \ {b}) \cup {[b EXCEPT !.size = q[1]]} /\ UNCHANGED heap
         ELSE \E o \in Alloc(heap, q[1], 1) :
                /\ heap' = IF o.block = {} THEN heap ELSE FreeRaw(o.heap, b)
                /\ blocks' = IF o.block = {} THEN blocks ELSE (blocks \ {b}) \cup o.block
    /\ UNCHANGED <<calls, ownVars, mapVars>>

----------------------------------------------------------------------------
(***************************************************************************)
(* The supervisor's own heap keeps the compact layout: a free block of the *)
(* class, or the smallest page-multiple one that holds it, or new memory.  *)
(***************************************************************************)
\* Outcomes are where the block is and how big, and the heap without it
Best(size) ==
    LET fit == {x \in own.huge : x[2] >= size}
    IN  {x \in fit : \A y \in fit : x[2] <= y[2]}
Bumped(size) ==
    IF own.bump + size > OwnEnd THEN {}
    ELSE {[at |-> own.bump, size |-> size, own |-> [own EXCEPT !.bump = @ + size]]}
OwnTakes(c) ==
    IF c \in Class
    THEN IF own.lists[c] = <<>> THEN Bumped(c)
         ELSE {[at |-> Head(own.lists[c]), size |-> c, own |-> [own EXCEPT !.lists[c] = Tail(@)]]}
    ELSE IF Best(c) = {} THEN Bumped(c)
         ELSE {[at |-> x[1], size |-> x[2], own |-> [own EXCEPT !.huge = @ \ {x}]] : x \in Best(c)}

OwnAlloc ==
    /\ "own" \in calls /\ Cardinality(ownBlocks) < MaxLive
    /\ \E q \in Requests : \E o \in OwnTakes(ClassFor(Wanted(q[1], 1))) :
         own' = o.own /\ ownBlocks' = ownBlocks \cup {<<o.at, o.size>>}
    /\ UNCHANGED <<calls, heapVars, mapVars>>
OwnFree ==
    /\ "own" \in calls
    /\ \E b \in ownBlocks :
         /\ own' = IF b[2] \in Class THEN [own EXCEPT !.lists[b[2]] = <<b[1]>> \o @]
                                     ELSE [own EXCEPT !.huge = @ \cup {b}]
         /\ ownBlocks' = ownBlocks \ {b}
    /\ UNCHANGED <<calls, heapVars, mapVars>>

----------------------------------------------------------------------------
(***************************************************************************)
(* Where mappings go.                                                      *)
(***************************************************************************)
Stretch(at, len) == at..at + len - 1
NoUnmap == [at |-> 0, len |-> 0, ours |-> FALSE]

\* take: first fit among what was given back, else the next unused stretch.
\* Mutant: the rest of a stretch that was cut keeps its address
FirstBig(len) == MinOf({i \in DOMAIN region.free : region.free[i][2] >= len})
TakeHead(len) ==
    IF \E i \in DOMAIN region.free : region.free[i][2] >= len
    THEN LET i == FirstBig(len)  f == region.free[i] IN
         {[at |-> f[1],
           region |-> [region EXCEPT !.free = IF f[2] = len THEN RemoveAt(@, i)
                                              ELSE [@ EXCEPT ![i] = <<f[1], f[2] - len>>]]]}
    ELSE IF region.next + len > Pages THEN {}
    ELSE {[at |-> region.next, region |-> [region EXCEPT !.next = @ + len]]}
Take(len) ==
    IF \E i \in DOMAIN region.free : region.free[i][2] >= len
    THEN LET i == FirstBig(len)  f == region.free[i] IN
         {[at |-> f[1],
           region |-> [region EXCEPT !.free = IF f[2] = len THEN RemoveAt(@, i)
                                              ELSE [@ EXCEPT ![i] = <<f[1] + len, f[2] - len>>]]]}
    ELSE IF region.next + len > Pages THEN {}
    ELSE {[at |-> region.next, region |-> [region EXCEPT !.next = @ + len]]}

\* give_back: reserved again, if the kernel still has the whole stretch free,
\* and to be used again if a thread of the schedule let it go
GivenBack(r, at, len)   == [r EXCEPT !.free = Append(@, <<at, len>>)]
Reserved(pg, at, len) ==
    IF \A p \in Stretch(at, len) : pg[p] = "nothing"
    THEN [p \in DOMAIN pg |-> IF p \in Stretch(at, len) THEN "reserved" ELSE pg[p]]
    ELSE pg
Becomes(at, len, what) == [p \in DOMAIN page |-> IF p \in Stretch(at, len) THEN what ELSE page[p]]

\* Where the kernel puts a mapping that it is left to place: in a hole of the
\* region, or outside it
Holes(len) == {at \in 0..Pages - len : \A p \in Stretch(at, len) : page[p] = "nothing"}
Elsewhere(len, what) == {page} \cup {Becomes(at, len, what) : at \in Holes(len)}

\* A mapping without a fixed address.  What the kernel refuses there goes
\* back, and the kernel places it, as it does when the region is full.
Maps(what) ==
    /\ "map" \in calls /\ unmap = NoUnmap
    /\ \E len \in Lengths :
         \/ \E o \in Take(len) :
              \/ region' = o.region /\ page' = Becomes(o.at, len, what)
              \/ region' = GivenBack(o.region, o.at, len) /\ page' \in Elsewhere(len, what)
         \/ Take(len) = {} /\ page' \in Elsewhere(len, what) /\ UNCHANGED region
    /\ UNCHANGED <<calls, heapVars, ownVars, unmap>>

Mmap      == Maps("ours")
MachVmMap == Maps("stack")

\* shmat unreserves the stretch first.  A segment the kernel places elsewhere
\* is none of the region's, and shmdt gives back only those attached here.
Shmat ==
    /\ "shm" \in calls /\ unmap = NoUnmap
    /\ \E len \in Lengths : \E o \in Take(len) :
         \/ region' = o.region /\ page' = Becomes(o.at, len, "segment")
         \/ /\ region' = GivenBack(o.region, o.at, len)
            /\ page' = Reserved(Becomes(o.at, len, "nothing"), o.at, len)
    /\ UNCHANGED <<calls, heapVars, ownVars, unmap>>

\* munmap, mach_vm_deallocate and shmdt: the pages are gone first, and given
\* back after that, of a thread of the schedule or outside it
Unmap(what, ours) ==
    /\ unmap = NoUnmap
    /\ \E at \in 0..Pages - 1, len \in Lengths :
         /\ Stretch(at, len) \subseteq DOMAIN page
         /\ \A p \in Stretch(at, len) : page[p] = what
         /\ page' = Becomes(at, len, "nothing")
         /\ unmap' = [at |-> at, len |-> len, ours |-> ours]
    /\ UNCHANGED <<calls, heapVars, ownVars, region>>
GiveBack ==
    /\ unmap # NoUnmap
    /\ page' = Reserved(page, unmap.at, unmap.len)
    /\ region' = IF unmap.ours THEN GivenBack(region, unmap.at, unmap.len) ELSE region
    /\ unmap' = NoUnmap
    /\ UNCHANGED <<calls, heapVars, ownVars>>

\* The stack of a thread that exited is the kernel's to free, with no call
\* to see
StackFreed ==
    /\ "exit" \in calls
    /\ \E at \in 0..Pages - 1, len \in Lengths :
         /\ \A p \in Stretch(at, len) : p \in DOMAIN page /\ page[p] = "stack"
         /\ page' = Becomes(at, len, "nothing")
    /\ UNCHANGED <<calls, heapVars, ownVars, region, unmap>>

\* The kernel places the mapping of an outside thread in a hole.  `race': also
\* in the one that an unmapping has just made.
KernelPlaces ==
    /\ "kernel" \in calls /\ (unmap = NoUnmap \/ "race" \in calls)
    /\ \E len \in Lengths : \E at \in Holes(len) : page' = Becomes(at, len, "outside's")
    /\ UNCHANGED <<calls, heapVars, ownVars, region, unmap>>

----------------------------------------------------------------------------
NoBlocks == [c \in {x \in Class : Pooled(x)} |-> {}]
EmptyHeap(low) ==
    [low |-> low, taken |-> {}, pool |-> NoBlocks, over |-> NoBlocks,
     free |-> [c \in DOMAIN NoBlocks |-> 0], live |-> [s \in 0..Slabs - 1 |-> 0], marks |-> {}]
Init ==
    /\ calls \in Programs
    /\ \E low \in BOOLEAN : heap = EmptyHeap(low)
    /\ blocks = {}
    /\ own = [bump |-> 0, lists |-> [c \in Class |-> <<>>], huge |-> {}]
    /\ ownBlocks = {}
    /\ region = [next |-> 0, free |-> <<>>]
    /\ page = [p \in 0..Pages - 1 |-> "reserved"]
    /\ unmap = NoUnmap

Next ==
    \/ Malloc \/ Memalign \/ Free \/ OutsideFree \/ Realloc
    \/ OwnAlloc \/ OwnFree
    \/ Mmap \/ MachVmMap \/ Shmat \/ GiveBack \/ StackFreed \/ KernelPlaces
    \/ "map" \in calls /\ Unmap("ours", TRUE)
    \/ "shm" \in calls /\ Unmap("segment", TRUE)
    \/ "kernel" \in calls /\ (Unmap("outside's", FALSE) \/ Unmap("ours", FALSE))

Spec == Init /\ [][Next]_vars

----------------------------------------------------------------------------
(***************************************************************************)
(* Properties.                                                             *)
(***************************************************************************)
Bytes(b) == b.at..b.at + b.size - 1

\* No memory is handed out twice.  What a program holds of the heap lies in
\* its block and overlaps nothing else that is held, nor does a block of the
\* supervisor's; and a stretch that will be handed out for the next mapping
\* has nothing mapped in it (take_slabs, draw, release, pop_huge, take).
NothingOverlaps ==
    /\ \A b \in blocks :
         /\ Bytes(b) \subseteq b.raw + Header..b.raw + b.class - 1
         /\ \A d \in blocks \ {b} : Bytes(b) \cap (d.raw..d.raw + d.class - 1) = {}
    /\ \A b \in ownBlocks : \A d \in ownBlocks \ {b} :
         b[1] + b[2] <= d[1] \/ d[1] + d[2] <= b[1]
    /\ \A i \in DOMAIN region.free :
         LET mine == Stretch(region.free[i][1], region.free[i][2]) IN
         /\ \A p \in mine : page[p] = "reserved" /\ p < region.next
         /\ \A j \in DOMAIN region.free \ {i} :
              mine \cap Stretch(region.free[j][1], region.free[j][2]) = {}
    /\ \A p \in DOMAIN page : p >= region.next => page[p] = "reserved"

\* The heap's books are right: every slot of a class's slab is held by the
\* program, or a candidate, or on the list beside them, and only one of these;
\* the counts of live and free blocks say how many; the mark in a free block
\* says where it is; and a slab that is not taken has none of these.
HeapAccounted ==
    LET in(s, S) == {p \in S : SlabOf(p) = s}
        raws     == {b.raw : b \in blocks}
    IN  /\ \A c \in DOMAIN heap.pool :
             /\ heap.free[c] = Cardinality(heap.pool[c]) + Cardinality(heap.over[c])
             /\ heap.pool[c] \cap heap.over[c] = {}
             /\ (heap.pool[c] \cup heap.over[c]) \cap raws = {}
             /\ heap.pool[c] \subseteq heap.marks /\ heap.over[c] \cap heap.marks = {}
             /\ \A p \in heap.pool[c] \cup heap.over[c] :
                  /\ SlabOf(p) \in heap.taken
                  /\ \A q \in Slots(SlabOf(p), c) :
                       q \in heap.pool[c] \cup heap.over[c] \cup raws
        /\ \A s \in 0..Slabs - 1 :
             heap.live[s] = Cardinality({b \in blocks : Pooled(b.class) /\ SlabOf(b.raw) = s})
        /\ \A b \in blocks : SlabOf(b.raw) \in heap.taken

\* A run of slabs is refused only if there is none: the draws and the first
\* fit from a drawn place find any that is left (take_slabs, first_fit).
RoomIsFound ==
    \A span \in {Window(heap), Rest(heap)}, n \in 1..Slabs :
       NoRoom \in TakeSlabs(heap, n, span) =>
          \A at \in span.first..span.first + span.len - n : ~FreeAt(heap, at, n)
=============================================================================
