---------------------------- MODULE MemoryProofs ----------------------------
(***************************************************************************)
(* The memory of a process for slabs, classes, pools and regions of any    *)
(* size: what the searches for room find, and that nothing is handed out   *)
(* twice.                                                                  *)
(***************************************************************************)
EXTENDS Memory, FiniteSetTheorems, SequenceTheorems, WellFoundedInduction, TLAPS

PoolClass == {c \in Class : Pooled(c)}
Units == 0..Slabs * Slab - 1
AllSlabs == 0..Slabs - 1

----------------------------------------------------------------------------
(***************************************************************************)
(* Arithmetic of slabs and classes.                                        *)
(***************************************************************************)

\* A quotient is what it says.
LEMMA Quotient ==
    ASSUME NEW n \in Nat, NEW d \in Nat \ {0}
    PROVE  n \div d \in Nat /\ (n \div d) * d <= n /\ n < (n \div d) * d + d
<1>1. n \div d \in Int /\ n = d * (n \div d) + (n % d) /\ 0 <= n % d /\ n % d < d
  BY SMT
<1>2. n \div d \in Nat
  BY <1>1, SMT
<1> QED BY <1>1, <1>2, SMT

\* One more is at least one length further.
LEMMA ProductGrows ==
    ASSUME NEW a \in Nat, NEW b \in Nat, NEW c \in Nat, a < b
    PROVE  a * c \in Nat /\ b * c \in Nat /\ a * c + c <= b * c
BY SMT

\* Only one quotient leaves a rest.
LEMMA QuotientUnique ==
    ASSUME NEW s \in Nat, NEW r \in Nat, NEW d \in Nat \ {0}, r < d
    PROVE  (s * d + r) \div d = s
<1> DEFINE n == s * d + r
           q == n \div d
<1>1. n \in Nat /\ s * d \in Nat
  BY SMT
<1>2. q \in Nat /\ q * d <= n /\ n < q * d + d
  BY <1>1, Quotient
<1> HIDE DEF q
<1>3. ~(q < s)
  BY <1>1, <1>2, ProductGrows
<1>4. ~(s < q)
  BY <1>1, <1>2, ProductGrows
<1> QED BY <1>2, <1>3, <1>4 DEF q

\* A set of numbers that is not empty has a first one.
LEMMA MinOfLemma == ASSUME NEW S \in SUBSET Nat, S # {} PROVE MinOf(S) \in S /\ \A y \in S : MinOf(S) <= y
<1> DEFINE R == {ss \in Nat \X Nat : ss[1] < ss[2]}
<1>1. IsWellFoundedOn(R, Nat)
  BY NatLessThanWellFounded DEF OpToRel
<1>2. PICK x \in S : \A y \in S : ~(<<y, x>> \in R)
  <2>1. \E x \in S : \A y \in S : ~(<<y, x>> \in R)
    BY <1>1, WFMin, Zenon
  <2> QED BY <2>1
<1>3. \A y \in S : x <= y
  <2> SUFFICES ASSUME NEW y \in S, ~(x <= y) PROVE FALSE
    OBVIOUS
  <2>1. <<y, x>> \in R
    OBVIOUS
  <2> QED BY <1>2, <2>1
<1> QED BY <1>3 DEF MinOf

\* The sizes of things.
LEMMA SizesLemma ==
    /\ {Slab, Slabs, SmallMax, LargeMax, HeapPage, Pool, OwnEnd, Pages} \subseteq Nat \ {0}
    /\ SmallMax < Slab /\ Slab <= LargeMax
    /\ WindowLen \in Nat \ {0} /\ WindowLen <= Slabs
    /\ Class \subseteq Nat \ {0} /\ PoolClass \subseteq 1..Slab /\ LargeMax \in Large
    /\ Large \subseteq 1..LargeMax
    /\ Slabs * Slab \in Nat \ {0}
<1>1. /\ {Slab, Slabs, SmallMax, LargeMax, HeapPage, Pool, OwnEnd, Pages} \subseteq Nat \ {0}
      /\ SmallMax < Slab /\ Slab <= LargeMax /\ WindowLen > 0
  BY HeapAssumption
<1>2. WindowLen \in Nat /\ WindowLen <= Slabs
  BY <1>1 DEF WindowLen
<1>3. Large \subseteq 1..LargeMax /\ LargeMax \in Large
  BY ClassesAssumption DEF Large
<1>4. Class \subseteq Nat \ {0}
  <2>1. SmallMax \in Nat /\ LargeMax \in Nat
    BY <1>1
  <2>2. ASSUME NEW c \in Class PROVE c \in Nat \ {0}
    BY <1>3, <2>1 DEF Class
  <2> QED BY <2>2
<1>5. PoolClass \subseteq 1..Slab
  <2>1. ASSUME NEW c \in PoolClass PROVE c \in 1..Slab
    <3>1. c \in Nat \ {0} /\ c <= Slab
      BY <1>4 DEF PoolClass, Pooled
    <3>2. Slab \in Nat
      BY <1>1
    <3> QED BY <3>1, <3>2
  <2> QED BY <2>1
<1>6. Slabs * Slab \in Nat \ {0}
  BY <1>1, SMT
<1> QED BY <1>1, <1>2, <1>3, <1>4, <1>5, <1>6

\* A slot lies in its slab.
LEMMA SlotLemma ==
    ASSUME NEW s \in Nat, NEW c \in 1..Slab, NEW p \in Slots(s, c)
    PROVE  /\ p \in Nat /\ SlabOf(p) = s /\ s * Slab \in Nat
           /\ s * Slab <= p /\ p + c <= s * Slab + Slab
<1>1. Slab \in Nat \ {0} /\ c \in Nat \ {0}
  BY SizesLemma
<1>2. Slab \div c \in Nat /\ (Slab \div c) * c <= Slab
  BY <1>1, Quotient
<1>3. PICK k \in 0..(Slab \div c) - 1 : p = s * Slab + k * c
  BY DEF Slots
<1>4. k \in Nat /\ k < Slab \div c
  BY <1>2, <1>3
<1>5. k * c \in Nat /\ k * c + c <= (Slab \div c) * c
  BY <1>1, <1>2, <1>4, ProductGrows
<1>6. s * Slab \in Nat
  BY <1>1, SMT
<1> DEFINE r == k * c
           q == (Slab \div c) * c
<1>7. r \in Nat /\ r + c <= q /\ q <= Slab /\ q \in Nat
  BY <1>1, <1>2, <1>5, SMT
<1> HIDE DEF r, q
<1>8. r < Slab /\ p = s * Slab + r
  BY <1>1, <1>3, <1>7 DEF r
<1>9. SlabOf(p) = s
  BY <1>1, <1>7, <1>8, QuotientUnique DEF SlabOf
<1> QED BY <1>1, <1>6, <1>7, <1>8, <1>9

\* Slots of a slab do not overlap.
LEMMA SlotsApart ==
    ASSUME NEW s \in Nat, NEW c \in 1..Slab, NEW p \in Slots(s, c), NEW q \in Slots(s, c), p # q
    PROVE  p + c <= q \/ q + c <= p
<1>1. Slab \in Nat \ {0} /\ c \in Nat \ {0} /\ s * Slab \in Nat /\ Slab \div c \in Nat
  BY SizesLemma, SlotLemma, Quotient
<1>2. PICK k \in 0..(Slab \div c) - 1 : p = s * Slab + k * c
  BY DEF Slots
<1>3. PICK l \in 0..(Slab \div c) - 1 : q = s * Slab + l * c
  BY DEF Slots
<1>4. k \in Nat /\ l \in Nat /\ k # l
  BY <1>1, <1>2, <1>3
<1>5. CASE k < l
  <2>1. k * c \in Nat /\ l * c \in Nat /\ k * c + c <= l * c
    BY <1>1, <1>4, <1>5, ProductGrows
  <2> QED BY <1>1, <1>2, <1>3, <2>1
<1>6. CASE l < k
  <2>1. k * c \in Nat /\ l * c \in Nat /\ l * c + c <= k * c
    BY <1>1, <1>4, <1>6, ProductGrows
  <2> QED BY <1>1, <1>2, <1>3, <2>1
<1> QED BY <1>4, <1>5, <1>6

\* A slab has as many slots as go into it.
LEMMA SlotsCount ==
    ASSUME NEW s \in Nat, NEW c \in 1..Slab
    PROVE  IsFiniteSet(Slots(s, c)) /\ Cardinality(Slots(s, c)) = PerSlab(c)
<1>1. Slab \in Nat \ {0} /\ c \in Nat \ {0} /\ Slab \div c \in Nat
  BY SizesLemma, Quotient
<1> DEFINE K == 0..(Slab \div c) - 1
           f == [k \in K |-> s * Slab + k * c]
<1>2. IsFiniteSet(K) /\ Cardinality(K) = Slab \div c
  <2>1. 0 \in Int /\ (Slab \div c) - 1 \in Int
    BY <1>1
  <2>2. IsFiniteSet(K) /\ Cardinality(K) = IF 0 > (Slab \div c) - 1 THEN 0 ELSE (Slab \div c) - 1 - 0 + 1
    BY <2>1, FS_Interval
  <2> QED BY <1>1, <2>2
<1>3. f \in Surjection(K, Slots(s, c))
  BY DEF Surjection, Slots
<1>4. ASSUME NEW k \in K, NEW l \in K, f[k] = f[l] PROVE k = l
  <2>1. k \in Nat /\ l \in Nat /\ s * Slab \in Nat /\ k * c \in Nat /\ l * c \in Nat
    BY <1>1, SMT
  <2>2. s * Slab + k * c = s * Slab + l * c
    BY <1>4
  <2>3. k * c = l * c
    BY <2>1, <2>2
  <2>4. ~(k < l) /\ ~(l < k)
    BY <1>1, <2>1, <2>3, ProductGrows
  <2> QED BY <2>1, <2>4
<1>5. f \in Bijection(K, Slots(s, c))
  <2>1. f \in [K -> Slots(s, c)]
    BY <1>3 DEF Surjection
  <2>2. f \in Injection(K, Slots(s, c))
    <3> HIDE DEF f
    <3> QED BY <1>4, <2>1 DEF Injection, IsInjective
  <2> QED BY <1>3, <2>2 DEF Bijection
<1>6. ExistsBijection(K, Slots(s, c))
  BY <1>5 DEF ExistsBijection
<1> QED BY <1>2, <1>6, FS_Bijection, Zenon DEF PerSlab

\* A size class holds what it is for (class_for).
LEMMA ClassForLemma ==
    ASSUME NEW raw \in Nat \ {0}
    PROVE  /\ ClassFor(raw) \in Nat \ {0} /\ raw <= ClassFor(raw)
           /\ Pooled(ClassFor(raw)) => ClassFor(raw) \in PoolClass
<1>1. /\ {Slab, SmallMax, LargeMax, HeapPage} \subseteq Nat \ {0} /\ SmallMax < Slab /\ Slab <= LargeMax
      /\ LargeMax \in Large /\ Large \subseteq 1..LargeMax
  BY SizesLemma
<1>2. CASE raw <= SmallMax
  BY <1>1, <1>2 DEF ClassFor, PoolClass, Class
<1>3. CASE raw > SmallMax /\ raw <= LargeMax
  <2> DEFINE S == {s \in Large : raw <= s}
  <2>1. LargeMax \in Nat /\ LargeMax \in Large
    BY <1>1
  <2>2. \A s \in Large : s \in Nat
    <3> SUFFICES ASSUME NEW s \in Large PROVE s \in Nat
      OBVIOUS
    <3>1. s \in 1..LargeMax
      BY <1>1
    <3> QED BY <2>1, <3>1
  <2>3. S \in SUBSET Nat /\ LargeMax \in S
    BY <1>3, <2>1, <2>2
  <2>4. MinOf(S) \in S
    BY <2>3, MinOfLemma
  <2>5. ClassFor(raw) = MinOf(S)
    BY <1>1, <1>3 DEF ClassFor
  <2> HIDE DEF S
  <2>6. MinOf(S) \in Large /\ raw <= MinOf(S)
    BY <2>4 DEF S
  <2>7. MinOf(S) \in Class /\ MinOf(S) \in Nat \ {0}
    BY <1>1, <2>6, SizesLemma DEF Class
  <2> QED BY <2>5, <2>6, <2>7 DEF PoolClass
<1>4. CASE raw > LargeMax
  <2>1. ClassFor(raw) = ((raw + HeapPage - 1) \div HeapPage) * HeapPage
    BY <1>1, <1>4 DEF ClassFor, RoundUp
  <2> DEFINE n == raw + HeapPage - 1
             m == (n \div HeapPage) * HeapPage
  <2>2. n \in Nat
    BY <1>1
  <2>3. n \div HeapPage \in Nat /\ n < m + HeapPage
    BY <1>1, <2>2, Quotient
  <2>4. m \in Nat
    BY <1>1, <2>3, SMT
  <2> HIDE DEF m
  <2>5. raw <= m
    BY <1>1, <2>3, <2>4
  <2>6. ClassFor(raw) = m
    BY <2>1 DEF m
  <2> QED BY <1>1, <1>4, <2>4, <2>5, <2>6 DEF Pooled
<1> QED BY <1>1, <1>2, <1>3, <1>4

\* The payload begins behind the header, at most the alignment further.
LEMMA PayloadLemma ==
    ASSUME NEW raw \in Nat, NEW align \in Nat \ {0}
    PROVE  /\ Payload(raw, align) \in Nat
           /\ raw + Header <= Payload(raw, align) /\ Payload(raw, align) <= raw + align
<1> DEFINE n == raw + 1 + align - 1
           m == (n \div align) * align
<1>1. n \in Nat
  OBVIOUS
<1>2. n \div align \in Nat /\ m <= n /\ n < m + align
  BY <1>1, Quotient
<1>3. m \in Nat
  BY <1>2, SMT
<1>4. Payload(raw, align) = m
  BY DEF Payload, RoundUp, Header
<1> HIDE DEF m
<1> QED BY <1>2, <1>3, <1>4 DEF Header

----------------------------------------------------------------------------
(***************************************************************************)
(* Looking for room.                                                       *)
(***************************************************************************)

\* A first fit is one, and none is refused while there is one (first_fit).
LEMMA FirstFitLemma ==
    ASSUME NEW h, NEW from \in Nat, NEW last \in Int, NEW n \in Nat
    PROVE  \/ FirstFit(h, from, last, n) \in from..last /\ FreeAt(h, FirstFit(h, from, last, n), n)
           \/ FirstFit(h, from, last, n) = NoRoom /\ \A at \in from..last : ~FreeAt(h, at, n)
<1> DEFINE fit == {at \in from..last : FreeAt(h, at, n)}
<1>1. FirstFit(h, from, last, n) = IF fit = {} THEN NoRoom ELSE MinOf(fit)
  BY DEF FirstFit
<1>2. fit \in SUBSET Nat
  OBVIOUS
<1>3. fit # {} => MinOf(fit) \in fit
  BY <1>2, MinOfLemma
<1> QED BY <1>1, <1>3

\* So is one that starts at a drawn place and goes on from the beginning.
LEMMA FitAroundLemma ==
    ASSUME NEW h, NEW first \in Nat, NEW len \in Nat, NEW last \in Nat, NEW n \in Nat, NEW s \in first..last
    PROVE  LET span == [first |-> first, len |-> len]
               at   == FitAround(h, s, span, last, n)
           IN  \/ at \in first..last /\ FreeAt(h, at, n)
               \/ at = NoRoom /\ \A x \in first..last : ~FreeAt(h, x, n)
<1> DEFINE span   == [first |-> first, len |-> len]
           before == IF s - 1 < first THEN first ELSE s - 1
           one    == FirstFit(h, s, last, n)
           two    == FirstFit(h, first, before, n)
<1>1. s \in Nat /\ before \in Int /\ before <= last
  OBVIOUS
<1>2. FitAround(h, s, span, last, n) = IF one # NoRoom THEN one ELSE two
  BY DEF FitAround
<1>3. \/ one \in s..last /\ FreeAt(h, one, n)
      \/ one = NoRoom /\ \A x \in s..last : ~FreeAt(h, x, n)
  BY <1>1, FirstFitLemma
<1>4. \/ two \in first..before /\ FreeAt(h, two, n)
      \/ two = NoRoom /\ \A x \in first..before : ~FreeAt(h, x, n)
  BY <1>1, FirstFitLemma
<1>5. \A x \in first..last : x \in s..last \/ x \in first..before
  BY <1>1
<1> HIDE DEF one, two
<1>6. \A x \in s..last : x # NoRoom /\ x \in first..last
  BY DEF NoRoom
<1>7. \A x \in first..before : x \in first..last
  BY <1>1
<1> QED BY <1>2, <1>3, <1>4, <1>5, <1>6, <1>7

\* Where slabs are looked for
LEMMA SpanLemma ==
    ASSUME NEW h, NEW span \in {Window(h), Rest(h)}
    PROVE  \E first \in Nat, len \in Nat :
             span = [first |-> first, len |-> len] /\ first + len <= Slabs
BY SizesLemma DEF Window, Rest

\* What take_slabs finds is free, and it finds any that is there.
LEMMA TakeSlabsLemma ==
    ASSUME NEW h, NEW span \in {Window(h), Rest(h)}, NEW n \in Nat \ {0}, NEW at \in TakeSlabs(h, n, span)
    PROVE  \/ at \in Nat /\ at + n <= Slabs /\ FreeAt(h, at, n)
           \/ at = NoRoom /\ \A x \in span.first..span.first + span.len - n : ~FreeAt(h, x, n)
<1>1. PICK first \in Nat, len \in Nat : span = [first |-> first, len |-> len] /\ first + len <= Slabs
  BY SpanLemma
<1> DEFINE last == first + len - n
<1>2. span.first = first /\ span.len = len /\ Slabs \in Nat
  BY <1>1, SizesLemma
<1>3. CASE n > len
  <2>1. at = NoRoom
    BY <1>2, <1>3 DEF TakeSlabs
  <2> QED BY <1>2, <1>3, <2>1
<1>4. CASE n <= len
  <2>1. \/ at \in first..last /\ FreeAt(h, at, n)
        \/ \E s \in first..last : at = FitAround(h, s, span, last, n)
    BY <1>2, <1>4 DEF TakeSlabs
  <2>2. last \in Nat
    BY <1>4
  <2>3. ASSUME NEW s \in first..last, at = FitAround(h, s, span, last, n)
        PROVE  \/ at \in first..last /\ FreeAt(h, at, n)
               \/ at = NoRoom /\ \A x \in first..last : ~FreeAt(h, x, n)
    <3>1. LET at2 == FitAround(h, s, [first |-> first, len |-> len], last, n)
          IN  \/ at2 \in first..last /\ FreeAt(h, at2, n)
              \/ at2 = NoRoom /\ \A x \in first..last : ~FreeAt(h, x, n)
      <4> HIDE DEF last
      <4> QED BY <2>2, FitAroundLemma
    <3> QED BY <1>1, <2>3, <3>1
  <2>4. \A x \in first..last : x \in Nat /\ x + n <= Slabs
    BY <1>1, <1>2
  <2> HIDE DEF last
  <2> QED BY <1>2, <2>1, <2>3, <2>4 DEF last
<1> QED BY <1>2, <1>3, <1>4

\* A run of slabs is refused only if there is none, whatever the seed draws
\* (take_slabs, first_fit).
THEOREM RoomIsAlwaysFound == Spec => []RoomIsFound
<1>1. RoomIsFound
  <2> SUFFICES ASSUME NEW span \in {Window(heap), Rest(heap)}, NEW n \in 1..Slabs,
                      NoRoom \in TakeSlabs(heap, n, span)
               PROVE  \A at \in span.first..span.first + span.len - n : ~FreeAt(heap, at, n)
    BY DEF RoomIsFound
  <2>1. n \in Nat \ {0} /\ NoRoom \notin Nat
    BY SizesLemma DEF NoRoom
  <2> QED BY <2>1, TakeSlabsLemma
<1> QED BY <1>1, PTL

----------------------------------------------------------------------------
(***************************************************************************)
(* The region for mappings.                                                *)
(***************************************************************************)
PageStates == {"reserved", "nothing", "ours", "stack", "segment", "outside's"}

\* A page of a stretch that waits to be handed out again
Waits(r, p) == \E i \in DOMAIN r.free : p \in Stretch(r.free[i][1], r.free[i][2])

\* What was given back is reserved and waits once; what was never handed out
\* is reserved.
RegionApart(r, pg) ==
    /\ r \in [next : 0..Pages, free : Seq(Nat \X (Nat \ {0}))]
    /\ pg \in [0..Pages - 1 -> PageStates]
    /\ \A p \in Nat : Waits(r, p) => p < r.next /\ pg[p] = "reserved"
    /\ \A i, j \in DOMAIN r.free : i # j =>
         Stretch(r.free[i][1], r.free[i][2]) \cap Stretch(r.free[j][1], r.free[j][2]) = {}
    /\ \A p \in 0..Pages - 1 : p >= r.next => pg[p] = "reserved"

\* A stretch whose unmapping is under way is a hole.
RegionHolds ==
    /\ RegionApart(region, page)
    /\ unmap \in [at : Nat, len : Nat, ours : BOOLEAN]
    /\ unmap # NoUnmap =>
         unmap.len > 0 /\ \A p \in Stretch(unmap.at, unmap.len) : p < Pages /\ page[p] = "nothing"

\* A page may change if it does not wait and was handed out.
LEMMA PagesChange ==
    ASSUME NEW r, NEW pg, RegionApart(r, pg), NEW pg2 \in [0..Pages - 1 -> PageStates],
           \A p \in 0..Pages - 1 : pg2[p] = pg[p] \/ (p < r.next /\ ~Waits(r, p))
    PROVE  RegionApart(r, pg2)
<1>1. Pages \in Nat /\ r.next \in 0..Pages
  BY SizesLemma DEF RegionApart
<1>2. ASSUME NEW p \in Nat, Waits(r, p) PROVE p < r.next /\ pg2[p] = "reserved"
  <2>1. p < r.next /\ pg[p] = "reserved"
    BY <1>2 DEF RegionApart
  <2> QED BY <1>1, <1>2, <2>1
<1>3. ASSUME NEW p \in 0..Pages - 1, p >= r.next PROVE pg2[p] = "reserved"
  BY <1>1, <1>3 DEF RegionApart
<1> QED BY <1>2, <1>3 DEF RegionApart

\* A page that is not reserved has been handed out and does not wait.
LEMMA InUse ==
    ASSUME NEW r, NEW pg, RegionApart(r, pg), NEW p \in 0..Pages - 1, pg[p] # "reserved"
    PROVE  p < r.next /\ ~Waits(r, p)
<1>1. Pages \in Nat /\ r.next \in 0..Pages /\ p \in Nat
  BY SizesLemma DEF RegionApart
<1> QED BY <1>1 DEF RegionApart

\* A stretch that was handed out, is reserved and does not wait may be given
\* back (give_back).
LEMMA GivenBackLemma ==
    ASSUME NEW r, NEW pg, RegionApart(r, pg), NEW at \in Nat, NEW len \in Nat \ {0},
           at + len <= r.next,
           \A p \in Stretch(at, len) : pg[p] = "reserved" /\ ~Waits(r, p)
    PROVE  RegionApart(GivenBack(r, at, len), pg)
<1> DEFINE q  == GivenBack(r, at, len)
           fr == r.free
           n  == Len(fr)
<1>1. /\ fr \in Seq(Nat \X (Nat \ {0})) /\ n \in Nat /\ DOMAIN fr = 1..n
      /\ r.next \in 0..Pages /\ Pages \in Nat
  BY SizesLemma DEF RegionApart
<1>2. q = [next |-> r.next, free |-> Append(fr, <<at, len>>)]
  <2>1. r \in [next : 0..Pages, free : Seq(Nat \X (Nat \ {0}))]
    BY DEF RegionApart
  <2>2. q = [r EXCEPT !.free = Append(r.free, <<at, len>>)]
    BY DEF GivenBack
  <2> HIDE DEF q
  <2> QED BY <2>1, <2>2
<1>3. /\ Append(fr, <<at, len>>) \in Seq(Nat \X (Nat \ {0}))
      /\ DOMAIN Append(fr, <<at, len>>) = 1..n + 1
      /\ \A i \in 1..n : Append(fr, <<at, len>>)[i] = fr[i]
      /\ Append(fr, <<at, len>>)[n + 1] = <<at, len>>
  BY <1>1
<1>4. /\ q.next = r.next /\ q.free \in Seq(Nat \X (Nat \ {0})) /\ DOMAIN q.free = 1..n + 1
      /\ \A i \in 1..n : q.free[i] = fr[i]
      /\ q.free[n + 1] = <<at, len>>
      /\ q \in [next : 0..Pages, free : Seq(Nat \X (Nat \ {0}))]
  BY <1>1, <1>2, <1>3
<1> HIDE DEF q
<1>5. \A p : Waits(q, p) <=> Waits(r, p) \/ p \in Stretch(at, len)
  <2>1. ASSUME NEW p, Waits(r, p) PROVE Waits(q, p)
    <3>1. PICK i \in 1..n : p \in Stretch(fr[i][1], fr[i][2])
      BY <1>1, <2>1 DEF Waits
    <3>2. i \in DOMAIN q.free /\ q.free[i] = fr[i]
      BY <1>1, <1>4, <3>1
    <3> QED BY <3>1, <3>2, Zenon DEF Waits
  <2>2. ASSUME NEW p \in Stretch(at, len) PROVE Waits(q, p)
    <3>1. n + 1 \in DOMAIN q.free /\ q.free[n + 1][1] = at /\ q.free[n + 1][2] = len
      BY <1>1, <1>4
    <3> QED BY <3>1, Zenon DEF Waits
  <2>3. ASSUME NEW p, Waits(q, p), p \notin Stretch(at, len) PROVE Waits(r, p)
    <3>1. PICK i \in 1..n + 1 : p \in Stretch(q.free[i][1], q.free[i][2])
      BY <1>4, <2>3 DEF Waits
    <3>2. i \in 1..n
      BY <1>1, <1>4, <2>3, <3>1, SMTT(40)
    <3> QED BY <1>1, <1>4, <3>1, <3>2 DEF Waits
  <2> QED BY <2>1, <2>2, <2>3
<1>6. ASSUME NEW p \in Nat, Waits(q, p) PROVE p < q.next /\ pg[p] = "reserved"
  <2>1. CASE Waits(r, p)
    BY <1>4, <2>1 DEF RegionApart
  <2>2. CASE p \in Stretch(at, len)
    BY <1>1, <1>4, <2>2, SMTT(40) DEF Stretch
  <2> QED BY <1>5, <1>6, <2>1, <2>2
<1>7. ASSUME NEW i \in DOMAIN q.free, NEW j \in DOMAIN q.free, i # j
      PROVE  Stretch(q.free[i][1], q.free[i][2]) \cap Stretch(q.free[j][1], q.free[j][2]) = {}
  <2>1. \A k \in 1..n : Stretch(fr[k][1], fr[k][2]) \cap Stretch(at, len) = {}
    BY <1>1 DEF Waits
  <2>2. \A k, l \in 1..n : k # l => Stretch(fr[k][1], fr[k][2]) \cap Stretch(fr[l][1], fr[l][2]) = {}
    BY <1>1 DEF RegionApart
  <2>3. i \in 1..n \/ i = n + 1
    BY <1>1, <1>4, SMTT(40)
  <2>4. j \in 1..n \/ j = n + 1
    BY <1>1, <1>4, SMTT(40)
  <2>5. <<at, len>>[1] = at /\ <<at, len>>[2] = len
    OBVIOUS
  <2> QED BY <1>4, <1>7, <2>1, <2>2, <2>3, <2>4, <2>5, ZenonT(60)
<1>8. \A p \in 0..Pages - 1 : p >= q.next => pg[p] = "reserved"
  BY <1>4 DEF RegionApart
<1>9. pg \in [0..Pages - 1 -> PageStates]
  BY DEF RegionApart
<1> QED BY <1>4, <1>6, <1>7, <1>8, <1>9 DEF RegionApart, q

\* What is left of a list without its i-th entry
LEMMA RemoveAtLemma ==
    ASSUME NEW S, NEW s \in Seq(S), NEW i \in 1..Len(s)
    PROVE  /\ RemoveAt(s, i) \in Seq(S) /\ Len(RemoveAt(s, i)) = Len(s) - 1
           /\ \A k \in 1..Len(s) - 1 : RemoveAt(s, i)[k] = IF k < i THEN s[k] ELSE s[k + 1]
<1>1. Len(s) \in Nat /\ \A k \in 1..Len(s) : s[k] \in S
  OBVIOUS
<1> DEFINE a == SubSeq(s, 1, i - 1)
           b == SubSeq(s, i + 1, Len(s))
<1>2. a \in Seq(S) /\ Len(a) = i - 1 /\ \A k \in 1..i - 1 : a[k] = s[k]
  BY <1>1
<1>3. b \in Seq(S) /\ Len(b) = Len(s) - i /\ \A k \in 1..Len(s) - i : b[k] = s[k + i]
  BY <1>1
<1> HIDE DEF a, b
<1>4. a \o b \in Seq(S) /\ Len(a \o b) = Len(s) - 1
  <2>1. a \o b \in Seq(S)
    BY <1>2, <1>3
  <2>2. Len(a \o b) = Len(a) + Len(b)
    BY <1>2, <1>3, ConcatProperties
  <2> QED BY <1>1, <1>2, <1>3, <2>1, <2>2
<1>5. ASSUME NEW k \in 1..Len(s) - 1 PROVE (a \o b)[k] = IF k < i THEN s[k] ELSE s[k + 1]
  <2>1. (a \o b)[k] = IF k < i THEN a[k] ELSE b[k - (i - 1)]
    BY <1>1, <1>2, <1>3, ConcatProperties
  <2>2. CASE k < i
    <3>1. k \in 1..i - 1
      BY <2>2
    <3> QED BY <1>2, <2>1, <2>2, <3>1
  <2>3. CASE ~(k < i)
    <3>1. k - (i - 1) \in 1..Len(s) - i /\ k - (i - 1) + i = k + 1
      BY <1>1, <2>3
    <3>2. b[k - (i - 1)] = s[k + 1]
      BY <1>3, <3>1
    <3> QED BY <2>1, <2>3, <3>2
  <2> QED BY <2>2, <2>3
<1> QED BY <1>4, <1>5 DEF RemoveAt, a, b

\* What is taken was reserved and waits no more (take).
LEMMA TakeLemma ==
    ASSUME RegionApart(region, page), NEW len \in 1..Pages, NEW o \in Take(len)
    PROVE  /\ RegionApart(o.region, page)
           /\ o.at \in Nat /\ o.at + len <= o.region.next
           /\ \A p \in Stretch(o.at, len) : page[p] = "reserved" /\ ~Waits(o.region, p)
<1> DEFINE fr == region.free
           n  == Len(fr)
<1>1. /\ fr \in Seq(Nat \X (Nat \ {0})) /\ n \in Nat /\ DOMAIN fr = 1..n
      /\ \A i \in 1..n : fr[i] \in Nat \X (Nat \ {0})
  BY DEF RegionApart
<1>2. region = [next |-> region.next, free |-> fr] /\ page \in [0..Pages - 1 -> PageStates]
  BY DEF RegionApart
<1>3. n \in Nat /\ region.next \in 0..Pages /\ Pages \in Nat /\ len \in Nat \ {0}
  BY SizesLemma, <1>1 DEF RegionApart
<1>4. \A i \in 1..n : \A p \in Stretch(fr[i][1], fr[i][2]) : p \in Nat /\ p < region.next /\ page[p] = "reserved"
  <2> SUFFICES ASSUME NEW i \in 1..n, NEW p \in Stretch(fr[i][1], fr[i][2])
               PROVE  p \in Nat /\ p < region.next /\ page[p] = "reserved"
    OBVIOUS
  <2>1. p \in Nat
    BY <1>1 DEF Stretch
  <2>2. Waits(region, p)
    BY <1>1 DEF Waits
  <2> QED BY <2>1, <2>2 DEF RegionApart
<1>5. \A i, j \in 1..n : i # j => Stretch(fr[i][1], fr[i][2]) \cap Stretch(fr[j][1], fr[j][2]) = {}
  BY <1>1 DEF RegionApart
<1>6. \A p \in 0..Pages - 1 : p >= region.next => page[p] = "reserved"
  BY DEF RegionApart
<1>7. region.free = fr
  OBVIOUS
<1> HIDE DEF fr, n
<1>8. CASE \E i \in DOMAIN region.free : region.free[i][2] >= len
  <2> DEFINE i == FirstBig(len)
             f == fr[i]
             S == {x \in DOMAIN region.free : region.free[x][2] >= len}
  <2>1. i \in 1..n /\ f[2] >= len /\ f[1] \in Nat /\ f[2] \in Nat
    <3>1. S \in SUBSET Nat /\ S # {}
      BY <1>8, <1>7, <1>1
    <3>2. MinOf(S) \in S
      BY <3>1, MinOfLemma
    <3>3. i = MinOf(S)
      BY DEF FirstBig
    <3> QED BY <1>7, <1>1, <3>2, <3>3
  <2> DEFINE rest == IF f[2] = len THEN RemoveAt(fr, i) ELSE [fr EXCEPT ![i] = <<f[1] + len, f[2] - len>>]
  <2>2. o = [at |-> f[1], region |-> [region EXCEPT !.free = rest]]
    BY <1>8, <1>7 DEF Take
  <2> HIDE DEF i, rest
  <2>3. o.at = f[1] /\ o.region = [next |-> region.next, free |-> rest]
    <3>1. [region EXCEPT !.free = rest] = [next |-> region.next, free |-> rest]
      BY <1>2
    <3> QED BY <2>2, <3>1
  <2>4. \* every entry is one of the others, or what was cut off
        /\ rest \in Seq(Nat \X (Nat \ {0}))
        /\ \E s \in [DOMAIN rest -> 1..n] :
             /\ \A k, l \in DOMAIN rest : k # l => s[k] # s[l]
             /\ \A k \in DOMAIN rest :
                  \/ s[k] # i /\ rest[k] = fr[s[k]]
                  \/ s[k] = i /\ rest[k] = <<f[1] + len, f[2] - len>> /\ f[2] > len
    <3>1. CASE f[2] = len
      <4>1. rest = RemoveAt(fr, i)
        BY <3>1 DEF rest
      <4>2. /\ rest \in Seq(Nat \X (Nat \ {0})) /\ Len(rest) = n - 1 /\ DOMAIN rest = 1..n - 1
            /\ \A k \in 1..n - 1 : rest[k] = IF k < i THEN fr[k] ELSE fr[k + 1]
        <5>1. fr \in Seq(Nat \X (Nat \ {0})) /\ i \in 1..Len(fr) /\ Len(fr) = n
          BY <1>1, <2>1 DEF n
        <5>2. /\ RemoveAt(fr, i) \in Seq(Nat \X (Nat \ {0})) /\ Len(RemoveAt(fr, i)) = Len(fr) - 1
              /\ \A k \in 1..Len(fr) - 1 : RemoveAt(fr, i)[k] = IF k < i THEN fr[k] ELSE fr[k + 1]
          BY <5>1, RemoveAtLemma
        <5> QED BY <4>1, <5>1, <5>2
      <4> DEFINE s == [k \in 1..n - 1 |-> IF k < i THEN k ELSE k + 1]
      <4>3. s \in [DOMAIN rest -> 1..n]
        BY <1>3, <4>2
      <4>4. ASSUME NEW k \in DOMAIN rest, NEW l \in DOMAIN rest, k # l PROVE s[k] # s[l]
        <5>1. k \in 1..n - 1 /\ l \in 1..n - 1
          BY <4>2
        <5>2. s[k] = (IF k < i THEN k ELSE k + 1) /\ s[l] = (IF l < i THEN l ELSE l + 1)
          BY <5>1
        <5> HIDE DEF s
        <5> QED BY <1>3, <2>1, <4>4, <5>1, <5>2
      <4>5. ASSUME NEW k \in DOMAIN rest PROVE s[k] # i /\ rest[k] = fr[s[k]]
        <5>1. k \in 1..n - 1 /\ rest[k] = IF k < i THEN fr[k] ELSE fr[k + 1]
          BY <4>2
        <5>2. s[k] = IF k < i THEN k ELSE k + 1
          BY <5>1
        <5>3. k \in Nat /\ i \in Nat
          BY <1>3, <2>1, <5>1
        <5> HIDE DEF s, rest
        <5>4. CASE k < i
          BY <5>1, <5>2, <5>3, <5>4
        <5>5. CASE ~(k < i)
          <6>1. s[k] = k + 1 /\ rest[k] = fr[k + 1]
            BY <5>1, <5>2, <5>5
          <6> QED BY <5>3, <5>5, <6>1
        <5> QED BY <5>4, <5>5
      <4> HIDE DEF s
      <4> QED BY <4>2, <4>3, <4>4, <4>5
    <3>2. CASE f[2] # len
      <4>1. f[2] > len /\ <<f[1] + len, f[2] - len>> \in Nat \X (Nat \ {0})
        BY <1>3, <2>1, <3>2
      <4>2. rest = [fr EXCEPT ![i] = <<f[1] + len, f[2] - len>>]
        BY <3>2 DEF rest
      <4>3. /\ rest \in Seq(Nat \X (Nat \ {0})) /\ DOMAIN rest = 1..n
            /\ \A k \in 1..n : rest[k] = IF k = i THEN <<f[1] + len, f[2] - len>> ELSE fr[k]
        BY <1>1, <2>1, <4>1, <4>2
      <4> DEFINE s == [k \in 1..n |-> k]
      <4>4. s \in [DOMAIN rest -> 1..n] /\ \A k \in 1..n : s[k] = k
        BY <4>3
      <4> HIDE DEF s
      <4>5. \A k, l \in DOMAIN rest : k # l => s[k] # s[l]
        BY <4>3, <4>4
      <4>6. \A k \in DOMAIN rest :
              \/ s[k] # i /\ rest[k] = fr[s[k]]
              \/ s[k] = i /\ rest[k] = <<f[1] + len, f[2] - len>> /\ f[2] > len
        BY <4>1, <4>3, <4>4
      <4> QED BY <4>3, <4>4, <4>5, <4>6, Zenon
    <3> QED BY <3>1, <3>2
  <2> DEFINE r == o.region
  <2>5. r.free = rest /\ r.next = region.next /\ r \in [next : 0..Pages, free : Seq(Nat \X (Nat \ {0}))]
    <3>1. rest \in Seq(Nat \X (Nat \ {0}))
      BY <2>4
    <3> QED BY <1>3, <2>3, <3>1
  <2>6. PICK s \in [DOMAIN rest -> 1..n] :
             /\ \A k, l \in DOMAIN rest : k # l => s[k] # s[l]
             /\ \A k \in DOMAIN rest :
                  \/ s[k] # i /\ rest[k] = fr[s[k]]
                  \/ s[k] = i /\ rest[k] = <<f[1] + len, f[2] - len>> /\ f[2] > len
    BY <2>4
  <2> HIDE DEF r, f
  <2>7. ASSUME NEW k \in DOMAIN rest
        PROVE  /\ Stretch(rest[k][1], rest[k][2]) \subseteq Stretch(fr[s[k]][1], fr[s[k]][2])
               /\ Stretch(rest[k][1], rest[k][2]) \cap Stretch(f[1], len) = {}
    <3>1. CASE s[k] # i /\ rest[k] = fr[s[k]]
      <4>1. s[k] \in 1..n /\ Stretch(fr[s[k]][1], fr[s[k]][2]) \cap Stretch(fr[i][1], fr[i][2]) = {}
        BY <1>5, <2>1, <2>6, <3>1
      <4>2. Stretch(f[1], len) \subseteq Stretch(fr[i][1], fr[i][2])
        BY <1>3, <2>1 DEF Stretch, f
      <4> QED BY <3>1, <4>1, <4>2
    <3>2. CASE s[k] = i /\ rest[k] = <<f[1] + len, f[2] - len>> /\ f[2] > len
      <4>1. rest[k][1] = f[1] + len /\ rest[k][2] = f[2] - len /\ fr[s[k]] = f
        BY <3>2 DEF f
      <4> QED BY <1>3, <2>1, <3>2, <4>1 DEF Stretch
    <3> QED BY <2>6, <3>1, <3>2
  <2>8. ASSUME NEW p, Waits(r, p)
        PROVE  /\ p \in Nat => p < r.next /\ page[p] = "reserved"
               /\ p \notin Stretch(f[1], len)
    <3>1. PICK k \in DOMAIN rest : p \in Stretch(rest[k][1], rest[k][2])
      BY <2>5, <2>8 DEF Waits
    <3>2. s[k] \in 1..n /\ p \in Stretch(fr[s[k]][1], fr[s[k]][2])
      BY <2>6, <2>7, <3>1
    <3> QED BY <1>4, <2>5, <2>7, <3>1, <3>2
  <2>9. ASSUME NEW k \in DOMAIN rest, NEW l \in DOMAIN rest, k # l
        PROVE  Stretch(rest[k][1], rest[k][2]) \cap Stretch(rest[l][1], rest[l][2]) = {}
    <3>1. s[k] \in 1..n /\ s[l] \in 1..n /\ s[k] # s[l]
      BY <2>6, <2>9
    <3>2. Stretch(fr[s[k]][1], fr[s[k]][2]) \cap Stretch(fr[s[l]][1], fr[s[l]][2]) = {}
      BY <1>5, <3>1
    <3>3. /\ Stretch(rest[k][1], rest[k][2]) \subseteq Stretch(fr[s[k]][1], fr[s[k]][2])
          /\ Stretch(rest[l][1], rest[l][2]) \subseteq Stretch(fr[s[l]][1], fr[s[l]][2])
      BY <2>7
    <3> QED BY <3>2, <3>3
  <2>10. RegionApart(r, page)
    BY <1>6, <1>2, <2>5, <2>8, <2>9 DEF RegionApart
  <2>11. f[1] + len <= region.next
    <3>1. f[1] + len - 1 \in Stretch(fr[i][1], fr[i][2])
      BY <1>3, <2>1 DEF Stretch, f
    <3>2. f[1] + len - 1 < region.next
      BY <1>4, <2>1, <3>1
    <3> QED BY <1>3, <2>1, <3>2
  <2>12. ASSUME NEW p \in Stretch(f[1], len) PROVE page[p] = "reserved" /\ ~Waits(r, p)
    <3>1. p \in Stretch(fr[i][1], fr[i][2])
      BY <1>3, <2>1 DEF Stretch, f
    <3> QED BY <1>4, <2>1, <2>8, <3>1
  <2> QED BY <2>1, <2>3, <2>5, <2>10, <2>11, <2>12 DEF r
<1>9. CASE ~\E i \in DOMAIN region.free : region.free[i][2] >= len
  <2>1. /\ region.next + len <= Pages
        /\ o = [at |-> region.next, region |-> [region EXCEPT !.next = @ + len]]
    BY <1>3, <1>9 DEF Take
  <2>2. o.at = region.next /\ o.region = [next |-> region.next + len, free |-> fr]
    <3>1. [region EXCEPT !.next = @ + len] = [next |-> region.next + len, free |-> fr]
      BY <1>2
    <3> QED BY <2>1, <3>1
  <2>3. \A p : Waits(o.region, p) <=> Waits(region, p)
    BY <1>7, <2>2 DEF Waits
  <2>4. ASSUME NEW p \in Nat, Waits(o.region, p) PROVE p < region.next /\ page[p] = "reserved"
    BY <2>3, <2>4 DEF RegionApart
  <2>5. RegionApart(o.region, page)
    <3>1. o.region.free = fr /\ o.region.next = region.next + len
      BY <2>2
    <3>2. o.region \in [next : 0..Pages, free : Seq(Nat \X (Nat \ {0}))]
      BY <1>3, <1>1, <2>1, <2>2
    <3>3. \A p \in Nat : Waits(o.region, p) => p < o.region.next /\ page[p] = "reserved"
      BY <1>3, <2>4, <3>1
    <3>4. \A p \in 0..Pages - 1 : p >= o.region.next => page[p] = "reserved"
      BY <1>3, <1>6, <3>1
    <3> QED BY <1>5, <1>1, <1>2, <3>1, <3>2, <3>3, <3>4 DEF RegionApart
  <2>6. ASSUME NEW p \in Stretch(region.next, len) PROVE page[p] = "reserved" /\ ~Waits(o.region, p)
    <3>1. p \in 0..Pages - 1 /\ p >= region.next
      BY <1>3, <2>1 DEF Stretch
    <3> QED BY <1>3, <1>6, <2>4, <3>1
  <2> QED BY <1>3, <2>2, <2>5, <2>6
<1> QED BY <1>8, <1>9

\* What becomes of the pages of a stretch is all that changes.
LEMMA BecomesLemma ==
    ASSUME page \in [0..Pages - 1 -> PageStates], NEW at, NEW len, NEW what \in PageStates
    PROVE  /\ Becomes(at, len, what) \in [0..Pages - 1 -> PageStates]
           /\ \A p \in 0..Pages - 1 :
                Becomes(at, len, what)[p] = IF p \in Stretch(at, len) THEN what ELSE page[p]
BY DEF Becomes

\* A mapping in a stretch that was handed out and does not wait
LEMMA Placed ==
    ASSUME NEW r, RegionApart(r, page), NEW at, NEW len, NEW what \in PageStates,
           \A p \in Stretch(at, len) : p \in 0..Pages - 1 => p < r.next /\ ~Waits(r, p)
    PROVE  RegionApart(r, Becomes(at, len, what))
<1>1. page \in [0..Pages - 1 -> PageStates]
  BY DEF RegionApart
<1> QED BY <1>1, BecomesLemma, PagesChange, ZenonT(60)

\* One in the place of another, or in a hole
LEMMA Replaced ==
    ASSUME NEW r, RegionApart(r, page), NEW at, NEW len, NEW what \in PageStates,
           \A p \in Stretch(at, len) : p \in 0..Pages - 1 => page[p] # "reserved"
    PROVE  RegionApart(r, Becomes(at, len, what))
BY InUse, Placed

\* Reserving again touches holes only.
LEMMA ReservedLemma ==
    ASSUME NEW pg \in [0..Pages - 1 -> PageStates], NEW at, NEW len, Stretch(at, len) \subseteq 0..Pages - 1
    PROVE  /\ Reserved(pg, at, len) \in [0..Pages - 1 -> PageStates]
           /\ \A p \in 0..Pages - 1 :
                \/ Reserved(pg, at, len)[p] = pg[p]
                \/ p \in Stretch(at, len) /\ pg[p] = "nothing"
           /\ (\A p \in Stretch(at, len) : pg[p] = "nothing") =>
                \A p \in 0..Pages - 1 :
                  Reserved(pg, at, len)[p] = IF p \in Stretch(at, len) THEN "reserved" ELSE pg[p]
BY DEF Reserved, PageStates

\* A mapping whose place the supervisor chooses, or leaves to the kernel
LEMMA MapsStep ==
    ASSUME RegionHolds, NEW what \in PageStates, Maps(what)
    PROVE  RegionHolds'
<1>1. RegionApart(region, page) /\ unmap = NoUnmap /\ unmap' = unmap
  BY DEF RegionHolds, Maps
<1>2. SUFFICES RegionApart(region', page')
  BY <1>1 DEF RegionHolds, NoUnmap
<1>3. PICK len \in Lengths :
        \/ \E o \in Take(len) :
             \/ region' = o.region /\ page' = Becomes(o.at, len, what)
             \/ region' = GivenBack(o.region, o.at, len) /\ page' \in Elsewhere(len, what)
        \/ Take(len) = {} /\ page' \in Elsewhere(len, what) /\ UNCHANGED region
  BY DEF Maps
<1>4. len \in 1..Pages /\ len \in Nat \ {0}
  BY HeapAssumption, SizesLemma
<1>5. ASSUME NEW r, RegionApart(r, page), page' \in Elsewhere(len, what)
      PROVE  RegionApart(r, page')
  <2>1. page' = page \/ \E at \in Holes(len) : page' = Becomes(at, len, what)
    BY <1>5 DEF Elsewhere
  <2>2. ASSUME NEW at \in Holes(len) PROVE RegionApart(r, Becomes(at, len, what))
    <3>1. \A p \in Stretch(at, len) : page[p] # "reserved"
      BY DEF Holes
    <3> QED BY <1>5, <3>1, Replaced
  <2> QED BY <1>5, <2>1, <2>2
<1>6. ASSUME NEW o \in Take(len), region' = o.region, page' = Becomes(o.at, len, what)
      PROVE  RegionApart(region', page')
  <2>1. /\ RegionApart(o.region, page) /\ o.at \in Nat /\ o.at + len <= o.region.next
        /\ \A p \in Stretch(o.at, len) : page[p] = "reserved" /\ ~Waits(o.region, p)
    BY <1>1, <1>4, TakeLemma
  <2>2. \A p \in Stretch(o.at, len) : p < o.region.next
    <3>1. o.region.next \in Nat
      BY <2>1, SizesLemma DEF RegionApart
    <3> QED BY <1>4, <2>1, <3>1 DEF Stretch
  <2> QED BY <1>6, <2>1, <2>2, Placed
<1>7. ASSUME NEW o \in Take(len), region' = GivenBack(o.region, o.at, len), page' \in Elsewhere(len, what)
      PROVE  RegionApart(region', page')
  <2>1. /\ RegionApart(o.region, page) /\ o.at \in Nat /\ o.at + len <= o.region.next
        /\ \A p \in Stretch(o.at, len) : page[p] = "reserved" /\ ~Waits(o.region, p)
    BY <1>1, <1>4, TakeLemma
  <2>2. RegionApart(GivenBack(o.region, o.at, len), page)
    BY <1>4, <2>1, GivenBackLemma
  <2> QED BY <1>5, <1>7, <2>2
<1> QED BY <1>1, <1>3, <1>5, <1>6, <1>7

\* A segment goes where the supervisor unreserved a stretch, or elsewhere.
LEMMA ShmatStep == ASSUME RegionHolds, Shmat PROVE RegionHolds'
<1>1. RegionApart(region, page) /\ unmap = NoUnmap /\ unmap' = unmap
  BY DEF RegionHolds, Shmat
<1>2. SUFFICES RegionApart(region', page')
  BY <1>1 DEF RegionHolds, NoUnmap
<1>3. PICK len \in Lengths : \E o \in Take(len) :
        \/ region' = o.region /\ page' = Becomes(o.at, len, "segment")
        \/ /\ region' = GivenBack(o.region, o.at, len)
           /\ page' = Reserved(Becomes(o.at, len, "nothing"), o.at, len)
  BY DEF Shmat
<1>4. PICK o \in Take(len) :
        \/ region' = o.region /\ page' = Becomes(o.at, len, "segment")
        \/ /\ region' = GivenBack(o.region, o.at, len)
           /\ page' = Reserved(Becomes(o.at, len, "nothing"), o.at, len)
  BY <1>3
<1>5. len \in 1..Pages /\ len \in Nat \ {0} /\ Pages \in Nat
  BY HeapAssumption, SizesLemma
<1>6. /\ RegionApart(o.region, page) /\ o.at \in Nat /\ o.at + len <= o.region.next
      /\ \A p \in Stretch(o.at, len) : page[p] = "reserved" /\ ~Waits(o.region, p)
  BY <1>1, <1>5, TakeLemma
<1>7. o.region.next \in 0..Pages /\ page \in [0..Pages - 1 -> PageStates]
  BY <1>6 DEF RegionApart
<1>8. \A p \in Stretch(o.at, len) : p < o.region.next /\ p \in 0..Pages - 1
  BY <1>5, <1>6, <1>7 DEF Stretch
<1>9. CASE region' = o.region /\ page' = Becomes(o.at, len, "segment")
  BY <1>6, <1>8, <1>9, Placed DEF PageStates
<1>10. CASE /\ region' = GivenBack(o.region, o.at, len)
            /\ page' = Reserved(Becomes(o.at, len, "nothing"), o.at, len)
  <2> DEFINE pg == Becomes(o.at, len, "nothing")
  <2>1. /\ pg \in [0..Pages - 1 -> PageStates]
        /\ \A p \in 0..Pages - 1 : pg[p] = IF p \in Stretch(o.at, len) THEN "nothing" ELSE page[p]
    BY <1>7, BecomesLemma DEF PageStates
  <2> HIDE DEF pg
  <2>2. Stretch(o.at, len) \subseteq 0..Pages - 1 /\ \A p \in Stretch(o.at, len) : pg[p] = "nothing"
    BY <1>8, <2>1
  <2>3. /\ page' \in [0..Pages - 1 -> PageStates]
        /\ \A p \in 0..Pages - 1 : page'[p] = IF p \in Stretch(o.at, len) THEN "reserved" ELSE pg[p]
    BY <1>10, <2>1, <2>2, ReservedLemma DEF pg
  <2>4. RegionApart(o.region, page')
    <3>1. \A p \in 0..Pages - 1 : page'[p] = page[p] \/ (p < o.region.next /\ ~Waits(o.region, p))
      BY <1>6, <1>8, <2>1, <2>3
    <3> QED BY <1>6, <2>3, <3>1, PagesChange, ZenonT(60)
  <2>5. \A p \in Stretch(o.at, len) : page'[p] = "reserved" /\ ~Waits(o.region, p)
    BY <1>6, <2>2, <2>3
  <2> QED BY <1>5, <1>6, <1>10, <2>4, <2>5, GivenBackLemma
<1> QED BY <1>4, <1>9, <1>10

\* The pages are gone first.
LEMMA UnmapStep ==
    ASSUME RegionHolds, NEW what \in PageStates \ {"reserved"}, NEW ours \in BOOLEAN, Unmap(what, ours)
    PROVE  RegionHolds'
<1>1. RegionApart(region, page) /\ page \in [0..Pages - 1 -> PageStates] /\ Pages \in Nat
  BY SizesLemma DEF RegionHolds, RegionApart
<1>2. PICK at \in 0..Pages - 1, len \in Lengths :
         /\ Stretch(at, len) \subseteq DOMAIN page
         /\ \A p \in Stretch(at, len) : page[p] = what
         /\ page' = Becomes(at, len, "nothing")
         /\ unmap' = [at |-> at, len |-> len, ours |-> ours]
  BY DEF Unmap
<1>3. len \in 1..Pages
  BY HeapAssumption
<1>4. RegionApart(region', page')
  BY <1>1, <1>2, Replaced DEF Unmap, PageStates
<1>5. \A p \in Stretch(at, len) : p < Pages /\ page'[p] = "nothing"
  BY <1>1, <1>2, BecomesLemma DEF PageStates
<1>6. unmap' \in [at : Nat, len : Nat, ours : BOOLEAN] /\ unmap'.at = at /\ unmap'.len = len
  BY <1>1, <1>2, <1>3
<1> QED BY <1>3, <1>4, <1>5, <1>6 DEF RegionHolds

\* They are reserved and given back after that.
LEMMA GiveBackStep == ASSUME RegionHolds, GiveBack PROVE RegionHolds'
<1> DEFINE at  == unmap.at
           len == unmap.len
<1>1. /\ RegionApart(region, page) /\ at \in Nat /\ len \in Nat /\ len > 0
      /\ \A p \in Stretch(at, len) : p < Pages /\ page[p] = "nothing"
  BY DEF RegionHolds, GiveBack
<1>2. page \in [0..Pages - 1 -> PageStates] /\ Pages \in Nat /\ region.next \in 0..Pages
  BY <1>1, SizesLemma DEF RegionApart
<1>3. /\ RegionApart(region, page) /\ page \in [0..Pages - 1 -> PageStates] /\ Pages \in Nat
      /\ at \in Nat /\ len \in Nat \ {0} /\ region.next \in 0..Pages
      /\ \A p \in Stretch(at, len) : p < Pages /\ page[p] = "nothing"
  <2> HIDE DEF at, len
  <2> QED BY <1>1, <1>2
<1>4. /\ page' = Reserved(page, at, len)
      /\ region' = IF unmap.ours THEN GivenBack(region, at, len) ELSE region
      /\ unmap' = NoUnmap
  BY DEF GiveBack
<1> HIDE DEF at, len
<1>5. Stretch(at, len) \subseteq 0..Pages - 1
  BY <1>3 DEF Stretch
<1>6. /\ page' \in [0..Pages - 1 -> PageStates]
      /\ \A p \in 0..Pages - 1 : page'[p] = IF p \in Stretch(at, len) THEN "reserved" ELSE page[p]
  BY <1>3, <1>4, <1>5, ReservedLemma
<1>7. \A p \in Stretch(at, len) : p < region.next /\ ~Waits(region, p)
  BY <1>3, <1>5, InUse
<1>8. RegionApart(region, page')
  BY <1>3, <1>6, <1>7, PagesChange
<1>9. at + len <= region.next
  <2>1. at + len - 1 \in Stretch(at, len)
    BY <1>3 DEF Stretch
  <2> QED BY <1>3, <1>7, <2>1
<1>10. RegionApart(GivenBack(region, at, len), page')
  BY <1>3, <1>5, <1>6, <1>7, <1>8, <1>9, GivenBackLemma
<1> QED BY <1>4, <1>8, <1>10 DEF RegionHolds, NoUnmap

\* The kernel frees a stack whatever is under way.
LEMMA StackFreedStep == ASSUME RegionHolds, StackFreed PROVE RegionHolds'
<1>1. RegionApart(region, page) /\ page \in [0..Pages - 1 -> PageStates] /\ UNCHANGED <<region, unmap>>
  BY DEF RegionHolds, RegionApart, StackFreed
<1>2. PICK at \in 0..Pages - 1, len \in Lengths :
         /\ \A p \in Stretch(at, len) : p \in DOMAIN page /\ page[p] = "stack"
         /\ page' = Becomes(at, len, "nothing")
  BY DEF StackFreed
<1>3. RegionApart(region', page')
  BY <1>1, <1>2, Replaced DEF PageStates
<1>4. \A p \in 0..Pages - 1 : page[p] = "nothing" => page'[p] = "nothing"
  BY <1>1, <1>2, BecomesLemma DEF PageStates
<1>5. unmap # NoUnmap => \A p \in Stretch(unmap.at, unmap.len) : p \in 0..Pages - 1
  BY SizesLemma DEF RegionHolds, Stretch
<1> QED BY <1>1, <1>3, <1>4, <1>5 DEF RegionHolds

\* The kernel fills a hole, but not the one an unmapping has just made.
LEMMA KernelPlacesStep == ASSUME RegionHolds, "race" \notin calls, KernelPlaces PROVE RegionHolds'
<1>1. RegionApart(region, page) /\ UNCHANGED <<region, unmap>> /\ unmap = NoUnmap
  BY DEF RegionHolds, KernelPlaces
<1>2. PICK len \in Lengths : \E at \in Holes(len) : page' = Becomes(at, len, "outside's")
  BY DEF KernelPlaces
<1>3. PICK at \in Holes(len) : page' = Becomes(at, len, "outside's")
  BY <1>2
<1>4. \A p \in Stretch(at, len) : page[p] # "reserved"
  BY DEF Holes
<1>5. RegionApart(region', page')
  BY <1>1, <1>3, <1>4, Replaced DEF PageStates
<1> QED BY <1>1, <1>5 DEF RegionHolds, NoUnmap

\* No step hands a stretch out twice.
LEMMA RegionStep ==
    ASSUME RegionHolds, "race" \notin calls, [Next]_vars PROVE RegionHolds'
<1>1. CASE UNCHANGED mapVars
  BY <1>1 DEF mapVars, RegionHolds, RegionApart, Waits
<1>2. CASE Mmap \/ MachVmMap
  BY <1>2, MapsStep DEF Mmap, MachVmMap, PageStates
<1>3. CASE Unmap("ours", TRUE) \/ Unmap("segment", TRUE) \/ Unmap("outside's", FALSE) \/ Unmap("ours", FALSE)
  BY <1>3, UnmapStep DEF PageStates
<1>4. CASE Shmat \/ GiveBack \/ StackFreed \/ KernelPlaces
  BY <1>4, ShmatStep, GiveBackStep, StackFreedStep, KernelPlacesStep
<1>5. Malloc \/ Memalign \/ Free \/ OutsideFree \/ Realloc \/ OwnAlloc \/ OwnFree => UNCHANGED mapVars
  BY DEF Malloc, Memalign, Allocates, Free, OutsideFree, Realloc, OwnAlloc, OwnFree
<1>6. UNCHANGED vars => UNCHANGED mapVars
  BY DEF vars, mapVars
<1> QED BY <1>1, <1>2, <1>3, <1>4, <1>5, <1>6 DEF Next

\* Nothing is mapped at first.
LEMMA RegionInit == ASSUME Init PROVE RegionHolds
<1>1. region.next = 0 /\ region.free = <<>> /\ region = [next |-> 0, free |-> <<>>]
      /\ page = [p \in 0..Pages - 1 |-> "reserved"]
  BY DEF Init
<1>2. unmap = NoUnmap /\ NoUnmap \in [at : Nat, len : Nat, ours : BOOLEAN]
  BY DEF Init, NoUnmap
<1>3. region \in [next : 0..Pages, free : Seq(Nat \X (Nat \ {0}))]
  BY <1>1, SizesLemma
<1>4. page \in [0..Pages - 1 -> PageStates] /\ \A p \in 0..Pages - 1 : page[p] = "reserved"
  BY <1>1 DEF PageStates
<1>5. DOMAIN region.free = {}
  BY <1>1
<1>6. \A p : ~Waits(region, p)
  BY <1>5 DEF Waits
<1> QED BY <1>2, <1>3, <1>4, <1>5, <1>6 DEF RegionHolds, RegionApart

----------------------------------------------------------------------------
(***************************************************************************)
(* The supervisor's heap.  A piece is what was cut off its unused end.     *)
(***************************************************************************)
PieceRec == Nat \X (Nat \ {0})
OwnRec   == [bump : 0..OwnEnd, lists : [Class -> Seq(Nat)], huge : SUBSET PieceRec]

Listed(o)    == {x \in PieceRec : x[2] \in Class /\ \E i \in DOMAIN o.lists[x[2]] : o.lists[x[2]][i] = x[1]}
ListedOnce(o) == \A c \in Class : \A i, j \in DOMAIN o.lists[c] : i # j => o.lists[c][i] # o.lists[c][j]
Beside(x, y) == x[1] + x[2] <= y[1] \/ y[1] + y[2] <= x[1]

\* Pieces do not overlap, and each is in one place: in use, on the list of
\* its class or among the big ones.
PiecesApart(o, S) ==
    \A x \in S : x[1] + x[2] <= o.bump /\ \A y \in S : x # y => Beside(x, y)
OwnApart(o, bs) ==
    /\ o \in OwnRec /\ bs \subseteq PieceRec
    /\ PiecesApart(o, bs \cup o.huge \cup Listed(o))
    /\ bs \cap o.huge = {} /\ bs \cap Listed(o) = {} /\ o.huge \cap Listed(o) = {}
    /\ ListedOnce(o)
OwnHolds == OwnApart(own, ownBlocks)

\* A class is a size.
LEMMA ClassSize == ASSUME NEW c \in Class PROVE c \in Nat \ {0}
BY SizesLemma

\* The head of a list goes (pop).
LEMMA ListedTail ==
    ASSUME NEW o \in OwnRec, ListedOnce(o), NEW c \in Class, o.lists[c] # <<>>
    PROVE  LET o2 == [o EXCEPT !.lists[c] = Tail(@)]
               x  == <<Head(o.lists[c]), c>>
           IN  /\ o2 \in OwnRec /\ o2.bump = o.bump /\ o2.huge = o.huge
               /\ Listed(o2) = Listed(o) \ {x} /\ x \in Listed(o) /\ ListedOnce(o2)
<1> DEFINE o2 == [o EXCEPT !.lists[c] = Tail(@)]
           s  == o.lists[c]
           n  == Len(s)
           tl == Tail(s)
           x  == <<Head(s), c>>
<1>1. s \in Seq(Nat) /\ n \in Nat \ {0} /\ DOMAIN s = 1..n /\ \A i \in 1..n : s[i] \in Nat
  BY DEF OwnRec
<1>2. /\ Head(s) = s[1] /\ tl \in Seq(Nat) /\ DOMAIN tl = 1..n - 1
      /\ \A i \in 1..n - 1 : tl[i] = s[i + 1]
  BY <1>1
<1>3. /\ o2.bump = o.bump /\ o2.huge = o.huge /\ o2 \in OwnRec /\ o2.lists[c] = tl
      /\ \A d \in Class : d # c => o2.lists[d] = o.lists[d]
  BY <1>1, <1>2 DEF OwnRec
<1>4. \A i, j \in 1..n : i # j => s[i] # s[j]
  BY <1>1 DEF ListedOnce
<1>5. x \in Listed(o)
  BY <1>1, <1>2, ClassSize DEF Listed, PieceRec
<1> HIDE DEF o2, n, tl
<1>6. ASSUME NEW y \in PieceRec PROVE y \in Listed(o2) <=> y \in Listed(o) /\ y # x
  <2>1. CASE y[2] # c
    <3>1. y # x
      BY <2>1
    <3>2. y[2] \in Class => o2.lists[y[2]] = o.lists[y[2]]
      BY <1>3, <2>1
    <3> QED BY <3>1, <3>2 DEF Listed
  <2>2. CASE y[2] = c
    <3>1. y = x <=> y[1] = s[1]
      BY <1>2, <2>2 DEF PieceRec
    <3>2. y \in Listed(o) <=> \E i \in 1..n : s[i] = y[1]
      BY <1>1, <2>2 DEF Listed
    <3>3. y \in Listed(o2) <=> \E i \in 1..n - 1 : tl[i] = y[1]
      <4>1. o2.lists[y[2]] = tl /\ y[2] \in Class /\ DOMAIN tl = 1..n - 1
        BY <1>1, <1>2, <1>3, <2>2
      <4>2. y \in Listed(o2) <=> \E i \in DOMAIN tl : tl[i] = y[1]
        BY <4>1 DEF Listed
      <4> QED BY <4>1, <4>2
    <3>4. y \in Listed(o2) <=> \E i \in 1..n - 1 : s[i + 1] = y[1]
      BY <1>2, <3>3
    <3>5. ASSUME NEW i \in 1..n - 1 PROVE i + 1 \in 1..n /\ s[i + 1] # s[1]
      BY <1>1, <1>4
    <3>6. ASSUME NEW i \in 1..n, s[i] # s[1] PROVE \E j \in 1..n - 1 : s[j + 1] = s[i]
      <4>1. i - 1 \in 1..n - 1 /\ (i - 1) + 1 = i
        BY <1>1, <3>6
      <4> QED BY <4>1
    <3> HIDE DEF s, x
    <3> QED BY <3>1, <3>2, <3>4, <3>5, <3>6
  <2> QED BY <2>1, <2>2
<1>7. Listed(o2) = Listed(o) \ {x}
  BY <1>6 DEF Listed
<1>8. ListedOnce(o2)
  <2> SUFFICES ASSUME NEW d \in Class, NEW i \in DOMAIN o2.lists[d], NEW j \in DOMAIN o2.lists[d], i # j
               PROVE  o2.lists[d][i] # o2.lists[d][j]
    BY DEF ListedOnce
  <2>1. CASE d # c
    BY <1>3, <2>1 DEF ListedOnce
  <2>2. CASE d = c
    <3>1. i \in 1..n - 1 /\ j \in 1..n - 1
      BY <1>2, <1>3, <2>2
    <3>2. i \in 1..n - 1 /\ j \in 1..n - 1 /\ i + 1 \in 1..n /\ j + 1 \in 1..n
      BY <1>1, <3>1
    <3>3. o2.lists[d][i] = s[i + 1] /\ o2.lists[d][j] = s[j + 1]
      BY <1>2, <1>3, <2>2, <3>2
    <3> QED BY <1>4, <3>2, <3>3
  <2> QED BY <2>1, <2>2
<1> QED BY <1>3, <1>5, <1>7, <1>8 DEF o2

\* A block goes on the list of its class (push).
LEMMA ListedCons ==
    ASSUME NEW o \in OwnRec, ListedOnce(o), NEW x \in PieceRec, x[2] \in Class, x \notin Listed(o)
    PROVE  LET o2 == [o EXCEPT !.lists[x[2]] = <<x[1]>> \o @]
           IN  /\ o2 \in OwnRec /\ o2.bump = o.bump /\ o2.huge = o.huge
               /\ Listed(o2) = Listed(o) \cup {x} /\ ListedOnce(o2)
<1> DEFINE c  == x[2]
           o2 == [o EXCEPT !.lists[c] = <<x[1]>> \o @]
           s  == o.lists[c]
           n  == Len(s)
           z  == <<x[1]>> \o s
<1>1. x[1] \in Nat /\ c \in Class /\ x = <<x[1], c>>
  BY DEF PieceRec
<1>2. s \in Seq(Nat) /\ n \in Nat /\ DOMAIN s = 1..n /\ \A i \in 1..n : s[i] \in Nat
  BY <1>1 DEF OwnRec
<1>3. /\ z \in Seq(Nat) /\ DOMAIN z = 1..n + 1 /\ z[1] = x[1]
      /\ \A i \in 1..n : z[i + 1] = s[i]
  <2>1. <<x[1]>> \in Seq(Nat) /\ Len(<<x[1]>>) = 1 /\ <<x[1]>>[1] = x[1]
    BY <1>1
  <2>2. /\ z \in Seq(Nat) /\ Len(z) = 1 + n
        /\ \A i \in 1..1 + n : z[i] = IF i <= 1 THEN <<x[1]>>[i] ELSE s[i - 1]
    BY <1>2, <2>1, ConcatProperties
  <2> HIDE DEF z, n
  <2>3. z[1] = x[1] /\ DOMAIN z = 1..n + 1
    BY <1>2, <2>1, <2>2
  <2>4. ASSUME NEW i \in 1..n PROVE z[i + 1] = s[i]
    <3>1. i + 1 \in 1..1 + n /\ ~(i + 1 <= 1) /\ (i + 1) - 1 = i
      BY <1>2
    <3> QED BY <2>2, <3>1
  <2> QED BY <2>2, <2>3, <2>4
<1> HIDE DEF z
<1>4. /\ o2.bump = o.bump /\ o2.huge = o.huge /\ o2 \in OwnRec /\ o2.lists[c] = z
      /\ \A d \in Class : d # c => o2.lists[d] = o.lists[d]
  <2>1. o2 = [o EXCEPT !.lists[c] = z]
    BY DEF z
  <2> HIDE DEF o2, c
  <2> QED BY <1>1, <1>3, <2>1 DEF OwnRec
<1>5. \A i, j \in 1..n : i # j => s[i] # s[j]
  BY <1>1, <1>2 DEF ListedOnce
<1>6. \A i \in 1..n : s[i] # x[1]
  BY <1>1, <1>2 DEF Listed
<1> HIDE DEF o2, n
<1>7. ASSUME NEW y \in PieceRec PROVE y \in Listed(o2) <=> y \in Listed(o) \/ y = x
  <2>1. CASE y[2] # c
    <3>1. y[2] \in Class => o2.lists[y[2]] = o.lists[y[2]]
      BY <1>4, <2>1
    <3> QED BY <2>1, <3>1 DEF Listed
  <2>2. CASE y[2] = c
    <3>1. y = x <=> y[1] = x[1]
      BY <1>1, <2>2 DEF PieceRec
    <3>2. y \in Listed(o) <=> \E i \in 1..n : s[i] = y[1]
      BY <1>1, <1>2, <2>2 DEF Listed
    <3>3. y \in Listed(o2) <=> \E i \in 1..n + 1 : z[i] = y[1]
      BY <1>1, <1>3, <1>4, <2>2 DEF Listed
    <3>4. ASSUME NEW i \in 1..n PROVE i + 1 \in 1..n + 1 /\ z[i + 1] = s[i]
      BY <1>2, <1>3
    <3>5. ASSUME NEW i \in 1..n + 1, z[i] # x[1] PROVE \E j \in 1..n : s[j] = z[i]
      <4>1. i - 1 \in 1..n /\ (i - 1) + 1 = i
        BY <1>2, <1>3, <3>5
      <4>2. z[(i - 1) + 1] = s[i - 1]
        BY <1>3, <4>1
      <4> QED BY <4>1, <4>2
    <3>6. 1 \in 1..n + 1 /\ z[1] = x[1]
      BY <1>2, <1>3
    <3> HIDE DEF s, c
    <3> QED BY <3>1, <3>2, <3>3, <3>4, <3>5, <3>6
  <2> QED BY <2>1, <2>2
<1>8. Listed(o2) = Listed(o) \cup {x}
  BY <1>7 DEF Listed
<1>9. ListedOnce(o2)
  <2> SUFFICES ASSUME NEW d \in Class, NEW i \in DOMAIN o2.lists[d], NEW j \in DOMAIN o2.lists[d], i # j
               PROVE  o2.lists[d][i] # o2.lists[d][j]
    BY DEF ListedOnce
  <2>1. CASE d # c
    BY <1>4, <2>1 DEF ListedOnce
  <2>2. CASE d = c
    <3>1. i \in 1..n + 1 /\ j \in 1..n + 1
      BY <1>3, <1>4, <2>2
    <3>2. ASSUME NEW k \in 1..n + 1, k # 1 PROVE k - 1 \in 1..n /\ z[k] = s[k - 1]
      <4>1. k - 1 \in 1..n /\ (k - 1) + 1 = k
        BY <1>2, <3>2
      <4>2. z[(k - 1) + 1] = s[k - 1]
        BY <1>3, <4>1
      <4> QED BY <4>1, <4>2
    <3>3. i # 1 /\ j # 1 => i - 1 # j - 1
      BY <1>2, <3>1
    <3> HIDE DEF s
    <3>4. z[i] # z[j]
      BY <1>3, <1>5, <1>6, <3>1, <3>2, <3>3
    <3> QED BY <1>4, <2>2, <3>4
  <2> QED BY <2>1, <2>2
<1> QED BY <1>4, <1>8, <1>9 DEF o2

\* What is taken is one piece more, or one that was free (alloc_raw, pop_huge).
LEMMA OwnAllocStep == ASSUME OwnHolds, OwnAlloc PROVE OwnHolds'
<1>1. /\ own \in OwnRec /\ ownBlocks \subseteq PieceRec /\ ListedOnce(own)
      /\ PiecesApart(own, ownBlocks \cup own.huge \cup Listed(own))
      /\ ownBlocks \cap own.huge = {} /\ ownBlocks \cap Listed(own) = {} /\ own.huge \cap Listed(own) = {}
  BY DEF OwnHolds, OwnApart
<1>2. PICK q \in Requests : \E o \in OwnTakes(ClassFor(Wanted(q[1], 1))) :
         own' = o.own /\ ownBlocks' = ownBlocks \cup {<<o.at, o.size>>}
  BY DEF OwnAlloc
<1> DEFINE c == ClassFor(Wanted(q[1], 1))
<1>3. c \in Nat \ {0}
  <2>1. q[1] \in Nat
    BY HeapAssumption
  <2>2. Wanted(q[1], 1) \in Nat \ {0}
    BY <2>1 DEF Wanted, Header
  <2> QED BY <2>2, ClassForLemma
<1> HIDE DEF c
<1>4. PICK o \in OwnTakes(c) : own' = o.own /\ ownBlocks' = ownBlocks \cup {<<o.at, o.size>>}
  BY <1>2 DEF c
<1>5. own.bump \in Nat /\ OwnEnd \in Nat /\ own.bump <= OwnEnd /\ own.huge \subseteq PieceRec
      /\ own = [bump |-> own.bump, lists |-> own.lists, huge |-> own.huge]
      /\ own.lists \in [Class -> Seq(Nat)]
  BY <1>1, SizesLemma DEF OwnRec
<1>6. CASE o \in Bumped(c)
  <2>1. /\ own.bump + c <= OwnEnd
        /\ o = [at |-> own.bump, size |-> c, own |-> [own EXCEPT !.bump = @ + c]]
    <3>1. ~(own.bump + c > OwnEnd)
      BY <1>6 DEF Bumped
    <3> QED BY <1>3, <1>6, <1>5, <3>1 DEF Bumped
  <2> DEFINE x == <<own.bump, c>>
  <2>2. /\ own' = [bump |-> own.bump + c, lists |-> own.lists, huge |-> own.huge]
        /\ ownBlocks' = ownBlocks \cup {x}
    BY <1>4, <1>5, <2>1
  <2>3. /\ own'.bump = own.bump + c /\ own'.lists = own.lists /\ own'.huge = own.huge
        /\ own' \in OwnRec
    BY <1>3, <1>5, <2>1, <2>2 DEF OwnRec
  <2>4. Listed(own') = Listed(own) /\ ListedOnce(own')
    BY <1>1, <2>3 DEF Listed, ListedOnce
  <2> DEFINE S == ownBlocks \cup own.huge \cup Listed(own)
  <2>5. S \subseteq PieceRec
    BY <1>1, <1>5 DEF Listed
  <2>6. x \in PieceRec /\ x[1] = own.bump /\ x[2] = c
    BY <1>3, <1>5 DEF PieceRec
  <2> HIDE DEF S, x
  <2>7. ASSUME NEW y \in S PROVE y # x /\ y[1] \in Nat /\ y[2] \in Nat \ {0} /\ y[1] + y[2] <= own.bump
    <3>1. y[1] \in Nat /\ y[2] \in Nat \ {0} /\ y[1] + y[2] <= own.bump
      BY <1>1, <2>5 DEF PiecesApart, S, PieceRec
    <3> QED BY <1>5, <2>6, <3>1
  <2>8. PiecesApart(own', S \cup {x})
    <3>1. ASSUME NEW y \in S \cup {x} PROVE y[1] + y[2] <= own'.bump
      BY <1>3, <1>5, <2>3, <2>6, <2>7
    <3>2. ASSUME NEW y \in S \cup {x}, NEW z \in S \cup {x}, y # z PROVE Beside(y, z)
      BY <1>1, <2>6, <2>7, <3>2 DEF PiecesApart, Beside, S
    <3> QED BY <3>1, <3>2 DEF PiecesApart
  <2>9. ownBlocks' \cup own'.huge \cup Listed(own') = S \cup {x}
    BY <2>2, <2>3, <2>4 DEF S
  <2>10. x \notin own.huge /\ x \notin Listed(own)
    BY <2>7 DEF S
  <2> QED BY <1>1, <2>2, <2>3, <2>4, <2>6, <2>8, <2>9, <2>10 DEF OwnHolds, OwnApart
<1>7. CASE c \in Class /\ own.lists[c] # <<>> /\ o \notin Bumped(c)
  <2> DEFINE x == <<Head(own.lists[c]), c>>
  <2>1. o = [at |-> Head(own.lists[c]), size |-> c, own |-> [own EXCEPT !.lists[c] = Tail(@)]]
    BY <1>7 DEF OwnTakes
  <2>2. own' = [own EXCEPT !.lists[c] = Tail(@)] /\ ownBlocks' = ownBlocks \cup {x}
    BY <1>4, <2>1
  <2>3. /\ own' \in OwnRec /\ own'.bump = own.bump /\ own'.huge = own.huge
        /\ Listed(own') = Listed(own) \ {x} /\ x \in Listed(own) /\ ListedOnce(own')
    BY <1>1, <1>7, <2>2, ListedTail
  <2> HIDE DEF x
  <2>4. ownBlocks' \cup own'.huge \cup Listed(own') = ownBlocks \cup own.huge \cup Listed(own)
    BY <2>2, <2>3
  <2>5. PiecesApart(own', ownBlocks' \cup own'.huge \cup Listed(own'))
    BY <1>1, <2>3, <2>4 DEF PiecesApart
  <2>6. x \in PieceRec
    BY <2>3 DEF Listed
  <2> QED BY <1>1, <2>2, <2>3, <2>5, <2>6 DEF OwnHolds, OwnApart
<1>8. CASE c \notin Class /\ o \notin Bumped(c)
  <2>1. PICK x \in own.huge : o = [at |-> x[1], size |-> x[2], own |-> [own EXCEPT !.huge = @ \ {x}]]
    BY <1>8 DEF OwnTakes, Best
  <2>2. x \in PieceRec /\ <<x[1], x[2]>> = x
    BY <1>5 DEF PieceRec
  <2>3. /\ own' = [bump |-> own.bump, lists |-> own.lists, huge |-> own.huge \ {x}]
        /\ ownBlocks' = ownBlocks \cup {x}
    BY <1>4, <1>5, <2>1, <2>2
  <2>4. /\ own' \in OwnRec /\ own'.bump = own.bump /\ own'.huge = own.huge \ {x} /\ own'.lists = own.lists
    BY <1>1, <1>5, <2>3 DEF OwnRec
  <2>5. Listed(own') = Listed(own) /\ ListedOnce(own')
    BY <1>1, <2>4 DEF Listed, ListedOnce
  <2>6. ownBlocks' \cup own'.huge \cup Listed(own') = ownBlocks \cup own.huge \cup Listed(own)
    BY <2>3, <2>4, <2>5
  <2>7. PiecesApart(own', ownBlocks' \cup own'.huge \cup Listed(own'))
    BY <1>1, <2>4, <2>6 DEF PiecesApart
  <2> QED BY <1>1, <2>2, <2>3, <2>4, <2>5, <2>7 DEF OwnHolds, OwnApart
<1> QED BY <1>6, <1>7, <1>8 DEF OwnTakes

\* What is freed goes to one of two places (free_raw).
LEMMA OwnFreeStep == ASSUME OwnHolds, OwnFree PROVE OwnHolds'
<1>1. /\ own \in OwnRec /\ ownBlocks \subseteq PieceRec /\ ListedOnce(own)
      /\ PiecesApart(own, ownBlocks \cup own.huge \cup Listed(own))
      /\ ownBlocks \cap own.huge = {} /\ ownBlocks \cap Listed(own) = {} /\ own.huge \cap Listed(own) = {}
  BY DEF OwnHolds, OwnApart
<1>2. PICK b \in ownBlocks :
         /\ own' = IF b[2] \in Class THEN [own EXCEPT !.lists[b[2]] = <<b[1]>> \o @]
                                     ELSE [own EXCEPT !.huge = @ \cup {b}]
         /\ ownBlocks' = ownBlocks \ {b}
  BY DEF OwnFree
<1>3. b \in PieceRec /\ b \notin Listed(own) /\ b \notin own.huge
  BY <1>1
<1>4. /\ own' \in OwnRec /\ own'.bump = own.bump /\ ListedOnce(own')
      /\ \/ own'.huge = own.huge /\ Listed(own') = Listed(own) \cup {b}
         \/ own'.huge = own.huge \cup {b} /\ Listed(own') = Listed(own)
  <2>1. CASE b[2] \in Class
    BY <1>1, <1>2, <1>3, <2>1, ListedCons
  <2>2. CASE b[2] \notin Class
    <3>1. own' = [own EXCEPT !.huge = @ \cup {b}]
      BY <1>2, <2>2
    <3>2. own' \in OwnRec /\ own'.bump = own.bump /\ own'.huge = own.huge \cup {b} /\ own'.lists = own.lists
      BY <1>1, <1>3, <3>1 DEF OwnRec
    <3> QED BY <1>1, <3>2 DEF Listed, ListedOnce
  <2> QED BY <2>1, <2>2
<1>5. ownBlocks' \cup own'.huge \cup Listed(own') = ownBlocks \cup own.huge \cup Listed(own)
  BY <1>2, <1>4
<1>6. PiecesApart(own', ownBlocks' \cup own'.huge \cup Listed(own'))
  BY <1>1, <1>4, <1>5 DEF PiecesApart
<1> QED BY <1>1, <1>2, <1>3, <1>4, <1>6 DEF OwnHolds, OwnApart

\* No step gives a piece to two.
LEMMA OwnStep == ASSUME OwnHolds, [Next]_vars PROVE OwnHolds'
<1>1. OwnAlloc \/ OwnFree \/ UNCHANGED ownVars
  BY DEF Next, vars, ownVars, Malloc, Memalign, Allocates, Free, OutsideFree, Realloc, Mmap,
         MachVmMap, Maps, Shmat, Unmap, GiveBack, StackFreed, KernelPlaces
<1>2. UNCHANGED ownVars => OwnHolds'
  BY DEF ownVars, OwnHolds, OwnApart, PiecesApart, Listed, ListedOnce
<1> QED BY <1>1, <1>2, OwnAllocStep, OwnFreeStep

\* The heap is uncut at first.
LEMMA OwnInit == ASSUME Init PROVE OwnHolds
<1>1. /\ own.bump = 0 /\ own.lists = [c \in Class |-> <<>>] /\ own.huge = {} /\ ownBlocks = {}
      /\ own = [bump |-> 0, lists |-> [c \in Class |-> <<>>], huge |-> {}]
  BY DEF Init
<1>2. own \in OwnRec
  BY <1>1, SizesLemma DEF OwnRec
<1>3. Listed(own) = {} /\ ListedOnce(own)
  BY <1>1 DEF Listed, ListedOnce
<1> QED BY <1>1, <1>2, <1>3 DEF OwnHolds, OwnApart, PiecesApart

----------------------------------------------------------------------------
(***************************************************************************)
(* The invariant of the guest's heap, of a heap h and the blocks bs that   *)
(* are held of it: the steps of a call are changes of these two.           *)
(***************************************************************************)
HeapRec == [ low: BOOLEAN, taken: SUBSET AllSlabs, pool: [PoolClass -> SUBSET Units],
             over: [PoolClass -> SUBSET Units], free: [PoolClass -> Int],
             live: [AllSlabs -> Int], marks: SUBSET Units ]
BlockRec == [raw: Units, class: Nat \ {0}, at: Nat, size: Nat, leaked: BOOLEAN]

\* The free slots of a class, the held ones, and all of them
Spare(h, c)    == h.pool[c] \cup h.over[c]
Held(bs, c)    == {b.raw : b \in {x \in bs : x.class = c}}
Mine(h, bs, c) == Spare(h, c) \cup Held(bs, c)

\* What has slabs of its own
Bigs(bs)    == {b \in bs : ~Pooled(b.class)}
SlabsOf(b)  == SlabOf(b.raw)..SlabOf(b.raw) + SlabsFor(b.class) - 1

\* What a program asked for lies in its block, behind the header.
Fits(b) ==
    /\ b.raw + Header <= b.at /\ b.at + b.size <= b.raw + b.class
    /\ Pooled(b.class) => b.class \in PoolClass
    /\ ~Pooled(b.class) => b.raw = SlabOf(b.raw) * Slab

HeapTypes(h, bs) ==
    /\ h \in HeapRec /\ bs \subseteq BlockRec /\ IsFiniteSet(bs)
    /\ \A b \in bs : Fits(b)

\* A slab is of one class, which knows all its slots, or of one big block.
SlabsApart(h, bs) ==
    /\ \A c \in PoolClass : \A p \in Mine(h, bs, c) :
         /\ SlabOf(p) \in h.taken /\ p \in Slots(SlabOf(p), c)
         /\ Slots(SlabOf(p), c) \subseteq Mine(h, bs, c)
         /\ \A d \in PoolClass \ {c} : \A q \in Mine(h, bs, d) : SlabOf(q) # SlabOf(p)
         /\ \A b \in Bigs(bs) : SlabOf(p) \notin SlabsOf(b)
    /\ \A b \in Bigs(bs) :
         /\ SlabsOf(b) \subseteq h.taken
         /\ \A d \in Bigs(bs) \ {b} : SlabsOf(b) \cap SlabsOf(d) = {}

\* A slot is held once or free once, and the mark says where it is free.
SlotsOnce(h, bs) ==
    \A c \in PoolClass :
        /\ h.pool[c] \cap h.over[c] = {} /\ h.pool[c] \subseteq h.marks /\ h.over[c] \cap h.marks = {}
        /\ Spare(h, c) \cap Held(bs, c) = {}
        /\ \A b, d \in {x \in bs : x.class = c} : b # d => b.raw # d.raw

\* The counts are right.
LiveIn(bs, s) == {b \in bs : Pooled(b.class) /\ SlabOf(b.raw) = s}
CountsRight(h, bs) ==
    /\ \A c \in PoolClass : h.free[c] = Cardinality(h.pool[c]) + Cardinality(h.over[c])
    /\ \A s \in AllSlabs : h.live[s] = Cardinality(LiveIn(bs, s))

HeapHolds(h, bs) == HeapTypes(h, bs) /\ SlabsApart(h, bs) /\ SlotsOnce(h, bs) /\ CountsRight(h, bs)

\* Sets of places are finite.
LEMMA PlacesFinite == ASSUME NEW S \in SUBSET Units PROVE IsFiniteSet(S) /\ Cardinality(S) \in Nat
<1>1. IsFiniteSet(Units)
  BY SizesLemma, FS_Interval DEF Units
<1> QED BY <1>1, FS_Subset, FS_CardinalityType

\* The slots of a slab of the region are places of it.
LEMMA SlotsInRegion ==
    ASSUME NEW s \in AllSlabs, NEW c \in PoolClass
    PROVE  Slots(s, c) \subseteq Units /\ \A p \in Slots(s, c) : SlabOf(p) = s
<1>1. s \in Nat /\ s < Slabs /\ c \in 1..Slab /\ Slab \in Nat /\ Slabs \in Nat
  BY SizesLemma DEF AllSlabs
<1>2. s * Slab \in Nat /\ s * Slab + Slab <= Slabs * Slab
  BY <1>1, ProductGrows
<1>3. ASSUME NEW p \in Slots(s, c) PROVE p \in Units /\ SlabOf(p) = s
  <2>1. p \in Nat /\ SlabOf(p) = s /\ p + c <= s * Slab + Slab
    BY <1>1, SlotLemma
  <2> QED BY <1>1, <1>2, <2>1, SizesLemma DEF Units
<1> QED BY <1>3

\* In g the slot p of class c is drawn.
Drawn(h, g, c, p) ==
    /\ g.taken = h.taken /\ g.over = h.over /\ g.marks \in {h.marks, h.marks \ {p}}
    /\ g.pool = [h.pool EXCEPT ![c] = @ \ {p}]
    /\ g.free = [h.free EXCEPT ![c] = @ - 1]
    /\ g.live = [h.live EXCEPT ![SlabOf(p)] = @ + 1]

\* A slot of the pool is drawn for a block (draw).
LEMMA DrawStep ==
    ASSUME NEW h, NEW bs, HeapHolds(h, bs), NEW c \in PoolClass, NEW p \in h.pool[c],
           NEW b \in BlockRec, Fits(b), b.raw = p, b.class = c,
           NEW g \in HeapRec, Drawn(h, g, c, p)
    PROVE  HeapHolds(g, bs \cup {b}) /\ b \notin bs
<1> DEFINE cs == bs \cup {b}
<1> USE DEF Drawn
<1>1. /\ h \in HeapRec /\ bs \subseteq BlockRec /\ IsFiniteSet(bs) /\ (\A x \in bs : Fits(x))
      /\ SlabsApart(h, bs) /\ SlotsOnce(h, bs) /\ CountsRight(h, bs)
      /\ Pooled(c)
  BY DEF HeapHolds, HeapTypes, PoolClass
<1>2. /\ h.pool \in [PoolClass -> SUBSET Units] /\ h.over \in [PoolClass -> SUBSET Units]
      /\ h.free \in [PoolClass -> Int] /\ h.live \in [AllSlabs -> Int]
      /\ h.taken \subseteq AllSlabs
  BY <1>1 DEF HeapRec
<1>3. /\ p \in Spare(h, c) /\ p \notin Held(bs, c) /\ p \notin h.over[c] /\ p \in Units
  BY <1>1, <1>2 DEF Spare, SlotsOnce
<1>4. b \notin bs
  BY <1>3 DEF Held
<1>5. /\ \A d \in PoolClass \ {c} : g.pool[d] = h.pool[d] /\ Held(cs, d) = Held(bs, d) /\ g.free[d] = h.free[d]
      /\ g.pool[c] = h.pool[c] \ {p} /\ Held(cs, c) = Held(bs, c) \cup {p} /\ g.free[c] = h.free[c] - 1
      /\ Bigs(cs) = Bigs(bs)
  <2>1. \A d \in PoolClass \ {c} : g.pool[d] = h.pool[d] /\ g.free[d] = h.free[d]
    BY <1>2
  <2>2. g.pool[c] = h.pool[c] \ {p} /\ g.free[c] = h.free[c] - 1
    BY <1>2
  <2>3. \A d \in PoolClass \ {c} : Held(cs, d) = Held(bs, d)
    BY DEF Held
  <2>4. Held(cs, c) = Held(bs, c) \cup {p}
    BY DEF Held
  <2>5. Bigs(cs) = Bigs(bs)
    BY <1>1 DEF Bigs
  <2> QED BY <2>1, <2>2, <2>3, <2>4, <2>5
<1> HIDE DEF cs
<1>6. \A d \in PoolClass : Mine(g, cs, d) = Mine(h, bs, d)
  BY <1>3, <1>5 DEF Mine, Spare
<1>7. SlabsApart(g, cs)
  BY <1>1, <1>5, <1>6 DEF SlabsApart
<1>8. SlotsOnce(g, cs)
  <2>1. ASSUME NEW d \in PoolClass \ {c}
        PROVE  /\ g.pool[d] \cap g.over[d] = {} /\ g.pool[d] \subseteq g.marks /\ g.over[d] \cap g.marks = {}
               /\ Spare(g, d) \cap Held(cs, d) = {}
               /\ \A x, y \in {z \in cs : z.class = d} : x # y => x.raw # y.raw
    <3>1. p \notin h.pool[d]
      BY <1>1, <1>3, <2>1 DEF SlabsApart, Mine, Spare
    <3>2. \A z \in cs : z.class = d => z \in bs
      BY DEF cs
    <3> QED BY <1>1, <1>5, <3>1, <3>2 DEF SlotsOnce, Spare
  <2>2. /\ g.pool[c] \cap g.over[c] = {} /\ g.pool[c] \subseteq g.marks /\ g.over[c] \cap g.marks = {}
        /\ Spare(g, c) \cap Held(cs, c) = {}
    BY <1>1, <1>3, <1>5 DEF SlotsOnce, Spare
  <2>3. \A x, y \in {z \in cs : z.class = c} : x # y => x.raw # y.raw
    BY <1>1, <1>3 DEF SlotsOnce, Held, cs
  <2> QED BY <2>1, <2>2, <2>3 DEF SlotsOnce
<1>9. CountsRight(g, cs)
  <2>1. ASSUME NEW d \in PoolClass PROVE g.free[d] = Cardinality(g.pool[d]) + Cardinality(g.over[d])
    <3>1. CASE d = c
      <4>1. IsFiniteSet(h.pool[c]) /\ Cardinality(h.pool[c]) \in Nat /\ Cardinality(h.over[c]) \in Nat
        BY <1>2, PlacesFinite
      <4>2. Cardinality(h.pool[c] \ {p}) = Cardinality(h.pool[c]) - 1
        BY <4>1, FS_RemoveElement
      <4> QED BY <1>1, <1>5, <3>1, <4>1, <4>2 DEF CountsRight
    <3> QED BY <1>1, <1>5, <3>1 DEF CountsRight
  <2>2. ASSUME NEW s \in AllSlabs PROVE g.live[s] = Cardinality(LiveIn(cs, s))
    <3>1. CASE s = SlabOf(p)
      <4>1. LiveIn(cs, s) = LiveIn(bs, s) \cup {b} /\ b \notin LiveIn(bs, s)
        BY <1>1, <1>4, <3>1 DEF LiveIn, cs
      <4>2. IsFiniteSet(LiveIn(bs, s))
        BY <1>1, FS_Subset DEF LiveIn
      <4>3. Cardinality(LiveIn(cs, s)) = Cardinality(LiveIn(bs, s)) + 1
        BY <4>1, <4>2, FS_AddElement
      <4> QED BY <1>1, <1>2, <3>1, <4>3 DEF CountsRight
    <3>2. CASE s # SlabOf(p)
      <4>1. LiveIn(cs, s) = LiveIn(bs, s)
        BY <3>2 DEF LiveIn, cs
      <4> QED BY <1>1, <1>2, <3>2, <4>1 DEF CountsRight
    <3> QED BY <3>1, <3>2
  <2> QED BY <2>1, <2>2 DEF CountsRight
<1>10. HeapTypes(g, cs)
  BY <1>1, FS_AddElement DEF HeapTypes, cs
<1> QED BY <1>4, <1>7, <1>8, <1>9, <1>10 DEF HeapHolds, cs

\* A block's slot is one of the free again (free_raw).
LEMMA PutStep ==
    ASSUME NEW h, NEW bs, HeapHolds(h, bs), NEW b \in bs, Pooled(b.class),
           NEW g \in HeapRec, g.taken = h.taken,
           g.free = [h.free EXCEPT ![b.class] = @ + 1],
           g.live = [h.live EXCEPT ![SlabOf(b.raw)] = @ - 1],
           \/ /\ g.pool = [h.pool EXCEPT ![b.class] = @ \cup {b.raw}]
              /\ g.over = h.over /\ g.marks = h.marks \cup {b.raw}
           \/ /\ g.over = [h.over EXCEPT ![b.class] = @ \cup {b.raw}]
              /\ g.pool = h.pool /\ g.marks = h.marks \ {b.raw}
    PROVE  HeapHolds(g, bs \ {b}) /\ b.raw \in Spare(g, b.class)
<1> DEFINE cs == bs \ {b}
           c  == b.class
           p  == b.raw
<1>1. /\ h \in HeapRec /\ bs \subseteq BlockRec /\ IsFiniteSet(bs) /\ (\A x \in bs : Fits(x))
      /\ SlabsApart(h, bs) /\ SlotsOnce(h, bs) /\ CountsRight(h, bs)
      /\ Pooled(c) /\ c \in PoolClass /\ p \in Units
  BY DEF HeapHolds, HeapTypes, Fits, BlockRec
<1>2. /\ h.pool \in [PoolClass -> SUBSET Units] /\ h.over \in [PoolClass -> SUBSET Units]
      /\ h.free \in [PoolClass -> Int] /\ h.live \in [AllSlabs -> Int]
      /\ h.taken \subseteq AllSlabs
  BY <1>1 DEF HeapRec
<1>3. p \in Held(bs, c) /\ p \notin Spare(h, c)
  BY <1>1 DEF Held, SlotsOnce
<1>4. /\ \A d \in PoolClass \ {c} : Held(cs, d) = Held(bs, d) /\ g.free[d] = h.free[d]
      /\ Held(cs, c) = Held(bs, c) \ {p} /\ g.free[c] = h.free[c] + 1
      /\ Bigs(cs) = Bigs(bs)
  <2>1. \A d \in PoolClass \ {c} : g.free[d] = h.free[d]
    BY <1>2
  <2>2. g.free[c] = h.free[c] + 1
    BY <1>1, <1>2
  <2>3. \A d \in PoolClass \ {c} : Held(cs, d) = Held(bs, d)
    BY DEF Held
  <2>4. Held(cs, c) = Held(bs, c) \ {p}
    BY <1>1 DEF Held, SlotsOnce
  <2>5. Bigs(cs) = Bigs(bs)
    BY <1>1 DEF Bigs
  <2> QED BY <2>1, <2>2, <2>3, <2>4, <2>5
<1>5. /\ \A d \in PoolClass \ {c} : g.pool[d] = h.pool[d] /\ g.over[d] = h.over[d]
      /\ \/ g.pool[c] = h.pool[c] \cup {p} /\ g.over[c] = h.over[c] /\ g.marks = h.marks \cup {p}
         \/ g.pool[c] = h.pool[c] /\ g.over[c] = h.over[c] \cup {p} /\ g.marks = h.marks \ {p}
  BY <1>1, <1>2
<1>6. /\ Spare(g, c) = Spare(h, c) \cup {p}
      /\ \A d \in PoolClass \ {c} : Spare(g, d) = Spare(h, d)
  BY <1>5 DEF Spare
<1> HIDE DEF cs, c, p
<1>7. \A d \in PoolClass : Mine(g, cs, d) = Mine(h, bs, d)
  BY <1>3, <1>6, <1>4 DEF Mine
<1>8. SlabsApart(g, cs)
  BY <1>1, <1>4, <1>7 DEF SlabsApart
<1>9. SlotsOnce(g, cs)
  <2>1. ASSUME NEW d \in PoolClass \ {c}
        PROVE  /\ g.pool[d] \cap g.over[d] = {} /\ g.pool[d] \subseteq g.marks /\ g.over[d] \cap g.marks = {}
               /\ Spare(g, d) \cap Held(cs, d) = {}
               /\ \A x, y \in {z \in cs : z.class = d} : x # y => x.raw # y.raw
    <3>1. p \notin Spare(h, d)
      BY <1>1, <1>3, <2>1 DEF SlabsApart, Mine
    <3>2. \A z \in cs : z.class = d => z \in bs
      BY DEF cs
    <3> QED BY <1>1, <1>6, <1>4, <1>5, <3>1, <3>2 DEF SlotsOnce, Spare
  <2>2. /\ g.pool[c] \cap g.over[c] = {} /\ g.pool[c] \subseteq g.marks /\ g.over[c] \cap g.marks = {}
    BY <1>1, <1>3, <1>5 DEF SlotsOnce, Spare
  <2>3. Spare(g, c) \cap Held(cs, c) = {}
    BY <1>1, <1>6, <1>4 DEF SlotsOnce
  <2>4. \A x, y \in {z \in cs : z.class = c} : x # y => x.raw # y.raw
    BY <1>1 DEF SlotsOnce, cs
  <2> QED BY <2>1, <2>2, <2>3, <2>4 DEF SlotsOnce
<1>10. CountsRight(g, cs)
  <2>1. ASSUME NEW d \in PoolClass PROVE g.free[d] = Cardinality(g.pool[d]) + Cardinality(g.over[d])
    <3>1. CASE d = c
      <4>1. /\ IsFiniteSet(h.pool[c]) /\ Cardinality(h.pool[c]) \in Nat
            /\ IsFiniteSet(h.over[c]) /\ Cardinality(h.over[c]) \in Nat
        BY <1>1, <1>2, PlacesFinite
      <4>2. /\ Cardinality(h.pool[c] \cup {p}) = Cardinality(h.pool[c]) + 1
            /\ Cardinality(h.over[c] \cup {p}) = Cardinality(h.over[c]) + 1
        BY <1>3, <4>1, FS_AddElement, ZenonT(60) DEF Spare
      <4>3. h.free[c] = Cardinality(h.pool[c]) + Cardinality(h.over[c])
        BY <1>1 DEF CountsRight
      <4>4. \/ /\ Cardinality(g.pool[c]) = Cardinality(h.pool[c]) + 1
               /\ Cardinality(g.over[c]) = Cardinality(h.over[c])
            \/ /\ Cardinality(g.pool[c]) = Cardinality(h.pool[c])
               /\ Cardinality(g.over[c]) = Cardinality(h.over[c]) + 1
        BY <1>5, <4>2
      <4>5. g.free[c] = h.free[c] + 1
        BY <1>4
      <4> QED BY <3>1, <4>1, <4>3, <4>4, <4>5
    <3> QED BY <1>1, <1>4, <1>5, <3>1 DEF CountsRight
  <2>2. ASSUME NEW s \in AllSlabs PROVE g.live[s] = Cardinality(LiveIn(cs, s))
    <3>1. CASE s = SlabOf(p)
      <4>1. LiveIn(cs, s) = LiveIn(bs, s) \ {b} /\ b \in LiveIn(bs, s)
        BY <1>1, <3>1 DEF LiveIn, cs, c, p
      <4>2. IsFiniteSet(LiveIn(bs, s))
        BY <1>1, FS_Subset DEF LiveIn
      <4>3. Cardinality(LiveIn(cs, s)) = Cardinality(LiveIn(bs, s)) - 1
        BY <4>1, <4>2, FS_RemoveElement
      <4>4. g.live[s] = h.live[s] - 1
        BY <1>2, <3>1 DEF p
      <4> QED BY <1>1, <4>3, <4>4 DEF CountsRight
    <3>2. CASE s # SlabOf(p)
      <4>1. LiveIn(cs, s) = LiveIn(bs, s)
        BY <3>2 DEF LiveIn, cs, p
      <4>2. g.live[s] = h.live[s]
        BY <1>2, <3>2 DEF p
      <4> QED BY <1>1, <4>1, <4>2 DEF CountsRight
    <3> QED BY <3>1, <3>2
  <2> QED BY <2>1, <2>2 DEF CountsRight
<1>11. HeapTypes(g, cs)
  BY <1>1, FS_RemoveElement DEF HeapTypes, cs
<1> QED BY <1>6, <1>8, <1>9, <1>10, <1>11 DEF HeapHolds, cs, c, p

\* Freed slots become the candidates (refill).
LEMMA OverflowedStep ==
    ASSUME NEW h, NEW bs, HeapHolds(h, bs), NEW c \in PoolClass, h.pool[c] = {}, NEW g \in Overflowed(h, c)
    PROVE  HeapHolds(g, bs)
<1>1. /\ h \in HeapRec /\ bs \subseteq BlockRec /\ IsFiniteSet(bs) /\ (\A x \in bs : Fits(x))
      /\ SlabsApart(h, bs) /\ SlotsOnce(h, bs) /\ CountsRight(h, bs)
  BY DEF HeapHolds, HeapTypes
<1>2. /\ h.pool \in [PoolClass -> SUBSET Units] /\ h.over \in [PoolClass -> SUBSET Units]
      /\ h.marks \subseteq Units
  BY <1>1 DEF HeapRec
<1>3. PICK S \in SUBSET h.over[c] : g = [h EXCEPT !.pool[c] = S, !.over[c] = @ \ S, !.marks = @ \cup S]
  BY DEF Overflowed
<1>4. /\ g \in HeapRec /\ g.taken = h.taken /\ g.free = h.free /\ g.live = h.live
      /\ g.marks = h.marks \cup S
      /\ g.pool = [h.pool EXCEPT ![c] = S] /\ g.over = [h.over EXCEPT ![c] = @ \ S]
  BY <1>1, <1>2, <1>3 DEF HeapRec
<1>5. /\ \A d \in PoolClass \ {c} : g.pool[d] = h.pool[d] /\ g.over[d] = h.over[d]
      /\ g.pool[c] = S /\ g.over[c] = h.over[c] \ S
  BY <1>2, <1>4
<1>6. \A d \in PoolClass : Spare(g, d) = Spare(h, d)
  BY <1>5 DEF Spare
<1>7. SlabsApart(g, bs)
  BY <1>1, <1>4, <1>6 DEF SlabsApart, Mine
<1>8. SlotsOnce(g, bs)
  <2>1. ASSUME NEW d \in PoolClass \ {c} PROVE S \cap h.over[d] = {}
    BY <1>1 DEF SlabsApart, Mine, Spare
  <2>2. ASSUME NEW d \in PoolClass \ {c}
        PROVE g.pool[d] \cap g.over[d] = {} /\ g.pool[d] \subseteq g.marks /\ g.over[d] \cap g.marks = {}
    BY <1>1, <1>4, <1>5, <2>1 DEF SlotsOnce
  <2>3. g.pool[c] \cap g.over[c] = {} /\ g.pool[c] \subseteq g.marks /\ g.over[c] \cap g.marks = {}
    BY <1>1, <1>4, <1>5 DEF SlotsOnce
  <2> QED BY <1>1, <1>6, <2>2, <2>3 DEF SlotsOnce
<1>9. CountsRight(g, bs)
  <2>1. ASSUME NEW d \in PoolClass PROVE g.free[d] = Cardinality(g.pool[d]) + Cardinality(g.over[d])
    <3>1. CASE d = c
      <4>1. IsFiniteSet(h.over[c]) /\ IsFiniteSet(S) /\ Cardinality(h.over[c]) \in Nat /\ Cardinality(S) \in Nat
        BY <1>2, PlacesFinite
      <4>2. Cardinality(h.over[c] \ S) = Cardinality(h.over[c]) - Cardinality(h.over[c] \cap S)
        BY <4>1, FS_Difference
      <4>3. h.over[c] \cap S = S /\ Cardinality(h.pool[c]) = 0
        BY FS_EmptySet
      <4>4. h.free[c] = Cardinality(h.pool[c]) + Cardinality(h.over[c])
        BY <1>1 DEF CountsRight
      <4>5. /\ Cardinality(g.pool[c]) = Cardinality(S)
            /\ Cardinality(g.over[c]) = Cardinality(h.over[c]) - Cardinality(S)
        BY <1>5, <4>2, <4>3
      <4>6. g.free[c] = Cardinality(h.over[c])
        BY <1>4, <4>1, <4>3, <4>4
      <4> QED BY <3>1, <4>1, <4>5, <4>6
    <3> QED BY <1>1, <1>4, <1>5, <3>1 DEF CountsRight
  <2> QED BY <1>1, <1>4, <2>1 DEF CountsRight
<1>10. HeapTypes(g, bs)
  BY <1>1, <1>4 DEF HeapTypes
<1> QED BY <1>7, <1>8, <1>9, <1>10 DEF HeapHolds

\* A slab nothing is in becomes the class's (refill).
LEMMA NewSlabStep ==
    ASSUME NEW h, NEW bs, HeapHolds(h, bs), NEW c \in PoolClass, h.pool[c] = {}, h.over[c] = {},
           NEW s \in AllSlabs, s \notin h.taken, NEW g \in NewSlab(h, c, s)
    PROVE  HeapHolds(g, bs)
<1> DEFINE N == Slots(s, c)
<1>1. /\ h \in HeapRec /\ bs \subseteq BlockRec /\ IsFiniteSet(bs) /\ (\A x \in bs : Fits(x))
      /\ SlabsApart(h, bs) /\ SlotsOnce(h, bs) /\ CountsRight(h, bs)
  BY DEF HeapHolds, HeapTypes
<1>2. /\ h.pool \in [PoolClass -> SUBSET Units] /\ h.over \in [PoolClass -> SUBSET Units]
      /\ h.free \in [PoolClass -> Int] /\ h.marks \subseteq Units
  BY <1>1 DEF HeapRec
<1>3. /\ N \subseteq Units /\ (\A p \in N : SlabOf(p) = s)
      /\ IsFiniteSet(N) /\ Cardinality(N) = PerSlab(c) /\ PerSlab(c) \in Nat
  <2>1. s \in Nat /\ c \in 1..Slab
    BY SizesLemma DEF AllSlabs
  <2> QED BY <2>1, SlotsInRegion, SlotsCount, FS_CardinalityType
<1>4. PICK S \in SUBSET N :
         g = [h EXCEPT !.taken = @ \cup {s}, !.pool[c] = S, !.over[c] = N \ S,
                       !.marks = (@ \ N) \cup S, !.free[c] = @ + PerSlab(c)]
  BY DEF NewSlab
<1> HIDE DEF N
<1>5. /\ g \in HeapRec /\ g.taken = h.taken \cup {s} /\ g.live = h.live
      /\ g.marks = (h.marks \ N) \cup S
      /\ g.pool = [h.pool EXCEPT ![c] = S] /\ g.over = [h.over EXCEPT ![c] = N \ S]
      /\ g.free = [h.free EXCEPT ![c] = @ + PerSlab(c)]
  <2>1. /\ g.taken = h.taken \cup {s} /\ g.live = h.live /\ g.low = h.low
        /\ g.marks = (h.marks \ N) \cup S
        /\ g.pool = [h.pool EXCEPT ![c] = S] /\ g.over = [h.over EXCEPT ![c] = N \ S]
        /\ g.free = [h.free EXCEPT ![c] = @ + PerSlab(c)]
        /\ g = [low |-> g.low, taken |-> g.taken, pool |-> g.pool, over |-> g.over,
                free |-> g.free, live |-> g.live, marks |-> g.marks]
    BY <1>1, <1>4 DEF HeapRec
  <2>2. g.pool \in [PoolClass -> SUBSET Units] /\ g.over \in [PoolClass -> SUBSET Units]
    BY <1>2, <1>3, <2>1
  <2>3. g.free \in [PoolClass -> Int] /\ g.marks \subseteq Units
    BY <1>2, <1>3, <2>1
  <2>4. g \in HeapRec
    BY <1>1, <2>1, <2>2, <2>3 DEF HeapRec
  <2> QED BY <2>1, <2>4
<1>6. /\ \A d \in PoolClass \ {c} : g.pool[d] = h.pool[d] /\ g.over[d] = h.over[d] /\ g.free[d] = h.free[d]
      /\ g.pool[c] = S /\ g.over[c] = N \ S /\ g.free[c] = h.free[c] + PerSlab(c)
  BY <1>2, <1>5
<1>7. /\ \A d \in PoolClass \ {c} : Spare(g, d) = Spare(h, d) /\ Mine(g, bs, d) = Mine(h, bs, d)
      /\ Spare(h, c) = {} /\ Spare(g, c) = N /\ Mine(g, bs, c) = Mine(h, bs, c) \cup N
  BY <1>6 DEF Spare, Mine
<1>8. \A d \in PoolClass : \A p \in Mine(h, bs, d) : SlabOf(p) # s /\ p \notin N
  BY <1>1, <1>3 DEF SlabsApart
<1>9. \A b \in Bigs(bs) : s \notin SlabsOf(b)
  BY <1>1 DEF SlabsApart
<1>10. SlabsApart(g, bs)
  <2>1. ASSUME NEW d \in PoolClass, NEW p \in Mine(g, bs, d)
        PROVE  /\ SlabOf(p) \in g.taken /\ p \in Slots(SlabOf(p), d)
               /\ Slots(SlabOf(p), d) \subseteq Mine(g, bs, d)
               /\ \A e \in PoolClass \ {d} : \A q \in Mine(g, bs, e) : SlabOf(q) # SlabOf(p)
               /\ \A b \in Bigs(bs) : SlabOf(p) \notin SlabsOf(b)
    <3>1. CASE p \in N /\ d = c
      BY <1>3, <1>5, <1>7, <1>8, <1>9, <3>1 DEF N
    <3>2. CASE p \in Mine(h, bs, d)
      <4>1. SlabOf(p) # s
        BY <1>8, <3>2
      <4>2. \A e \in PoolClass \ {d} : \A q \in Mine(h, bs, e) : SlabOf(q) # SlabOf(p)
        BY <1>1, <3>2 DEF SlabsApart
      <4>3. \A e \in PoolClass \ {d} : \A q \in Mine(g, bs, e) : SlabOf(q) # SlabOf(p)
        BY <1>3, <1>7, <4>1, <4>2
      <4>4. Mine(h, bs, d) \subseteq Mine(g, bs, d)
        BY <1>7
      <4> QED BY <1>1, <1>5, <3>2, <4>3, <4>4 DEF SlabsApart
    <3> QED BY <1>7, <3>1, <3>2
  <2>2. \A b \in Bigs(bs) :
         /\ SlabsOf(b) \subseteq g.taken
         /\ \A d \in Bigs(bs) \ {b} : SlabsOf(b) \cap SlabsOf(d) = {}
    BY <1>1, <1>5 DEF SlabsApart
  <2> QED BY <2>1, <2>2 DEF SlabsApart
<1>11. SlotsOnce(g, bs)
  <2>1. ASSUME NEW d \in PoolClass \ {c}
        PROVE  g.pool[d] \cap g.over[d] = {} /\ g.pool[d] \subseteq g.marks /\ g.over[d] \cap g.marks = {}
    <3>1. h.pool[d] \cap N = {} /\ h.over[d] \cap N = {}
      BY <1>8 DEF Mine, Spare
    <3> QED BY <1>1, <1>5, <1>6, <3>1 DEF SlotsOnce
  <2>2. g.pool[c] \cap g.over[c] = {} /\ g.pool[c] \subseteq g.marks /\ g.over[c] \cap g.marks = {}
    BY <1>5, <1>6
  <2>3. Spare(g, c) \cap Held(bs, c) = {}
    BY <1>7, <1>8 DEF Mine
  <2> QED BY <1>1, <1>7, <2>1, <2>2, <2>3 DEF SlotsOnce
<1>12. CountsRight(g, bs)
  <2>1. ASSUME NEW d \in PoolClass PROVE g.free[d] = Cardinality(g.pool[d]) + Cardinality(g.over[d])
    <3>1. CASE d = c
      <4>1. IsFiniteSet(S) /\ Cardinality(S) \in Nat
        BY <1>3, PlacesFinite
      <4>2. Cardinality(N \ S) = Cardinality(N) - Cardinality(N \cap S)
        BY <1>3, FS_Difference
      <4>3. N \cap S = S /\ Cardinality(h.pool[c]) = 0 /\ Cardinality(h.over[c]) = 0
        BY FS_EmptySet
      <4>4. h.free[c] = 0
        <5>1. h.free[c] = Cardinality(h.pool[c]) + Cardinality(h.over[c])
          BY <1>1 DEF CountsRight
        <5> QED BY <4>3, <5>1
      <4>5. /\ Cardinality(g.pool[c]) = Cardinality(S)
            /\ Cardinality(g.over[c]) = Cardinality(N) - Cardinality(S)
        BY <1>6, <4>2, <4>3
      <4>6. g.free[c] = Cardinality(N) /\ Cardinality(N) \in Nat
        BY <1>3, <1>6, <4>4
      <4> QED BY <3>1, <4>1, <4>5, <4>6
    <3> QED BY <1>1, <1>6, <3>1 DEF CountsRight
  <2> QED BY <1>1, <1>5, <2>1 DEF CountsRight
<1>13. HeapTypes(g, bs)
  BY <1>1, <1>5 DEF HeapTypes
<1> QED BY <1>10, <1>11, <1>12, <1>13 DEF HeapHolds

\* Either way the class has candidates, and nothing else has changed hands.
LEMMA RefillStep ==
    ASSUME NEW h, NEW bs, HeapHolds(h, bs), NEW c \in PoolClass, h.pool[c] = {}, NEW g \in Refills(h, c)
    PROVE  HeapHolds(g, bs)
<1>1. CASE h.over[c] # {}
  BY <1>1, OverflowedStep DEF Refills
<1>2. CASE h.over[c] = {}
  <2>1. PICK s \in TakeSlabs(h, 1, Window(h)) \ {NoRoom} : g \in NewSlab(h, c, s)
    BY <1>2 DEF Refills
  <2>2. s \in Nat /\ s + 1 <= Slabs /\ FreeAt(h, s, 1)
    BY <2>1, TakeSlabsLemma
  <2>3. s \in AllSlabs /\ s \notin h.taken
    BY <2>2, SizesLemma DEF AllSlabs, FreeAt
  <2> QED BY <1>2, <2>1, <2>3, NewSlabStep
<1> QED BY <1>1, <1>2

\* A slab whose slots are all free leaves the class (release).
LEMMA ReleaseStep ==
    ASSUME NEW h, NEW bs, HeapHolds(h, bs), NEW c \in PoolClass, NEW s \in AllSlabs,
           Slots(s, c) \subseteq Spare(h, c), NEW p0 \in Slots(s, c)
    PROVE  HeapHolds(Release(h, c, s), bs)
<1> DEFINE N == Slots(s, c)
           g == [h EXCEPT !.pool[c] = @ \ (N \cap h.marks), !.over[c] = @ \ (N \ h.marks),
                          !.free[c] = @ - PerSlab(c), !.taken = @ \ {s}]
<1>1. /\ h \in HeapRec /\ bs \subseteq BlockRec /\ IsFiniteSet(bs) /\ (\A x \in bs : Fits(x))
      /\ SlabsApart(h, bs) /\ SlotsOnce(h, bs) /\ CountsRight(h, bs)
  BY DEF HeapHolds, HeapTypes
<1>2. /\ h.pool \in [PoolClass -> SUBSET Units] /\ h.over \in [PoolClass -> SUBSET Units]
      /\ h.free \in [PoolClass -> Int]
  BY <1>1 DEF HeapRec
<1>3. /\ \A p \in N : SlabOf(p) = s
      /\ IsFiniteSet(N) /\ Cardinality(N) = PerSlab(c) /\ PerSlab(c) \in Nat
  <2>1. s \in Nat /\ c \in 1..Slab
    BY SizesLemma DEF AllSlabs
  <2> QED BY <2>1, SlotsInRegion, SlotsCount, FS_CardinalityType
<1>4. Release(h, c, s) \in {h, g}
  BY DEF Release
<1>5. N \subseteq h.pool[c] \cup h.over[c] /\ p0 \in N
  BY DEF Spare
<1>6. /\ h.pool[c] \ (N \cap h.marks) = h.pool[c] \ N /\ h.over[c] \ (N \ h.marks) = h.over[c] \ N
      /\ h.pool[c] \cap h.over[c] = {}
  BY <1>1 DEF SlotsOnce
<1> HIDE DEF N
<1>7. g = [h EXCEPT !.pool[c] = @ \ (N \cap h.marks), !.over[c] = @ \ (N \ h.marks),
                    !.free[c] = @ - PerSlab(c), !.taken = @ \ {s}]
  OBVIOUS
<1> HIDE DEF g
<1>8. /\ g \in HeapRec /\ g.taken = h.taken \ {s} /\ g.live = h.live /\ g.marks = h.marks
      /\ g.pool = [h.pool EXCEPT ![c] = @ \ N] /\ g.over = [h.over EXCEPT ![c] = @ \ N]
      /\ g.free = [h.free EXCEPT ![c] = @ - PerSlab(c)]
  <2>1. /\ g.taken = h.taken \ {s} /\ g.live = h.live /\ g.low = h.low /\ g.marks = h.marks
        /\ g.pool = [h.pool EXCEPT ![c] = @ \ (N \cap h.marks)]
        /\ g.over = [h.over EXCEPT ![c] = @ \ (N \ h.marks)]
        /\ g.free = [h.free EXCEPT ![c] = @ - PerSlab(c)]
        /\ g = [low |-> g.low, taken |-> g.taken, pool |-> g.pool, over |-> g.over,
                free |-> g.free, live |-> g.live, marks |-> g.marks]
    BY <1>1, <1>7 DEF HeapRec
  <2>2. g.pool \in [PoolClass -> SUBSET Units] /\ g.over \in [PoolClass -> SUBSET Units]
    BY <1>2, <2>1
  <2>3. g.free \in [PoolClass -> Int]
    BY <1>2, <1>3, <2>1
  <2>4. g \in HeapRec
    BY <1>1, <2>1, <2>2, <2>3 DEF HeapRec
  <2> QED BY <1>6, <2>1, <2>4
<1>9. /\ \A d \in PoolClass \ {c} : g.pool[d] = h.pool[d] /\ g.over[d] = h.over[d] /\ g.free[d] = h.free[d]
      /\ g.pool[c] = h.pool[c] \ N /\ g.over[c] = h.over[c] \ N /\ g.free[c] = h.free[c] - PerSlab(c)
  BY <1>2, <1>8
<1>10. /\ \A d \in PoolClass \ {c} : Spare(g, d) = Spare(h, d) /\ Mine(g, bs, d) = Mine(h, bs, d)
       /\ Spare(g, c) = Spare(h, c) \ N /\ Mine(g, bs, c) = Mine(h, bs, c) \ N
  <2>1. \A d \in PoolClass \ {c} : Spare(g, d) = Spare(h, d)
    BY <1>9 DEF Spare
  <2>2. Spare(g, c) = Spare(h, c) \ N
    BY <1>9 DEF Spare
  <2>3. Held(bs, c) \cap N = {}
    BY <1>1, <1>5 DEF SlotsOnce, Spare
  <2> QED BY <2>1, <2>2, <2>3 DEF Mine
<1>11. /\ \A d \in PoolClass \ {c} : \A q \in Mine(h, bs, d) : SlabOf(q) # s
       /\ \A p \in Mine(g, bs, c) : SlabOf(p) # s
       /\ \A b \in Bigs(bs) : s \notin SlabsOf(b)
  <2>1. p0 \in Mine(h, bs, c) /\ SlabOf(p0) = s
    BY <1>3, <1>5 DEF Mine, Spare
  <2>2. \A p \in Mine(h, bs, c) : p \in Slots(SlabOf(p), c)
    BY <1>1 DEF SlabsApart
  <2> QED BY <1>1, <1>10, <2>1, <2>2 DEF SlabsApart, N
<1>12. SlabsApart(g, bs)
  <2>1. ASSUME NEW d \in PoolClass, NEW p \in Mine(g, bs, d)
        PROVE  /\ SlabOf(p) \in g.taken /\ p \in Slots(SlabOf(p), d)
               /\ Slots(SlabOf(p), d) \subseteq Mine(g, bs, d)
               /\ \A e \in PoolClass \ {d} : \A q \in Mine(g, bs, e) : SlabOf(q) # SlabOf(p)
               /\ \A b \in Bigs(bs) : SlabOf(p) \notin SlabsOf(b)
    <3>1. p \in Mine(h, bs, d) /\ SlabOf(p) # s
      BY <1>10, <1>11
    <3>2. \A e \in PoolClass : Mine(g, bs, e) \subseteq Mine(h, bs, e)
      BY <1>10
    <3>3. SlabOf(p) \in h.taken /\ p \in Slots(SlabOf(p), d) /\ Slots(SlabOf(p), d) \subseteq Mine(h, bs, d)
      BY <1>1, <3>1 DEF SlabsApart
    <3>4. Slots(SlabOf(p), d) \cap N = {}
      <4>1. SlabOf(p) \in AllSlabs
        BY <1>1, <3>3 DEF HeapRec
      <4> QED BY <1>3, <3>1, <4>1, SlotsInRegion
    <3>5. SlabOf(p) \in g.taken /\ p \in Slots(SlabOf(p), d) /\ Slots(SlabOf(p), d) \subseteq Mine(g, bs, d)
      BY <1>8, <1>10, <3>1, <3>3, <3>4
    <3> QED BY <1>1, <3>1, <3>2, <3>5 DEF SlabsApart
  <2>2. \A b \in Bigs(bs) :
         /\ SlabsOf(b) \subseteq g.taken
         /\ \A d \in Bigs(bs) \ {b} : SlabsOf(b) \cap SlabsOf(d) = {}
    BY <1>1, <1>8, <1>11 DEF SlabsApart
  <2> QED BY <2>1, <2>2 DEF SlabsApart
<1>13. SlotsOnce(g, bs)
  BY <1>1, <1>8, <1>9, <1>10 DEF SlotsOnce
<1>14. CountsRight(g, bs)
  <2>1. ASSUME NEW d \in PoolClass PROVE g.free[d] = Cardinality(g.pool[d]) + Cardinality(g.over[d])
    <3>1. CASE d = c
      <4>1. /\ IsFiniteSet(h.pool[c]) /\ Cardinality(h.pool[c]) \in Nat
            /\ IsFiniteSet(h.over[c]) /\ Cardinality(h.over[c]) \in Nat
        BY <1>2, PlacesFinite
      <4> DEFINE A == h.pool[c] \cap N
                 B == h.over[c] \cap N
      <4>2. /\ Cardinality(h.pool[c] \ N) = Cardinality(h.pool[c]) - Cardinality(A)
            /\ Cardinality(h.over[c] \ N) = Cardinality(h.over[c]) - Cardinality(B)
        BY <4>1, FS_Difference
      <4>3. A \cup B = N /\ A \cap B = {}
        BY <1>6, <1>5
      <4>4. IsFiniteSet(A) /\ IsFiniteSet(B) /\ Cardinality(A) \in Nat /\ Cardinality(B) \in Nat
        BY <4>1, FS_Intersection, FS_CardinalityType
      <4> HIDE DEF A, B
      <4>5. Cardinality(A \cup B) = Cardinality(A) + Cardinality(B) - Cardinality(A \cap B)
        BY <4>4, FS_Union
      <4>6. Cardinality(A \cap B) = 0
        BY <4>3, FS_EmptySet
      <4>7. PerSlab(c) = Cardinality(A) + Cardinality(B)
        <5>1. Cardinality(A \cup B) = PerSlab(c)
          BY <1>3, <4>3
        <5> QED BY <1>3, <4>4, <4>5, <4>6, <5>1
      <4>8. h.free[c] = Cardinality(h.pool[c]) + Cardinality(h.over[c])
        BY <1>1 DEF CountsRight
      <4>9. /\ Cardinality(g.pool[c]) = Cardinality(h.pool[c]) - Cardinality(A)
            /\ Cardinality(g.over[c]) = Cardinality(h.over[c]) - Cardinality(B)
        BY <1>9, <4>2
      <4>10. g.free[c] = h.free[c] - PerSlab(c)
        BY <1>9
      <4> QED BY <3>1, <4>1, <4>4, <4>7, <4>8, <4>9, <4>10
    <3> QED BY <1>1, <1>9, <3>1 DEF CountsRight
  <2> QED BY <1>1, <1>8, <2>1 DEF CountsRight
<1>15. HeapTypes(g, bs)
  BY <1>1, <1>8 DEF HeapTypes
<1> QED BY <1>4, <1>12, <1>13, <1>14, <1>15 DEF HeapHolds

\* A block with slabs of its own takes slabs nothing is in (alloc_large).
LEMMA BigStep ==
    ASSUME NEW h, NEW bs, HeapHolds(h, bs),
           NEW b \in BlockRec, Fits(b), ~Pooled(b.class),
           SlabsOf(b) \subseteq AllSlabs, SlabsOf(b) \cap h.taken = {},
           SlabOf(b.raw) \in SlabsOf(b),
           NEW g \in HeapRec, g.taken = h.taken \cup SlabsOf(b), g.pool = h.pool, g.over = h.over,
           g.free = h.free, g.live = h.live, g.marks \in {h.marks, h.marks \ {b.raw}}
    PROVE  HeapHolds(g, bs \cup {b}) /\ b \notin bs
<1> DEFINE cs == bs \cup {b}
<1>1. /\ h \in HeapRec /\ bs \subseteq BlockRec /\ IsFiniteSet(bs) /\ (\A x \in bs : Fits(x))
      /\ SlabsApart(h, bs) /\ SlotsOnce(h, bs) /\ CountsRight(h, bs)
  BY DEF HeapHolds, HeapTypes
<1>2. \A d \in PoolClass : Spare(g, d) = Spare(h, d)
  BY DEF Spare
<1>3. \A d \in PoolClass : Held(cs, d) = Held(bs, d) /\ \A z \in cs : z.class = d => z \in bs
  BY DEF Held, PoolClass
<1>4. \A d \in PoolClass : Mine(g, cs, d) = Mine(h, bs, d)
  BY <1>2, <1>3 DEF Mine
<1>5. Bigs(cs) = Bigs(bs) \cup {b}
  BY DEF Bigs
<1>6. b \notin bs
  BY <1>1 DEF SlabsApart, Bigs
<1> HIDE DEF cs
<1>7. SlabsApart(g, cs)
  <2>1. ASSUME NEW d \in PoolClass, NEW p \in Mine(h, bs, d)
        PROVE  SlabOf(p) \in g.taken /\ \A x \in Bigs(cs) : SlabOf(p) \notin SlabsOf(x)
    BY <1>1, <1>5 DEF SlabsApart
  <2>2. \A x \in Bigs(cs) :
         /\ SlabsOf(x) \subseteq g.taken
         /\ \A d \in Bigs(cs) \ {x} : SlabsOf(x) \cap SlabsOf(d) = {}
    BY <1>1, <1>5 DEF SlabsApart
  <2> QED BY <1>1, <1>4, <2>1, <2>2 DEF SlabsApart
<1>8. SlotsOnce(g, cs)
  <2>1. ASSUME NEW d \in PoolClass PROVE b.raw \notin h.pool[d]
    BY <1>1 DEF SlabsApart, Mine, Spare
  <2> QED BY <1>1, <1>2, <1>3, <2>1 DEF SlotsOnce
<1>9. CountsRight(g, cs)
  <2>1. \A s \in AllSlabs : LiveIn(cs, s) = LiveIn(bs, s)
    BY DEF LiveIn, cs
  <2> QED BY <1>1, <2>1 DEF CountsRight
<1>10. HeapTypes(g, cs)
  BY <1>1, FS_AddElement DEF HeapTypes, cs
<1> QED BY <1>6, <1>7, <1>8, <1>9, <1>10 DEF HeapHolds, cs

\* And gives them back (free_raw).
LEMMA BigFreeStep ==
    ASSUME NEW h, NEW bs, HeapHolds(h, bs), NEW b \in bs, ~Pooled(b.class),
           NEW g \in HeapRec, g.taken = h.taken \ SlabsOf(b), g.pool = h.pool, g.over = h.over,
           g.free = h.free, g.live = h.live, g.marks = h.marks
    PROVE  HeapHolds(g, bs \ {b})
<1> DEFINE cs == bs \ {b}
<1>1. /\ h \in HeapRec /\ bs \subseteq BlockRec /\ IsFiniteSet(bs) /\ (\A x \in bs : Fits(x))
      /\ SlabsApart(h, bs) /\ SlotsOnce(h, bs) /\ CountsRight(h, bs)
  BY DEF HeapHolds, HeapTypes
<1>2. \A d \in PoolClass : Spare(g, d) = Spare(h, d)
  BY DEF Spare
<1>3. \A d \in PoolClass : Held(cs, d) = Held(bs, d)
  BY DEF Held, PoolClass
<1>4. \A d \in PoolClass : Mine(g, cs, d) = Mine(h, bs, d)
  BY <1>2, <1>3 DEF Mine
<1>5. Bigs(cs) = Bigs(bs) \ {b} /\ b \in Bigs(bs)
  BY DEF Bigs
<1> HIDE DEF cs
<1>6. SlabsApart(g, cs)
  <2>1. ASSUME NEW d \in PoolClass, NEW p \in Mine(h, bs, d)
        PROVE  SlabOf(p) \in g.taken /\ \A x \in Bigs(cs) : SlabOf(p) \notin SlabsOf(x)
    BY <1>1, <1>5 DEF SlabsApart
  <2>2. \A x \in Bigs(cs) :
         /\ SlabsOf(x) \subseteq g.taken
         /\ \A d \in Bigs(cs) \ {x} : SlabsOf(x) \cap SlabsOf(d) = {}
    BY <1>1, <1>5 DEF SlabsApart
  <2> QED BY <1>1, <1>4, <2>1, <2>2 DEF SlabsApart
<1>7. SlotsOnce(g, cs)
  BY <1>1, <1>2, <1>3, ZenonT(60) DEF SlotsOnce, cs
<1>8. CountsRight(g, cs)
  <2>1. \A s \in AllSlabs : LiveIn(cs, s) = LiveIn(bs, s)
    BY DEF LiveIn, cs
  <2> QED BY <1>1, <2>1 DEF CountsRight
<1>9. HeapTypes(g, cs)
  BY <1>1, FS_RemoveElement DEF HeapTypes, cs
<1> QED BY <1>6, <1>7, <1>8, <1>9 DEF HeapHolds, cs

\* What the program makes of a block it holds changes nothing around it
\* (realloc in place, and a free that an outside thread only records).
LEMMA ReplaceStep ==
    ASSUME NEW h, NEW bs, HeapHolds(h, bs), NEW b \in bs, NEW x \in BlockRec, Fits(x),
           x.raw = b.raw, x.class = b.class
    PROVE  HeapHolds(h, (bs \ {b}) \cup {x})
<1> DEFINE cs == (bs \ {b}) \cup {x}
<1>1. /\ h \in HeapRec /\ bs \subseteq BlockRec /\ IsFiniteSet(bs) /\ (\A z \in bs : Fits(z))
      /\ SlabsApart(h, bs) /\ SlotsOnce(h, bs) /\ CountsRight(h, bs)
  BY DEF HeapHolds, HeapTypes
<1>2. \A d : Held(cs, d) = Held(bs, d)
  BY DEF Held
<1>3. \A d \in PoolClass : Mine(h, cs, d) = Mine(h, bs, d)
  BY <1>2 DEF Mine
<1>4. /\ SlabsOf(x) = SlabsOf(b)
      /\ CASE Pooled(b.class) -> Bigs(cs) = Bigs(bs)
           [] OTHER           -> Bigs(cs) = (Bigs(bs) \ {b}) \cup {x} /\ b \in Bigs(bs)
  BY DEF Bigs, SlabsOf
<1>5. \A d \in PoolClass : \A y, z \in {w \in cs : w.class = d} : y # z => y.raw # z.raw
  BY <1>1 DEF SlotsOnce
<1> HIDE DEF cs
<1>6. SlabsApart(h, cs)
  <2>1. ASSUME NEW d \in PoolClass, NEW p \in Mine(h, bs, d)
        PROVE  \A z \in Bigs(cs) : SlabOf(p) \notin SlabsOf(z)
    BY <1>1, <1>4 DEF SlabsApart
  <2>2. \A z \in Bigs(cs) :
         /\ SlabsOf(z) \subseteq h.taken
         /\ \A d \in Bigs(cs) \ {z} : SlabsOf(z) \cap SlabsOf(d) = {}
    BY <1>1, <1>4 DEF SlabsApart
  <2> QED BY <1>1, <1>3, <2>1, <2>2 DEF SlabsApart
<1>7. SlotsOnce(h, cs)
  BY <1>1, <1>2, <1>5 DEF SlotsOnce
<1>8. CountsRight(h, cs)
  <2>1. ASSUME NEW s \in AllSlabs PROVE Cardinality(LiveIn(cs, s)) = Cardinality(LiveIn(bs, s))
    <3>1. CASE Pooled(b.class) /\ SlabOf(b.raw) = s
      <4> DEFINE L == LiveIn(bs, s) \ {b}
      <4>1. b \in LiveIn(bs, s) /\ LiveIn(cs, s) = L \cup {x} /\ LiveIn(bs, s) = L \cup {b}
        BY <3>1 DEF LiveIn, cs
      <4>2. b \notin L /\ x \notin L
        <5>1. ASSUME x \in L PROVE FALSE
          <6>1. x \in bs /\ x # b /\ b.class \in PoolClass
            BY <1>1, <3>1, <5>1 DEF LiveIn, Fits
          <6> QED BY <1>1, <6>1 DEF SlotsOnce
        <5> QED BY <5>1
      <4>3. IsFiniteSet(L)
        BY <1>1, FS_Subset DEF LiveIn
      <4> HIDE DEF L
      <4>4. Cardinality(L \cup {x}) = Cardinality(L) + 1 /\ Cardinality(L \cup {b}) = Cardinality(L) + 1
        BY <4>2, <4>3, FS_AddElement
      <4> QED BY <4>1, <4>4
    <3>2. CASE ~(Pooled(b.class) /\ SlabOf(b.raw) = s)
      <4>1. LiveIn(cs, s) = LiveIn(bs, s)
        BY <3>2 DEF LiveIn, cs
      <4> QED BY <4>1
    <3> QED BY <3>1, <3>2
  <2> QED BY <1>1, <2>1 DEF CountsRight
<1>9. HeapTypes(h, cs)
  BY <1>1, FS_AddElement, FS_RemoveElement DEF HeapTypes, cs
<1> QED BY <1>6, <1>7, <1>8, <1>9 DEF HeapHolds, cs

\* A function changed at one place is still of its type.
LEMMA ChangedAt ==
    ASSUME NEW S, NEW T, NEW f \in [S -> T], NEW a, NEW v, a \in S => v \in T
    PROVE  [f EXCEPT ![a] = v] \in [S -> T]
OBVIOUS

\* What a free leaves (free_raw).
LEMMA FreeRawLemma ==
    ASSUME NEW h, NEW bs, HeapHolds(h, bs), NEW b \in bs
    PROVE  HeapHolds(FreeRaw(h, b), bs \ {b})
<1>1. /\ h \in HeapRec /\ bs \subseteq BlockRec /\ b \in BlockRec /\ Fits(b)
      /\ h = [low |-> h.low, taken |-> h.taken, pool |-> h.pool, over |-> h.over,
              free |-> h.free, live |-> h.live, marks |-> h.marks]
      /\ h.pool \in [PoolClass -> SUBSET Units] /\ h.over \in [PoolClass -> SUBSET Units]
      /\ h.free \in [PoolClass -> Int] /\ h.live \in [AllSlabs -> Int]
      /\ h.taken \subseteq AllSlabs /\ h.marks \subseteq Units
  BY DEF HeapHolds, HeapTypes, HeapRec
<1>2. CASE ~Pooled(b.class)
  <2> DEFINE g == [h EXCEPT !.taken = @ \ SlabsOf(b)]
  <2>1. FreeRaw(h, b) = g
    BY <1>2 DEF FreeRaw, SlabsOf
  <2>2. /\ g \in HeapRec /\ g.taken = h.taken \ SlabsOf(b) /\ g.pool = h.pool /\ g.over = h.over
        /\ g.free = h.free /\ g.live = h.live /\ g.marks = h.marks
    BY <1>1 DEF HeapRec
  <2> HIDE DEF g
  <2> QED BY <1>2, <2>1, <2>2, BigFreeStep
<1>3. CASE Pooled(b.class)
  <2> DEFINE c  == b.class
             p  == b.raw
             s  == SlabOf(p)
             cs == bs \ {b}
             f  == IF Cardinality(h.pool[c]) < Pool THEN Offer(h, c, p) ELSE OvPush(h, c, p)
             f2 == [f EXCEPT !.free[c] = @ + 1]
             g  == [f2 EXCEPT !.live[s] = @ - 1]
  <2>1. FreeRaw(h, b) = IF g.live[s] = 0 THEN Release(g, c, s) ELSE g
    BY <1>3 DEF FreeRaw
  <2>2. c \in PoolClass /\ p \in Units
    BY <1>1, <1>3 DEF Fits, BlockRec
  <2>3. p \in Held(bs, c)
    BY DEF Held
  <2>4. s \in h.taken /\ p \in Slots(s, c) /\ s \in AllSlabs
    BY <1>1, <2>2, <2>3 DEF HeapHolds, SlabsApart, Mine
  <2> HIDE DEF c, p, s
  <2>5. /\ f.low = h.low /\ f.taken = h.taken /\ f.free = h.free /\ f.live = h.live
        /\ f = [low |-> f.low, taken |-> f.taken, pool |-> f.pool, over |-> f.over,
                free |-> f.free, live |-> f.live, marks |-> f.marks]
        /\ \/ /\ f.pool = [h.pool EXCEPT ![c] = @ \cup {p}]
              /\ f.over = h.over /\ f.marks = h.marks \cup {p}
           \/ /\ f.over = [h.over EXCEPT ![c] = @ \cup {p}]
              /\ f.pool = h.pool /\ f.marks = h.marks \ {p}
    <3>1. CASE f = Offer(h, c, p)
      BY <1>1, <3>1 DEF Offer
    <3>2. CASE f = OvPush(h, c, p)
      BY <1>1, <3>2 DEF OvPush
    <3> QED BY <3>1, <3>2
  <2> HIDE DEF f
  <2>6. /\ g.low = h.low /\ g.taken = h.taken /\ g.pool = f.pool /\ g.over = f.over /\ g.marks = f.marks
        /\ g.free = [h.free EXCEPT ![c] = @ + 1] /\ g.live = [h.live EXCEPT ![s] = @ - 1]
        /\ g = [low |-> g.low, taken |-> g.taken, pool |-> g.pool, over |-> g.over,
                free |-> g.free, live |-> g.live, marks |-> g.marks]
    <3>1. /\ f.low = h.low /\ f.taken = h.taken /\ f.free = h.free /\ f.live = h.live
          /\ f = [low |-> f.low, taken |-> f.taken, pool |-> f.pool, over |-> f.over,
                  free |-> f.free, live |-> f.live, marks |-> f.marks]
      BY <2>5
    <3>2. g = [low |-> f.low, taken |-> f.taken, pool |-> f.pool, over |-> f.over,
               free |-> [f.free EXCEPT ![c] = @ + 1], live |-> [f.live EXCEPT ![s] = @ - 1],
               marks |-> f.marks]
      <4>1. f2 = [low |-> f.low, taken |-> f.taken, pool |-> f.pool, over |-> f.over,
                  free |-> [f.free EXCEPT ![c] = @ + 1], live |-> f.live, marks |-> f.marks]
        BY <3>1
      <4> HIDE DEF f2
      <4> QED BY <4>1
    <3> HIDE DEF g
    <3> QED BY <3>1, <3>2
  <2> HIDE DEF g
  <2>7. \/ /\ g.pool = [h.pool EXCEPT ![c] = @ \cup {p}]
           /\ g.over = h.over /\ g.marks = h.marks \cup {p}
        \/ /\ g.over = [h.over EXCEPT ![c] = @ \cup {p}]
           /\ g.pool = h.pool /\ g.marks = h.marks \ {p}
    BY <2>5, <2>6
  <2>8. /\ g.taken = h.taken
        /\ g.free = [h.free EXCEPT ![c] = @ + 1] /\ g.live = [h.live EXCEPT ![s] = @ - 1]
    BY <2>6
  <2>9. g \in HeapRec
    <3>1. /\ g.pool \in [PoolClass -> SUBSET Units] /\ g.over \in [PoolClass -> SUBSET Units]
          /\ g.marks \subseteq Units
      <4>1. CASE /\ g.pool = [h.pool EXCEPT ![c] = @ \cup {p}]
                 /\ g.over = h.over /\ g.marks = h.marks \cup {p}
        BY <1>1, <2>2, <4>1
      <4>2. CASE /\ g.over = [h.over EXCEPT ![c] = @ \cup {p}]
                 /\ g.pool = h.pool /\ g.marks = h.marks \ {p}
        BY <1>1, <2>2, <4>2
      <4> QED BY <2>5, <2>6, <4>1, <4>2
    <3>2. g.free \in [PoolClass -> Int] /\ g.live \in [AllSlabs -> Int]
      BY <1>1, <2>2, <2>4, <2>6
    <3> QED BY <1>1, <2>6, <3>1, <3>2 DEF HeapRec
  <2>10. HeapHolds(g, cs) /\ p \in Spare(g, c)
    BY <1>3, <2>7, <2>8, <2>9, PutStep DEF c, p, s
  <2> HIDE DEF cs
  <2>11. CASE g.live[s] = 0
    <3>1. cs \subseteq BlockRec /\ IsFiniteSet(cs) /\ SlabsApart(g, cs) /\ CountsRight(g, cs)
      BY <2>10 DEF HeapHolds, HeapTypes
    <3>2. LiveIn(cs, s) = {}
      <4>1. IsFiniteSet(LiveIn(cs, s))
        BY <3>1, FS_Subset DEF LiveIn
      <4>2. Cardinality(LiveIn(cs, s)) = 0
        BY <2>4, <2>11, <3>1 DEF CountsRight
      <4> QED BY <4>1, <4>2, FS_EmptySet
    <3>3. Slots(s, c) \subseteq Mine(g, cs, c)
      BY <2>2, <2>10, <3>1 DEF SlabsApart, Mine, s
    <3>4. Slots(s, c) \cap Held(cs, c) = {}
      <4>1. ASSUME NEW x \in cs, x.class = c, x.raw \in Slots(s, c) PROVE FALSE
        <5>1. SlabOf(x.raw) = s /\ Pooled(x.class)
          BY <1>3, <2>2, <2>4, <4>1, SlotsInRegion DEF c
        <5> QED BY <3>2, <5>1 DEF LiveIn
      <4> QED BY <4>1 DEF Held
    <3>5. Slots(s, c) \subseteq Spare(g, c)
      BY <3>3, <3>4 DEF Mine
    <3>6. HeapHolds(Release(g, c, s), cs)
      BY <2>2, <2>4, <2>10, <3>5, ReleaseStep
    <3> QED BY <2>1, <2>11, <3>6 DEF cs
  <2> QED BY <2>1, <2>10, <2>11 DEF cs
<1> QED BY <1>2, <1>3

\* What a block is made of serves the request (Header, payload).
LEMMA FitsLemma ==
    ASSUME NEW size \in Nat, NEW align \in Nat \ {0}, NEW raw \in Nat
    PROVE  LET c == ClassFor(Wanted(size, align))
               p == Payload(raw, align)
           IN  /\ c \in Nat \ {0} /\ p \in Nat
               /\ raw + Header <= p /\ p + size <= raw + c
               /\ Pooled(c) => c \in PoolClass
<1> DEFINE w == Wanted(size, align)
           c == ClassFor(w)
           p == Payload(raw, align)
<1>1. w \in Nat \ {0} /\ size + 1 <= w /\ (align > 1 => size + 1 + align <= w)
  BY DEF Wanted, Header
<1> HIDE DEF w
<1>2. c \in Nat \ {0} /\ w <= c /\ (Pooled(c) => c \in PoolClass)
  BY <1>1, ClassForLemma
<1>3. p \in Nat /\ raw + Header <= p /\ p <= raw + align
  BY PayloadLemma
<1> HIDE DEF c, p
<1>4. p + size <= raw + c
  BY <1>1, <1>2, <1>3
<1> QED BY <1>2, <1>3, <1>4 DEF c, p, w

\* What an allocation gives: a block more, or none, and the rest as it was
\* (draw, alloc_large).
LEMMA AllocLemma ==
    ASSUME NEW h, NEW bs, HeapHolds(h, bs), NEW size \in Nat, NEW align \in Nat \ {0},
           NEW o \in Alloc(h, size, align)
    PROVE  \/ o.block = {} /\ HeapHolds(o.heap, bs)
           \/ \E b \in BlockRec : o.block = {b} /\ b \notin bs /\ HeapHolds(o.heap, bs \cup {b})
<1> DEFINE c    == ClassFor(Wanted(size, align))
           B(r) == [raw |-> r, class |-> c, at |-> Payload(r, align), size |-> size, leaked |-> FALSE]
           H(x) == IF Payload(x.raw, align) - Header = x.raw
                   THEN [x.heap EXCEPT !.marks = @ \ {x.raw}] ELSE x.heap
<1>1. PICK x \in AllocRaw(h, c) :
         o = IF x.raw = NoRoom THEN [heap |-> h, block |-> {}]
             ELSE [heap |-> H(x), block |-> {B(x.raw)}]
  BY DEF Alloc
<1>2. x.raw = NoRoom => o.block = {} /\ o.heap = h
  BY <1>1
<1>3. x.raw # NoRoom => o.heap = H(x) /\ o.block = {B(x.raw)}
  BY <1>1
<1>4. c \in Nat \ {0} /\ (Pooled(c) => c \in PoolClass)
  BY FitsLemma
<1>5. ASSUME NEW r \in Units, ~Pooled(c) => r = SlabOf(r) * Slab
      PROVE  B(r) \in BlockRec /\ Fits(B(r)) /\ B(r).raw = r /\ B(r).class = c
  <2>1. r \in Nat
    BY SizesLemma DEF Units
  <2>2. /\ Payload(r, align) \in Nat
        /\ r + Header <= Payload(r, align) /\ Payload(r, align) + size <= r + c
    BY <2>1, FitsLemma
  <2> HIDE DEF c
  <2> QED BY <1>4, <1>5, <2>2 DEF BlockRec, Fits
<1> HIDE DEF B, c
<1>6. h \in HeapRec
  BY DEF HeapHolds, HeapTypes
<1>7. CASE Pooled(c) /\ x.raw # NoRoom
  <2> DEFINE full == IF h.pool[c] # {} THEN {h} ELSE Refills(h, c)
  <2>1. x \in Draws(h, c) /\ x \notin Fails(h) /\ c \in PoolClass
    BY <1>4, <1>7 DEF AllocRaw, Fails
  <2>2. x \in UNION {{[heap |-> [g EXCEPT !.pool[c] = @ \ {p}, !.free[c] = @ - 1, !.live[SlabOf(p)] = @ + 1],
                       raw  |-> p] : p \in g.pool[c]} : g \in full}
    BY <2>1 DEF Draws
  <2> HIDE DEF full
  <2>3. PICK g \in full : \E p \in g.pool[c] :
           x = [heap |-> [g EXCEPT !.pool[c] = @ \ {p}, !.free[c] = @ - 1, !.live[SlabOf(p)] = @ + 1], raw |-> p]
    BY <2>2
  <2>4. PICK p \in g.pool[c] :
           x = [heap |-> [g EXCEPT !.pool[c] = @ \ {p}, !.free[c] = @ - 1, !.live[SlabOf(p)] = @ + 1], raw |-> p]
    BY <2>3
  <2>5. HeapHolds(g, bs)
    BY <2>1, RefillStep DEF full
  <2>6. /\ g \in HeapRec
        /\ g = [low |-> g.low, taken |-> g.taken, pool |-> g.pool, over |-> g.over,
                free |-> g.free, live |-> g.live, marks |-> g.marks]
        /\ g.pool \in [PoolClass -> SUBSET Units] /\ g.over \in [PoolClass -> SUBSET Units]
        /\ g.free \in [PoolClass -> Int] /\ g.live \in [AllSlabs -> Int] /\ g.marks \subseteq Units
    BY <2>5 DEF HeapHolds, HeapTypes, HeapRec
  <2>7. p \in Units /\ x.raw = p
    BY <2>1, <2>4, <2>6
  <2> DEFINE k == H(x)
  <2>8. /\ k.low = g.low /\ k.taken = g.taken /\ k.over = g.over /\ k.marks \in {g.marks, g.marks \ {p}}
        /\ k.pool = [g.pool EXCEPT ![c] = @ \ {p}]
        /\ k.free = [g.free EXCEPT ![c] = @ - 1]
        /\ k.live = [g.live EXCEPT ![SlabOf(p)] = @ + 1]
        /\ k = [low |-> k.low, taken |-> k.taken, pool |-> k.pool, over |-> k.over,
                free |-> k.free, live |-> k.live, marks |-> k.marks]
    <3>1. /\ x.heap.low = g.low /\ x.heap.taken = g.taken /\ x.heap.over = g.over /\ x.heap.marks = g.marks
          /\ x.heap.pool = [g.pool EXCEPT ![c] = @ \ {p}]
          /\ x.heap.free = [g.free EXCEPT ![c] = @ - 1]
          /\ x.heap.live = [g.live EXCEPT ![SlabOf(p)] = @ + 1]
          /\ x.heap = [low |-> x.heap.low, taken |-> x.heap.taken, pool |-> x.heap.pool,
                       over |-> x.heap.over, free |-> x.heap.free, live |-> x.heap.live,
                       marks |-> x.heap.marks]
      BY <2>4, <2>6
    <3> QED BY <2>7, <3>1
  <2> HIDE DEF H, k
  <2>9. /\ k.taken = g.taken /\ k.over = g.over /\ k.marks \in {g.marks, g.marks \ {p}}
        /\ k.pool = [g.pool EXCEPT ![c] = @ \ {p}]
        /\ k.free = [g.free EXCEPT ![c] = @ - 1]
        /\ k.live = [g.live EXCEPT ![SlabOf(p)] = @ + 1]
    BY <2>8
  <2>10. k \in HeapRec
    <3>1. /\ g.pool \in [PoolClass -> SUBSET Units]
          /\ g.free \in [PoolClass -> Int] /\ g.live \in [AllSlabs -> Int] /\ g.marks \subseteq Units
      BY <2>6
    <3>2. k.pool \in [PoolClass -> SUBSET Units]
      BY <2>9, <3>1, ChangedAt
    <3>3. k.free \in [PoolClass -> Int]
      BY <2>9, <3>1, ChangedAt
    <3>4. k.live \in [AllSlabs -> Int]
      BY <2>9, <3>1, ChangedAt
    <3>5. k.marks \subseteq Units
      BY <2>9, <3>1
    <3> QED BY <2>6, <2>8, <3>2, <3>3, <3>4, <3>5 DEF HeapRec
  <2>11. PICK b \in BlockRec : b = B(p) /\ Fits(b) /\ b.raw = p /\ b.class = c
    BY <1>5, <1>7, <2>7
  <2>12. HeapHolds(k, bs \cup {b}) /\ b \notin bs
    <3>1. /\ Fits(b) /\ b.raw = p /\ b.class = c /\ c \in PoolClass
      BY <2>1, <2>11
    <3>2. Drawn(g, k, c, p)
      BY <2>9 DEF Drawn
    <3> QED BY <2>5, <2>10, <3>1, <3>2, DrawStep
  <2> QED BY <1>3, <1>7, <2>7, <2>11, <2>12 DEF k
<1>8. CASE ~Pooled(c) /\ x.raw # NoRoom
  <2> DEFINE n == SlabsFor(c)
  <2>1. n \in Nat \ {0}
    <3>1. c + Slab - 1 \in Nat /\ Slab <= c + Slab - 1 /\ Slab \in Nat \ {0}
      BY <1>4, SizesLemma
    <3>2. n \in Nat /\ c + Slab - 1 < n * Slab + Slab
      BY <3>1, Quotient DEF SlabsFor
    <3> HIDE DEF n
    <3>3. n # 0
      BY <1>4, <3>1, <3>2
    <3> QED BY <3>2, <3>3
  <2>2. PICK s \in TakeSlabs(h, n, Rest(h)) :
           x = IF s = NoRoom THEN [heap |-> h, raw |-> NoRoom]
               ELSE [heap |-> [h EXCEPT !.taken = @ \cup (s..s + n - 1)], raw |-> s * Slab]
    BY <1>8 DEF AllocRaw
  <2>3. s # NoRoom /\ x = [heap |-> [h EXCEPT !.taken = @ \cup (s..s + n - 1)], raw |-> s * Slab]
    BY <1>8, <2>2
  <2> HIDE DEF n
  <2>4. s \in Nat /\ s + n <= Slabs /\ FreeAt(h, s, n)
    BY <2>1, <2>3, TakeSlabsLemma
  <2> DEFINE r == s * Slab
  <2>5. r \in Units /\ SlabOf(r) = s
    <3>1. r \in Nat /\ s < Slabs /\ Slabs \in Nat /\ Slab \in Nat \ {0}
      BY <2>1, <2>4, SizesLemma
    <3>2. r + Slab <= Slabs * Slab
      BY <2>4, <3>1, ProductGrows
    <3>3. (s * Slab + 0) \div Slab = s
      BY <2>4, <3>1, QuotientUnique
    <3>4. SlabOf(r) = s
      BY <3>1, <3>3 DEF SlabOf
    <3> HIDE DEF r
    <3> QED BY <3>1, <3>2, <3>4, SizesLemma DEF Units
  <2>6. B(r) \in BlockRec /\ Fits(B(r)) /\ B(r).raw = r /\ B(r).class = c
    BY <1>5, <2>5
  <2> HIDE DEF r
  <2>7. /\ SlabsOf(B(r)) = s..s + n - 1 /\ SlabsOf(B(r)) \subseteq AllSlabs
        /\ SlabsOf(B(r)) \cap h.taken = {} /\ s \in SlabsOf(B(r))
    <3>1. SlabsOf(B(r)) = s..s + n - 1
      BY <2>5, <2>6 DEF SlabsOf, n
    <3>2. n \in Nat \ {0} /\ s \in Nat /\ s + n <= Slabs /\ Slabs \in Nat
      BY <2>1, <2>4, SizesLemma
    <3>3. s..s + n - 1 \subseteq 0..Slabs - 1 /\ s \in s..s + n - 1
      BY <3>2
    <3>4. (s..s + n - 1) \cap h.taken = {}
      BY <2>4 DEF FreeAt
    <3> QED BY <3>1, <3>3, <3>4 DEF AllSlabs
  <2> DEFINE k == H(x)
  <2>8. /\ k \in HeapRec /\ k.taken = h.taken \cup SlabsOf(B(r)) /\ k.over = h.over /\ k.pool = h.pool
        /\ k.free = h.free /\ k.live = h.live /\ k.marks \in {h.marks, h.marks \ {r}}
    <3>1. /\ x.raw = r /\ x.heap.taken = h.taken \cup (s..s + n - 1)
          /\ x.heap.low = h.low /\ x.heap.over = h.over /\ x.heap.pool = h.pool
          /\ x.heap.free = h.free /\ x.heap.live = h.live /\ x.heap.marks = h.marks
          /\ x.heap \in HeapRec
      BY <1>6, <2>3, <2>7 DEF r, HeapRec
    <3> QED BY <2>7, <3>1 DEF HeapRec
  <2> HIDE DEF H, k
  <2>9. HeapHolds(k, bs \cup {B(r)}) /\ B(r) \notin bs
    BY <1>8, <2>5, <2>6, <2>7, <2>8, BigStep
  <2> QED BY <1>3, <1>8, <2>3, <2>6, <2>9 DEF k, r
<1> QED BY <1>2, <1>7, <1>8

\* A request is a size and an alignment.
LEMMA RequestType == ASSUME NEW q \in Requests PROVE q[1] \in Nat /\ q[2] \in Nat \ {0}
BY HeapAssumption

\* malloc and memalign.
LEMMA AllocatesStep ==
    ASSUME HeapHolds(heap, blocks), NEW qs \in SUBSET Requests, Allocates(qs)
    PROVE  HeapHolds(heap', blocks')
<1>1. PICK q \in qs : \E o \in Alloc(heap, q[1], q[2]) : heap' = o.heap /\ blocks' = blocks \cup o.block
  BY DEF Allocates
<1>2. PICK o \in Alloc(heap, q[1], q[2]) : heap' = o.heap /\ blocks' = blocks \cup o.block
  BY <1>1
<1>3. q[1] \in Nat /\ q[2] \in Nat \ {0}
  BY RequestType
<1>4. \/ o.block = {} /\ HeapHolds(o.heap, blocks)
      \/ \E b \in BlockRec : o.block = {b} /\ b \notin blocks /\ HeapHolds(o.heap, blocks \cup {b})
  BY <1>3, AllocLemma
<1>5. CASE o.block = {} /\ HeapHolds(o.heap, blocks)
  <2>1. blocks' = blocks
    BY <1>2, <1>5
  <2> QED BY <1>2, <1>5, <2>1
<1>6. CASE \E b \in BlockRec : o.block = {b} /\ b \notin blocks /\ HeapHolds(o.heap, blocks \cup {b})
  <2>1. PICK b \in BlockRec : o.block = {b} /\ b \notin blocks /\ HeapHolds(o.heap, blocks \cup {b})
    BY <1>6
  <2>2. blocks' = blocks \cup {b}
    BY <1>2, <2>1
  <2> QED BY <1>2, <2>1, <2>2
<1> QED BY <1>4, <1>5, <1>6

\* free.
LEMMA FreeStep == ASSUME HeapHolds(heap, blocks), Free PROVE HeapHolds(heap', blocks')
<1>1. PICK b \in blocks : heap' = FreeRaw(heap, b) /\ blocks' = blocks \ {b}
  BY DEF Free
<1> QED BY <1>1, FreeRawLemma

\* A block an outside thread frees is only marked so.
LEMMA OutsideFreeStep == ASSUME HeapHolds(heap, blocks), OutsideFree PROVE HeapHolds(heap', blocks')
<1>1. PICK b \in blocks : blocks' = (blocks \ {b}) \cup {[b EXCEPT !.leaked = TRUE]}
  BY DEF OutsideFree
<1> DEFINE x == [b EXCEPT !.leaked = TRUE]
<1>2. b \in BlockRec /\ Fits(b)
  BY DEF HeapHolds, HeapTypes
<1>3. x \in BlockRec /\ x.raw = b.raw /\ x.class = b.class /\ x.at = b.at /\ x.size = b.size
  BY <1>2 DEF BlockRec
<1> HIDE DEF x
<1>4. Fits(x)
  BY <1>2, <1>3 DEF Fits
<1>5. heap' = heap
  BY DEF OutsideFree
<1> QED BY <1>1, <1>3, <1>4, <1>5, ReplaceStep DEF x

\* realloc keeps the block, or allocates another and frees it.
LEMMA ReallocStep == ASSUME HeapHolds(heap, blocks), Realloc PROVE HeapHolds(heap', blocks')
<1>1. PICK b \in blocks : \E q \in Requests :
         IF q[1] <= Usable(b) /\ q[1] >= Usable(b) \div 2
         THEN blocks' = (blocks \ {b}) \cup {[b EXCEPT !.size = q[1]]} /\ UNCHANGED heap
         ELSE \E o \in Alloc(heap, q[1], 1) :
                /\ heap' = IF o.block = {} THEN heap ELSE FreeRaw(o.heap, b)
                /\ blocks' = IF o.block = {} THEN blocks ELSE (blocks \ {b}) \cup o.block
  BY DEF Realloc
<1>2. PICK q \in Requests :
         IF q[1] <= Usable(b) /\ q[1] >= Usable(b) \div 2
         THEN blocks' = (blocks \ {b}) \cup {[b EXCEPT !.size = q[1]]} /\ UNCHANGED heap
         ELSE \E o \in Alloc(heap, q[1], 1) :
                /\ heap' = IF o.block = {} THEN heap ELSE FreeRaw(o.heap, b)
                /\ blocks' = IF o.block = {} THEN blocks ELSE (blocks \ {b}) \cup o.block
  BY <1>1
<1>3. q[1] \in Nat /\ b \in BlockRec /\ Fits(b)
  BY RequestType DEF HeapHolds, HeapTypes
<1>4. CASE q[1] <= Usable(b) /\ q[1] >= Usable(b) \div 2
  <2> DEFINE x == [b EXCEPT !.size = q[1]]
  <2>1. blocks' = (blocks \ {b}) \cup {x} /\ heap' = heap
    BY <1>2, <1>4
  <2>2. /\ x \in BlockRec /\ x.raw = b.raw /\ x.class = b.class /\ x.at = b.at /\ x.size = q[1]
        /\ b.raw \in Nat /\ b.class \in Nat /\ b.at \in Nat
    BY <1>3, SizesLemma DEF BlockRec, Units
  <2> HIDE DEF x
  <2>3. x.at + x.size <= x.raw + x.class
    BY <1>3, <1>4, <2>2 DEF Usable
  <2>4. Fits(x)
    BY <1>3, <2>2, <2>3 DEF Fits
  <2> QED BY <2>1, <2>2, <2>4, ReplaceStep
<1>5. CASE ~(q[1] <= Usable(b) /\ q[1] >= Usable(b) \div 2)
  <2>1. PICK o \in Alloc(heap, q[1], 1) :
           /\ heap' = IF o.block = {} THEN heap ELSE FreeRaw(o.heap, b)
           /\ blocks' = IF o.block = {} THEN blocks ELSE (blocks \ {b}) \cup o.block
    BY <1>2, <1>5
  <2>2. \/ o.block = {} /\ HeapHolds(o.heap, blocks)
        \/ \E x \in BlockRec : o.block = {x} /\ x \notin blocks /\ HeapHolds(o.heap, blocks \cup {x})
    <3>1. 1 \in Nat \ {0}
      OBVIOUS
    <3> QED BY <1>3, <3>1, AllocLemma
  <2>3. CASE o.block = {}
    BY <2>1, <2>3
  <2>4. CASE \E x \in BlockRec : o.block = {x} /\ x \notin blocks /\ HeapHolds(o.heap, blocks \cup {x})
    <3>1. PICK x \in BlockRec : o.block = {x} /\ x \notin blocks /\ HeapHolds(o.heap, blocks \cup {x})
      BY <2>4
    <3>2. heap' = FreeRaw(o.heap, b) /\ blocks' = (blocks \ {b}) \cup {x}
      BY <2>1, <3>1
    <3>3. b \in blocks \cup {x} /\ (blocks \cup {x}) \ {b} = (blocks \ {b}) \cup {x}
      BY <3>1
    <3>4. HeapHolds(FreeRaw(o.heap, b), (blocks \cup {x}) \ {b})
      BY <3>1, <3>3, FreeRawLemma
    <3> QED BY <3>2, <3>3, <3>4
  <2> QED BY <2>2, <2>3, <2>4
<1> QED BY <1>4, <1>5

\* No step hands out what is held, or loses count.
LEMMA HeapStep == ASSUME HeapHolds(heap, blocks), [Next]_vars PROVE HeapHolds(heap', blocks')
<1>1. \/ \E qs \in SUBSET Requests : Allocates(qs)
      \/ Free \/ OutsideFree \/ Realloc \/ UNCHANGED heapVars
  <2>1. Malloc => \E qs \in SUBSET Requests : Allocates(qs)
    BY DEF Malloc
  <2>2. Memalign => \E qs \in SUBSET Requests : Allocates(qs)
    BY DEF Memalign
  <2>3. OwnAlloc \/ OwnFree \/ Mmap \/ MachVmMap \/ Shmat \/ GiveBack \/ StackFreed \/ KernelPlaces
           => UNCHANGED heapVars
    BY DEF OwnAlloc, OwnFree, Mmap, MachVmMap, Maps, Shmat, GiveBack, StackFreed, KernelPlaces
  <2>4. ASSUME NEW what, NEW ours, Unmap(what, ours) PROVE UNCHANGED heapVars
    BY <2>4 DEF Unmap
  <2>5. UNCHANGED vars => UNCHANGED heapVars
    BY DEF vars, heapVars
  <2> QED BY <2>1, <2>2, <2>3, <2>4, <2>5 DEF Next
<1>2. UNCHANGED heapVars => HeapHolds(heap', blocks')
  <2>1. UNCHANGED heapVars => heap' = heap /\ blocks' = blocks
    BY DEF heapVars
  <2> QED BY <2>1
<1> QED BY <1>1, <1>2, AllocatesStep, FreeStep, OutsideFreeStep, ReallocStep

\* Nothing is taken at first.
LEMMA HeapInit == ASSUME Init PROVE HeapHolds(heap, blocks)
<1>1. blocks = {} /\ IsFiniteSet(blocks)
  BY FS_EmptySet DEF Init
<1>2. PICK low \in BOOLEAN : heap = EmptyHeap(low)
  BY DEF Init
<1>3. /\ heap.low = low /\ heap.taken = {} /\ heap.marks = {}
      /\ heap.pool = [c \in PoolClass |-> {}] /\ heap.over = [c \in PoolClass |-> {}]
      /\ heap.free = [c \in PoolClass |-> 0] /\ heap.live = [s \in AllSlabs |-> 0]
      /\ heap = [low |-> heap.low, taken |-> heap.taken, pool |-> heap.pool, over |-> heap.over,
                 free |-> heap.free, live |-> heap.live, marks |-> heap.marks]
  <2>1. NoBlocks = [c \in PoolClass |-> {}] /\ DOMAIN NoBlocks = PoolClass
    BY DEF NoBlocks, PoolClass
  <2> QED BY <1>2, <2>1 DEF EmptyHeap, AllSlabs
<1>4. heap \in HeapRec
  <2>1. /\ heap.pool \in [PoolClass -> SUBSET Units] /\ heap.over \in [PoolClass -> SUBSET Units]
        /\ heap.free \in [PoolClass -> Int] /\ heap.live \in [AllSlabs -> Int]
    BY <1>3
  <2> QED BY <1>3, <2>1 DEF HeapRec
<1>5. \A c \in PoolClass : /\ heap.pool[c] = {} /\ heap.over[c] = {} /\ heap.free[c] = 0
                           /\ Spare(heap, c) = {} /\ Held(blocks, c) = {} /\ Mine(heap, blocks, c) = {}
  BY <1>1, <1>3 DEF Spare, Held, Mine
<1>6. Bigs(blocks) = {} /\ \A s : LiveIn(blocks, s) = {}
  BY <1>1 DEF Bigs, LiveIn
<1>7. CountsRight(heap, blocks)
  <2>1. Cardinality({}) = 0
    BY FS_EmptySet
  <2>2. ASSUME NEW c \in PoolClass PROVE heap.free[c] = Cardinality(heap.pool[c]) + Cardinality(heap.over[c])
    <3>1. Cardinality(heap.pool[c]) = 0 /\ Cardinality(heap.over[c]) = 0 /\ heap.free[c] = 0
      BY <1>5, <2>1
    <3> QED BY <3>1
  <2>3. ASSUME NEW s \in AllSlabs PROVE heap.live[s] = Cardinality(LiveIn(blocks, s))
    <3>1. Cardinality(LiveIn(blocks, s)) = 0 /\ heap.live[s] = 0
      BY <1>3, <1>6, <2>1
    <3> QED BY <3>1
  <2> QED BY <2>2, <2>3 DEF CountsRight
<1>8. SlabsApart(heap, blocks)
  BY <1>5, <1>6 DEF SlabsApart
<1>9. SlotsOnce(heap, blocks)
  BY <1>1, <1>5 DEF SlotsOnce
<1> QED BY <1>1, <1>4, <1>7, <1>8, <1>9 DEF HeapHolds, HeapTypes

----------------------------------------------------------------------------
(***************************************************************************)
(* What the invariants come to.                                            *)
(***************************************************************************)

\* A block lies in its slabs.
LEMMA ExtentLemma ==
    ASSUME NEW h, NEW bs, HeapHolds(h, bs), NEW b \in bs
    PROVE  LET s == SlabOf(b.raw)
               n == SlabsFor(b.class)
           IN  /\ s \in Nat /\ n \in Nat \ {0} /\ SlabsOf(b) = s..s + n - 1
               /\ s * Slab <= b.raw /\ b.raw + b.class <= (s + n) * Slab
               /\ SlabsOf(b) \subseteq h.taken /\ s \in SlabsOf(b)
               /\ Pooled(b.class) => b.class \in PoolClass /\ n = 1 /\ b.raw \in Slots(s, b.class)
<1> DEFINE s == SlabOf(b.raw)
           c == b.class
           n == SlabsFor(c)
<1>1. /\ b \in BlockRec /\ Fits(b) /\ SlabsApart(h, bs) /\ h.taken \subseteq AllSlabs
  BY DEF HeapHolds, HeapTypes, HeapRec
<1>2. b.raw \in Nat /\ c \in Nat \ {0} /\ Slab \in Nat \ {0}
  BY <1>1, SizesLemma DEF BlockRec, Units
<1>3. s \in Nat /\ s * Slab \in Nat
  BY <1>2, Quotient DEF SlabOf
<1>4. c + Slab - 1 \in Nat /\ n \in Nat /\ n * Slab \in Nat /\ c + Slab - 1 < n * Slab + Slab
  <2>1. c + Slab - 1 \in Nat
    BY <1>2
  <2>2. n \in Nat /\ c + Slab - 1 < n * Slab + Slab
    BY <1>2, <2>1, Quotient DEF SlabsFor
  <2> QED BY <1>2, <2>1, <2>2
<1> HIDE DEF s, n, c
<1>5. n # 0 /\ c <= n * Slab
  BY <1>2, <1>4
<1>6. (s + n) * Slab = s * Slab + n * Slab /\ s + n \in Nat
  BY <1>2, <1>3, <1>4, SMT
<1>7. SlabsOf(b) = s..s + n - 1 /\ s \in SlabsOf(b)
  <2>1. SlabsOf(b) = s..s + n - 1
    BY DEF SlabsOf, s, n, c
  <2> QED BY <1>3, <1>4, <1>5, <2>1
<1>8. CASE ~Pooled(c)
  <2>1. b.raw = s * Slab
    BY <1>1, <1>8 DEF Fits, s, c
  <2>2. SlabsOf(b) \subseteq h.taken
    BY <1>1, <1>8 DEF SlabsApart, Bigs, c
  <2>3. s * Slab <= b.raw /\ b.raw + c <= (s + n) * Slab
    BY <1>2, <1>3, <1>4, <1>5, <1>6, <2>1
  <2> QED BY <1>3, <1>4, <1>5, <1>7, <1>8, <2>2, <2>3 DEF s, n, c
<1>9. CASE Pooled(c)
  <2>1. c \in PoolClass
    BY <1>1, <1>9 DEF Fits, c
  <2>2. b.raw \in Mine(h, bs, c)
    BY DEF Mine, Held, c
  <2>3. b.raw \in Slots(s, c) /\ s \in h.taken
    BY <1>1, <2>1, <2>2 DEF SlabsApart, s
  <2>4. s * Slab <= b.raw /\ b.raw + c <= s * Slab + Slab /\ c <= Slab
    BY <1>3, <2>1, <2>3, SlotLemma, SizesLemma
  <2>5. n = 1
    <3>1. c - 1 \in Nat /\ c - 1 < Slab /\ 1 * Slab + (c - 1) = c + Slab - 1
      BY <1>2, <2>4
    <3>2. (1 * Slab + (c - 1)) \div Slab = 1
      BY <1>2, <3>1, QuotientUnique
    <3> QED BY <3>1, <3>2 DEF n, SlabsFor
  <2>6. (s + n) * Slab = s * Slab + Slab /\ SlabsOf(b) \subseteq h.taken
    BY <1>2, <1>3, <1>6, <1>7, <2>3, <2>5
  <2> QED BY <1>3, <1>4, <1>5, <1>7, <2>1, <2>3, <2>4, <2>5, <2>6 DEF s, n, c
<1> QED BY <1>8, <1>9

\* Blocks do not overlap.
LEMMA BlocksApart ==
    ASSUME NEW h, NEW bs, HeapHolds(h, bs), NEW b \in bs, NEW d \in bs, b # d
    PROVE  b.raw + b.class <= d.raw \/ d.raw + d.class <= b.raw
<1> DEFINE s == SlabOf(b.raw)
           n == SlabsFor(b.class)
           t == SlabOf(d.raw)
           m == SlabsFor(d.class)
<1>1. /\ SlabsApart(h, bs) /\ SlotsOnce(h, bs) /\ Slab \in Nat \ {0}
      /\ b.raw \in Nat /\ b.class \in Nat \ {0} /\ d.raw \in Nat /\ d.class \in Nat \ {0}
  BY SizesLemma DEF HeapHolds, HeapTypes, BlockRec, Units
<1>2. /\ s \in Nat /\ n \in Nat \ {0} /\ SlabsOf(b) = s..s + n - 1
      /\ s * Slab <= b.raw /\ b.raw + b.class <= (s + n) * Slab /\ s \in SlabsOf(b)
      /\ Pooled(b.class) => b.class \in PoolClass /\ n = 1 /\ b.raw \in Slots(s, b.class)
  BY ExtentLemma
<1>3. /\ t \in Nat /\ m \in Nat \ {0} /\ SlabsOf(d) = t..t + m - 1
      /\ t * Slab <= d.raw /\ d.raw + d.class <= (t + m) * Slab /\ t \in SlabsOf(d)
      /\ Pooled(d.class) => d.class \in PoolClass /\ m = 1 /\ d.raw \in Slots(t, d.class)
  BY ExtentLemma
<1>4. b.raw \in Mine(h, bs, b.class) /\ d.raw \in Mine(h, bs, d.class)
  BY DEF Mine, Held
<1> HIDE DEF s, n, t, m
<1>5. CASE SlabsOf(b) \cap SlabsOf(d) = {}
  <2>1. ~(s <= t /\ t <= s + n - 1)
    BY <1>2, <1>3, <1>5
  <2>2. ~(t <= s /\ s <= t + m - 1)
    BY <1>2, <1>3, <1>5
  <2>3. s + n <= t \/ t + m <= s
    BY <1>2, <1>3, <2>1, <2>2
  <2>4. s + n <= t => (s + n) * Slab <= t * Slab
    BY <1>1, <1>2, <1>3, SMT
  <2>5. t + m <= s => (t + m) * Slab <= s * Slab
    BY <1>1, <1>2, <1>3, SMT
  <2> DEFINE sn == (s + n) * Slab
             tm == (t + m) * Slab
             ss == s * Slab
             tt == t * Slab
  <2>6. sn \in Nat /\ tm \in Nat /\ ss \in Nat /\ tt \in Nat
    BY <1>1, <1>2, <1>3, SMT
  <2>7. /\ sn <= tt \/ tm <= ss
        /\ ss <= b.raw /\ b.raw + b.class <= sn /\ tt <= d.raw /\ d.raw + d.class <= tm
    BY <1>2, <1>3, <2>3, <2>4, <2>5
  <2> HIDE DEF sn, tm, ss, tt
  <2> QED BY <1>1, <2>6, <2>7
<1>6. CASE SlabsOf(b) \cap SlabsOf(d) # {}
  <2>1. Pooled(b.class) /\ Pooled(d.class)
    <3>1. CASE ~Pooled(b.class) /\ ~Pooled(d.class)
      BY <1>1, <1>6, <3>1 DEF SlabsApart, Bigs
    <3>2. CASE ~Pooled(b.class) /\ Pooled(d.class)
      <4>1. SlabsOf(d) = {t}
        BY <1>3, <3>2
      <4>2. b \in Bigs(bs) /\ t \notin SlabsOf(b)
        BY <1>1, <1>3, <1>4, <3>2 DEF SlabsApart, Bigs, t
      <4> QED BY <1>6, <4>1, <4>2
    <3>3. CASE Pooled(b.class) /\ ~Pooled(d.class)
      <4>1. SlabsOf(b) = {s}
        BY <1>2, <3>3
      <4>2. d \in Bigs(bs) /\ s \notin SlabsOf(d)
        BY <1>1, <1>2, <1>4, <3>3 DEF SlabsApart, Bigs, s
      <4> QED BY <1>6, <4>1, <4>2
    <3> QED BY <3>1, <3>2, <3>3
  <2>2. s = t
    BY <1>2, <1>3, <1>6, <2>1
  <2>3. b.class = d.class
    BY <1>1, <1>2, <1>3, <1>4, <2>1, <2>2 DEF SlabsApart, s, t
  <2>4. b.raw # d.raw
    BY <1>1, <1>2, <2>1, <2>3 DEF SlotsOnce
  <2>5. b.class \in 1..Slab
    BY <1>2, <2>1, SizesLemma
  <2> QED BY <1>2, <1>3, <2>1, <2>2, <2>3, <2>4, <2>5, SlotsApart
<1> QED BY <1>5, <1>6

\* Nothing that is held of the heaps overlaps.
HeapsApart ==
    /\ \A b \in blocks :
         /\ Bytes(b) \subseteq b.raw + Header..b.raw + b.class - 1
         /\ \A d \in blocks \ {b} : Bytes(b) \cap (d.raw..d.raw + d.class - 1) = {}
    /\ \A b \in ownBlocks : \A d \in ownBlocks \ {b} :
         b[1] + b[2] <= d[1] \/ d[1] + d[2] <= b[1]

LEMMA HeapsApartLemma == ASSUME HeapHolds(heap, blocks), OwnHolds PROVE HeapsApart
<1>1. ASSUME NEW b \in blocks
      PROVE  /\ Bytes(b) \subseteq b.raw + Header..b.raw + b.class - 1
             /\ \A d \in blocks \ {b} : Bytes(b) \cap (d.raw..d.raw + d.class - 1) = {}
  <2>1. /\ b.raw \in Nat /\ b.class \in Nat /\ b.at \in Nat /\ b.size \in Nat
        /\ b.raw + Header <= b.at /\ b.at + b.size <= b.raw + b.class
    BY SizesLemma DEF HeapHolds, HeapTypes, BlockRec, Units, Fits
  <2>2. Bytes(b) \subseteq b.raw + Header..b.raw + b.class - 1
    BY <2>1 DEF Bytes, Header
  <2>3. ASSUME NEW d \in blocks \ {b} PROVE Bytes(b) \cap (d.raw..d.raw + d.class - 1) = {}
    <3>1. b.raw + b.class <= d.raw \/ d.raw + d.class <= b.raw
      BY BlocksApart
    <3>2. d.raw \in Nat /\ d.class \in Nat
      BY SizesLemma DEF HeapHolds, HeapTypes, BlockRec, Units
    <3> QED BY <2>1, <3>1, <3>2 DEF Bytes, Header
  <2> QED BY <2>2, <2>3
<1>2. ASSUME NEW b \in ownBlocks, NEW d \in ownBlocks \ {b}
      PROVE  b[1] + b[2] <= d[1] \/ d[1] + d[2] <= b[1]
  BY DEF OwnHolds, OwnApart, PiecesApart, Beside
<1> QED BY <1>1, <1>2 DEF HeapsApart

\* Nor does what waits to be mapped again.
LEMMA RegionApartLemma ==
    ASSUME RegionHolds
    PROVE  /\ \A i \in DOMAIN region.free :
                LET mine == Stretch(region.free[i][1], region.free[i][2]) IN
                /\ \A p \in mine : page[p] = "reserved" /\ p < region.next
                /\ \A j \in DOMAIN region.free \ {i} :
                     mine \cap Stretch(region.free[j][1], region.free[j][2]) = {}
           /\ \A p \in DOMAIN page : p >= region.next => page[p] = "reserved"
<1>1. RegionApart(region, page)
  BY DEF RegionHolds
<1>2. DOMAIN page = 0..Pages - 1
  BY <1>1 DEF RegionApart
<1>3. ASSUME NEW i \in DOMAIN region.free, NEW p \in Stretch(region.free[i][1], region.free[i][2])
      PROVE  page[p] = "reserved" /\ p < region.next
  <2>1. region.free[i] \in Nat \X (Nat \ {0})
    BY <1>1 DEF RegionApart
  <2>2. p \in Nat
    BY <2>1 DEF Stretch
  <2> QED BY <1>1, <2>2 DEF RegionApart, Waits
<1> QED BY <1>1, <1>2, <1>3 DEF RegionApart

\* The books are right.
LEMMA AccountedLemma == ASSUME HeapHolds(heap, blocks) PROVE HeapAccounted
<1> DEFINE raws == {b.raw : b \in blocks}
<1>1. /\ heap \in HeapRec /\ DOMAIN heap.pool = PoolClass
      /\ SlabsApart(heap, blocks) /\ SlotsOnce(heap, blocks) /\ CountsRight(heap, blocks)
  BY DEF HeapHolds, HeapTypes, HeapRec
<1>2. ASSUME NEW c \in PoolClass
      PROVE  /\ heap.free[c] = Cardinality(heap.pool[c]) + Cardinality(heap.over[c])
             /\ heap.pool[c] \cap heap.over[c] = {}
             /\ heap.pool[c] \subseteq heap.marks /\ heap.over[c] \cap heap.marks = {}
             /\ \A p \in heap.pool[c] \cup heap.over[c] :
                  /\ SlabOf(p) \in heap.taken
                  /\ \A q \in Slots(SlabOf(p), c) : q \in heap.pool[c] \cup heap.over[c] \cup raws
  <2>1. Held(blocks, c) \subseteq raws
    BY DEF Held
  <2> QED BY <1>1, <2>1 DEF SlabsApart, SlotsOnce, CountsRight, Mine, Spare
<1>3. ASSUME NEW c \in PoolClass, NEW p \in heap.pool[c] \cup heap.over[c], NEW b \in blocks, b.raw = p
      PROVE  FALSE
  <2>1. p \in Mine(heap, blocks, c) /\ b.raw \in Mine(heap, blocks, b.class)
    BY DEF Mine, Spare, Held
  <2>2. SlabOf(b.raw) \in SlabsOf(b) /\ (Pooled(b.class) => b.class \in PoolClass)
    BY ExtentLemma
  <2>3. CASE ~Pooled(b.class)
    BY <1>1, <1>3, <2>1, <2>2, <2>3 DEF SlabsApart, Bigs
  <2>4. CASE Pooled(b.class) /\ b.class # c
    BY <1>1, <1>3, <2>1, <2>2, <2>4 DEF SlabsApart
  <2>5. CASE b.class = c
    BY <1>1, <1>3, <2>5 DEF SlotsOnce, Spare, Held
  <2> QED BY <2>3, <2>4, <2>5
<1>4. \A s \in 0..Slabs - 1 :
         heap.live[s] = Cardinality({b \in blocks : Pooled(b.class) /\ SlabOf(b.raw) = s})
  BY <1>1 DEF CountsRight, LiveIn, AllSlabs
<1>5. \A b \in blocks : SlabOf(b.raw) \in heap.taken
  BY ExtentLemma
<1>6. \A c \in PoolClass : (heap.pool[c] \cup heap.over[c]) \cap raws = {}
  BY <1>3
<1> HIDE DEF raws
<1>7. \A c \in DOMAIN heap.pool :
         /\ heap.free[c] = Cardinality(heap.pool[c]) + Cardinality(heap.over[c])
         /\ heap.pool[c] \cap heap.over[c] = {}
         /\ (heap.pool[c] \cup heap.over[c]) \cap raws = {}
         /\ heap.pool[c] \subseteq heap.marks /\ heap.over[c] \cap heap.marks = {}
         /\ \A p \in heap.pool[c] \cup heap.over[c] :
              /\ SlabOf(p) \in heap.taken
              /\ \A q \in Slots(SlabOf(p), c) : q \in heap.pool[c] \cup heap.over[c] \cup raws
  BY <1>1, <1>2, <1>6
<1> QED BY <1>4, <1>5, <1>7 DEF HeapAccounted, raws

\* In every state reached the heap's books are right: a slot of a class's slab
\* is held or free once, and the counts and the marks agree with it
\* (draw, free_raw, refill, release).
THEOREM HeapIsAccounted == Spec => []HeapAccounted
<1>1. Init => HeapHolds(heap, blocks)
  BY HeapInit
<1>2. HeapHolds(heap, blocks) /\ [Next]_vars => HeapHolds(heap, blocks)'
  BY HeapStep
<1>3. HeapHolds(heap, blocks) => HeapAccounted
  BY AccountedLemma
<1> QED BY <1>1, <1>2, <1>3, PTL DEF Spec

\* Whatever the kernel does in between, no byte of the guest's heap or of the
\* supervisor's is handed out twice (draw, take_slabs, release, pop_huge).
THEOREM HeapsAreApart == Spec => []HeapsApart
<1>1. Init => HeapHolds(heap, blocks) /\ OwnHolds
  BY HeapInit, OwnInit
<1>2. (HeapHolds(heap, blocks) /\ OwnHolds) /\ [Next]_vars => (HeapHolds(heap, blocks) /\ OwnHolds)'
  BY HeapStep, OwnStep
<1>3. HeapHolds(heap, blocks) /\ OwnHolds => HeapsApart
  BY HeapsApartLemma
<1> QED BY <1>1, <1>2, <1>3, PTL DEF Spec

\* Nor is a page of the region, if the kernel places nothing in the hole that
\* an unmapping leaves until it is reserved again (give_back): then no memory
\* of any kind is handed out twice.
NoRace == \A P \in Programs : "race" \notin P
THEOREM NothingIsHandedOutTwice == ASSUME NoRace PROVE Spec => []NothingOverlaps
<1> DEFINE IInv == /\ HeapHolds(heap, blocks) /\ OwnHolds /\ RegionHolds
                   /\ "race" \notin calls
<1>1. Init => IInv
  BY NoRace, HeapInit, OwnInit, RegionInit DEF NoRace, Init
<1>2. IInv /\ [Next]_vars => IInv'
  <2> SUFFICES ASSUME IInv, [Next]_vars PROVE IInv'
    OBVIOUS
  <2>1. calls' = calls
    BY DEF Next, vars, Malloc, Memalign, Allocates, Free, OutsideFree, Realloc, OwnAlloc, OwnFree,
           Mmap, MachVmMap, Maps, Shmat, Unmap, GiveBack, StackFreed, KernelPlaces
  <2> QED BY <2>1, HeapStep, OwnStep, RegionStep
<1>3. IInv => NothingOverlaps
  <2> SUFFICES ASSUME IInv PROVE NothingOverlaps
    OBVIOUS
  <2>1. HeapsApart
    BY HeapsApartLemma
  <2> QED BY <2>1, RegionApartLemma DEF NothingOverlaps, HeapsApart
<1> QED BY <1>1, <1>2, <1>3, PTL DEF Spec

=============================================================================
