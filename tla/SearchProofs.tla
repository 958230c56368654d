---------------------------- MODULE SearchProofs ----------------------------
(***************************************************************************)
(* What the tools that run a seed again report is what they measured, for  *)
(* any time of failure, resolution, number of futures and number of sites, *)
(* and however the runs come out.                                          *)
(***************************************************************************)
EXTENDS Search, SequenceTheorems, WellFoundedInduction, TLAPS

\* The sequence names nothing twice
Distinct(s) == \A i, j \in DOMAIN s : s[i] = s[j] => i = j

TypeInv ==
    /\ tool \in [at: {"bisect", "last", "halving", "found", "trace", "check", "ddmin", "minimal", "error"},
                 sites: {"none", "memory", "others"}]
    /\ want \in [failure: Nat, resolution: Nat \ {0}, futures: Nat]
    /\ span \in [lo: Nat, hi: Nat, hiProbed: BOOLEAN, n: Nat, base: Nat, threshold: Nat, unsure: BOOLEAN]
    /\ \A p \in probed : p.at \in Nat /\ p.round \in {0, 1} /\ p.decided \in BOOLEAN
    /\ \A S \in DOMAIN runs : runs[S] \in BOOLEAN
    /\ current \in Seq(Nat) /\ Distinct(current)
    /\ parts \in Nat /\ parts >= 2

\* A first measurement says that the failure is decided from the end of the
\* interval on, or open up to its start
OnItsSide(p) == IF p.decided THEN p.at >= span.hi ELSE p.at <= span.lo

BisectInv ==
    /\ At("bisect") => probed = {}
    /\ At("last") => probed = {} /\ want.failure > 2 * want.resolution
    /\ tool.at \in {"last", "halving", "found"} => span.base < span.threshold
    /\ tool.at \in {"halving", "found"} => span.lo < span.hi
    /\ At("halving") => \A p \in probed : p.round = 0 /\ OnItsSide(p)
    /\ At("found") => Narrow /\ \A p \in probed : /\ p.round = 0 => OnItsSide(p)
                                                  /\ ~span.unsure => p.decided = (p.at >= span.hi)

\* What ddmin is at was run and failed; nothing allowed did not
DdminInv ==
    /\ tool.at \in {"check", "ddmin", "minimal"} =>
         Allowed(current) \in DOMAIN runs /\ runs[Allowed(current)]
    /\ At("ddmin") => {} \in DOMAIN runs /\ ~runs[{}]
    /\ At("minimal") => \A s \in Allowed(current) :
         Allowed(current) \ {s} \in DOMAIN runs /\ ~runs[Allowed(current) \ {s}]

Inv == TypeInv /\ BisectInv /\ DdminInv

----------------------------------------------------------------------------
(***************************************************************************)
(* What ddmin cuts, runs and finds.                                        *)
(***************************************************************************)

\* A part has at least one element, and one only if there are as many parts
\* as elements.
LEMMA ChunkLemma ==
    ASSUME NEW len \in Nat \ {0}, NEW n \in Nat \ {0}
    PROVE  Chunk(len, n) \in Nat \ {0} /\ (n >= len => Chunk(len, n) = 1)
<1>1. Chunk(len, n) \in Nat \ {0}
  BY SMT DEF Chunk
<1>2. ASSUME n >= len PROVE Chunk(len, n) = 1
  BY <1>2, SMT DEF Chunk
<1> QED BY <1>1, <1>2

\* A piece of a sequence that names nothing twice.
LEMMA PieceLemma ==
    ASSUME NEW s \in Seq(Nat), Distinct(s), NEW a \in Nat \ {0}, NEW b \in Nat, b <= Len(s)
    PROVE  SubSeq(s, a, b) \in Seq(Nat) /\ Distinct(SubSeq(s, a, b))
<1> DEFINE t == SubSeq(s, a, b)
<1>1. t \in Seq(Nat)
  OBVIOUS
<1>2. Len(t) = (IF a <= b THEN b - a + 1 ELSE 0) /\ \A i \in 1..Len(t) : t[i] = s[a + i - 1]
  OBVIOUS
<1>3. \A i \in 1..Len(t) : a + i - 1 \in 1..Len(s)
  BY <1>2
<1>4. ASSUME NEW i \in 1..Len(t), NEW j \in 1..Len(t), t[i] = t[j] PROVE i = j
  <2>1. s[a + i - 1] = s[a + j - 1]
    BY <1>2, <1>4
  <2>2. a + i - 1 = a + j - 1
    BY <1>3, <2>1 DEF Distinct
  <2> QED BY <2>2
<1> HIDE DEF t
<1>5. Distinct(t)
  BY <1>1, <1>4, SMTT(40) DEF Distinct
<1> QED BY <1>1, <1>5 DEF t

\* A part of a sequence that names nothing twice names nothing twice.
LEMMA PartsLemma ==
    ASSUME NEW s \in Seq(Nat), Distinct(s), Len(s) >= 2, NEW n \in Nat, n >= 2
    PROVE  /\ Chunk(Len(s), Chunk(Len(s), n)) \in Nat
           /\ DOMAIN Parts(s, n) = 1..Chunk(Len(s), Chunk(Len(s), n)) /\ Parts(s, n) \in Seq(Seq(Nat))
           /\ \A i \in DOMAIN Parts(s, n) : Parts(s, n)[i] \in Seq(Nat) /\ Distinct(Parts(s, n)[i])
<1> DEFINE c == Chunk(Len(s), n)
           m == Chunk(Len(s), c)
<1>1. c \in Nat \ {0} /\ m \in Nat \ {0}
  BY ChunkLemma
<1>2. Parts(s, n) = [i \in 1..m |-> SubSeq(s, (i - 1) * c + 1, IF i * c > Len(s) THEN Len(s) ELSE i * c)]
  BY DEF Parts
<1> HIDE DEF c, m
<1>3. ASSUME NEW i \in 1..m
      PROVE  /\ (i - 1) * c + 1 \in Nat \ {0}
             /\ (IF i * c > Len(s) THEN Len(s) ELSE i * c) \in 0..Len(s)
  BY <1>1, SMT
<1>4. ASSUME NEW i \in 1..m
      PROVE  Parts(s, n)[i] \in Seq(Nat) /\ Distinct(Parts(s, n)[i])
  BY <1>2, <1>3, PieceLemma, SMTT(40)
<1>5. Parts(s, n) \in Seq(Seq(Nat))
  BY <1>1, <1>2, <1>4
<1> QED BY <1>1, <1>2, <1>4, <1>5 DEF m, c

\* Every part starts within the sequence.
LEMMA StartsLemma ==
    ASSUME NEW len \in Nat \ {0}, NEW c \in Nat \ {0}, NEW i \in 1..Chunk(len, c)
    PROVE  (i - 1) * c \in Nat /\ (i - 1) * c < len /\ i * c = (i - 1) * c + c
<1> DEFINE m == Chunk(len, c)
<1>1. m \in Nat \ {0} /\ m * c <= len + c - 1
  <2>1. len + c - 1 \in Nat
    OBVIOUS
  <2>2. m = (len + c - 1) \div c
    BY DEF Chunk
  <2>3. m * c <= len + c - 1
    BY <2>1, <2>2, SMT
  <2> QED BY <2>3, ChunkLemma
<1> HIDE DEF m
<1>2. i \in Nat \ {0} /\ i <= m
  BY <1>1 DEF m
<1>3. i * c <= m * c /\ i * c \in Nat
  BY <1>1, <1>2, SMT
<1>4. i * c = (i - 1) * c + c /\ (i - 1) * c \in Nat
  BY <1>2, SMT
<1>5. m * c \in Nat
  BY <1>1, SMT
<1> QED BY <1>1, <1>3, <1>4, <1>5

\* What comes before one place and after a later one names nothing twice.
LEMMA GapLemma ==
    ASSUME NEW s \in Seq(Nat), Distinct(s), NEW a \in Nat, NEW b \in Nat, a < b, a <= Len(s)
    PROVE  LET w == SubSeq(s, 1, a) \o SubSeq(s, b, Len(s))
           IN  /\ w \in Seq(Nat) /\ Distinct(w)
               /\ Range(w) = {s[k] : k \in {j \in 1..Len(s) : j <= a \/ j >= b}}
<1> DEFINE x == SubSeq(s, 1, a)
           y == SubSeq(s, b, Len(s))
           w == x \o y
           at == [k \in 1..Len(w) |-> IF k <= a THEN k ELSE k - a + b - 1]
<1>1. x \in Seq(Nat) /\ Len(x) = a /\ \A k \in 1..a : x[k] = s[k]
  OBVIOUS
<1>2. /\ y \in Seq(Nat) /\ Len(y) = (IF b <= Len(s) THEN Len(s) - b + 1 ELSE 0)
      /\ \A k \in 1..Len(y) : y[k] = s[b + k - 1]
  OBVIOUS
<1> HIDE DEF x, y
<1>3. /\ w \in Seq(Nat) /\ Len(w) = Len(x) + Len(y)
      /\ \A k \in 1..Len(w) : w[k] = IF k <= Len(x) THEN x[k] ELSE y[k - Len(x)]
  <2>1. /\ x \o y \in Seq(Nat) /\ Len(x \o y) = Len(x) + Len(y)
        /\ \A k \in 1..Len(x) + Len(y) : (x \o y)[k] = IF k <= Len(x) THEN x[k] ELSE y[k - Len(x)]
    <3>1. x \in Seq(Nat) /\ y \in Seq(Nat)
      BY <1>1, <1>2
    <3> QED BY <3>1, ConcatProperties, Zenon
  <2> QED BY <2>1
<1> HIDE DEF w
<1>4. /\ \A k \in 1..Len(w) : at[k] \in 1..Len(s) /\ (at[k] <= a \/ at[k] >= b) /\ w[k] = s[at[k]]
      /\ \A k, l \in 1..Len(w) : at[k] = at[l] => k = l
  <2>1. Len(w) = a + Len(y) /\ Len(y) \in Nat /\ Len(w) \in Nat
    BY <1>1, <1>2, <1>3
  <2>2. \A k \in 1..Len(w) : at[k] = IF k <= a THEN k ELSE k - a + b - 1
    OBVIOUS
  <2>3. \A k, l \in 1..Len(w) : at[k] = at[l] => k = l
    BY <2>1, <2>2
  <2> HIDE DEF at
  <2>4. ASSUME NEW k \in 1..Len(w)
        PROVE  at[k] \in 1..Len(s) /\ (at[k] <= a \/ at[k] >= b)
    <3>1. Len(s) \in Nat
      OBVIOUS
    <3>2. k \in Nat /\ 1 <= k /\ k <= a + Len(y)
      BY <2>1
    <3>3. CASE k <= a
      BY <2>2, <3>1, <3>2, <3>3
    <3>4. CASE ~(k <= a)
      <4>1. at[k] = k - a + b - 1 /\ Len(y) > 0
        BY <2>1, <2>2, <3>2, <3>4
      <4>2. Len(y) = Len(s) - b + 1
        BY <1>2, <4>1
      <4> QED BY <2>1, <3>1, <3>2, <3>4, <4>1, <4>2
    <3> QED BY <3>3, <3>4
  <2>5. ASSUME NEW k \in 1..Len(w)
        PROVE  w[k] = s[at[k]]
    <3>1. CASE k <= a
      BY <3>1, <1>1, <1>3, <2>2
    <3>2. CASE ~(k <= a)
      <4>1. k - a \in 1..Len(y) /\ w[k] = y[k - a]
        BY <3>2, <1>1, <1>3, <2>1
      <4>2. y[k - a] = s[b + (k - a) - 1]
        BY <4>1, <1>2
      <4>3. b + (k - a) - 1 = at[k]
        BY <3>2, <2>1, <2>2
      <4> QED BY <4>1, <4>2, <4>3
    <3> QED BY <3>1, <3>2
  <2> QED BY <2>3, <2>4, <2>5
<1>5. ASSUME NEW j \in 1..Len(s), j <= a \/ j >= b
      PROVE  \E k \in 1..Len(w) : at[k] = j
  <2>1. CASE j <= a
    <3>1. j \in 1..Len(w)
      BY <2>1, <1>1, <1>2, <1>3
    <3> QED BY <2>1, <3>1
  <2>2. CASE j >= b
    <3>1. j - b + 1 + a \in 1..Len(w) /\ ~(j - b + 1 + a <= a)
      <4>1. Len(w) = a + Len(y) /\ a \in Nat /\ b \in Nat
        BY <1>1, <1>3
      <4>2. j \in Nat /\ j <= Len(s) /\ Len(s) \in Nat
        OBVIOUS
      <4>3. Len(y) = Len(s) - b + 1
        BY <2>2, <1>2, <4>1, <4>2
      <4> QED BY <2>2, <4>1, <4>2, <4>3
    <3>2. at[j - b + 1 + a] = j
      <4>1. at[j - b + 1 + a] = (j - b + 1 + a) - a + b - 1
        BY <3>1
      <4> QED BY <4>1
    <3> QED BY <3>1, <3>2
  <2> QED BY <1>5, <2>1, <2>2
<1> HIDE DEF at
<1>6. DOMAIN w = 1..Len(w) /\ DOMAIN s = 1..Len(s)
  BY <1>3
<1>7. Distinct(w)
  BY <1>4, <1>6 DEF Distinct
<1>8. Range(w) = {s[k] : k \in {j \in 1..Len(s) : j <= a \/ j >= b}}
  <2> DEFINE J == {j \in 1..Len(s) : j <= a \/ j >= b}
  <2>1. Range(w) = {w[k] : k \in 1..Len(w)}
    BY <1>6 DEF Range
  <2>2. \A k \in 1..Len(w) : at[k] \in J /\ w[k] = s[at[k]]
    BY <1>4
  <2>3. \A j \in J : \E k \in 1..Len(w) : at[k] = j
    BY <1>5
  <2> HIDE DEF J
  <2>4. Range(w) = {s[k] : k \in J}
    <3>1. ASSUME NEW k \in 1..Len(w) PROVE w[k] \in {s[j] : j \in J}
      BY <2>2
    <3>2. ASSUME NEW j \in J PROVE s[j] \in {w[k] : k \in 1..Len(w)}
      <4>1. PICK k \in 1..Len(w) : at[k] = j
        BY <2>3
      <4>2. w[k] = s[j]
        BY <2>2, <4>1
      <4> QED BY <4>2
    <3> QED BY <2>1, <3>1, <3>2
  <2> QED BY <2>4 DEF J
<1> QED BY <1>3, <1>7, <1>8 DEF w, x, y

\* What is left without a part names nothing twice either.
LEMMA WithoutLemma ==
    ASSUME NEW s \in Seq(Nat), Distinct(s), Len(s) >= 2, NEW n \in Nat, n >= 2,
           NEW i \in DOMAIN Parts(s, n)
    PROVE  Without(s, n, i) \in Seq(Nat) /\ Distinct(Without(s, n, i))
<1> DEFINE c == Chunk(Len(s), n)
           a == (i - 1) * c
           b == i * c + 1
<1>1. c \in Nat \ {0} /\ i \in 1..Chunk(Len(s), c)
  <2>1. Len(s) \in Nat \ {0} /\ n \in Nat \ {0}
    OBVIOUS
  <2>2. DOMAIN Parts(s, n) = 1..Chunk(Len(s), c)
    BY PartsLemma
  <2> QED BY <2>1, <2>2, ChunkLemma
<1>2. a \in Nat /\ b \in Nat /\ a < b /\ a <= Len(s)
  <2> HIDE DEF c
  <2>1. Len(s) \in Nat \ {0}
    OBVIOUS
  <2>2. a \in Nat /\ a < Len(s) /\ i * c = a + c
    BY <1>1, <2>1, StartsLemma
  <2>3. b = a + c + 1
    BY <2>2
  <2> HIDE DEF a, b
  <2> QED BY <1>1, <2>1, <2>2, <2>3
<1>3. Without(s, n, i) = SubSeq(s, 1, a) \o SubSeq(s, b, Len(s))
  BY DEF Without
<1> HIDE DEF a, b
<1> QED BY <1>2, <1>3, GapLemma

\* Cut as finely as can be, every part is one element.
LEMMA FinestLemma ==
    ASSUME NEW s \in Seq(Nat), Distinct(s), Len(s) >= 2, NEW n \in Nat, n >= 2, n >= Len(s)
    PROVE  /\ DOMAIN Parts(s, n) = 1..Len(s)
           /\ \A i \in 1..Len(s) : /\ Allowed(Parts(s, n)[i]) = {s[i]}
                                   /\ Allowed(Without(s, n, i)) = Allowed(s) \ {s[i]}
<1>1. Chunk(Len(s), n) = 1
  BY ChunkLemma
<1>2. Chunk(Len(s), 1) = Len(s)
  BY SMT DEF Chunk
<1>3. DOMAIN Parts(s, n) = 1..Len(s)
  BY <1>1, <1>2, PartsLemma
<1>4. ASSUME NEW i \in 1..Len(s)
      PROVE  Allowed(Parts(s, n)[i]) = {s[i]}
  <2>1. Parts(s, n)[i] = SubSeq(s, (i - 1) * 1 + 1, IF i * 1 > Len(s) THEN Len(s) ELSE i * 1)
    BY <1>1, <1>2 DEF Parts
  <2>2. (i - 1) * 1 + 1 = i /\ i * 1 = i /\ ~(i > Len(s))
    OBVIOUS
  <2>3. Parts(s, n)[i] = SubSeq(s, i, i)
    BY <2>1, <2>2
  <2>4. DOMAIN SubSeq(s, i, i) = {1} /\ SubSeq(s, i, i)[1] = s[i]
    OBVIOUS
  <2> QED BY <2>3, <2>4 DEF Allowed, Range
<1>5. ASSUME NEW i \in 1..Len(s)
      PROVE  Allowed(Without(s, n, i)) = Allowed(s) \ {s[i]}
  <2>1. Without(s, n, i) = SubSeq(s, 1, i - 1) \o SubSeq(s, i + 1, Len(s))
    <3>1. Without(s, n, i) = SubSeq(s, 1, (i - 1) * 1) \o SubSeq(s, i * 1 + 1, Len(s))
      BY <1>1 DEF Without
    <3>2. (i - 1) * 1 = i - 1 /\ i * 1 + 1 = i + 1
      OBVIOUS
    <3> QED BY <3>1, <3>2
  <2>2. Range(Without(s, n, i)) = {s[k] : k \in {j \in 1..Len(s) : j <= i - 1 \/ j >= i + 1}}
    <3> DEFINE x == i - 1
               y == i + 1
    <3>1. x \in Nat /\ y \in Nat /\ x < y /\ x <= Len(s)
      OBVIOUS
    <3>2. Without(s, n, i) = SubSeq(s, 1, x) \o SubSeq(s, y, Len(s))
      BY <2>1
    <3> HIDE DEF x, y
    <3>3. Range(SubSeq(s, 1, x) \o SubSeq(s, y, Len(s))) = {s[k] : k \in {j \in 1..Len(s) : j <= x \/ j >= y}}
      BY <3>1, GapLemma
    <3> QED BY <3>2, <3>3 DEF x, y
  <2>3. {j \in 1..Len(s) : j <= i - 1 \/ j >= i + 1} = 1..Len(s) \ {i}
    OBVIOUS
  <2>4. DOMAIN s = 1..Len(s)
    OBVIOUS
  <2> QED BY <2>2, <2>3, <2>4 DEF Allowed, Range, Distinct
<1> QED BY <1>3, <1>4, <1>5

\* Runs that were made stay what they were.
LEMMA MadeLemma ==
    ASSUME NEW rs, NEW sets, NEW new \in Made(rs, sets), \A S \in DOMAIN rs : rs[S] \in BOOLEAN
    PROVE  /\ DOMAIN new = DOMAIN rs \cup sets
           /\ \A S \in DOMAIN rs : new[S] = rs[S]
           /\ \A S \in DOMAIN new : new[S] \in BOOLEAN
BY DEF Made

\* The first failing of some runs is one of them that fails, if any does.
LEMMA FirstLemma ==
    ASSUME NEW rs, NEW ss, NEW m \in Nat, DOMAIN ss = 1..m
    PROVE  /\ FirstFailing(rs, ss) # 0 =>
                FirstFailing(rs, ss) \in DOMAIN ss /\ rs[Allowed(ss[FirstFailing(rs, ss)])]
           /\ FirstFailing(rs, ss) = 0 => \A i \in DOMAIN ss : ~rs[Allowed(ss[i])]
<1> DEFINE bad == {i \in DOMAIN ss : rs[Allowed(ss[i])]}
           R == {p \in Nat \X Nat : p[1] < p[2]}
<1>1. CASE bad = {}
  BY <1>1 DEF FirstFailing
<1>2. CASE bad # {}
  <2>1. IsWellFoundedOn(R, Nat)
    BY NatLessThanWellFounded DEF OpToRel
  <2>2. bad \subseteq 1..m
    OBVIOUS
  <2> HIDE DEF bad
  <2>3. PICK x \in bad : \A y \in bad : ~(<<y, x>> \in R)
    <3>1. \E x \in bad : \A y \in bad : ~(<<y, x>> \in R)
      <4>1. bad \subseteq Nat
        BY <2>2
      <4> QED BY <1>2, <2>1, <4>1, WFMin, Zenon
    <3> QED BY <3>1
  <2>4. \A y \in bad : x <= y
    <3> SUFFICES ASSUME NEW y \in bad, ~(x <= y) PROVE FALSE
      OBVIOUS
    <3>1. x \in Nat /\ y \in Nat
      BY <2>2
    <3>2. <<y, x>> \in R
      BY <3>1
    <3> QED BY <2>3, <3>2
  <2>5. FirstFailing(rs, ss) = CHOOSE i \in bad : \A j \in bad : i <= j
    BY <1>2 DEF FirstFailing, bad
  <2>6. FirstFailing(rs, ss) \in bad
    BY <2>4, <2>5
  <2>7. FirstFailing(rs, ss) # 0
    BY <2>2, <2>6
  <2> QED BY <2>6, <2>7 DEF bad
<1> QED BY <1>1, <1>2

----------------------------------------------------------------------------
(***************************************************************************)
(* What bisect computes.                                                   *)
(***************************************************************************)

\* If the base rate is not too near to certainty, it is below what decides a
\* probe.
LEMMA ThresholdLemma ==
    ASSUME want \in [failure: Nat, resolution: Nat \ {0}, futures: Nat], want.futures > 0,
           NEW failed \in 0..want.futures, ~TooLikely(failed)
    PROVE  /\ PerProbe(failed) \in Nat
           /\ (failed * PerProbe(failed)) \div want.futures \in Nat
           /\ LET base == (failed * PerProbe(failed)) \div want.futures
              IN  /\ Threshold(base, PerProbe(failed)) \in Nat
                  /\ base < Threshold(base, PerProbe(failed))
<1> DEFINE f == want.futures
<1>1. f \in Nat \ {0} /\ failed \in Nat /\ failed * 5 < f * 4
  BY DEF TooLikely
<1>2. PICK m \in {1, 2, 4} : PerProbe(failed) = f * m
  BY DEF PerProbe
<1> DEFINE n == PerProbe(failed)
           base == (failed * n) \div f
<1>3. n \in Nat /\ failed < f
  BY <1>1, <1>2
<1>4. base = failed * m /\ n = f * m
  <2> HIDE DEF f
  <2>1. failed * n = (failed * m) * f /\ failed * m \in Nat
    BY <1>1, <1>2
  <2> HIDE DEF n
  <2>2. ((failed * m) * f) \div f = failed * m
    BY <1>1, <2>1, SMT
  <2> QED BY <1>2, <2>1, <2>2 DEF n
<1>5. base \in Nat /\ base < n
  <2> HIDE DEF base, n, f
  <2> QED BY <1>1, <1>2, <1>3, <1>4
<1> HIDE DEF n, base
<1>6. Threshold(base, n) \in Nat /\ base < Threshold(base, n)
  BY <1>3, <1>5 DEF Threshold, CeilHalf
<1> QED BY <1>3, <1>5, <1>6 DEF n, base

\* A probe is decided or it is not.
LEMMA OutcomesLemma == Outcomes \subseteq BOOLEAN
<1> SUFFICES ASSUME NEW d \in Outcomes PROVE d \in BOOLEAN
  OBVIOUS
<1>1. PICK k \in 0..span.n : d = (k >= span.threshold)
  BY DEF Outcomes
<1>2. (k >= span.threshold) \in BOOLEAN
  OBVIOUS
<1> QED BY <1>1, <1>2

\* While the interval is not narrow enough, its middle is inside.
LEMMA MiddleLemma ==
    ASSUME TypeInv, span.lo < span.hi, ~Narrow
    PROVE  Middle \in Nat /\ span.lo < Middle /\ Middle < span.hi
BY SMTT(40) DEF TypeInv, Narrow, Middle

----------------------------------------------------------------------------
(***************************************************************************)
(* The invariant.                                                          *)
(***************************************************************************)
\* Every tool starts with nothing measured.
LEMMA InitInv == Init => Inv
<1> SUFFICES ASSUME Init PROVE Inv
  OBVIOUS
<1> USE DEF Init, At
<1>1. TypeInv
  <2>1. want \in [failure: Nat, resolution: Nat \ {0}, futures: Nat]
    <3>1. [failure |-> 0, resolution |-> 1, futures |-> 0]
            \in [failure: Nat, resolution: Nat \ {0}, futures: Nat]
      OBVIOUS
    <3>2. [failure: Failures, resolution: Resolutions, futures: Futures]
            \subseteq [failure: Nat, resolution: Nat \ {0}, futures: Nat]
      BY SearchAssumption
    <3> QED BY <3>1, <3>2
  <2>2. current = <<>> /\ DOMAIN current = {} /\ DOMAIN runs = {}
    OBVIOUS
  <2>3. current \in Seq(Nat)
    BY <2>2
  <2>4. Distinct(current)
    BY <2>2 DEF Distinct
  <2> QED BY <2>1, <2>2, <2>3, <2>4 DEF TypeInv
<1>2. BisectInv
  BY DEF BisectInv
<1>3. DdminInv
  BY DEF DdminInv
<1> QED BY <1>1, <1>2, <1>3 DEF Inv

\* Measuring the base rate finds a threshold above it.
LEMMA MeasureBaseInv == ASSUME Inv, MeasureBase PROVE Inv'
<1> USE DEF At, Goes, suspectsVars
<1>1. TypeInv /\ BisectInv /\ DdminInv /\ tool.at = "bisect"
  BY DEF Inv, MeasureBase
<1>2. /\ UNCHANGED <<want, probed, runs, current, parts>>
      /\ probed = {}
  BY <1>1 DEF MeasureBase, BisectInv
<1>3. CASE tool' = [tool EXCEPT !.at = "error"] /\ UNCHANGED span
  <2>1. TypeInv'
    BY <1>1, <1>2, <1>3 DEF TypeInv, Distinct
  <2>2. BisectInv' /\ DdminInv'
    BY <1>1, <1>2, <1>3 DEF TypeInv, BisectInv, DdminInv
  <2> QED BY <2>1, <2>2 DEF Inv
<1>4. CASE /\ Asked /\ tool' = [tool EXCEPT !.at = "last"]
           /\ \E failed \in 0..want.futures :
                /\ ~TooLikely(failed)
                /\ LET n == PerProbe(failed) IN
                   span' = [span EXCEPT !.n = n, !.base = (failed * n) \div want.futures,
                                        !.threshold = Threshold((failed * n) \div want.futures, n)]
  <2>1. PICK failed \in 0..want.futures :
           /\ ~TooLikely(failed)
           /\ LET n == PerProbe(failed) IN
              span' = [span EXCEPT !.n = n, !.base = (failed * n) \div want.futures,
                                   !.threshold = Threshold((failed * n) \div want.futures, n)]
    BY <1>4
  <2> DEFINE n == PerProbe(failed)
             base == (failed * n) \div want.futures
             th == Threshold(base, n)
  <2>2. want.futures > 0 /\ want.failure > 2 * want.resolution
    BY <1>4 DEF Asked
  <2>3. n \in Nat /\ base \in Nat /\ th \in Nat /\ base < th
    BY <1>1, <2>1, <2>2, ThresholdLemma DEF TypeInv
  <2>4. span' = [span EXCEPT !.n = n, !.base = base, !.threshold = th]
    BY <2>1
  <2> HIDE DEF n, base, th
  <2>5. TypeInv'
    BY <1>1, <1>2, <1>4, <2>3, <2>4 DEF TypeInv, Distinct
  <2>6. BisectInv'
    <3>1. span'.base = base /\ span'.threshold = th
      BY <1>1, <2>4 DEF TypeInv
    <3>2. tool'.at = "last"
      BY <1>1, <1>4 DEF TypeInv
    <3> QED BY <1>2, <2>2, <2>3, <3>1, <3>2 DEF BisectInv
  <2>7. DdminInv'
    BY <1>1, <1>4 DEF TypeInv, DdminInv
  <2> QED BY <2>5, <2>6, <2>7 DEF Inv
<1> QED BY <1>3, <1>4 DEF MeasureBase

\* The probe before the end of the process leaves it on one side.
LEMMA ProbeLastInv == ASSUME Inv, ProbeLast PROVE Inv'
<1> USE DEF At, Goes, suspectsVars
<1>1. TypeInv /\ BisectInv /\ DdminInv /\ tool.at = "last"
  BY DEF Inv, ProbeLast
<1>2. PICK d \in Outcomes :
         /\ probed' = probed \cup {[at |-> LastMoment, round |-> 0, decided |-> d]}
         /\ span' = IF d THEN [span EXCEPT !.lo = 0, !.hi = LastMoment, !.hiProbed = TRUE]
                         ELSE [span EXCEPT !.lo = LastMoment, !.hi = want.failure]
  BY DEF ProbeLast, Probes
<1>3. tool' = [tool EXCEPT !.at = "halving"] /\ UNCHANGED <<want, runs, current, parts>>
  BY DEF ProbeLast
<1>4. d \in BOOLEAN /\ probed = {}
  BY <1>1, OutcomesLemma DEF BisectInv
<1>5. LastMoment \in Nat /\ 0 < LastMoment /\ LastMoment < want.failure /\ want.failure \in Nat
  BY <1>1 DEF LastMoment, BisectInv, TypeInv
<1>6. /\ span' \in [lo: Nat, hi: Nat, hiProbed: BOOLEAN, n: Nat, base: Nat, threshold: Nat, unsure: BOOLEAN]
      /\ span'.base = span.base /\ span'.threshold = span.threshold
      /\ span'.lo < span'.hi /\ (IF d THEN LastMoment >= span'.hi ELSE LastMoment <= span'.lo)
  <2>1. CASE d
    <3>1. span \in [lo: Nat, hi: Nat, hiProbed: BOOLEAN, n: Nat, base: Nat, threshold: Nat, unsure: BOOLEAN]
      BY <1>1 DEF TypeInv
    <3>2. span' = [span EXCEPT !.lo = 0, !.hi = LastMoment, !.hiProbed = TRUE]
      BY <1>2, <2>1
    <3>3. /\ span' \in [lo: Nat, hi: Nat, hiProbed: BOOLEAN, n: Nat, base: Nat, threshold: Nat, unsure: BOOLEAN]
          /\ span'.base = span.base /\ span'.threshold = span.threshold
          /\ span'.lo = 0 /\ span'.hi = LastMoment
      BY <1>5, <3>1, <3>2
    <3> QED BY <1>5, <2>1, <3>1, <3>3
  <2>2. CASE ~d
    <3>1. span \in [lo: Nat, hi: Nat, hiProbed: BOOLEAN, n: Nat, base: Nat, threshold: Nat, unsure: BOOLEAN]
      BY <1>1 DEF TypeInv
    <3>2. span' = [span EXCEPT !.lo = LastMoment, !.hi = want.failure]
      BY <1>2, <2>2
    <3>3. /\ span' \in [lo: Nat, hi: Nat, hiProbed: BOOLEAN, n: Nat, base: Nat, threshold: Nat, unsure: BOOLEAN]
          /\ span'.base = span.base /\ span'.threshold = span.threshold
          /\ span'.lo = LastMoment /\ span'.hi = want.failure
      BY <1>5, <3>1, <3>2
    <3> QED BY <1>5, <2>2, <3>1, <3>3
  <2> QED BY <1>4, <2>1, <2>2
<1>7. TypeInv'
  <2>1. \A p \in probed' : p.at \in Nat /\ p.round \in {0, 1} /\ p.decided \in BOOLEAN
    BY <1>1, <1>2, <1>4, <1>5 DEF TypeInv
  <2> QED BY <1>1, <1>3, <1>6, <2>1 DEF TypeInv, Distinct
<1>8. BisectInv'
  <2>1. tool'.at = "halving"
    BY <1>1, <1>3 DEF TypeInv
  <2>2. \A p \in probed' : p = [at |-> LastMoment, round |-> 0, decided |-> d]
    BY <1>2, <1>4
  <2>3. \A p \in probed' : p.round = 0 /\ OnItsSide(p)'
    BY <1>6, <2>2 DEF OnItsSide
  <2>4. span.base < span.threshold
    BY <1>1 DEF BisectInv
  <2> QED BY <1>6, <2>1, <2>3, <2>4 DEF BisectInv
<1>9. DdminInv'
  BY <1>1, <1>3 DEF TypeInv, DdminInv
<1> QED BY <1>7, <1>8, <1>9 DEF Inv

\* A probe in the middle moves one end to it.
LEMMA HalveInv == ASSUME Inv, Halve PROVE Inv'
<1> USE DEF At, Goes, suspectsVars
<1>1. TypeInv /\ BisectInv /\ DdminInv /\ tool.at = "halving" /\ ~Narrow
  BY DEF Inv, Halve
<1>2. PICK d \in Outcomes :
         /\ probed' = probed \cup {[at |-> Middle, round |-> 0, decided |-> d]}
         /\ span' = IF d THEN [span EXCEPT !.hi = Middle, !.hiProbed = TRUE]
                         ELSE [span EXCEPT !.lo = Middle]
  BY DEF Halve, Probes
<1>3. UNCHANGED <<tool, want, runs, current, parts>>
  BY DEF Halve
<1>4. d \in BOOLEAN
  BY OutcomesLemma
<1>5. Middle \in Nat /\ span.lo < Middle /\ Middle < span.hi
  BY <1>1, MiddleLemma DEF BisectInv
<1>6. /\ span' \in [lo: Nat, hi: Nat, hiProbed: BOOLEAN, n: Nat, base: Nat, threshold: Nat, unsure: BOOLEAN]
      /\ span'.base = span.base /\ span'.threshold = span.threshold
      /\ span'.lo < span'.hi /\ (IF d THEN Middle >= span'.hi ELSE Middle <= span'.lo)
      /\ span.lo <= span'.lo /\ span'.hi <= span.hi
  <2>1. CASE d
    <3>1. span \in [lo: Nat, hi: Nat, hiProbed: BOOLEAN, n: Nat, base: Nat, threshold: Nat, unsure: BOOLEAN]
      BY <1>1 DEF TypeInv
    <3>2. span' = [span EXCEPT !.hi = Middle, !.hiProbed = TRUE]
      BY <1>2, <2>1
    <3>3. /\ span' \in [lo: Nat, hi: Nat, hiProbed: BOOLEAN, n: Nat, base: Nat, threshold: Nat, unsure: BOOLEAN]
          /\ span'.base = span.base /\ span'.threshold = span.threshold
          /\ span'.lo = span.lo /\ span'.hi = Middle
      BY <1>5, <3>1, <3>2
    <3> QED BY <1>5, <2>1, <3>1, <3>3
  <2>2. CASE ~d
    <3>1. span \in [lo: Nat, hi: Nat, hiProbed: BOOLEAN, n: Nat, base: Nat, threshold: Nat, unsure: BOOLEAN]
      BY <1>1 DEF TypeInv
    <3>2. span' = [span EXCEPT !.lo = Middle]
      BY <1>2, <2>2
    <3>3. /\ span' \in [lo: Nat, hi: Nat, hiProbed: BOOLEAN, n: Nat, base: Nat, threshold: Nat, unsure: BOOLEAN]
          /\ span'.base = span.base /\ span'.threshold = span.threshold
          /\ span'.lo = Middle /\ span'.hi = span.hi
      BY <1>5, <3>1, <3>2
    <3> QED BY <1>5, <2>2, <3>1, <3>3
  <2> QED BY <1>4, <2>1, <2>2
<1>7. TypeInv'
  <2>1. \A p \in probed' : p.at \in Nat /\ p.round \in {0, 1} /\ p.decided \in BOOLEAN
    BY <1>1, <1>2, <1>4, <1>5 DEF TypeInv
  <2> QED BY <1>1, <1>3, <1>6, <2>1 DEF TypeInv, Distinct
<1>8. BisectInv'
  <2>1. ASSUME NEW p \in probed' PROVE p.round = 0 /\ OnItsSide(p)'
    <3>1. CASE p \in probed
      <4>1. p.round = 0 /\ OnItsSide(p) /\ p.at \in Nat /\ p.decided \in BOOLEAN
        BY <1>1, <3>1 DEF BisectInv, TypeInv
      <4>2. span.lo \in Nat /\ span.hi \in Nat /\ span'.lo \in Nat /\ span'.hi \in Nat
        BY <1>1, <1>6 DEF TypeInv
      <4> QED BY <1>6, <4>1, <4>2 DEF OnItsSide
    <3>2. CASE p = [at |-> Middle, round |-> 0, decided |-> d]
      BY <1>6, <3>2 DEF OnItsSide
    <3> QED BY <1>2, <3>1, <3>2
  <2>2. span.base < span.threshold
    BY <1>1 DEF BisectInv
  <2> QED BY <1>1, <1>3, <1>6, <2>1, <2>2 DEF BisectInv
<1>9. DdminInv'
  BY <1>1, <1>3 DEF DdminInv
<1> QED BY <1>7, <1>8, <1>9 DEF Inv

\* Measured again, both ends agree or bisect is not sure.
LEMMA RemeasureInv == ASSUME Inv, Remeasure PROVE Inv'
<1> USE DEF At, Goes, suspectsVars
<1>1. TypeInv /\ BisectInv /\ DdminInv /\ tool.at = "halving" /\ Narrow
  BY DEF Inv, Remeasure
<1>2. PICK again \in [Ends -> Outcomes] :
         /\ probed' = probed \cup {[at |-> e, round |-> 1, decided |-> again[e]] : e \in Ends}
         /\ span' = [span EXCEPT !.unsure = \E e \in Ends : again[e] # (e = span.hi)]
  BY DEF Remeasure
<1>3. tool' = [tool EXCEPT !.at = "found"] /\ UNCHANGED <<want, runs, current, parts>>
  BY DEF Remeasure
<1>4. /\ Ends \subseteq {span.lo, span.hi} /\ span.lo \in Nat /\ span.hi \in Nat
      /\ \A e \in Ends : again[e] \in BOOLEAN
  <2>1. Ends \subseteq {span.lo, span.hi}
    BY DEF Ends
  <2>2. \A e \in Ends : again[e] \in Outcomes
    OBVIOUS
  <2> QED BY <1>1, <2>1, <2>2, OutcomesLemma DEF TypeInv
<1>5. /\ span' \in [lo: Nat, hi: Nat, hiProbed: BOOLEAN, n: Nat, base: Nat, threshold: Nat, unsure: BOOLEAN]
      /\ span'.base = span.base /\ span'.threshold = span.threshold
      /\ span'.lo = span.lo /\ span'.hi = span.hi
      /\ span'.unsure = \E e \in Ends : again[e] # (e = span.hi)
  BY <1>1, <1>2 DEF TypeInv
<1>6. ASSUME NEW p \in probed' \ probed
      PROVE  /\ p.at \in Nat /\ p.round = 1 /\ p.decided \in BOOLEAN
             /\ p.at \in Ends /\ p.decided = again[p.at]
  BY <1>2, <1>4
<1>7. TypeInv'
  <2>1. \A p \in probed' : p.at \in Nat /\ p.round \in {0, 1} /\ p.decided \in BOOLEAN
    BY <1>1, <1>6 DEF TypeInv
  <2> QED BY <1>1, <1>3, <1>5, <2>1 DEF TypeInv, Distinct
<1>8. BisectInv'
  <2>1. tool'.at = "found"
    BY <1>1, <1>3 DEF TypeInv
  <2>2. span.base < span.threshold /\ span.lo < span.hi
    BY <1>1 DEF BisectInv
  <2>3. Narrow'
    BY <1>1, <1>3, <1>5 DEF Narrow
  <2>4. ASSUME NEW p \in probed'
        PROVE  /\ p.round = 0 => OnItsSide(p)'
               /\ ~span'.unsure => p.decided = (p.at >= span'.hi)
    <3>1. CASE p \in probed
      <4>1. OnItsSide(p) /\ p.at \in Nat /\ p.decided \in BOOLEAN
        BY <1>1, <3>1 DEF BisectInv, TypeInv
      <4>2. p.decided = (p.at >= span.hi)
        BY <1>4, <2>2, <4>1 DEF OnItsSide
      <4> QED BY <1>5, <4>1, <4>2 DEF OnItsSide
    <3>2. CASE p \notin probed
      <4>1. p.round = 1 /\ p.at \in Ends /\ p.decided = again[p.at]
        BY <1>6, <3>2
      <4>2. ASSUME ~span'.unsure PROVE p.decided = (p.at = span.hi)
        BY <1>5, <4>1, <4>2
      <4>3. (p.at = span.hi) <=> (p.at >= span.hi)
        BY <1>4, <2>2, <4>1
      <4>4. p.decided \in BOOLEAN
        BY <1>6, <3>2
      <4> QED BY <1>5, <4>1, <4>2, <4>3, <4>4
    <3> QED BY <3>1, <3>2
  <2> QED BY <1>5, <2>1, <2>2, <2>3, <2>4 DEF BisectInv
<1>9. DdminInv'
  BY <1>1, <1>3 DEF TypeInv, DdminInv
<1> QED BY <1>7, <1>8, <1>9 DEF Inv

\* While suspects is at work, bisect has said nothing.
LEMMA BisectKept ==
    ASSUME BisectInv, UNCHANGED <<want, span, probed>>,
           tool'.at \in {"check", "ddmin", "minimal", "trace", "error"}
    PROVE  BisectInv'
BY DEF BisectInv, At

\* The traced run failed at the sites at which it switched.
LEMMA TraceInv == ASSUME Inv, Trace PROVE Inv'
<1> USE DEF At, Goes, bisectVars
<1>1. TypeInv /\ BisectInv /\ DdminInv /\ tool.at = "trace"
  BY DEF Inv, Trace
<1>2. UNCHANGED <<want, span, probed, parts>>
  BY DEF Trace
<1>3. CASE tool' = [tool EXCEPT !.at = "error"] /\ UNCHANGED <<runs, current>>
  <2>1. TypeInv'
    BY <1>1, <1>2, <1>3 DEF TypeInv, Distinct
  <2>2. BisectInv' /\ DdminInv'
    BY <1>1, <1>2, <1>3, BisectKept DEF TypeInv, DdminInv
  <2> QED BY <2>1, <2>2 DEF Inv
<1>4. CASE \E k \in 0..MaxSites :
             /\ current' = [i \in 1..k |-> i]
             /\ runs' = [s \in {1..k} |-> TRUE]
             /\ tool' = [tool EXCEPT !.at = "check"]
  <2>1. PICK k \in 0..MaxSites :
             /\ current' = [i \in 1..k |-> i]
             /\ runs' = [s \in {1..k} |-> TRUE]
             /\ tool' = [tool EXCEPT !.at = "check"]
    BY <1>4
  <2>2. k \in Nat
    BY SearchAssumption
  <2>3. current' \in Seq(Nat) /\ Distinct(current')
    BY <2>1, <2>2 DEF Distinct
  <2>4. TypeInv'
    BY <1>1, <1>2, <2>1, <2>3 DEF TypeInv
  <2>5. tool'.at = "check"
    BY <1>1, <2>1 DEF TypeInv
  <2>6. BisectInv'
    BY <1>1, <1>2, <2>5, BisectKept
  <2>7. Range(current') = 1..k
    BY <2>1, <2>2 DEF Range
  <2>8. DdminInv'
    BY <2>1, <2>5, <2>7 DEF DdminInv, Allowed
  <2> QED BY <2>4, <2>6, <2>8 DEF Inv
<1> QED BY <1>3, <1>4 DEF Trace

\* ddmin starts if nothing allowed did not fail.
LEMMA CheckInv == ASSUME Inv, Check PROVE Inv'
<1> USE DEF At, Goes, bisectVars, suspectsVars
<1>1. TypeInv /\ BisectInv /\ DdminInv /\ tool.at = "check"
  BY DEF Inv, Check
<1>2. UNCHANGED <<want, span, probed>>
  BY DEF Check
<1>3. CASE tool' = [tool EXCEPT !.at = "error"] /\ UNCHANGED <<runs, current, parts>>
  <2>1. TypeInv'
    BY <1>1, <1>2, <1>3 DEF TypeInv, Distinct
  <2>2. BisectInv' /\ DdminInv'
    BY <1>1, <1>2, <1>3, BisectKept DEF TypeInv, DdminInv
  <2> QED BY <2>1, <2>2 DEF Inv
<1>4. CASE \E rs \in Made(runs, {{}}) :
             /\ runs' = rs
             /\ \/ ~rs[{}] /\ tool' = [tool EXCEPT !.at = "ddmin"] /\ parts' = 2 /\ UNCHANGED current
                \/ /\ rs[{}] /\ tool.sites = "memory"
                   /\ tool' = [at |-> "trace", sites |-> "others"]
                   /\ UNCHANGED <<current, parts>>
                \/ /\ rs[{}] /\ tool.sites = "others"
                   /\ tool' = [tool EXCEPT !.at = "minimal"] /\ current' = <<>> /\ UNCHANGED parts
  <2>1. /\ runs' \in Made(runs, {{}})
        /\ \/ ~runs'[{}] /\ tool' = [tool EXCEPT !.at = "ddmin"] /\ parts' = 2 /\ UNCHANGED current
           \/ /\ tool' = [at |-> "trace", sites |-> "others"]
              /\ UNCHANGED <<current, parts>>
           \/ /\ runs'[{}]
              /\ tool' = [tool EXCEPT !.at = "minimal"] /\ current' = <<>> /\ UNCHANGED parts
    BY <1>4
  <2>2. /\ DOMAIN runs' = DOMAIN runs \cup {{}}
        /\ \A S \in DOMAIN runs : runs'[S] = runs[S]
        /\ \A S \in DOMAIN runs' : runs'[S] \in BOOLEAN
    BY <1>1, <2>1, MadeLemma DEF TypeInv
  <2>3. Allowed(current) \in DOMAIN runs /\ runs[Allowed(current)]
    BY <1>1 DEF DdminInv
  <2>4. CASE ~runs'[{}] /\ tool' = [tool EXCEPT !.at = "ddmin"] /\ parts' = 2 /\ UNCHANGED current
    <3>1. TypeInv'
      <4>1. current' \in Seq(Nat) /\ Distinct(current')
        BY <1>1, <2>4 DEF TypeInv
      <4>2. parts' \in Nat /\ parts' >= 2
        BY <2>4
      <4>3. tool' \in [at: {"bisect", "last", "halving", "found", "trace", "check", "ddmin", "minimal", "error"},
                       sites: {"none", "memory", "others"}]
        BY <1>1, <2>4 DEF TypeInv
      <4> QED BY <1>1, <1>2, <2>2, <4>1, <4>2, <4>3 DEF TypeInv
    <3>2. tool'.at = "ddmin"
      BY <1>1, <2>4 DEF TypeInv
    <3>3. DdminInv'
      BY <2>2, <2>3, <2>4, <3>2 DEF DdminInv, Allowed
    <3> QED BY <1>1, <1>2, <3>1, <3>2, <3>3, BisectKept DEF Inv
  <2>5. CASE tool' = [at |-> "trace", sites |-> "others"] /\ UNCHANGED <<current, parts>>
    <3>1. TypeInv'
      BY <1>1, <1>2, <2>2, <2>5 DEF TypeInv, Distinct
    <3>2. DdminInv'
      BY <2>5 DEF DdminInv
    <3> QED BY <1>1, <1>2, <2>5, <3>1, <3>2, BisectKept DEF Inv
  <2>6. CASE /\ runs'[{}] /\ tool' = [tool EXCEPT !.at = "minimal"]
             /\ current' = <<>> /\ UNCHANGED parts
    <3>1. current' \in Seq(Nat) /\ Distinct(current') /\ Range(current') = {}
      BY <2>6 DEF Distinct, Range
    <3>2. TypeInv'
      BY <1>1, <1>2, <2>2, <2>6, <3>1 DEF TypeInv
    <3>3. tool'.at = "minimal"
      BY <1>1, <2>6 DEF TypeInv
    <3>4. DdminInv'
      BY <2>2, <2>6, <3>1, <3>3 DEF DdminInv, Allowed
    <3> QED BY <1>1, <1>2, <3>2, <3>3, <3>4, BisectKept DEF Inv
  <2> QED BY <2>1, <2>4, <2>5, <2>6
<1> QED BY <1>3, <1>4 DEF Check

\* A sequence to go on with: its run was made and failed, and nothing that was
\* made before is forgotten.
GoesOn(rs) ==
    /\ DOMAIN runs \subseteq DOMAIN rs /\ \A S \in DOMAIN runs : rs[S] = runs[S]
    /\ \A S \in DOMAIN rs : rs[S] \in BOOLEAN

\* ddmin at another sequence, or at the same one with finer parts.
LEMMA DdminGoesOn ==
    ASSUME Inv, At("ddmin"), UNCHANGED <<want, span, probed, tool>>, GoesOn(runs'),
           current' \in Seq(Nat), Distinct(current'), parts' \in Nat, parts' >= 2,
           Allowed(current') \in DOMAIN runs', runs'[Allowed(current')]
    PROVE  Inv'
<1> USE DEF At
<1>1. TypeInv /\ BisectInv /\ DdminInv
  BY DEF Inv
<1>2. TypeInv'
  BY <1>1 DEF TypeInv, GoesOn
<1>3. DdminInv'
  BY <1>1 DEF DdminInv, GoesOn, Allowed
<1> QED BY <1>1, <1>2, <1>3, BisectKept DEF Inv

\* ddmin over: without any one site the run was made and did not fail.
LEMMA DdminEnds ==
    ASSUME Inv, At("ddmin"), UNCHANGED <<want, span, probed, current, parts>>, GoesOn(runs'),
           tool' = [tool EXCEPT !.at = "minimal"],
           \A s \in Allowed(current) :
              Allowed(current) \ {s} \in DOMAIN runs' /\ ~runs'[Allowed(current) \ {s}]
    PROVE  Inv'
<1> USE DEF At
<1>1. TypeInv /\ BisectInv /\ DdminInv /\ Allowed(current') = Allowed(current)
  BY DEF Inv
<1>2. TypeInv'
  BY <1>1 DEF TypeInv, GoesOn, Distinct
<1>3. tool'.at = "minimal"
  BY <1>1 DEF TypeInv
<1>4. DdminInv'
  <2>1. Allowed(current) \in DOMAIN runs /\ runs[Allowed(current)]
    BY <1>1 DEF DdminInv
  <2>2. Allowed(current) \in DOMAIN runs' /\ runs'[Allowed(current)]
    BY <2>1 DEF GoesOn
  <2> QED BY <1>1, <1>3, <2>2 DEF DdminInv
<1> QED BY <1>1, <1>2, <1>3, <1>4, BisectKept DEF Inv

\* A part that fails, what is left without one that does, or, when there is no
\* finer cut, the end.
LEMMA DdminStepInv == ASSUME Inv, Ddmin PROVE Inv'
<1> USE DEF At, Goes, bisectVars
<1> DEFINE ps == Parts(current, parts)
           cs == [i \in DOMAIN ps |-> Without(current, parts, i)]
           m == Chunk(Len(current), Chunk(Len(current), parts))
<1>1. TypeInv /\ BisectInv /\ DdminInv /\ tool.at = "ddmin" /\ Len(current) >= 2
  BY DEF Inv, Ddmin
<1>2. /\ current \in Seq(Nat) /\ Distinct(current) /\ parts \in Nat /\ parts >= 2
      /\ \A S \in DOMAIN runs : runs[S] \in BOOLEAN
  BY <1>1 DEF TypeInv
<1>3. UNCHANGED <<want, span, probed>>
  BY DEF Ddmin
<1>4. /\ m \in Nat /\ DOMAIN ps = 1..m /\ ps \in Seq(Seq(Nat))
      /\ \A i \in DOMAIN ps : ps[i] \in Seq(Nat) /\ Distinct(ps[i])
  BY <1>1, <1>2, PartsLemma
<1>5. /\ DOMAIN cs = 1..m
      /\ \A i \in DOMAIN ps : cs[i] \in Seq(Nat) /\ Distinct(cs[i]) /\ cs[i] = Without(current, parts, i)
  BY <1>1, <1>2, <1>4, WithoutLemma
<1>6. ASSUME parts >= Len(current)
      PROVE  /\ DOMAIN ps = 1..Len(current)
             /\ \A i \in 1..Len(current) : /\ Allowed(ps[i]) = {current[i]}
                                           /\ Allowed(cs[i]) = Allowed(current) \ {current[i]}
  BY <1>1, <1>2, <1>5, <1>6, FinestLemma
<1>7. PICK rp \in Made(runs, {Allowed(ps[i]) : i \in DOMAIN ps}) :
        IF FirstFailing(rp, ps) # 0
        THEN /\ current' = ps[FirstFailing(rp, ps)] /\ parts' = 2 /\ runs' = rp
             /\ UNCHANGED tool
        ELSE \E rc \in Made(rp, IF Len(ps) > 2 THEN {Allowed(cs[i]) : i \in DOMAIN cs} ELSE {}) :
               /\ runs' = rc
               /\ IF Len(ps) > 2 /\ FirstFailing(rc, cs) # 0
                  THEN current' = cs[FirstFailing(rc, cs)] /\ parts' = OneLess(parts) /\ UNCHANGED tool
                  ELSE IF Finest(parts, Len(current))
                       THEN tool' = [tool EXCEPT !.at = "minimal"] /\ UNCHANGED <<current, parts>>
                       ELSE parts' = Finer(parts, Len(current)) /\ UNCHANGED <<current, tool>>
  BY DEF Ddmin
<1> HIDE DEF ps, cs, m
<1>8. /\ DOMAIN rp = DOMAIN runs \cup {Allowed(ps[i]) : i \in DOMAIN ps}
      /\ \A S \in DOMAIN runs : rp[S] = runs[S]
      /\ \A S \in DOMAIN rp : rp[S] \in BOOLEAN
  BY <1>2, MadeLemma
<1>9. CASE FirstFailing(rp, ps) # 0
  <2> DEFINE i == FirstFailing(rp, ps)
  <2>1. i \in DOMAIN ps /\ rp[Allowed(ps[i])]
    BY <1>4, <1>9, FirstLemma
  <2>2. /\ current' = ps[i] /\ parts' = 2 /\ runs' = rp /\ UNCHANGED tool
    BY <1>7, <1>9
  <2> HIDE DEF i
  <2>3. GoesOn(runs')
    BY <1>8, <2>2 DEF GoesOn
  <2>4. current' \in Seq(Nat) /\ Distinct(current')
    BY <1>4, <2>1, <2>2
  <2>5. Allowed(current') \in DOMAIN runs' /\ runs'[Allowed(current')]
    BY <1>8, <2>1, <2>2
  <2> QED BY <1>1, <1>3, <2>2, <2>3, <2>4, <2>5, DdminGoesOn
<1>10. CASE FirstFailing(rp, ps) = 0
  <2>1. \A i \in DOMAIN ps : ~rp[Allowed(ps[i])]
    BY <1>4, <1>10, FirstLemma
  <2>2. PICK rc \in Made(rp, IF Len(ps) > 2 THEN {Allowed(cs[i]) : i \in DOMAIN cs} ELSE {}) :
           /\ runs' = rc
           /\ IF Len(ps) > 2 /\ FirstFailing(rc, cs) # 0
              THEN current' = cs[FirstFailing(rc, cs)] /\ parts' = OneLess(parts) /\ UNCHANGED tool
              ELSE IF Finest(parts, Len(current))
                   THEN tool' = [tool EXCEPT !.at = "minimal"] /\ UNCHANGED <<current, parts>>
                   ELSE parts' = Finer(parts, Len(current)) /\ UNCHANGED <<current, tool>>
    BY <1>7, <1>10
  <2>3. /\ DOMAIN rc = DOMAIN rp \cup (IF Len(ps) > 2 THEN {Allowed(cs[i]) : i \in DOMAIN cs} ELSE {})
        /\ \A S \in DOMAIN rp : rc[S] = rp[S]
        /\ \A S \in DOMAIN rc : rc[S] \in BOOLEAN
    <3> DEFINE sets == IF Len(ps) > 2 THEN {Allowed(cs[i]) : i \in DOMAIN cs} ELSE {}
    <3>1. rc \in Made(rp, sets)
      OBVIOUS
    <3> HIDE DEF sets
    <3>2. /\ DOMAIN rc = DOMAIN rp \cup sets
          /\ \A S \in DOMAIN rp : rc[S] = rp[S]
          /\ \A S \in DOMAIN rc : rc[S] \in BOOLEAN
      BY <1>8, <3>1, MadeLemma
    <3> QED BY <3>2 DEF sets
  <2>4. GoesOn(runs')
    BY <1>8, <2>2, <2>3 DEF GoesOn
  <2>5. CASE Len(ps) > 2 /\ FirstFailing(rc, cs) # 0
    <3> DEFINE i == FirstFailing(rc, cs)
    <3>1. i \in DOMAIN cs /\ rc[Allowed(cs[i])]
      BY <1>4, <1>5, <2>5, FirstLemma
    <3>2. current' = cs[i] /\ parts' = OneLess(parts) /\ UNCHANGED tool /\ runs' = rc
      BY <2>2, <2>5
    <3> HIDE DEF i
    <3>3. current' \in Seq(Nat) /\ Distinct(current')
      BY <1>4, <1>5, <3>1, <3>2
    <3>4. Allowed(current') \in DOMAIN runs' /\ runs'[Allowed(current')]
      BY <2>3, <2>5, <3>1, <3>2
    <3>5. parts' \in Nat /\ parts' >= 2
      BY <1>2, <3>2 DEF OneLess
    <3> QED BY <1>1, <1>3, <2>4, <3>2, <3>3, <3>4, <3>5, DdminGoesOn
  <2>6. CASE ~(Len(ps) > 2 /\ FirstFailing(rc, cs) # 0) /\ ~Finest(parts, Len(current))
    <3>1. parts' = Finer(parts, Len(current)) /\ UNCHANGED <<current, tool>>
      BY <2>2, <2>6
    <3>2. parts' \in Nat /\ parts' >= 2
      BY <1>1, <1>2, <3>1 DEF Finer
    <3>3. Allowed(current) \in DOMAIN runs /\ runs[Allowed(current)]
      BY <1>1 DEF DdminInv
    <3>4. Allowed(current') \in DOMAIN runs' /\ runs'[Allowed(current')]
      BY <2>4, <3>1, <3>3 DEF GoesOn
    <3>5. current' \in Seq(Nat) /\ Distinct(current')
      BY <1>2, <3>1
    <3> QED BY <1>1, <1>3, <2>4, <3>1, <3>2, <3>4, <3>5, DdminGoesOn
  <2>7. CASE ~(Len(ps) > 2 /\ FirstFailing(rc, cs) # 0) /\ Finest(parts, Len(current))
    <3>1. tool' = [tool EXCEPT !.at = "minimal"] /\ UNCHANGED <<current, parts>> /\ runs' = rc
      BY <2>2, <2>7
    <3>2. /\ DOMAIN ps = 1..Len(current)
          /\ \A i \in 1..Len(current) : /\ Allowed(ps[i]) = {current[i]}
                                        /\ Allowed(cs[i]) = Allowed(current) \ {current[i]}
      BY <1>2, <1>6, <2>7 DEF Finest
    <3>3. DOMAIN current = 1..Len(current) /\ Len(current) \in Nat
      BY <1>2
    <3>4. Len(ps) = Len(current)
      <4>1. Len(ps) \in Nat /\ DOMAIN ps = 1..Len(ps)
        BY <1>4, LenProperties
      <4> QED BY <3>2, <3>3, <4>1
    <3>5. ASSUME NEW s \in Allowed(current)
          PROVE  Allowed(current) \ {s} \in DOMAIN rc /\ ~rc[Allowed(current) \ {s}]
      <4>1. PICK i \in 1..Len(current) : s = current[i]
        BY <3>3 DEF Allowed, Range
      <4>2. CASE Len(ps) > 2
        <5>1. \A j \in DOMAIN cs : ~rc[Allowed(cs[j])]
          BY <1>4, <1>5, <2>7, <4>2, FirstLemma
        <5>2. i \in DOMAIN cs
          BY <1>4, <1>5, <3>2
        <5>3. Allowed(cs[i]) = Allowed(current) \ {s}
          BY <3>2, <4>1
        <5> QED BY <2>3, <4>2, <5>1, <5>2, <5>3
      <4>3. CASE ~(Len(ps) > 2)
        <5>1. Len(current) = 2
          BY <1>1, <3>3, <3>4, <4>3
        <5>2. PICK j \in 1..Len(current) : j # i /\ \A k \in 1..Len(current) : k = i \/ k = j
          <6>1. CASE i = 1
            BY <5>1, <6>1
          <6>2. CASE i = 2
            BY <5>1, <6>2
          <6> QED BY <5>1, <6>1, <6>2
        <5>3. Allowed(current) \ {s} = {current[j]}
          BY <1>2, <3>3, <4>1, <5>2 DEF Allowed, Range, Distinct
        <5>4. Allowed(ps[j]) \in DOMAIN rp /\ ~rp[Allowed(ps[j])]
          BY <1>8, <2>1, <3>2
        <5>5. Allowed(ps[j]) = Allowed(current) \ {s}
          BY <3>2, <5>3
        <5> QED BY <2>3, <5>4, <5>5
      <4> QED BY <4>2, <4>3
    <3> QED BY <1>1, <1>3, <2>4, <3>1, <3>5, DdminEnds
  <2> QED BY <2>5, <2>6, <2>7
<1> QED BY <1>9, <1>10

\* One site at most: without it nothing is allowed, which did not fail.
LEMMA DdminSmallInv == ASSUME Inv, DdminSmall PROVE Inv'
<1> USE DEF At, Goes, bisectVars, suspectsVars
<1>1. TypeInv /\ DdminInv /\ tool.at = "ddmin" /\ Len(current) < 2 /\ current \in Seq(Nat)
  BY DEF Inv, DdminSmall, TypeInv
<1>2. /\ UNCHANGED <<want, span, probed, runs, current, parts>>
      /\ tool' = [tool EXCEPT !.at = "minimal"]
  BY DEF DdminSmall
<1>3. \A s \in Allowed(current) : Allowed(current) \ {s} = {}
  <2>1. \A i, j \in DOMAIN current : i = j
    BY <1>1
  <2> QED BY <2>1 DEF Allowed, Range
<1>4. {} \in DOMAIN runs /\ ~runs[{}]
  BY <1>1 DEF DdminInv
<1>5. GoesOn(runs')
  BY <1>1, <1>2 DEF GoesOn, TypeInv
<1> QED BY <1>1, <1>2, <1>3, <1>4, <1>5, DdminEnds

----------------------------------------------------------------------------
\* What a tool reports is what it measured: the interval of bisect and the
\* probes at its ends, and the runs that make what ddmin leaves minimal.
THEOREM ReportIsMeasured == Spec => []AnswerHolds
<1>1. Inv /\ [Next]_vars => Inv'
  <2> SUFFICES ASSUME Inv, [Next]_vars PROVE Inv'
    OBVIOUS
  <2>1. CASE UNCHANGED vars
    <3> USE <2>1 DEF vars
    <3>1. TypeInv'
      BY DEF Inv, TypeInv, Distinct
    <3>2. BisectInv'
      BY DEF Inv, BisectInv, OnItsSide, Narrow, At
    <3>3. DdminInv'
      BY DEF Inv, DdminInv, Allowed, At
    <3> QED BY <3>1, <3>2, <3>3 DEF Inv
  <2> QED BY <2>1, MeasureBaseInv, ProbeLastInv, HalveInv, RemeasureInv, TraceInv, CheckInv,
             DdminStepInv, DdminSmallInv DEF Next
<1>2. Inv => AnswerHolds
  BY DEF Inv, BisectInv, DdminInv, OnItsSide, AnswerHolds, At
<1> QED BY <1>1, <1>2, InitInv, PTL DEF Spec

=============================================================================
