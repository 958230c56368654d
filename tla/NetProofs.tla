------------------------------ MODULE NetProofs ------------------------------
(***************************************************************************)
(* The virtual network for any number of sockets, processes and hosts, any *)
(* latency, ring and programs.                                             *)
(***************************************************************************)
EXTENDS NetInvariant, FiniteSetTheorems, SequenceTheorems, WellFoundedInduction, TLAPS

----------------------------------------------------------------------------
(***************************************************************************)
(* Induction and the folds of the model.  The library's induction theorems *)
(* take the induction hypothesis as an operator; here it is a set.         *)
(***************************************************************************)

\* A set of numbers that is not empty has a first one.
LEMMA LeastNat == ASSUME NEW S \in SUBSET Nat, S # {} PROVE \E m \in S : \A k \in S : m <= k
<1> DEFINE R == {ss \in Nat \X Nat : ss[1] < ss[2]}
<1>1. IsWellFoundedOn(R, Nat) BY NatLessThanWellFounded DEF OpToRel
<1>2. PICK m \in S : \A y \in S : ~(<<y, m>> \in R)
  <2>1. \E m \in S : \A y \in S : ~(<<y, m>> \in R) BY <1>1, WFMin, Zenon
  <2> QED BY <2>1
<1>3. ASSUME NEW y \in S, ~(m <= y) PROVE FALSE
  <2>1. <<y, m>> \in R BY <1>3
  <2> QED BY <1>2, <2>1
<1> QED BY <1>3

LEMMA FirstLemma == ASSUME NEW S \in SUBSET Nat, S # {} PROVE First(S) \in S /\ \A k \in S : First(S) <= k
  BY LeastNat DEF First

\* Induction up to a number.
LEMMA Induct ==
    ASSUME NEW n \in Nat, NEW T, 0 \in T, \A i \in 1..n : i - 1 \in T => i \in T
    PROVE  \A i \in 0..n : i \in T
<1> DEFINE B == {i \in 0..n : i \notin T}
<1> SUFFICES ASSUME B # {} PROVE FALSE
  OBVIOUS
<1>1. PICK m \in B : \A k \in B : m <= k
  <2>1. B \in SUBSET Nat OBVIOUS
  <2> HIDE DEF B
  <2> QED BY <2>1, LeastNat
<1>2. m - 1 \in 0..n /\ m \in 1..n OBVIOUS
<1>3. m - 1 \in T BY <1>1, <1>2
<1> QED BY <1>1, <1>2, <1>3

(* Each fold of the model goes through its prefixes: the value after 0, 1, ... elements. *)

\* The prefixes of a sum
AllPlus(x, s) == Folded(Plus, x, s)
PlusSteps(f, x, s) ==
    /\ DOMAIN f = 0..Len(s) /\ f[0] = x
    /\ \A i \in 1..Len(s) : f[i] = f[i - 1] + s[i]
LEMMA PlusFold ==
    ASSUME NEW x, NEW s, Len(s) \in Nat
    PROVE  \E f : PlusSteps(f, x, s) /\ AllPlus(x, s) = f[Len(s)]
<1> DEFINE n == Len(s)
           Good(m, f) == f = [i \in 0..m |-> IF i = 0 THEN x ELSE f[i - 1] + s[i]]
           T == {m \in 0..n : \E f : Good(m, f)}
<1>1. 0 \in T
  <2>1. Good(0, [i \in 0..0 |-> x]) OBVIOUS
  <2> HIDE DEF Good
  <2>2. 0 \in 0..n OBVIOUS
  <2> QED BY <2>1, <2>2
<1>2. ASSUME NEW m \in 1..n, m - 1 \in T PROVE m \in T
  <2>1. PICK f : Good(m - 1, f) BY <1>2
  <2> DEFINE h == [i \in 0..m |-> IF i = m THEN f[m - 1] + s[m] ELSE f[i]]
  <2>2. ASSUME NEW i \in 0..m PROVE h[i] = IF i = 0 THEN x ELSE h[i - 1] + s[i]
    <3>1. CASE i = m BY <3>1
    <3>2. CASE i # m
      <4>1. i \in 0..m - 1 /\ (i # 0 => i - 1 \in 0..m - 1 /\ i - 1 # m) BY <3>2
      <4>2. h[i] = f[i] /\ (i # 0 => h[i - 1] = f[i - 1]) BY <3>2, <4>1
      <4> HIDE DEF h
      <4> QED BY <2>1, <4>1, <4>2
    <3> QED BY <3>1, <3>2
  <2>3. Good(m, h) BY <2>2
  <2>4. m \in 0..n OBVIOUS
  <2> HIDE DEF Good, h
  <2> QED BY <2>3, <2>4
<1> HIDE DEF T
<1>3. \A i \in 0..n : i \in T BY <1>1, <1>2, Induct
<1>4. \E f : Good(n, f)
  <2>1. n \in T BY <1>3
  <2> HIDE DEF Good
  <2> QED BY <2>1 DEF T
<1> DEFINE c == CHOOSE f : Good(n, f)
<1>5. Good(n, c)
  <2> HIDE DEF Good
  <2> QED BY <1>4
<1>6. AllPlus(x, s) = c[n]
  <2>1. Folded(Plus, x, s) = c[n] BY DEF Folded, Plus
  <2> HIDE DEF c
  <2> QED BY <2>1 DEF AllPlus
<1> HIDE DEF c
<1>7. DOMAIN c = 0..n /\ c[0] = x BY <1>5
<1>8. ASSUME NEW i \in 1..n PROVE c[i] = c[i - 1] + s[i]
  <2>1. i \in 0..n /\ i # 0 OBVIOUS
  <2> HIDE DEF n, c
  <2> QED BY <1>5, <2>1
<1> HIDE DEF n, Good
<1>9. DOMAIN c = 0..Len(s) /\ \A i \in 1..Len(s) : c[i] = c[i - 1] + s[i] BY <1>7, <1>8 DEF n
<1>10. PlusSteps(c, x, s) BY <1>7, <1>9 DEF PlusSteps
<1> QED BY <1>6, <1>10 DEF n

\* ... of what lands
AllLand(x, s) == Folded(LandRecord, x, s)
LandSteps(f, x, s) ==
    /\ DOMAIN f = 0..Len(s) /\ f[0] = x
    /\ \A i \in 1..Len(s) : f[i] = LandRecord(f[i - 1], s[i])
LEMMA LandFold ==
    ASSUME NEW x, NEW s, Len(s) \in Nat
    PROVE  \E f : LandSteps(f, x, s) /\ AllLand(x, s) = f[Len(s)]
<1> DEFINE n == Len(s)
           Good(m, f) == f = [i \in 0..m |-> IF i = 0 THEN x ELSE LandRecord(f[i - 1], s[i])]
           T == {m \in 0..n : \E f : Good(m, f)}
<1>1. 0 \in T
  <2>1. Good(0, [i \in 0..0 |-> x]) OBVIOUS
  <2> HIDE DEF Good
  <2>2. 0 \in 0..n OBVIOUS
  <2> QED BY <2>1, <2>2
<1>2. ASSUME NEW m \in 1..n, m - 1 \in T PROVE m \in T
  <2>1. PICK f : Good(m - 1, f) BY <1>2
  <2> DEFINE h == [i \in 0..m |-> IF i = m THEN LandRecord(f[m - 1], s[m]) ELSE f[i]]
  <2>2. ASSUME NEW i \in 0..m PROVE h[i] = IF i = 0 THEN x ELSE LandRecord(h[i - 1], s[i])
    <3>1. CASE i = m BY <3>1
    <3>2. CASE i # m
      <4>1. i \in 0..m - 1 /\ (i # 0 => i - 1 \in 0..m - 1 /\ i - 1 # m) BY <3>2
      <4>2. h[i] = f[i] /\ (i # 0 => h[i - 1] = f[i - 1]) BY <3>2, <4>1
      <4> HIDE DEF h
      <4> QED BY <2>1, <4>1, <4>2
    <3> QED BY <3>1, <3>2
  <2>3. Good(m, h) BY <2>2
  <2>4. m \in 0..n OBVIOUS
  <2> HIDE DEF Good, h
  <2> QED BY <2>3, <2>4
<1> HIDE DEF T
<1>3. \A i \in 0..n : i \in T BY <1>1, <1>2, Induct
<1>4. \E f : Good(n, f)
  <2>1. n \in T BY <1>3
  <2> HIDE DEF Good
  <2> QED BY <2>1 DEF T
<1> DEFINE c == CHOOSE f : Good(n, f)
<1>5. Good(n, c)
  <2> HIDE DEF Good
  <2> QED BY <1>4
<1>6. AllLand(x, s) = c[n]
  <2>1. Folded(LandRecord, x, s) = c[n] BY DEF Folded
  <2> HIDE DEF c
  <2> QED BY <2>1 DEF AllLand
<1> HIDE DEF c
<1>7. DOMAIN c = 0..n /\ c[0] = x BY <1>5
<1>8. ASSUME NEW i \in 1..n PROVE c[i] = LandRecord(c[i - 1], s[i])
  <2>1. i \in 0..n /\ i # 0 OBVIOUS
  <2> HIDE DEF n, c
  <2> QED BY <1>5, <2>1
<1> HIDE DEF n, Good
<1>9. DOMAIN c = 0..Len(s) /\ \A i \in 1..Len(s) : c[i] = LandRecord(c[i - 1], s[i])
  BY <1>7, <1>8 DEF n
<1>10. LandSteps(c, x, s) BY <1>7, <1>9 DEF LandSteps
<1> QED BY <1>6, <1>10 DEF n

\* ... of the connections a listener resets
AllReset(x, s) == Folded(Reset, x, s)
ResetSteps(f, x, s) ==
    /\ DOMAIN f = 0..Len(s) /\ f[0] = x
    /\ \A i \in 1..Len(s) : f[i] = Reset(f[i - 1], s[i])
LEMMA ResetFold ==
    ASSUME NEW x, NEW s, Len(s) \in Nat
    PROVE  \E f : ResetSteps(f, x, s) /\ AllReset(x, s) = f[Len(s)]
<1> DEFINE n == Len(s)
           Good(m, f) == f = [i \in 0..m |-> IF i = 0 THEN x ELSE Reset(f[i - 1], s[i])]
           T == {m \in 0..n : \E f : Good(m, f)}
<1>1. 0 \in T
  <2>1. Good(0, [i \in 0..0 |-> x]) OBVIOUS
  <2> HIDE DEF Good
  <2>2. 0 \in 0..n OBVIOUS
  <2> QED BY <2>1, <2>2
<1>2. ASSUME NEW m \in 1..n, m - 1 \in T PROVE m \in T
  <2>1. PICK f : Good(m - 1, f) BY <1>2
  <2> DEFINE h == [i \in 0..m |-> IF i = m THEN Reset(f[m - 1], s[m]) ELSE f[i]]
  <2>2. ASSUME NEW i \in 0..m PROVE h[i] = IF i = 0 THEN x ELSE Reset(h[i - 1], s[i])
    <3>1. CASE i = m BY <3>1
    <3>2. CASE i # m
      <4>1. i \in 0..m - 1 /\ (i # 0 => i - 1 \in 0..m - 1 /\ i - 1 # m) BY <3>2
      <4>2. h[i] = f[i] /\ (i # 0 => h[i - 1] = f[i - 1]) BY <3>2, <4>1
      <4> HIDE DEF h
      <4> QED BY <2>1, <4>1, <4>2
    <3> QED BY <3>1, <3>2
  <2>3. Good(m, h) BY <2>2
  <2>4. m \in 0..n OBVIOUS
  <2> HIDE DEF Good, h
  <2> QED BY <2>3, <2>4
<1> HIDE DEF T
<1>3. \A i \in 0..n : i \in T BY <1>1, <1>2, Induct
<1>4. \E f : Good(n, f)
  <2>1. n \in T BY <1>3
  <2> HIDE DEF Good
  <2> QED BY <2>1 DEF T
<1> DEFINE c == CHOOSE f : Good(n, f)
<1>5. Good(n, c)
  <2> HIDE DEF Good
  <2> QED BY <1>4
<1>6. AllReset(x, s) = c[n]
  <2>1. Folded(Reset, x, s) = c[n] BY DEF Folded
  <2> HIDE DEF c
  <2> QED BY <2>1 DEF AllReset
<1> HIDE DEF c
<1>7. DOMAIN c = 0..n /\ c[0] = x BY <1>5
<1>8. ASSUME NEW i \in 1..n PROVE c[i] = Reset(c[i - 1], s[i])
  <2>1. i \in 0..n /\ i # 0 OBVIOUS
  <2> HIDE DEF n, c
  <2> QED BY <1>5, <2>1
<1> HIDE DEF n, Good
<1>9. DOMAIN c = 0..Len(s) /\ \A i \in 1..Len(s) : c[i] = Reset(c[i - 1], s[i]) BY <1>7, <1>8 DEF n
<1>10. ResetSteps(c, x, s) BY <1>7, <1>9 DEF ResetSteps
<1> QED BY <1>6, <1>10 DEF n

\* ... of what a process drops
AllDrop(x, s, p, held) == Folded(LAMBDA y, t : DropRefs(y, p, t, held[t]), x, s)
DropSteps(f, x, s, p, held) ==
    /\ DOMAIN f = 0..Len(s) /\ f[0] = x
    /\ \A i \in 1..Len(s) : f[i] = DropRefs(f[i - 1], p, s[i], held[s[i]])
LEMMA DropFold ==
    ASSUME NEW x, NEW s, Len(s) \in Nat, NEW p, NEW held
    PROVE  \E f : DropSteps(f, x, s, p, held) /\ AllDrop(x, s, p, held) = f[Len(s)]
<1> DEFINE n == Len(s)
           Good(m, f) == f = [i \in 0..m |-> IF i = 0 THEN x ELSE DropRefs(f[i - 1], p, s[i], held[s[i]])]
           T == {m \in 0..n : \E f : Good(m, f)}
<1>1. 0 \in T
  <2>1. Good(0, [i \in 0..0 |-> x]) OBVIOUS
  <2> HIDE DEF Good
  <2>2. 0 \in 0..n OBVIOUS
  <2> QED BY <2>1, <2>2
<1>2. ASSUME NEW m \in 1..n, m - 1 \in T PROVE m \in T
  <2>1. PICK f : Good(m - 1, f) BY <1>2
  <2> DEFINE h == [i \in 0..m |-> IF i = m THEN DropRefs(f[m - 1], p, s[m], held[s[m]]) ELSE f[i]]
  <2>2. ASSUME NEW i \in 0..m PROVE h[i] = IF i = 0 THEN x ELSE DropRefs(h[i - 1], p, s[i], held[s[i]])
    <3>1. CASE i = m BY <3>1
    <3>2. CASE i # m
      <4>1. i \in 0..m - 1 /\ (i # 0 => i - 1 \in 0..m - 1 /\ i - 1 # m) BY <3>2
      <4>2. h[i] = f[i] /\ (i # 0 => h[i - 1] = f[i - 1]) BY <3>2, <4>1
      <4> HIDE DEF h
      <4> QED BY <2>1, <4>1, <4>2
    <3> QED BY <3>1, <3>2
  <2>3. Good(m, h) BY <2>2
  <2>4. m \in 0..n OBVIOUS
  <2> HIDE DEF Good, h
  <2> QED BY <2>3, <2>4
<1> HIDE DEF T
<1>3. \A i \in 0..n : i \in T BY <1>1, <1>2, Induct
<1>4. \E f : Good(n, f)
  <2>1. n \in T BY <1>3
  <2> HIDE DEF Good
  <2> QED BY <2>1 DEF T
<1> DEFINE c == CHOOSE f : Good(n, f)
<1>5. Good(n, c)
  <2> HIDE DEF Good
  <2> QED BY <1>4
<1>6. AllDrop(x, s, p, held) = c[n]
  <2>1. Folded(LAMBDA y, t : DropRefs(y, p, t, held[t]), x, s) = c[n] BY DEF Folded
  <2> HIDE DEF c
  <2> QED BY <2>1 DEF AllDrop
<1> HIDE DEF c
<1>7. DOMAIN c = 0..n /\ c[0] = x BY <1>5
<1>8. ASSUME NEW i \in 1..n PROVE c[i] = DropRefs(c[i - 1], p, s[i], held[s[i]])
  <2>1. i \in 0..n /\ i # 0 OBVIOUS
  <2> HIDE DEF n, c
  <2> QED BY <1>5, <2>1
<1> HIDE DEF n, Good
<1>9. DOMAIN c = 0..Len(s) /\ \A i \in 1..Len(s) : c[i] = DropRefs(c[i - 1], p, s[i], held[s[i]])
  BY <1>7, <1>8 DEF n
<1>10. DropSteps(c, x, s, p, held) BY <1>7, <1>9 DEF DropSteps
<1> QED BY <1>6, <1>10 DEF n

----------------------------------------------------------------------------
(***************************************************************************)
(* Sums.                                                                   *)
(***************************************************************************)

\* The prefixes of a sum
Partial(f, s) == DOMAIN f = 0..Len(s) /\ f[0] = 0 /\ \A i \in 1..Len(s) : f[i] = f[i - 1] + s[i]

LEMMA PartialNat ==
    ASSUME NEW s \in Seq(Nat), NEW f, Partial(f, s)
    PROVE  \A i \in 0..Len(s) : f[i] \in Nat
<1>0. Len(s) \in Nat OBVIOUS
<1> DEFINE T == {i \in 0..Len(s) : f[i] \in Nat}
<1>1. 0 \in T BY DEF Partial
<1>2. ASSUME NEW i \in 1..Len(s), i - 1 \in T PROVE i \in T
  <2>1. s[i] \in Nat OBVIOUS
  <2> QED BY <1>2, <2>1 DEF Partial
<1> HIDE DEF T
<1>3. \A i \in 0..Len(s) : i \in T BY <1>0, <1>1, <1>2, Induct
<1> QED BY <1>3 DEF T

\* A sum is the last of its prefixes, however they are found.
LEMMA TotalIs ==
    ASSUME NEW s \in Seq(Nat), NEW f, Partial(f, s)
    PROVE  Total(s) = f[Len(s)]
<1>0. Len(s) \in Nat OBVIOUS
<1>9. PICK g : PlusSteps(g, 0, s) /\ AllPlus(0, s) = g[Len(s)] BY <1>0, PlusFold
<1>1. Partial(g, s) /\ Total(s) = g[Len(s)] BY <1>9 DEF Partial, Total, AllPlus, PlusSteps
<1> DEFINE T == {i \in 0..Len(s) : f[i] = g[i]}
<1>2. 0 \in T BY <1>1 DEF Partial
<1>3. ASSUME NEW i \in 1..Len(s), i - 1 \in T PROVE i \in T BY <1>1, <1>3 DEF Partial
<1> HIDE DEF T
<1>4. \A i \in 0..Len(s) : i \in T BY <1>0, <1>2, <1>3, Induct
<1>5. Len(s) \in T BY <1>4
<1> QED BY <1>1, <1>5 DEF T

LEMMA TotalHas ==
    ASSUME NEW s \in Seq(Nat)
    PROVE  \E f : Partial(f, s) /\ Total(s) = f[Len(s)] /\ \A i \in 0..Len(s) : f[i] \in Nat
<1>0. Len(s) \in Nat OBVIOUS
<1>1. PICK f : PlusSteps(f, 0, s) /\ AllPlus(0, s) = f[Len(s)] BY <1>0, PlusFold
<1>2. Partial(f, s) /\ Total(s) = f[Len(s)] BY <1>1 DEF Partial, Total, AllPlus, PlusSteps
<1> QED BY <1>2, PartialNat

LEMMA TotalNat == ASSUME NEW s \in Seq(Nat) PROVE Total(s) \in Nat
<1>1. PICK f : Total(s) = f[Len(s)] /\ \A i \in 0..Len(s) : f[i] \in Nat BY TotalHas
<1> QED BY <1>1

LEMMA TotalEmpty == \A s : s \in Seq(Nat) /\ Len(s) = 0 => Total(s) = 0
<1> SUFFICES ASSUME NEW s \in Seq(Nat), Len(s) = 0 PROVE Total(s) = 0
  OBVIOUS
<1>1. PICK f : Partial(f, s) /\ Total(s) = f[Len(s)] BY TotalHas
<1> QED BY <1>1 DEF Partial

\* A sum cut in two.  The second part is any sequence of the elements after k.
LEMMA TotalCut ==
    ASSUME NEW s \in Seq(Nat), NEW a \in Seq(Nat), NEW b \in Seq(Nat),
           Len(s) = Len(a) + Len(b),
           \A i \in 1..Len(a) : s[i] = a[i], \A i \in 1..Len(b) : s[Len(a) + i] = b[i]
    PROVE  Total(s) = Total(a) + Total(b)
<1>1. PICK f : Partial(f, s) /\ Total(s) = f[Len(s)] /\ \A i \in 0..Len(s) : f[i] \in Nat
  BY TotalHas
<1> DEFINE k == Len(a)
           g == [i \in 0..Len(a) |-> f[i]]
           h == [i \in 0..Len(b) |-> f[k + i] - f[k]]
<1>2. k \in Nat /\ Len(b) \in Nat /\ k \in 0..Len(s) /\ Len(s) = k + Len(b) OBVIOUS
<1>3. Partial(g, a)
  <2>1. \A i \in 1..Len(a) : f[i] = f[i - 1] + a[i] BY <1>1, <1>2 DEF Partial
  <2> QED BY <1>1, <2>1 DEF Partial
<1>4. \A i \in 0..Len(b) : k + i \in 0..Len(s) /\ f[k + i] \in Nat BY <1>1, <1>2
<1>5. Partial(h, b)
  <2>1. ASSUME NEW i \in 1..Len(b) PROVE f[k + i] = f[k + (i - 1)] + b[i]
    <3>1. k + i \in 1..Len(s) /\ (k + i) - 1 = k + (i - 1) BY <1>2
    <3>2. f[k + i] = f[(k + i) - 1] + s[k + i] BY <1>1, <3>1 DEF Partial
    <3> QED BY <3>1, <3>2
  <2>2. h[0] = 0 BY <1>2, <1>4
  <2>3. ASSUME NEW i \in 1..Len(b) PROVE h[i] = h[i - 1] + b[i]
    <3>1. i \in 0..Len(b) /\ i - 1 \in 0..Len(b) /\ b[i] \in Nat BY <1>2, SMTT(40)
    <3>2. h[i] = f[k + i] - f[k] /\ h[i - 1] = f[k + (i - 1)] - f[k] BY <3>1
    <3>3. f[k + i] \in Nat /\ f[k + (i - 1)] \in Nat /\ f[k] \in Nat BY <1>1, <1>2, <1>4, <3>1
    <3> DEFINE u == f[k + i]
               v == f[k + (i - 1)]
               w == f[k]
               z == b[i]
    <3>4. u \in Nat /\ v \in Nat /\ w \in Nat /\ z \in Nat /\ u = v + z BY <2>1, <3>1, <3>3
    <3> HIDE DEF h, k, u, v, w, z
    <3>5. u - w = (v - w) + z BY <3>4
    <3> QED BY <3>2, <3>5 DEF u, v, w, z
  <2> HIDE DEF k
  <2>4. DOMAIN h = 0..Len(b) OBVIOUS
  <2> HIDE DEF h
  <2> QED BY <2>2, <2>3, <2>4 DEF Partial
<1>6. Total(a) = g[k] /\ Total(b) = h[Len(b)]
  <2> HIDE DEF g, h
  <2> QED BY <1>3, <1>5, TotalIs
<1>7. g[k] = f[k] /\ h[Len(b)] = f[Len(s)] - f[k] BY <1>2
<1> HIDE DEF g, h, k
<1>8. f[k] \in Nat /\ f[Len(s)] \in Nat BY <1>1, <1>2
<1> QED BY <1>1, <1>6, <1>7, <1>8 DEF k

LEMMA TotalAppend ==
    ASSUME NEW s \in Seq(Nat), NEW k \in Nat
    PROVE  Total(Append(s, k)) = Total(s) + k
<1> DEFINE t == Append(s, k)
<1>1. t \in Seq(Nat) /\ Len(t) = Len(s) + 1 /\ t[Len(t)] = k /\ \A i \in 1..Len(s) : t[i] = s[i]
  OBVIOUS
<1>2. PICK f : Partial(f, t) /\ Total(t) = f[Len(t)] /\ \A i \in 0..Len(t) : f[i] \in Nat
  BY <1>1, TotalHas
<1> DEFINE g == [i \in 0..Len(s) |-> f[i]]
<1>3. Partial(g, s) BY <1>1, <1>2 DEF Partial
<1>4. Total(s) = g[Len(s)]
  <2> HIDE DEF g
  <2> QED BY <1>3, TotalIs
<1>5. f[Len(t)] = f[Len(t) - 1] + t[Len(t)] BY <1>1, <1>2 DEF Partial
<1> QED BY <1>1, <1>2, <1>4, <1>5

\* Two sums that differ in one place.
LEMMA TotalChange ==
    ASSUME NEW s \in Seq(Nat), NEW t \in Seq(Nat), Len(s) = Len(t), NEW i \in 1..Len(s),
           \A j \in 1..Len(s) : j # i => s[j] = t[j]
    PROVE  Total(t) + s[i] = Total(s) + t[i]
<1>1. PICK f : Partial(f, s) /\ Total(s) = f[Len(s)] /\ \A j \in 0..Len(s) : f[j] \in Nat
  BY TotalHas
<1>2. PICK g : Partial(g, t) /\ Total(t) = g[Len(t)] /\ \A j \in 0..Len(t) : g[j] \in Nat
  BY TotalHas
<1>0. Len(s) \in Nat OBVIOUS
<1> DEFINE T == {j \in 0..Len(s) : IF j < i THEN f[j] = g[j] ELSE g[j] + s[i] = f[j] + t[i]}
<1>3. 0 \in T
  <2>1. f[0] = 0 /\ g[0] = 0 /\ 0 < i BY <1>1, <1>2 DEF Partial
  <2> QED BY <1>0, <2>1
<1>4. ASSUME NEW j \in 1..Len(s), j - 1 \in T PROVE j \in T
  <2>1. f[j] = f[j - 1] + s[j] /\ g[j] = g[j - 1] + t[j] /\ j \in Nat /\ i \in Nat
    <3>1. f[j] = f[j - 1] + s[j] BY <1>1 DEF Partial
    <3>2. g[j] = g[j - 1] + t[j] BY <1>2 DEF Partial
    <3> QED BY <3>1, <3>2
  <2>2. /\ f[j] \in Nat /\ g[j] \in Nat /\ f[j - 1] \in Nat /\ g[j - 1] \in Nat
        /\ s[i] \in Nat /\ t[i] \in Nat /\ s[j] \in Nat /\ t[j] \in Nat
    <3>1. j \in 0..Len(s) /\ j - 1 \in 0..Len(s) /\ j \in 1..Len(t) /\ i \in 1..Len(t) BY <1>0
    <3>2. f[j] \in Nat /\ f[j - 1] \in Nat /\ g[j] \in Nat /\ g[j - 1] \in Nat BY <1>1, <1>2, <3>1
    <3> QED BY <3>1, <3>2, ElementOfSeq
  <2>3. CASE j < i BY <1>4, <2>1, <2>3
  <2>4. CASE j = i
    <3>1. j - 1 < i /\ ~(j < i) /\ j \in 0..Len(s) BY <1>0, <2>1, <2>4
    <3>2. f[j - 1] = g[j - 1] BY <1>4, <3>1
    <3>3. s[j] = s[i] /\ t[j] = t[i] BY <2>4
    <3> HIDE DEF T
    <3>4. g[j] + s[i] = f[j] + t[i]
      <4> DEFINE fp == f[j - 1]
                 fj == f[j]
                 gj == g[j]
                 si == s[i]
                 ti == t[i]
      <4>1. fp \in Nat /\ fj \in Nat /\ gj \in Nat /\ si \in Nat /\ ti \in Nat BY <2>2
      <4>2. fj = fp + si /\ gj = fp + ti
        <5>1. f[j] = f[j - 1] + s[i] BY <2>1, <3>3
        <5>2. g[j] = f[j - 1] + t[i] BY <2>1, <3>2, <3>3
        <5> QED BY <5>1, <5>2
      <4> HIDE DEF fp, fj, gj, si, ti
      <4>3. gj + si = fj + ti BY <4>1, <4>2
      <4> QED BY <4>3 DEF fj, gj, si, ti
    <3> USE DEF T
    <3> QED BY <3>1, <3>4
  <2>5. CASE j > i
    <3>1. g[j - 1] + s[i] = f[j - 1] + t[i] BY <1>4, <2>1, <2>5
    <3>2. s[j] = t[j] BY <2>5
    <3>3. g[j] + s[i] = f[j] + t[i]
      <4>1. f[j] = f[j - 1] + s[j] /\ g[j] = g[j - 1] + s[j] BY <2>1, <3>2
      <4> HIDE DEF T
      <4> DEFINE fp == f[j - 1]
                 gp == g[j - 1]
                 fj == f[j]
                 gj == g[j]
                 si == s[i]
                 ti == t[i]
                 sj == s[j]
      <4>2. /\ fp \in Nat /\ gp \in Nat /\ fj \in Nat /\ gj \in Nat /\ si \in Nat /\ ti \in Nat /\ sj \in Nat
            /\ fj = fp + sj /\ gj = gp + sj /\ gp + si = fp + ti
        BY <2>2, <3>1, <4>1
      <4> HIDE DEF fp, gp, fj, gj, si, ti, sj
      <4>3. gj + si = fj + ti BY <4>2
      <4> QED BY <4>3 DEF fj, gj, si, ti
    <3> QED BY <2>1, <2>5, <3>3
  <2> QED BY <2>1, <2>3, <2>4, <2>5
<1> HIDE DEF T
<1>5. \A j \in 0..Len(s) : j \in T BY <1>0, <1>3, <1>4, Induct
<1>6. Len(s) \in T BY <1>5
<1> QED BY <1>1, <1>2, <1>6 DEF T

\* Two sums, element by element.
LEMMA TotalPlus ==
    ASSUME NEW s \in Seq(Nat), NEW a \in Seq(Nat), NEW b \in Seq(Nat), Len(s) = Len(a), Len(s) = Len(b),
           \A j \in 1..Len(s) : s[j] = a[j] + b[j]
    PROVE  Total(s) = Total(a) + Total(b)
<1>1. PICK f : Partial(f, a) /\ Total(a) = f[Len(a)] /\ \A j \in 0..Len(a) : f[j] \in Nat
  BY TotalHas
<1>2. PICK g : Partial(g, b) /\ Total(b) = g[Len(b)] /\ \A j \in 0..Len(b) : g[j] \in Nat
  BY TotalHas
<1> DEFINE h == [j \in 0..Len(s) |-> f[j] + g[j]]
<1>3. Partial(h, s)
  <2>1. h[0] = 0 BY <1>1, <1>2 DEF Partial
  <2>2. ASSUME NEW j \in 1..Len(s) PROVE h[j] = h[j - 1] + s[j]
    <3>1. f[j] = f[j - 1] + a[j] /\ g[j] = g[j - 1] + b[j] BY <1>1, <1>2 DEF Partial
    <3>2. /\ f[j] \in Nat /\ g[j] \in Nat /\ f[j - 1] \in Nat /\ g[j - 1] \in Nat
      <4>1. j \in 0..Len(a) /\ j - 1 \in 0..Len(a) /\ j \in 0..Len(b) /\ j - 1 \in 0..Len(b) OBVIOUS
      <4> QED BY <1>1, <1>2, <4>1, Zenon
    <3>3. h[j] = f[j] + g[j] /\ h[j - 1] = f[j - 1] + g[j - 1] OBVIOUS
    <3>5. a[j] \in Nat /\ b[j] \in Nat
      <4> HIDE DEF h
      <4>1. j \in 1..Len(a) /\ j \in 1..Len(b) OBVIOUS
      <4> QED BY <4>1, ElementOfSeq
    <3>4. s[j] = a[j] + b[j] OBVIOUS
    <3> HIDE DEF h
    <3>6. f[j] + g[j] = (f[j - 1] + g[j - 1]) + (a[j] + b[j])
      <4> DEFINE fp == f[j - 1]
                 gp == g[j - 1]
                 aj == a[j]
                 bj == b[j]
                 fj == f[j]
                 gj == g[j]
      <4>1. fj = fp + aj /\ gj = gp + bj /\ fp \in Nat /\ gp \in Nat /\ aj \in Nat /\ bj \in Nat
        BY <3>1, <3>2, <3>5
      <4> HIDE DEF fp, gp, aj, bj, fj, gj
      <4>2. fj + gj = (fp + gp) + (aj + bj) BY <4>1
      <4> QED BY <4>2 DEF fp, gp, aj, bj, fj, gj
    <3> QED BY <3>3, <3>4, <3>6
  <2> HIDE DEF h
  <2>3. DOMAIN h = 0..Len(s) BY DEF h
  <2> QED BY <2>1, <2>2, <2>3 DEF Partial
<1>4. Total(s) = h[Len(s)]
  <2> HIDE DEF h
  <2> QED BY <1>3, TotalIs
<1>5. h[Len(s)] = f[Len(s)] + g[Len(s)] OBVIOUS
<1> HIDE DEF h
<1> QED BY <1>1, <1>2, <1>4, <1>5

----------------------------------------------------------------------------
(***************************************************************************)
(* Records.                                                                *)
(***************************************************************************)
LEMMA SockIs == Sock \in SUBSET Nat /\ NoSock \notin Sock /\ MaxSockets \in Nat
  BY SizesAssumption DEF Sock, NoSock

LEMMA NoNameIs == NoName \in Name
  BY DEF NoName, Name

LEMMA BlankIs ==
    ASSUME NEW h \in Host
    PROVE  Blank(h) \in SockRec
  BY NoNameIs DEF Blank, SockRec

LEMMA AnyHostIs == AnyHost \in Host
  BY InputsAssumption DEF AnyHost

\* What is left of a record that is released
LEMMA FreedIs ==
    ASSUME NEW sk \in SockRec
    PROVE  /\ Freed(sk) \in SockRec
           /\ Freed(sk).state = "free" /\ Freed(sk).refs = 0 /\ Freed(sk).backlog = <<>>
           /\ Freed(sk).kind = "stream" /\ Freed(sk).rx = <<>> /\ ~Freed(sk).fin
           /\ ~Freed(sk).shutWr /\ ~Freed(sk).shutRd
           /\ Freed(sk).flight = sk.flight /\ Freed(sk).flStream = sk.flStream
<1>1. Blank(AnyHost) \in SockRec BY AnyHostIs, BlankIs
<1>2. Freed(sk) \in SockRec
  <2> HIDE DEF Blank
  <2> QED BY <1>1 DEF Freed, SockRec
<1> QED BY <1>2 DEF Freed, Blank, SockRec

LEMMA ClosedIs ==
    ASSUME NEW sk \in SockRec
    PROVE  /\ Closed(sk) \in SockRec
           /\ Closed(sk).state = "closed" /\ Closed(sk).refs = 0 /\ Closed(sk).backlog = <<>>
           /\ Closed(sk).far = sk.far
           /\ Closed(sk).kind = "stream" /\ Closed(sk).rx = <<>> /\ ~Closed(sk).fin
           /\ ~Closed(sk).shutWr /\ ~Closed(sk).shutRd
           /\ Closed(sk).flight = sk.flight /\ Closed(sk).flStream = sk.flStream
<1> DEFINE r == Freed(sk)
<1>1. r \in SockRec /\ sk \in SockRec BY FreedIs
<1>2. Closed(sk) = [r EXCEPT !.state = "closed", !.far = sk.far] BY DEF Closed
<1>3. /\ r.refs = 0 /\ r.backlog = <<>> /\ r.kind = "stream" /\ r.rx = <<>> /\ ~r.fin
      /\ ~r.shutWr /\ ~r.shutRd
      /\ r.flight = sk.flight /\ r.flStream = sk.flStream
  BY FreedIs
<1> HIDE DEF r
<1> QED BY <1>1, <1>2, <1>3, ZenonT(60) DEF SockRec

\* A payload arrives: its receiver is as before but for what it received,
\* and has an event.
LEMMA LandIs ==
    ASSUME NEW sk \in SockRec, NEW pay \in Payload
    PROVE  /\ Land(sk, pay) \in SockRec
           /\ Alike(Land(sk, pay), sk) /\ Named(Land(sk, pay), sk)
           /\ Land(sk, pay).refs = sk.refs /\ Land(sk, pay).backlogMax = sk.backlogMax
           /\ Land(sk, pay).flight = sk.flight /\ Land(sk, pay).flStream = sk.flStream
           /\ Land(sk, pay).wrNew = sk.wrNew
           /\ IsGone(sk) => Land(sk, pay) = sk
           /\ ~IsGone(sk) => Land(sk, pay).rdNew
<1>1. CASE IsGone(sk) BY <1>1 DEF Land, Alike, Named
<1>2. CASE ~IsGone(sk) /\ pay.kind = "fin" BY <1>2 DEF Land, Alike, Named, SockRec, IsGone
<1>3. CASE ~IsGone(sk) /\ pay.kind # "fin"
  <2>1. pay.data \in Seq(Byte \cup Name) BY <1>3 DEF Payload
  <2>2. sk.rx \o pay.data \in Seq(Byte \cup Name) BY <2>1 DEF SockRec
  <2>3. \/ Land(sk, pay) = [sk EXCEPT !.rx = sk.rx \o pay.data, !.rdNew = TRUE]
        \/ Land(sk, pay) = [sk EXCEPT !.rdNew = TRUE]
    BY <1>3 DEF Land, SockRec
  <2> QED BY <1>3, <2>2, <2>3, ZenonT(60) DEF Alike, Named, SockRec
<1> QED BY <1>1, <1>2, <1>3

LEMMA LandRx ==
    ASSUME NEW sk \in SockRec, NEW pay \in Payload, ~IsGone(sk)
    PROVE  /\ pay.kind = "fin" => Land(sk, pay).rx = sk.rx /\ Land(sk, pay).fin
           /\ pay.kind = "bytes" => Land(sk, pay).rx = sk.rx \o pay.data
           /\ pay.kind # "fin" => Land(sk, pay).fin = sk.fin
           /\ pay.kind = "dgram" => \/ Land(sk, pay).rx = sk.rx
                                    \/ /\ Land(sk, pay).rx = sk.rx \o pay.data
                                       /\ DgramLen <= Ring - RxLen(sk)
<1>1. CASE pay.kind = "fin" BY <1>1 DEF Land, SockRec
<1>2. CASE pay.kind = "bytes" BY <1>2 DEF Land, SockRec
<1>3. CASE pay.kind = "dgram" BY <1>3 DEF Land, SockRec
<1> QED BY <1>1, <1>2, <1>3 DEF Payload

LEMMA PayloadIs ==
    /\ Fin \in Payload /\ Fin.kind = "fin"
    /\ \A data \in Seq(Byte) : Bytes(data) \in Payload /\ Bytes(data).kind = "bytes" /\ Bytes(data).data = data
    /\ \A from \in Name : Dgram(from) \in Payload /\ Dgram(from).kind = "dgram"
<1>1. ASSUME NEW from \in Name PROVE <<from>> \in Seq(Name) /\ Len(<<from>>) = 1 OBVIOUS
<1> QED BY <1>1 DEF Fin, Bytes, Dgram, Payload

----------------------------------------------------------------------------
(***************************************************************************)
(* What one operation does to the network.                                 *)
(***************************************************************************)
LEMMA PutsIs ==
    ASSUME NEW n \in NetRec, NEW m, NEW s \in Sock, NEW r, Puts(n, m, s, r)
    PROVE  /\ m.socks[s] = r
           /\ \A t \in Sock : t # s => m.socks[t] = n.socks[t]
  BY DEF Puts, NetRec

LEMMA Put ==
    ASSUME NEW n \in NetRec, NEW s \in Sock, NEW r \in SockRec
    PROVE  /\ Puts(n, [n EXCEPT !.socks[s] = r], s, r)
           /\ [n EXCEPT !.socks[s] = r].inFlight = n.inFlight
           /\ [n EXCEPT !.socks[s] = r].nextDue = n.nextDue
  BY DEF Puts, NetRec

LEMMA FlyingIs ==
    ASSUME NEW sk \in SockRec, NEW left \in Nat, NEW pay \in Payload
    PROVE  LET r == Flying(sk, left, pay) IN
           /\ r \in SockRec /\ Alike(r, sk) /\ Named(r, sk)
           /\ r.refs = sk.refs /\ r.backlogMax = sk.backlogMax
           /\ r.fin = sk.fin /\ r.rx = sk.rx
           /\ r.rdNew = sk.rdNew /\ r.wrNew = sk.wrNew
           /\ r.flight = Append(sk.flight, [left |-> left, pay |-> pay])
           /\ r.flStream = sk.flStream + (IF pay.kind = "bytes" THEN Len(pay.data) ELSE 0)
<1>1. Append(sk.flight, [left |-> left, pay |-> pay]) \in Seq([left: Nat, pay: Payload])
  <2>1. [left |-> left, pay |-> pay] \in [left: Nat, pay: Payload] OBVIOUS
  <2>2. sk.flight \in Seq([left: Nat, pay: Payload]) BY DEF SockRec
  <2> QED BY <2>1, <2>2
<1>2. (IF pay.kind = "bytes" THEN Len(pay.data) ELSE 0) \in Nat BY DEF Payload
<1> DEFINE f == Append(sk.flight, [left |-> left, pay |-> pay])
           k == IF pay.kind = "bytes" THEN Len(pay.data) ELSE 0
<1>3. Flying(sk, left, pay) = [sk EXCEPT !.flight = f, !.flStream = sk.flStream + k]
  BY DEF Flying, SockRec
<1>4. f \in Seq([left: Nat, pay: Payload]) /\ k \in Nat BY <1>1, <1>2
<1> HIDE DEF f, k
<1>5. sk.flStream + k \in Nat BY <1>4 DEF SockRec
<1>6. Flying(sk, left, pay) \in SockRec BY <1>3, <1>4, <1>5 DEF SockRec
<1>7. Alike(Flying(sk, left, pay), sk) /\ Named(Flying(sk, left, pay), sk)
  BY <1>3 DEF Alike, Named, SockRec
<1>8. LET r == Flying(sk, left, pay) IN
           /\ r.refs = sk.refs /\ r.backlogMax = sk.backlogMax
           /\ r.fin = sk.fin /\ r.rx = sk.rx
           /\ r.rdNew = sk.rdNew /\ r.wrNew = sk.wrNew
           /\ r.flight = f /\ r.flStream = sk.flStream + k
  BY <1>3 DEF SockRec
<1> QED BY <1>6, <1>7, <1>8 DEF f, k

LEMMA LaunchIs ==
    ASSUME NEW n \in NetRec, NEW d \in Sock, NEW left \in Nat, NEW pay \in Payload
    PROVE  LET m == Launch(n, d, left, pay) IN
           /\ Puts(n, m, d, Flying(n.socks[d], left, pay))
           /\ m.inFlight = n.inFlight + 1
           /\ m.nextDue = IF n.inFlight = 0 \/ n.nextDue = NoTime \/ left < n.nextDue THEN left ELSE n.nextDue
<1> DEFINE m == Launch(n, d, left, pay)
           r == Flying(n.socks[d], left, pay)
           due == IF n.inFlight = 0 \/ n.nextDue = NoTime \/ left < n.nextDue THEN left ELSE n.nextDue
<1>1. n.socks[d] \in SockRec /\ n.socks \in [Sock -> SockRec] BY DEF NetRec
<1>2. r \in SockRec BY <1>1, FlyingIs
<1>3. m = [n EXCEPT !.socks[d] = r, !.inFlight = n.inFlight + 1, !.nextDue = due]
  <2> DEFINE f == Append(n.socks[d].flight, [left |-> left, pay |-> pay])
             k == IF pay.kind = "bytes" THEN Len(pay.data) ELSE 0
             i == n.inFlight + 1
             old == n.socks[d].flStream
  <2>1. m = [n EXCEPT !.socks[d].flight = f, !.socks[d].flStream = old + k,
                      !.inFlight = i, !.nextDue = due]
    <3> HIDE DEF k, due
    <3> QED BY <1>1 DEF Launch, NetRec, SockRec, k, due
  <2>2. r = [n.socks[d] EXCEPT !.flight = f, !.flStream = old + k]
    <3> HIDE DEF k
    <3> QED BY <1>1 DEF Flying, SockRec, k
  <2> HIDE DEF m, r, f, k, i, due, old
  <2> QED BY <2>1, <2>2, <1>1, ZenonT(60) DEF NetRec, SockRec, i
<1>4. due \in Nat \cup {NoTime} /\ n.inFlight + 1 \in Nat BY DEF NetRec
<1> HIDE DEF r, due
<1>5. m \in NetRec /\ m.socks = [n.socks EXCEPT ![d] = r] /\ m.refs = n.refs /\ m.port = n.port
      /\ m.inFlight = n.inFlight + 1 /\ m.nextDue = due
  <2> HIDE DEF m
  <2> QED BY <1>2, <1>3, <1>4 DEF NetRec
<1> QED BY <1>2, <1>5 DEF Puts, r, due

LEMMA DelayIs == ASSUME NEW from, NEW sk PROVE Delay(from, sk) \in Nat
  BY SizesAssumption DEF Delay

\* A payload for d lands at once or is in flight.
LEMMA DeliverIs ==
    ASSUME NEW n \in NetRec, NEW d \in Sock, NEW from, NEW pay \in Payload
    PROVE  LET m == Deliver(n, from, d, pay) IN
           \/ /\ ArrivesNow(from, n.socks[d])
              /\ Puts(n, m, d, Land(n.socks[d], pay))
              /\ m.inFlight = n.inFlight /\ m.nextDue = n.nextDue
           \/ /\ ~ArrivesNow(from, n.socks[d])
              /\ m = Launch(n, d, Delay(from, n.socks[d]), pay)
<1>1. CASE ArrivesNow(from, n.socks[d])
  <2>1. n.socks[d] \in SockRec BY DEF NetRec
  <2>2. Land(n.socks[d], pay) \in SockRec BY <2>1, LandIs
  <2>3. Deliver(n, from, d, pay) = [n EXCEPT !.socks[d] = Land(n.socks[d], pay)]
    BY <1>1 DEF Deliver, NetRec
  <2> QED BY <1>1, <2>2, <2>3, Put
<1>2. CASE ~ArrivesNow(from, n.socks[d]) BY <1>2 DEF Deliver
<1> QED BY <1>1, <1>2

LEMMA DeliverPuts ==
    ASSUME NEW n \in NetRec, NEW d \in Sock, NEW from, NEW pay \in Payload
    PROVE  \E r : /\ Puts(n, Deliver(n, from, d, pay), d, r) /\ Lively(r, n.socks[d])
                  /\ r.wrNew = n.socks[d].wrNew
                  /\ n.socks[d].rdNew => r.rdNew
                  /\ r = Land(n.socks[d], pay) \/ r = Flying(n.socks[d], Delay(from, n.socks[d]), pay)
<1>1. n.socks[d] \in SockRec BY DEF NetRec
<1>2. CASE ArrivesNow(from, n.socks[d])
  <2> DEFINE r == Land(n.socks[d], pay)
  <2>1. Puts(n, Deliver(n, from, d, pay), d, r) BY <1>2, DeliverIs
  <2>2. r \in SockRec /\ Alike(r, n.socks[d]) /\ Named(r, n.socks[d]) /\ r.refs = n.socks[d].refs
        /\ r.backlogMax = n.socks[d].backlogMax /\ r.wrNew = n.socks[d].wrNew
        /\ (n.socks[d].rdNew => r.rdNew)
    BY <1>1, LandIs
  <2> QED BY <2>1, <2>2 DEF Lively
<1>3. CASE ~ArrivesNow(from, n.socks[d])
  <2> DEFINE r == Flying(n.socks[d], Delay(from, n.socks[d]), pay)
  <2>0. Delay(from, n.socks[d]) \in Nat BY DelayIs
  <2>1. Puts(n, Deliver(n, from, d, pay), d, r) BY <1>3, <2>0, DeliverIs, LaunchIs
  <2>2. r \in SockRec /\ Alike(r, n.socks[d]) /\ Named(r, n.socks[d]) /\ r.refs = n.socks[d].refs
        /\ r.backlogMax = n.socks[d].backlogMax /\ r.wrNew = n.socks[d].wrNew
        /\ (n.socks[d].rdNew => r.rdNew)
    BY <1>1, <2>0, FlyingIs
  <2> QED BY <2>1, <2>2 DEF Lively
<1> QED BY <1>2, <1>3

LEMMA ToldIs ==
    ASSUME NEW sk \in SockRec
    PROVE  /\ Lively(Told(sk), sk)
           /\ Told(sk).rx = sk.rx /\ Told(sk).fin = sk.fin
           /\ Told(sk).flight = sk.flight /\ Told(sk).flStream = sk.flStream
           /\ Told(sk).rdNew = sk.rdNew
           /\ sk.wrNew => Told(sk).wrNew
           /\ ~IsGone(sk) => Told(sk).wrNew
<1>1. CASE IsGone(sk) BY <1>1 DEF Told, Lively, Alike, Named
<1>2. CASE ~IsGone(sk)
  <2>1. Told(sk) = [sk EXCEPT !.wrNew = TRUE] BY <1>2 DEF Told
  <2> HIDE DEF Told
  <2> QED BY <1>2, <2>1 DEF SockRec, Lively, Alike, Named
<1> QED BY <1>1, <1>2

LEMMA WritableIs ==
    ASSUME NEW n \in NetRec, NEW s \in Sock
    PROVE  /\ Puts(n, Writable(n, s), s, Told(n.socks[s]))
           /\ Writable(n, s).inFlight = n.inFlight /\ Writable(n, s).nextDue = n.nextDue
<1>1. n.socks[s] \in SockRec /\ n.socks \in [Sock -> SockRec] BY DEF NetRec
<1>2. Told(n.socks[s]) \in SockRec BY <1>1, ToldIs DEF Lively
<1>3. CASE IsGone(n.socks[s])
  <2>1. Told(n.socks[s]) = n.socks[s] /\ Writable(n, s) = n BY <1>3 DEF Told, Writable
  <2>2. [n.socks EXCEPT ![s] = n.socks[s]] = n.socks BY <1>1
  <2> QED BY <1>1, <2>1, <2>2 DEF Puts
<1>4. CASE ~IsGone(n.socks[s])
  <2>1. Told(n.socks[s]) = [n.socks[s] EXCEPT !.wrNew = TRUE] BY <1>4 DEF Told
  <2>2. Writable(n, s) = [n EXCEPT !.socks[s] = Told(n.socks[s])] BY <1>4, <2>1 DEF Writable, NetRec
  <2> QED BY <1>2, <2>2, Put
<1> QED BY <1>3, <1>4

----------------------------------------------------------------------------
(***************************************************************************)
(* How sockets hang together.                                              *)
(***************************************************************************)
LEMMA QuietQueues ==
    ASSUME NEW n, NEW m, Quiet(n, m)
    PROVE  \A t \in Sock : IsQueued(m, t) <=> IsQueued(n, t)
  BY DEF Quiet, Lively, Alike, IsQueued, InQueue

LEMMA QuietHangs ==
    ASSUME NEW n, NEW m, NEW but, Hangs(n, but), Quiet(n, m)
    PROVE  Hangs(m, but)
<1>1. /\ m.refs = n.refs
      /\ \A s \in Sock : /\ m.socks[s].state = n.socks[s].state /\ m.socks[s].far = n.socks[s].far
                         /\ m.socks[s].refs = n.socks[s].refs /\ m.socks[s].backlog = n.socks[s].backlog
                         /\ m.socks[s].shutWr = n.socks[s].shutWr /\ m.socks[s].shutRd = n.socks[s].shutRd
  BY DEF Quiet, Lively, Alike
<1>2. Counted(m) BY <1>1 DEF Hangs, Counted, IsGone
<1>3. \A t \in Sock : IsQueued(m, t) <=> IsQueued(n, t) BY QuietQueues
<1>4. Kept(m, but) BY <1>1, <1>3 DEF Hangs, Kept, IsGone
<1>5. Paired(m) BY <1>1 DEF Hangs, Paired, Linked
<1>6. Queues(m)
  <2>1. \A t \in Sock : IsQueued(n, t) => n.socks[t].far \in Sock
    BY DEF Hangs, Queues, QueuedIdle, Paired, Linked
  <2>2. OnlyListenersQueue(m) BY <1>1 DEF Hangs, Queues, OnlyListenersQueue
  <2>3. QueuedOnce(m)
    <3>1. ASSUME NEW l \in Sock, NEW k \in Sock, NEW i \in 1..Len(m.socks[l].backlog),
                 NEW j \in 1..Len(m.socks[k].backlog), m.socks[l].backlog[i] = m.socks[k].backlog[j]
          PROVE  l = k /\ i = j
      <4>1. m.socks[l].backlog = n.socks[l].backlog /\ m.socks[k].backlog = n.socks[k].backlog
        BY <1>1
      <4>2. QueuedOnce(n) BY DEF Hangs, Queues
      <4> QED BY <3>1, <4>1, <4>2 DEF QueuedOnce
    <3> QED BY <3>1 DEF QueuedOnce
  <2>4. QueuedIdle(m) BY <1>1, <1>3, <2>1 DEF Hangs, Queues, QueuedIdle
  <2> QED BY <2>2, <2>3, <2>4 DEF Queues
<1> QED BY <1>2, <1>4, <1>5, <1>6 DEF Hangs, Quiet

LEMMA QuietTrans ==
    ASSUME NEW n, NEW k, NEW m, Quiet(n, k), Quiet(k, m)
    PROVE  Quiet(n, m)
  BY DEF Quiet, Lively, Alike, Named

LEMMA PutQuiet ==
    ASSUME NEW n \in NetRec, NEW m, NEW s \in Sock, NEW r, Puts(n, m, s, r), Lively(r, n.socks[s])
    PROVE  Quiet(n, m)
<1>1. \A t \in Sock : n.socks[t] \in SockRec BY DEF NetRec
<1>2. \A t \in Sock : t # s => Lively(m.socks[t], n.socks[t])
  BY <1>1 DEF Puts, NetRec, Lively, Alike, Named
<1>3. Lively(m.socks[s], n.socks[s]) BY PutsIs
<1> QED BY <1>2, <1>3 DEF Puts, Quiet

LEMMA DeliverQuiet ==
    ASSUME NEW n \in NetRec, NEW d \in Sock, NEW from, NEW pay \in Payload
    PROVE  Quiet(n, Deliver(n, from, d, pay))
<1>1. PICK r : Puts(n, Deliver(n, from, d, pay), d, r) /\ Lively(r, n.socks[d]) BY DeliverPuts
<1> QED BY <1>1, PutQuiet

LEMMA WritableQuiet ==
    ASSUME NEW n \in NetRec, NEW s \in Sock
    PROVE  Quiet(n, Writable(n, s))
<1>1. n.socks[s] \in SockRec BY DEF NetRec
<1> QED BY <1>1, WritableIs, ToldIs, PutQuiet

----------------------------------------------------------------------------
(***************************************************************************)
(* Counting.                                                               *)
(***************************************************************************)
LEMMA DescriptorsFinite ==
    ASSUME NEW refs \in [Proc -> [Sock -> Nat]], NEW s \in Sock
    PROVE  IsFiniteSet(DescriptorsIn(refs, s))
<1> DEFINE f == [p \in Proc |-> {p} \X (1..refs[p][s])]
           T == {{p} \X (1..refs[p][s]) : p \in Proc}
<1>1. f \in Surjection(Proc, T) BY DEF Surjection
<1>2. IsFiniteSet(T)
  <2> HIDE DEF f, T
  <2> QED BY <1>1, FS_Surjection, InputsAssumption
<1>3. ASSUME NEW p \in Proc PROVE IsFiniteSet({p} \X (1..refs[p][s]))
  <2>1. refs[p][s] \in Nat OBVIOUS
  <2> DEFINE k == refs[p][s]
  <2>2. IsFiniteSet(1..k) /\ IsFiniteSet({p})
    <3>1. k \in Nat BY <2>1
    <3> HIDE DEF k
    <3>2. IsFiniteSet(1..k) BY <3>1, FS_Interval
    <3>3. IsFiniteSet({p}) BY FS_Singleton
    <3> QED BY <3>2, <3>3
  <2> QED BY <2>2, FS_Product
<1>4. \A S \in T : IsFiniteSet(S) BY <1>3
<1>5. IsFiniteSet(UNION T)
  <2> HIDE DEF T
  <2> QED BY <1>2, <1>4, FS_UNION
<1> QED BY <1>5 DEF DescriptorsIn

\* When the descriptors of one process change, the count does by as much.
LEMMA CountChanges ==
    ASSUME NEW a \in [Proc -> [Sock -> Nat]], NEW b \in [Proc -> [Sock -> Nat]], NEW p \in Proc, NEW s \in Sock,
           \A q \in Proc : q # p => a[q][s] = b[q][s]
    PROVE  /\ Cardinality(DescriptorsIn(a, s)) \in Nat /\ Cardinality(DescriptorsIn(b, s)) \in Nat
           /\ a[p][s] <= Cardinality(DescriptorsIn(a, s))
           /\ Cardinality(DescriptorsIn(b, s)) + a[p][s] = Cardinality(DescriptorsIn(a, s)) + b[p][s]
<1> DEFINE O == {d \in DescriptorsIn(a, s) : d[1] # p}
           A == {p} \X (1..a[p][s])
           B == {p} \X (1..b[p][s])
<1>1. DescriptorsIn(a, s) = O \cup A BY DEF DescriptorsIn
<1>2. DescriptorsIn(b, s) = O \cup B BY DEF DescriptorsIn
<1>3. O \cap A = {} /\ O \cap B = {} OBVIOUS
<1>4. IsFiniteSet(O) BY DescriptorsFinite, FS_Subset
<1>5. a[p][s] \in Nat /\ b[p][s] \in Nat OBVIOUS
<1>6. \A k \in Nat : IsFiniteSet({p} \X (1..k)) /\ Cardinality({p} \X (1..k)) = k
  <2>1. ASSUME NEW k \in Nat PROVE IsFiniteSet(1..k) /\ Cardinality(1..k) = k BY FS_Interval, SMTT(40)
  <2>2. IsFiniteSet({p}) /\ Cardinality({p}) = 1 BY FS_Singleton
  <2>3. ASSUME NEW k \in Nat PROVE IsFiniteSet({p} \X (1..k)) /\ Cardinality({p} \X (1..k)) = k
    <3>1. IsFiniteSet({p} \X (1..k)) /\ Cardinality({p} \X (1..k)) = Cardinality({p}) * Cardinality(1..k)
      BY <2>1, <2>2, FS_Product, Zenon
    <3>2. 1 * k = k OBVIOUS
    <3> QED BY <2>1, <2>2, <3>1, <3>2
  <2> QED BY <2>3
<1>7. IsFiniteSet(A) /\ Cardinality(A) = a[p][s] /\ IsFiniteSet(B) /\ Cardinality(B) = b[p][s]
  BY <1>5, <1>6
<1> HIDE DEF O, A, B
<1>8. Cardinality(O) \in Nat BY <1>4, FS_CardinalityType
<1>9. Cardinality(O \cup A) = Cardinality(O) + a[p][s] /\ Cardinality(O \cup B) = Cardinality(O) + b[p][s]
  <2>1. Cardinality({}) = 0 BY FS_EmptySet
  <2>2. Cardinality(O \cup A) = Cardinality(O) + Cardinality(A) - Cardinality(O \cap A)
    BY <1>4, <1>7, FS_Union, Zenon
  <2>3. Cardinality(O \cup B) = Cardinality(O) + Cardinality(B) - Cardinality(O \cap B)
    BY <1>4, <1>7, FS_Union, Zenon
  <2>4. Cardinality(O \cap A) = 0 /\ Cardinality(O \cap B) = 0 BY <1>3, <2>1
  <2> QED BY <1>5, <1>7, <1>8, <2>2, <2>3, <2>4
<1> QED BY <1>1, <1>2, <1>5, <1>8, <1>9

LEMMA CountSame ==
    ASSUME NEW a, NEW b, NEW s \in Sock, \A q \in Proc : a[q][s] = b[q][s]
    PROVE  DescriptorsIn(a, s) = DescriptorsIn(b, s)
  BY DEF DescriptorsIn

\* Whoever has a descriptor of a socket is counted, so the socket is open and
\* queued nowhere.
LEMMA HeldIsOpen ==
    ASSUME NEW n, NEW but, Hangs(n, but), NEW p \in Proc, NEW s \in Sock, n.refs[p][s] > 0
    PROVE  /\ n.socks[s].refs > 0 /\ ~IsGone(n.socks[s]) /\ ~IsQueued(n, s)
           /\ n.refs[p][s] <= n.socks[s].refs
<1>1. n.refs \in [Proc -> [Sock -> Nat]] BY DEF Hangs, NetRec
<1>2. n.refs[p][s] <= Cardinality(DescriptorsIn(n.refs, s)) /\ Cardinality(DescriptorsIn(n.refs, s)) \in Nat
  BY <1>1, CountChanges
<1>3. n.socks[s].refs = Cardinality(DescriptorsIn(n.refs, s)) /\ n.refs[p][s] \in Nat
  BY <1>1 DEF Hangs, Counted
<1>4. n.socks[s].refs > 0 BY <1>2, <1>3
<1> QED BY <1>2, <1>3, <1>4 DEF Hangs, Counted, Queues, QueuedIdle

LEMMA RefsBound ==
    ASSUME NEW n, NEW but, Hangs(n, but), NEW p \in Proc, NEW s \in Sock
    PROVE  n.refs[p][s] <= n.socks[s].refs /\ n.refs[p][s] \in Nat /\ n.socks[s].refs \in Nat
<1>1. n.refs \in [Proc -> [Sock -> Nat]] BY DEF Hangs, NetRec
<1>2. n.refs[p][s] <= Cardinality(DescriptorsIn(n.refs, s)) /\ Cardinality(DescriptorsIn(n.refs, s)) \in Nat
  BY <1>1, CountChanges
<1> QED BY <1>1, <1>2 DEF Hangs, Counted

----------------------------------------------------------------------------
(***************************************************************************)
(* References taken and given up: a record keeps everything but its count. *)
(***************************************************************************)
LEMMA RecountIs ==
    ASSUME NEW r \in SockRec, NEW sk \in SockRec, Recount(r, sk)
    PROVE  /\ Alike(r, sk) /\ Named(r, sk) /\ r.backlogMax = sk.backlogMax
           /\ r.fin = sk.fin /\ r.rx = sk.rx /\ r.flight = sk.flight /\ r.flStream = sk.flStream
           /\ r.rdNew = sk.rdNew /\ r.wrNew = sk.wrNew
<1> DEFINE k == r.refs
<1>1. r = [sk EXCEPT !.refs = k] BY DEF Recount
<1> HIDE DEF k
<1> QED BY <1>1 DEF SockRec, Alike, Named

\* What hangs together still does when nobody takes a reference to what is
\* gone or queued, and the last one is given up of nothing but `but'.
LEMMA RecountHangs ==
    ASSUME NEW n, NEW m, NEW old, NEW but, Hangs(n, old), Recounted(n, m),
           \A s \in Sock : m.socks[s].refs = Cardinality(DescriptorsIn(m.refs, s)),
           \A s \in Sock : IsGone(n.socks[s]) \/ IsQueued(n, s) => m.socks[s].refs = 0,
           \A s \in Sock : s # but /\ (n.socks[s].refs > 0 \/ s = old) => m.socks[s].refs > 0
    PROVE  Hangs(m, but)
<1>1. ASSUME NEW s \in Sock
      PROVE  /\ m.socks[s].state = n.socks[s].state /\ m.socks[s].far = n.socks[s].far
             /\ m.socks[s].backlog = n.socks[s].backlog
             /\ m.socks[s].shutWr = n.socks[s].shutWr /\ m.socks[s].shutRd = n.socks[s].shutRd
  <2>1. m.socks[s] \in SockRec /\ n.socks[s] \in SockRec /\ Recount(m.socks[s], n.socks[s])
    BY DEF Recounted, Hangs, NetRec
  <2> QED BY <2>1, RecountIs DEF Alike
<1>2. Counted(m) BY <1>1 DEF Counted, IsGone
<1>3. \A t \in Sock : IsQueued(m, t) <=> IsQueued(n, t) BY <1>1 DEF IsQueued, InQueue
<1>4. Kept(m, but) BY <1>1, <1>3 DEF Hangs, Kept, IsGone
<1>5. Paired(m) BY <1>1 DEF Hangs, Paired, Linked
<1>6. OnlyListenersQueue(m) BY <1>1 DEF Hangs, Queues, OnlyListenersQueue
<1>7. QueuedOnce(m)
  <2>1. ASSUME NEW l \in Sock, NEW k \in Sock, NEW i \in 1..Len(m.socks[l].backlog),
               NEW j \in 1..Len(m.socks[k].backlog), m.socks[l].backlog[i] = m.socks[k].backlog[j]
        PROVE  l = k /\ i = j
    <3>1. m.socks[l].backlog = n.socks[l].backlog /\ m.socks[k].backlog = n.socks[k].backlog BY <1>1
    <3>2. QueuedOnce(n) BY DEF Hangs, Queues
    <3> QED BY <2>1, <3>1, <3>2 DEF QueuedOnce
  <2> QED BY <2>1 DEF QueuedOnce
<1>8. QueuedIdle(m)
  <2>1. \A t \in Sock : IsQueued(n, t) => n.socks[t].far \in Sock
    BY DEF Hangs, Queues, QueuedIdle, Paired, Linked
  <2> QED BY <1>1, <1>3, <2>1 DEF Hangs, Queues, QueuedIdle
<1> QED BY <1>2, <1>4, <1>5, <1>6, <1>7, <1>8 DEF Hangs, Queues, Recounted

LEMMA RewrittenIs ==
    ASSUME NEW n \in NetRec, NEW p \in Proc, NEW s \in Sock, NEW a \in Nat, NEW b \in Nat,
           NEW m, m = Rewritten(n, p, s, a, b)
    PROVE  Rewrites(n, m, p, s, a, b)
<1> DEFINE r == [n.socks[s] EXCEPT !.refs = b]
<1>1. n.socks[s] \in SockRec /\ n.socks \in [Sock -> SockRec] /\ n.refs \in [Proc -> [Sock -> Nat]]
  BY DEF NetRec
<1>2. r \in SockRec /\ r.refs = b BY <1>1 DEF SockRec
<1>3. m = [n EXCEPT !.refs = [n.refs EXCEPT ![p] = [n.refs[p] EXCEPT ![s] = a]],
                    !.socks = [n.socks EXCEPT ![s] = r]]
  BY <1>1 DEF Rewritten, NetRec
<1>4. [n.refs EXCEPT ![p] = [n.refs[p] EXCEPT ![s] = a]] \in [Proc -> [Sock -> Nat]] BY <1>1
<1>5. [n.socks EXCEPT ![s] = r] \in [Sock -> SockRec] BY <1>1, <1>2
<1>6. /\ m \in NetRec /\ m.refs = [n.refs EXCEPT ![p] = [n.refs[p] EXCEPT ![s] = a]]
      /\ m.socks = [n.socks EXCEPT ![s] = r]
      /\ m.inFlight = n.inFlight /\ m.nextDue = n.nextDue /\ m.port = n.port
  <2> HIDE DEF r
  <2> QED BY <1>3, <1>4, <1>5 DEF NetRec
<1>7. m.socks[s] = r /\ \A t \in Sock : t # s => m.socks[t] = n.socks[t] BY <1>1, <1>6
<1>8. Recount(r, n.socks[s]) BY <1>2 DEF Recount
<1>9. \A t \in Sock : Recount(n.socks[t], n.socks[t]) BY DEF NetRec, SockRec, Recount
<1>10. Recounted(n, m) BY <1>6, <1>7, <1>8, <1>9 DEF Recounted
<1> QED BY <1>2, <1>6, <1>7, <1>10 DEF Rewrites

LEMMA RewrittenCounts ==
    ASSUME NEW n, NEW but, Hangs(n, but), NEW p \in Proc, NEW s \in Sock, NEW a \in Nat, NEW b \in Nat,
           b + n.refs[p][s] = n.socks[s].refs + a, NEW m, m = Rewritten(n, p, s, a, b)
    PROVE  \A t \in Sock : m.socks[t].refs = Cardinality(DescriptorsIn(m.refs, t))
<1>1. n \in NetRec /\ n.refs \in [Proc -> [Sock -> Nat]] BY DEF Hangs, NetRec
<1>2. /\ m.refs = [n.refs EXCEPT ![p] = [n.refs[p] EXCEPT ![s] = a]] /\ m.refs \in [Proc -> [Sock -> Nat]]
      /\ m.socks[s].refs = b /\ \A t \in Sock : t # s => m.socks[t] = n.socks[t]
  <2>1. /\ Recounted(n, m) /\ m.refs = [n.refs EXCEPT ![p] = [n.refs[p] EXCEPT ![s] = a]]
        /\ m.socks[s].refs = b /\ \A t \in Sock : t # s => m.socks[t] = n.socks[t]
    BY <1>1, RewrittenIs DEF Rewrites
  <2>2. m.refs \in [Proc -> [Sock -> Nat]] BY <2>1 DEF Recounted, NetRec
  <2> QED BY <2>1, <2>2
<1>3. ASSUME NEW t \in Sock, t # s PROVE m.socks[t].refs = Cardinality(DescriptorsIn(m.refs, t))
  <2>1. \A q \in Proc : m.refs[q][t] = n.refs[q][t] BY <1>1, <1>2, <1>3
  <2>2. DescriptorsIn(m.refs, t) = DescriptorsIn(n.refs, t) BY <2>1, CountSame
  <2> QED BY <1>2, <1>3, <2>2 DEF Hangs, Counted
<1>4. m.socks[s].refs = Cardinality(DescriptorsIn(m.refs, s))
  <2> DEFINE old == Cardinality(DescriptorsIn(n.refs, s))
             new == Cardinality(DescriptorsIn(m.refs, s))
             k == n.refs[p][s]
  <2>1. \A q \in Proc : q # p => n.refs[q][s] = m.refs[q][s] BY <1>1, <1>2
  <2>2. m.refs[p][s] = a BY <1>1, <1>2
  <2>3. old \in Nat /\ new \in Nat /\ new + k = old + a
    <3>1. m.refs \in [Proc -> [Sock -> Nat]] /\ n.refs \in [Proc -> [Sock -> Nat]] BY <1>1, <1>2
    <3>2. old \in Nat /\ new \in Nat /\ new + n.refs[p][s] = old + m.refs[p][s]
      <4> HIDE DEF k
      <4> QED BY <3>1, <2>1, CountChanges
    <3> HIDE DEF old, new
    <3> QED BY <2>2, <3>2
  <2>4. n.socks[s].refs = old /\ k \in Nat BY <1>1 DEF Hangs, Counted
  <2>5. b + k = old + a BY <2>4
  <2> HIDE DEF old, new, k
  <2>6. b = new BY <2>3, <2>4, <2>5
  <2> QED BY <1>2, <2>6 DEF new
<1> QED BY <1>3, <1>4

\* Somebody takes references to what is open and not queued.
LEMMA AddHangs ==
    ASSUME NEW n, NEW p \in Proc, NEW s \in Sock, NEW k \in Nat, k > 0,
           NEW but, Hangs(n, but), but \in {s, NoSock}, ~IsGone(n.socks[s]), ~IsQueued(n, s),
           NEW m, m = AddRefs(n, p, s, k)
    PROVE  /\ Hangs(m, NoSock) /\ Recounted(n, m)
           /\ m.refs = [n.refs EXCEPT ![p] = [n.refs[p] EXCEPT ![s] = @ + k]]
           /\ \A t \in Sock : t # s => m.socks[t] = n.socks[t]
<1> DEFINE a == n.refs[p][s] + k
           b == n.socks[s].refs + k
<1>1. n \in NetRec /\ n.refs[p][s] \in Nat /\ n.socks[s].refs \in Nat BY RefsBound DEF Hangs
<1>2. a \in Nat /\ b \in Nat /\ b > 0 /\ b + n.refs[p][s] = n.socks[s].refs + a BY <1>1
<1>3. m = Rewritten(n, p, s, a, b) BY <1>1 DEF AddRefs, Rewritten, NetRec, SockRec
<1>4. \A t \in Sock : m.socks[t].refs = Cardinality(DescriptorsIn(m.refs, t))
  <2> HIDE DEF a, b
  <2> QED BY <1>2, <1>3, RewrittenCounts
<1>5. /\ Recounted(n, m) /\ m.refs = [n.refs EXCEPT ![p] = [n.refs[p] EXCEPT ![s] = a]]
      /\ m.socks[s].refs = b /\ \A t \in Sock : t # s => m.socks[t] = n.socks[t]
  <2> HIDE DEF a, b
  <2>1. Rewrites(n, m, p, s, a, b) BY <1>1, <1>2, <1>3, RewrittenIs
  <2> QED BY <2>1 DEF Rewrites
<1>6. Hangs(m, NoSock)
  <2>1. \A t \in Sock : IsGone(n.socks[t]) \/ IsQueued(n, t) => m.socks[t].refs = 0
    BY <1>5 DEF Hangs, Counted, Queues, QueuedIdle
  <2>2. \A t \in Sock : t # NoSock /\ (n.socks[t].refs > 0 \/ t = but) => m.socks[t].refs > 0
    BY <1>2, <1>5
  <2> QED BY <1>4, <1>5, <2>1, <2>2, RecountHangs
<1> QED BY <1>1, <1>5, <1>6 DEF NetRec

----------------------------------------------------------------------------
(***************************************************************************)
(* Release.  Whatever goes, every record ends in one of three ways.        *)
(***************************************************************************)
LEMMA StaysIs ==
    /\ \A sk \in SockRec : Stays(sk, sk)
    /\ \A r, k, sk : Stays(r, k) /\ Stays(k, sk) => Stays(r, sk)
  BY DEF Stays, Lively, Alike, Named

LEMMA EmptiedIs ==
    ASSUME NEW r \in SockRec
    PROVE  Emptied(Freed(r), r, "free") /\ Emptied(Closed(r), r, "closed")
  BY FreedIs, ClosedIs DEF Emptied

LEMMA PutTwo ==
    ASSUME NEW n \in NetRec, NEW a \in Sock, NEW b \in Sock, a # b, NEW m,
           m = [n EXCEPT !.socks[a] = Freed(@), !.socks[b] = Freed(@)]
    PROVE  FreesTwo(n, m, a, b)
<1> DEFINE ra == Freed(n.socks[a])
           rb == Freed(n.socks[b])
<1>1. n.socks \in [Sock -> SockRec] BY DEF NetRec
<1>2. ra \in SockRec /\ rb \in SockRec BY <1>1, FreedIs
<1>3. m = [n EXCEPT !.socks = [[n.socks EXCEPT ![a] = ra] EXCEPT ![b] = rb]] BY <1>1 DEF NetRec
<1> HIDE DEF ra, rb
<1>4. [[n.socks EXCEPT ![a] = ra] EXCEPT ![b] = rb] \in [Sock -> SockRec] BY <1>1, <1>2
<1>5. /\ m \in NetRec /\ m.refs = n.refs /\ m.port = n.port /\ m.inFlight = n.inFlight /\ m.nextDue = n.nextDue
      /\ m.socks = [[n.socks EXCEPT ![a] = ra] EXCEPT ![b] = rb]
  BY <1>3, <1>4 DEF NetRec
<1> QED BY <1>1, <1>5 DEF ra, rb, FreesTwo

LEMMA ResetIs ==
    ASSUME NEW n, NEW far, ~n.socks[far].shutWr
    PROVE  Reset(n, far) = EndGoes(n, far)
<1>1. CASE n.socks[n.socks[far].far].state = "closed" BY <1>1 DEF Reset, EndGoes
<1>2. CASE n.socks[n.socks[far].far].state # "closed" BY <1>2 DEF Reset, EndGoes, HangUp
<1> QED BY <1>1, <1>2

HangsUp(n, m, s) ==
    LET peer == n.socks[s].far IN
    /\ m \in NetRec /\ m.refs = n.refs /\ m.port = n.port
    /\ TellsPeer(n, s, m.socks[peer])
    /\ m.socks[s] = Closed(n.socks[s])
    /\ \A t \in Sock : t # s /\ t # peer => m.socks[t] = n.socks[t]
    /\ IF ~n.socks[s].shutWr /\ ~ArrivesNow(n.socks[s].host, n.socks[peer])
       THEN LET k == Launch(n, peer, Delay(n.socks[s].host, n.socks[peer]), Fin)
            IN  m.inFlight = k.inFlight /\ m.nextDue = k.nextDue
       ELSE m.inFlight = n.inFlight /\ m.nextDue = n.nextDue

LEMMA HangUpIs ==
    ASSUME NEW n \in NetRec, NEW s \in Sock, n.socks[s].far \in Sock, n.socks[s].far # s
    PROVE  HangsUp(n, HangUp(n, s), s)
<1> DEFINE peer == n.socks[s].far
           sk   == n.socks[s]
           pk   == n.socks[peer]
           told == IF sk.shutWr THEN n ELSE Deliver(n, sk.host, peer, Fin)
           both == Writable(told, peer)
           m    == HangUp(n, s)
<1>1. sk \in SockRec /\ pk \in SockRec /\ peer \in Sock /\ Fin \in Payload /\ n.socks \in [Sock -> SockRec]
  BY PayloadIs DEF NetRec
<1>2. \E r : /\ Puts(n, told, peer, r)
             /\ \/ sk.shutWr /\ r = pk /\ told = n
                \/ /\ ~sk.shutWr /\ ArrivesNow(sk.host, pk) /\ r = Land(pk, Fin)
                   /\ told.inFlight = n.inFlight /\ told.nextDue = n.nextDue
                \/ /\ ~sk.shutWr /\ ~ArrivesNow(sk.host, pk) /\ r = Flying(pk, Delay(sk.host, pk), Fin)
                   /\ told = Launch(n, peer, Delay(sk.host, pk), Fin)
  <2>1. CASE sk.shutWr
    <3>1. [n.socks EXCEPT ![peer] = pk] = n.socks BY <1>1
    <3>2. told = n BY <2>1
    <3>3. Puts(n, n, peer, pk) BY <1>1, <3>1 DEF Puts
    <3> QED BY <2>1, <3>2, <3>3
  <2>2. CASE ~sk.shutWr /\ ArrivesNow(sk.host, pk)
    <3>1. told = Deliver(n, sk.host, peer, Fin) BY <2>2
    <3>2. Puts(n, told, peer, Land(pk, Fin)) /\ told.inFlight = n.inFlight /\ told.nextDue = n.nextDue
      BY <1>1, <2>2, <3>1, DeliverIs
    <3> QED BY <2>2, <3>2
  <2>3. CASE ~sk.shutWr /\ ~ArrivesNow(sk.host, pk)
    <3>1. told = Deliver(n, sk.host, peer, Fin) BY <2>3
    <3>2. told = Launch(n, peer, Delay(sk.host, pk), Fin) BY <1>1, <2>3, <3>1, DeliverIs
    <3>3. Delay(sk.host, pk) \in Nat BY DelayIs
    <3>4. Puts(n, Launch(n, peer, Delay(sk.host, pk), Fin), peer, Flying(pk, Delay(sk.host, pk), Fin))
      <4> HIDE DEF told, sk
      <4> QED BY <1>1, <3>3, LaunchIs
    <3> QED BY <2>3, <3>2, <3>4
  <2> QED BY <2>1, <2>2, <2>3
<1>3. m = [both EXCEPT !.socks[s] = Closed(@)] BY DEF HangUp
<1> HIDE DEF told, both, m
<1>4. PICK r : /\ Puts(n, told, peer, r)
               /\ \/ sk.shutWr /\ r = pk /\ told = n
                  \/ /\ ~sk.shutWr /\ ArrivesNow(sk.host, pk) /\ r = Land(pk, Fin)
                     /\ told.inFlight = n.inFlight /\ told.nextDue = n.nextDue
                  \/ /\ ~sk.shutWr /\ ~ArrivesNow(sk.host, pk) /\ r = Flying(pk, Delay(sk.host, pk), Fin)
                     /\ told = Launch(n, peer, Delay(sk.host, pk), Fin)
  BY <1>2
<1>5. told \in NetRec /\ told.socks = [n.socks EXCEPT ![peer] = r] /\ told.refs = n.refs /\ told.port = n.port
      /\ r \in SockRec
  BY <1>4 DEF Puts
<1>6. told.socks[peer] = r BY <1>1, <1>5
<1>7. /\ both \in NetRec /\ both.socks = [told.socks EXCEPT ![peer] = Told(r)]
      /\ both.refs = n.refs /\ both.port = n.port /\ Told(r) \in SockRec
      /\ both.inFlight = told.inFlight /\ both.nextDue = told.nextDue
  <2>1. Puts(told, Writable(told, peer), peer, Told(told.socks[peer]))
        /\ Writable(told, peer).inFlight = told.inFlight /\ Writable(told, peer).nextDue = told.nextDue
    BY <1>1, <1>5, WritableIs
  <2> QED BY <1>5, <1>6, <2>1 DEF Puts, both
<1>8. both.socks[s] = sk BY <1>1, <1>5, <1>7
<1>9. /\ m \in NetRec /\ m.socks = [both.socks EXCEPT ![s] = Closed(sk)]
      /\ m.refs = n.refs /\ m.port = n.port
      /\ m.inFlight = told.inFlight /\ m.nextDue = told.nextDue
  <2>1. m = [both EXCEPT !.socks[s] = Closed(sk)] BY <1>1, <1>3, <1>7, <1>8 DEF NetRec
  <2>2. Closed(sk) \in SockRec BY <1>1, ClosedIs
  <2>3. Puts(both, m, s, Closed(sk)) /\ m.inFlight = both.inFlight /\ m.nextDue = both.nextDue
    <3> HIDE DEF sk
    <3> QED BY <1>7, <2>1, <2>2, Put
  <2> QED BY <1>7, <2>3 DEF Puts
<1>10. m.socks[s] = Closed(sk) /\ m.socks[peer] = Told(r) /\ \A t \in Sock : t # s /\ t # peer => m.socks[t] = n.socks[t]
  <2> HIDE DEF sk, pk
  <2>1. peer # s OBVIOUS
  <2> HIDE DEF peer
  <2> QED BY <1>1, <1>5, <1>7, <1>9, <2>1
<1>11. TellsPeer(n, s, Told(r)) BY <1>4 DEF TellsPeer
<1>12. IF ~sk.shutWr /\ ~ArrivesNow(sk.host, pk)
       THEN LET k == Launch(n, peer, Delay(sk.host, pk), Fin)
            IN  m.inFlight = k.inFlight /\ m.nextDue = k.nextDue
       ELSE m.inFlight = n.inFlight /\ m.nextDue = n.nextDue
  BY <1>4, <1>9
<1>13. HangsUp(n, m, s) BY <1>9, <1>10, <1>11, <1>12 DEF HangsUp
<1> QED BY <1>13 DEF m

LEMMA TellsStays ==
    ASSUME NEW n \in NetRec, NEW s \in Sock, n.socks[s].far \in Sock, NEW r, TellsPeer(n, s, r)
    PROVE  /\ Stays(r, n.socks[n.socks[s].far])
           /\ ~IsGone(n.socks[n.socks[s].far]) => r.wrNew
<1> DEFINE pk == n.socks[n.socks[s].far]
           d  == Delay(n.socks[s].host, pk)
<1>1. pk \in SockRec /\ Fin \in Payload /\ Fin.kind = "fin" /\ d \in Nat
  BY PayloadIs, DelayIs DEF NetRec
<1>2. PICK k : r = Told(k) /\ (k = pk \/ k = Land(pk, Fin) \/ k = Flying(pk, d, Fin))
  <2>1. r = Told(pk) \/ r = Told(Land(pk, Fin)) \/ r = Told(Flying(pk, d, Fin)) BY DEF TellsPeer
  <2> HIDE DEF pk, d
  <2> QED BY <2>1
<1> HIDE DEF pk, d
<1>3. k \in SockRec /\ Stays(k, pk)
  <2>1. CASE k = pk BY <1>1, <2>1, StaysIs
  <2>2. CASE k = Land(pk, Fin)
    <3>1. /\ k \in SockRec /\ Alike(k, pk) /\ Named(k, pk) /\ k.refs = pk.refs /\ k.backlogMax = pk.backlogMax
          /\ k.wrNew = pk.wrNew /\ (IsGone(pk) => k = pk) /\ (~IsGone(pk) => k.rdNew)
      BY <1>1, <2>2, LandIs
    <3>2. ~IsGone(pk) => k.rx = pk.rx /\ k.fin BY <1>1, <2>2, LandRx
    <3> QED BY <3>1, <3>2 DEF Stays, Lively
  <2>3. CASE k = Flying(pk, d, Fin)
    <3>1. /\ k \in SockRec /\ Alike(k, pk) /\ Named(k, pk) /\ k.refs = pk.refs /\ k.backlogMax = pk.backlogMax
          /\ k.fin = pk.fin /\ k.rx = pk.rx /\ k.rdNew = pk.rdNew /\ k.wrNew = pk.wrNew
      BY <1>1, <2>3, FlyingIs
    <3> QED BY <3>1 DEF Stays, Lively
  <2> QED BY <1>2, <2>1, <2>2, <2>3
<1>4. /\ Lively(r, k) /\ r.rx = k.rx /\ r.fin = k.fin /\ r.rdNew = k.rdNew
      /\ (k.wrNew => r.wrNew) /\ (~IsGone(k) => r.wrNew)
  BY <1>2, <1>3, ToldIs
<1>5. Stays(r, k) BY <1>4 DEF Stays
<1>6. Stays(r, pk) BY <1>3, <1>5, StaysIs
<1>7. IsGone(k) <=> IsGone(pk) BY <1>3 DEF Stays, Lively, Alike, IsGone
<1> QED BY <1>4, <1>6, <1>7 DEF pk

LEMMA NothingReleased ==
    ASSUME NEW n \in NetRec
    PROVE  Released(n, n, {})
  BY StaysIs DEF Released, Survives, Lingers, Bereft, NetRec

\* One end of a connection goes.
LEMMA EndReleases ==
    ASSUME NEW n, NEW but, Hangs(n, but), NEW G \in SUBSET Sock, NEW x, Released(n, x, G),
           NEW s \in Sock, s \notin G, n.socks[s].state = "connected", n.socks[s].far \notin G
    PROVE  Released(n, EndGoes(x, s), G \cup {s})
<1> DEFINE near == n.socks[s].far
           m == EndGoes(x, s)
           H == G \cup {s}
<1>1. near \in Sock /\ near # s /\ n.socks[near].far = s /\ n.socks[near].state \in {"connected", "closed"}
  BY DEF Hangs, Paired, Linked
<1>2. x \in NetRec /\ x.refs = n.refs /\ x.port = n.port BY DEF Released
<1>3. Stays(x.socks[s], n.socks[s]) /\ x.socks[s].far = near
  <2>1. Survives(n, G, s) BY DEF Survives
  <2>2. Stays(x.socks[s], n.socks[s]) BY <2>1 DEF Released
  <2> QED BY <2>2 DEF Stays, Lively, Alike
<1>4. Stays(x.socks[near], n.socks[near]) /\ x.socks[near].state = n.socks[near].state
  <2>1. Survives(n, G, near) BY <1>1 DEF Survives
  <2>2. Stays(x.socks[near], n.socks[near]) BY <1>1, <2>1 DEF Released
  <2> QED BY <2>2 DEF Stays, Lively, Alike
<1>5. ASSUME NEW t \in Sock, t # s, t # near
      PROVE  /\ Survives(n, H, t) <=> Survives(n, G, t)
             /\ Lingers(n, H, t) <=> Lingers(n, G, t)
             /\ Bereft(n, H, t) <=> Bereft(n, G, t)
  <2>1. Linked(n.socks[t]) => n.socks[t].far # s BY <1>5 DEF Hangs, Paired
  <2> QED BY <1>5, <2>1 DEF Survives, Lingers, Bereft, Linked
<1>6. ~Survives(n, H, s) /\ (Lingers(n, H, s) <=> n.socks[near].state # "closed")
  BY DEF Survives, Lingers
<1>7. /\ ~Lingers(n, H, near) /\ (Survives(n, H, near) <=> n.socks[near].state # "closed")
      /\ Bereft(n, H, near)
  BY <1>1 DEF Survives, Lingers, Bereft, Linked
<1>8. CASE n.socks[near].state = "closed"
  <2>1. m = [x EXCEPT !.socks[near] = Freed(@), !.socks[s] = Freed(@)]
    BY <1>3, <1>4, <1>8 DEF EndGoes
  <2>2. x.socks[s] \in SockRec /\ x.socks[near] \in SockRec BY <1>1, <1>2 DEF NetRec
  <2> HIDE DEF m
  <2>3. /\ m \in NetRec /\ m.refs = x.refs /\ m.port = x.port
        /\ m.socks[s] = Freed(x.socks[s]) /\ m.socks[near] = Freed(x.socks[near])
        /\ \A t \in Sock : t # s /\ t # near => m.socks[t] = x.socks[t]
    <3> HIDE DEF near
    <3>1. FreesTwo(x, m, near, s) BY <1>1, <1>2, <2>1, PutTwo
    <3> QED BY <3>1 DEF FreesTwo
  <2>4. Emptied(m.socks[s], n.socks[s], "free") /\ Emptied(m.socks[near], n.socks[near], "free")
    BY <2>2, <2>3, EmptiedIs DEF Emptied
  <2>5. Released(n, m, H)
    <3>1. ASSUME NEW t \in Sock
          PROVE  /\ Survives(n, H, t) => Stays(m.socks[t], n.socks[t])
                 /\ Survives(n, H, t) => IF Bereft(n, H, t) THEN m.socks[t].wrNew ELSE m.socks[t] = n.socks[t]
                 /\ Lingers(n, H, t) => Emptied(m.socks[t], n.socks[t], "closed")
                 /\ ~Survives(n, H, t) /\ ~Lingers(n, H, t) => Emptied(m.socks[t], n.socks[t], "free")
      <4> HIDE DEF H, near
      <4>1. CASE t = s BY <1>6, <1>8, <2>4, <4>1
      <4>2. CASE t = near BY <1>7, <1>8, <2>4, <4>2
      <4>3. CASE t # s /\ t # near BY <1>5, <2>3, <4>3 DEF Released
      <4> QED BY <4>1, <4>2, <4>3
    <3> QED BY <1>2, <2>3, <3>1 DEF Released
  <2> QED BY <2>5 DEF m
<1>9. CASE n.socks[near].state # "closed"
  <2>1. m = HangUp(x, s) BY <1>3, <1>4, <1>9 DEF EndGoes
  <2>2. x.socks[s] \in SockRec /\ x.socks[near] \in SockRec BY <1>1, <1>2 DEF NetRec
  <2> HIDE DEF m
  <2>3. HangsUp(x, m, s)
    <3>1. x.socks[s].far \in Sock /\ x.socks[s].far # s BY <1>1, <1>3
    <3> QED BY <1>2, <2>1, <3>1, HangUpIs
  <2>4. /\ m \in NetRec /\ m.refs = x.refs /\ m.port = x.port
        /\ TellsPeer(x, s, m.socks[near]) /\ m.socks[s] = Closed(x.socks[s])
        /\ \A t \in Sock : t # s /\ t # near => m.socks[t] = x.socks[t]
    BY <1>3, <2>3 DEF HangsUp
  <2>5. Emptied(m.socks[s], n.socks[s], "closed")
    <3>1. Emptied(m.socks[s], x.socks[s], "closed") BY <2>2, <2>4, EmptiedIs
    <3> QED BY <1>3, <3>1 DEF Emptied
  <2>6. Stays(m.socks[near], n.socks[near]) /\ m.socks[near].wrNew
    <3>1. x.socks[s].far \in Sock BY <1>1, <1>3
    <3>2. Stays(m.socks[near], x.socks[near]) /\ (~IsGone(x.socks[near]) => m.socks[near].wrNew)
      BY <1>2, <1>3, <2>4, <3>1, TellsStays
    <3>3. ~IsGone(x.socks[near]) BY <1>1, <1>4, <1>9 DEF IsGone
    <3> QED BY <1>4, <3>2, <3>3, StaysIs
  <2>7. Released(n, m, H)
    <3>1. ASSUME NEW t \in Sock
          PROVE  /\ Survives(n, H, t) => Stays(m.socks[t], n.socks[t])
                 /\ Survives(n, H, t) => IF Bereft(n, H, t) THEN m.socks[t].wrNew ELSE m.socks[t] = n.socks[t]
                 /\ Lingers(n, H, t) => Emptied(m.socks[t], n.socks[t], "closed")
                 /\ ~Survives(n, H, t) /\ ~Lingers(n, H, t) => Emptied(m.socks[t], n.socks[t], "free")
      <4> HIDE DEF H, near
      <4>1. CASE t = s BY <1>6, <1>9, <2>5, <4>1
      <4>2. CASE t = near BY <1>7, <1>9, <2>6, <4>2
      <4>3. CASE t # s /\ t # near BY <1>5, <2>4, <4>3 DEF Released
      <4> QED BY <4>1, <4>2, <4>3
    <3> QED BY <1>2, <2>4, <3>1 DEF Released
  <2> QED BY <2>7 DEF m
<1> QED BY <1>8, <1>9

\* A socket without connection goes.
LEMMA LoneReleases ==
    ASSUME NEW n, NEW but, Hangs(n, but), NEW G \in SUBSET Sock, NEW x, Released(n, x, G),
           NEW s \in Sock, s \notin G, ~Linked(n.socks[s]), NEW m, m = [x EXCEPT !.socks[s] = Freed(@)]
    PROVE  Released(n, m, G \cup {s})
<1> DEFINE H == G \cup {s}
<1>1. x \in NetRec /\ x.refs = n.refs /\ x.port = n.port /\ x.socks[s] \in SockRec
  BY DEF Released, NetRec
<1>2. m = [x EXCEPT !.socks[s] = Freed(x.socks[s])] BY <1>1 DEF NetRec
<1>3. Freed(x.socks[s]) \in SockRec BY <1>1, FreedIs
<1>4. Puts(x, m, s, Freed(x.socks[s])) BY <1>1, <1>2, <1>3, Put
<1>5. m \in NetRec /\ m.refs = n.refs /\ m.port = n.port BY <1>1, <1>4 DEF Puts
<1>6. m.socks[s] = Freed(x.socks[s]) /\ \A t \in Sock : t # s => m.socks[t] = x.socks[t]
  BY <1>1, <1>4 DEF Puts, NetRec
<1>7. Emptied(m.socks[s], n.socks[s], "free") BY <1>1, <1>6, EmptiedIs DEF Emptied
<1>8. ASSUME NEW t \in Sock, t # s
      PROVE  /\ Survives(n, H, t) <=> Survives(n, G, t)
             /\ Lingers(n, H, t) <=> Lingers(n, G, t)
             /\ Bereft(n, H, t) <=> Bereft(n, G, t)
  <2>1. Linked(n.socks[t]) => n.socks[t].far # s BY DEF Hangs, Paired
  <2> QED BY <1>8, <2>1 DEF Survives, Lingers, Bereft, Linked
<1>9. ~Survives(n, H, s) /\ ~Lingers(n, H, s) BY DEF Survives, Lingers, Linked
<1>10. ASSUME NEW t \in Sock
      PROVE  /\ Survives(n, H, t) => Stays(m.socks[t], n.socks[t])
             /\ Survives(n, H, t) => IF Bereft(n, H, t) THEN m.socks[t].wrNew ELSE m.socks[t] = n.socks[t]
             /\ Lingers(n, H, t) => Emptied(m.socks[t], n.socks[t], "closed")
             /\ ~Survives(n, H, t) /\ ~Lingers(n, H, t) => Emptied(m.socks[t], n.socks[t], "free")
  <2> HIDE DEF H
  <2>1. CASE t = s BY <1>7, <1>9, <2>1
  <2>2. CASE t # s BY <1>6, <1>8, <2>2 DEF Released
  <2> QED BY <2>1, <2>2
<1> QED BY <1>5, <1>10 DEF Released

\* What one more reset does
LEMMA ResetReleases ==
    ASSUME NEW n, NEW but, Hangs(n, but), NEW l \in Sock, n.socks[l].state = "listening",
           NEW i \in 1..Len(n.socks[l].backlog), NEW x, Released(n, x, FirstQueued(n, l, i - 1)),
           NEW far, far = n.socks[l].backlog[i]
    PROVE  /\ far \in Sock /\ n.socks[far].state = "connected" /\ n.socks[far].far \notin FirstQueued(n, l, i)
           /\ far \notin FirstQueued(n, l, i - 1) /\ ~x.socks[far].shutWr
           /\ Stays(x.socks[far], n.socks[far])
           /\ Reset(x, far) = EndGoes(x, far)
           /\ Released(n, Reset(x, far), FirstQueued(n, l, i))
<1> DEFINE q == n.socks[l].backlog
           G == FirstQueued(n, l, i - 1)
           H == FirstQueued(n, l, i)
<1>1. q \in Seq(Sock) /\ Len(q) \in Nat
  <2>1. n.socks[l] \in SockRec BY DEF Hangs, NetRec
  <2>2. q \in Seq(Sock) BY <2>1 DEF SockRec
  <2> QED BY <2>2, LenProperties
<1>2. far \in Sock BY <1>1
<1>3. \A j \in 1..Len(q) : IsQueued(n, q[j]) BY <1>1 DEF IsQueued, InQueue
<1>4. IsQueued(n, far) BY <1>3
<1>5. /\ n.socks[far].state = "connected" /\ ~n.socks[far].shutWr
      /\ ~IsQueued(n, n.socks[far].far)
  BY <1>2, <1>4 DEF Hangs, Queues, QueuedIdle
<1>6. n.socks[far].far \notin H
  <2>1. ASSUME NEW j \in 1..i, n.socks[far].far = q[j] PROVE FALSE
    <3>1. j \in 1..Len(q) BY <1>1
    <3>2. IsQueued(n, q[j]) BY <1>3, <3>1
    <3> QED BY <1>5, <2>1, <3>2
  <2> QED BY <2>1 DEF FirstQueued
<1>7. far \notin G
  <2>1. ASSUME NEW j \in 1..(i - 1), q[j] = q[i] PROVE FALSE
    <3>1. j \in 1..Len(q) /\ j # i BY <1>1
    <3> QED BY <2>1, <3>1 DEF Hangs, Queues, QueuedOnce
  <2> QED BY <2>1 DEF FirstQueued
<1>8. H = G \cup {far} BY <1>1 DEF FirstQueued
<1> HIDE DEF q, G, H
<1>9. n.socks[far].far \notin G BY <1>6, <1>8
<1>10. G \in SUBSET Sock BY <1>1 DEF FirstQueued, G, q
<1>11. Stays(x.socks[far], n.socks[far])
  <2>1. Survives(n, G, far) BY <1>5, <1>7 DEF Survives
  <2>2. Released(n, x, G) BY DEF G
  <2> QED BY <1>2, <2>1, <2>2 DEF Released
<1>12. ~x.socks[far].shutWr BY <1>5, <1>11 DEF Stays, Lively, Alike
<1>13. Reset(x, far) = EndGoes(x, far) BY <1>12, ResetIs
<1>14. Released(n, x, G) BY DEF G
<1>15. Released(n, EndGoes(x, far), G \cup {far})
  BY <1>2, <1>5, <1>7, <1>9, <1>14, <1>10, EndReleases
<1> QED BY <1>2, <1>5, <1>6, <1>7, <1>8, <1>11, <1>12, <1>13, <1>15 DEF G, H

LEMMA ResetsRelease ==
    ASSUME NEW n, NEW but, Hangs(n, but), NEW l \in Sock, n.socks[l].state = "listening"
    PROVE  Released(n, AllReset(n, n.socks[l].backlog), FirstQueued(n, l, Len(n.socks[l].backlog)))
<1> DEFINE q == n.socks[l].backlog
<1>1. q \in Seq(Sock) /\ Len(q) \in Nat
  <2>1. n.socks[l] \in SockRec BY DEF Hangs, NetRec
  <2>2. q \in Seq(Sock) BY <2>1 DEF SockRec
  <2> QED BY <2>2, LenProperties
<1>2. PICK f : ResetSteps(f, n, q) /\ AllReset(n, q) = f[Len(q)]
  <2> HIDE DEF q
  <2>1. Len(q) \in Nat BY <1>1
  <2> QED BY <2>1, ResetFold
<1> DEFINE T == {i \in 0..Len(q) : Released(n, f[i], FirstQueued(n, l, i))}
<1>3. 0 \in T
  <2>1. FirstQueued(n, l, 0) = {} BY DEF FirstQueued
  <2>2. f[0] = n BY <1>2 DEF ResetSteps
  <2>3. Released(n, n, {}) BY NothingReleased DEF Hangs
  <2>4. 0 \in 0..Len(q) BY <1>1
  <2> QED BY <2>1, <2>2, <2>3, <2>4
<1>4. ASSUME NEW i \in 1..Len(q), i - 1 \in T PROVE i \in T
  <2>1. Released(n, f[i - 1], FirstQueued(n, l, i - 1)) BY <1>4
  <2>2. Released(n, Reset(f[i - 1], q[i]), FirstQueued(n, l, i)) BY <2>1, ResetReleases
  <2>3. f[i] = Reset(f[i - 1], q[i]) /\ i \in 0..Len(q) BY <1>1, <1>2 DEF ResetSteps
  <2> QED BY <2>2, <2>3
<1> HIDE DEF T
<1>5. \A i \in 0..Len(q) : i \in T BY <1>1, <1>3, <1>4, Induct
<1>6. Len(q) \in T BY <1>1, <1>5
<1> QED BY <1>2, <1>6 DEF T

LEMMA QueueIs ==
    ASSUME NEW n, NEW but, Hangs(n, but), NEW l \in Sock, n.socks[l].state = "listening", NEW t
    PROVE  t \in FirstQueued(n, l, Len(n.socks[l].backlog)) <=> InQueue(n, l, t)
  BY DEF InQueue, FirstQueued

LEMMA ReleaseIs ==
    ASSUME NEW n, NEW but, Hangs(n, but), NEW s \in Sock, ~IsGone(n.socks[s])
    PROVE  Released(n, Release(n, s), Goners(n, s))
<1>1. n \in NetRec /\ n.socks[s] \in SockRec BY DEF Hangs, NetRec
<1>2. CASE n.socks[s].state = "listening"
  <2> DEFINE q == n.socks[s].backlog
             x == AllReset(n, q)
             G == FirstQueued(n, s, Len(q))
  <2>1. Released(n, x, G) BY <1>2, ResetsRelease
  <2>2. Release(n, s) = [x EXCEPT !.socks[s] = Freed(@)] BY <1>2 DEF Release, AllReset
  <2>3. s \notin G /\ G \in SUBSET Sock
    <3>1. q \in Seq(Sock) BY <1>1 DEF SockRec
    <3>2. ~IsQueued(n, s) BY <1>2 DEF Hangs, Queues, QueuedIdle
    <3>3. ~InQueue(n, s, s) BY <3>2 DEF IsQueued
    <3>4. s \notin G BY <1>2, <3>3, QueueIs
    <3> QED BY <3>1, <3>4 DEF FirstQueued
  <2>4. Goners(n, s) = G \cup {s} /\ ~Linked(n.socks[s]) BY <1>2 DEF Goners, Linked
  <2> HIDE DEF G, x
  <2> QED BY <2>1, <2>2, <2>3, <2>4, LoneReleases
<1>3. CASE n.socks[s].state = "connected"
  <2>1. Release(n, s) = EndGoes(n, s) BY <1>3 DEF Release, EndGoes
  <2>2. Released(n, n, {}) BY <1>1, NothingReleased
  <2>3. Released(n, EndGoes(n, s), {} \cup {s}) BY <1>3, <2>2, EndReleases
  <2>4. Goners(n, s) = {} \cup {s} BY <1>3 DEF Goners
  <2> QED BY <2>1, <2>3, <2>4
<1>4. CASE n.socks[s].state \notin {"listening", "connected"}
  <2>1. Release(n, s) = [n EXCEPT !.socks[s] = Freed(@)] BY <1>4 DEF Release
  <2>2. Released(n, n, {}) BY <1>1, NothingReleased
  <2>3. Goners(n, s) = {} \cup {s} /\ ~Linked(n.socks[s]) BY <1>4 DEF Goners, Linked, IsGone
  <2> QED BY <2>1, <2>2, <2>3, LoneReleases
<1> QED BY <1>2, <1>3, <1>4

\* What is left hangs together as before.
LEMMA ReleasedHangs ==
    ASSUME NEW n, NEW s \in Sock, Hangs(n, s), ~IsGone(n.socks[s]), n.socks[s].refs = 0, ~IsQueued(n, s),
           NEW m, Released(n, m, Goners(n, s))
    PROVE  /\ Hangs(m, NoSock)
           /\ \A t \in Sock : IsQueued(m, t) => IsQueued(n, t)
<1> DEFINE G == Goners(n, s)
<1>1. ASSUME NEW t \in Sock, t \in G
      PROVE  /\ ~IsGone(n.socks[t]) /\ n.socks[t].refs = 0
             /\ n.socks[t].state = "connected" => n.socks[t].far \in Sock /\ n.socks[t].far \notin G
  <2>1. CASE t = s
    <3>1. ASSUME n.socks[s].state = "connected"
          PROVE  n.socks[s].far \in Sock /\ n.socks[s].far \notin G
      <4>1. G = {s} BY <3>1 DEF Goners
      <4> QED BY <3>1, <4>1 DEF Hangs, Paired, Linked
    <3> QED BY <2>1, <3>1
  <2>2. CASE t # s
    <3>1. n.socks[s].state = "listening" /\ InQueue(n, s, t) BY <1>1, <2>2, QueueIs DEF Goners
    <3>2. IsQueued(n, t) BY <3>1 DEF IsQueued
    <3>3. n.socks[t].state = "connected" /\ n.socks[t].refs = 0 /\ ~IsQueued(n, n.socks[t].far)
      BY <3>2 DEF Hangs, Queues, QueuedIdle
    <3>4. n.socks[t].far \in Sock /\ Linked(n.socks[n.socks[t].far])
      BY <3>3 DEF Hangs, Paired, Linked
    <3>5. n.socks[t].far # s BY <3>1, <3>4 DEF Linked
    <3>6. ~InQueue(n, s, n.socks[t].far) BY <3>3 DEF IsQueued
    <3>7. n.socks[t].far \notin G BY <3>1, <3>5, <3>6, QueueIs DEF Goners
    <3> QED BY <3>3, <3>4, <3>7 DEF IsGone
  <2> QED BY <2>1, <2>2
<1>2. ASSUME NEW l \in Sock, NEW t \in Sock, InQueue(n, l, t)
      PROVE  l \in G <=> t \in G
  <2>1. IsQueued(n, t) /\ n.socks[l].state = "listening" BY <1>2 DEF IsQueued, InQueue
  <2>2. t # s BY <2>1
  <2>3. ASSUME l \in G PROVE t \in G
    <3>1. l = s
      <4>1. n.socks[s].state = "listening" => ~InQueue(n, s, l)
        BY <2>1 DEF Hangs, Queues, QueuedIdle, IsQueued
      <4> QED BY <2>3, <4>1, QueueIs DEF Goners
    <3> QED BY <1>2, <2>1, <3>1, QueueIs DEF Goners
  <2>4. ASSUME t \in G PROVE l \in G
    <3>1. n.socks[s].state = "listening" /\ InQueue(n, s, t) BY <2>2, <2>4, QueueIs DEF Goners
    <3>2. l = s BY <1>2, <3>1 DEF InQueue, Hangs, Queues, QueuedOnce
    <3> QED BY <3>1, <3>2 DEF Goners
  <2> QED BY <2>3, <2>4
<1>3. s \in G BY DEF Goners
<1> HIDE DEF G
<1>4. ASSUME NEW t \in Sock
      PROVE  /\ Survives(n, G, t) => Stays(m.socks[t], n.socks[t])
             /\ Lingers(n, G, t) => Emptied(m.socks[t], n.socks[t], "closed")
             /\ ~Survives(n, G, t) /\ ~Lingers(n, G, t) => Emptied(m.socks[t], n.socks[t], "free")
  BY DEF Released, G
<1>5. ASSUME NEW t \in Sock, Survives(n, G, t)
      PROVE  /\ m.socks[t].state = n.socks[t].state /\ m.socks[t].far = n.socks[t].far
             /\ m.socks[t].refs = n.socks[t].refs /\ m.socks[t].backlog = n.socks[t].backlog
             /\ m.socks[t].shutWr = n.socks[t].shutWr /\ m.socks[t].shutRd = n.socks[t].shutRd
  BY <1>4, <1>5 DEF Stays, Lively, Alike
<1>6. ASSUME NEW t \in Sock, ~Survives(n, G, t)
      PROVE  /\ m.socks[t].refs = 0 /\ n.socks[t].refs = 0 /\ m.socks[t].backlog = <<>>
             /\ IF Lingers(n, G, t) THEN m.socks[t].state = "closed" /\ m.socks[t].far = n.socks[t].far
                ELSE m.socks[t].state = "free"
  <2>1. n.socks[t].refs = 0
    <3>1. CASE t \in G BY <1>1, <3>1
    <3>2. CASE t \notin G BY <1>6, <3>2 DEF Survives, Hangs, Counted, IsGone
    <3> QED BY <3>1, <3>2
  <2> QED BY <1>4, <1>6, <2>1 DEF Emptied
<1>7. m \in NetRec /\ m.refs = n.refs BY DEF Released
<1>8. Counted(m)
  <2>1. ASSUME NEW t \in Sock
        PROVE  m.socks[t].refs = Cardinality(DescriptorsIn(m.refs, t)) /\ (IsGone(m.socks[t]) => m.socks[t].refs = 0)
    <3>1. m.socks[t].refs = n.socks[t].refs BY <1>5, <1>6
    <3>2. n.socks[t].refs = Cardinality(DescriptorsIn(m.refs, t)) BY <1>7 DEF Hangs, Counted
    <3>3. IsGone(m.socks[t]) => m.socks[t].refs = 0 BY <1>5, <1>6 DEF Hangs, Counted, IsGone
    <3> QED BY <3>1, <3>2, <3>3
  <2> QED BY <2>1 DEF Counted
<1>9. ASSUME NEW t \in Sock, Linked(m.socks[t])
      PROVE  /\ m.socks[t].far \in Sock /\ m.socks[t].far # t
             /\ m.socks[m.socks[t].far].far = t /\ Linked(m.socks[m.socks[t].far])
             /\ m.socks[t].state = "connected" \/ m.socks[m.socks[t].far].state = "connected"
  <2> DEFINE u == n.socks[t].far
  <2>1. Linked(n.socks[t]) /\ m.socks[t].far = u BY <1>5, <1>6, <1>9 DEF Linked, Lingers
  <2>2. /\ u \in Sock /\ u # t /\ n.socks[u].far = t /\ Linked(n.socks[u])
        /\ n.socks[t].state = "connected" \/ n.socks[u].state = "connected"
    BY <2>1 DEF Hangs, Paired
  <2> HIDE DEF u
  <2>3. CASE Survives(n, G, t)
    <3>1. m.socks[t].state = n.socks[t].state /\ t \notin G BY <1>5, <2>3 DEF Survives
    <3>2. CASE u \in G
      <4>1. n.socks[t].state # "closed" BY <2>3, <3>2 DEF Survives, u
      <4>2. Lingers(n, G, u) /\ ~Survives(n, G, u)
        BY <1>1, <2>2, <3>2, <4>1 DEF Lingers, Linked, IsGone, Survives
      <4> QED BY <1>6, <2>1, <2>2, <3>1, <4>1, <4>2 DEF Linked
    <3>3. CASE u \notin G
      <4>1. Survives(n, G, u) BY <2>2, <3>1, <3>3 DEF Survives
      <4> QED BY <1>5, <2>1, <2>2, <3>1, <4>1 DEF Linked
    <3> QED BY <3>2, <3>3
  <2>4. CASE ~Survives(n, G, t)
    <3>1. Lingers(n, G, t) BY <1>6, <1>9, <2>4 DEF Linked
    <3>2. u \notin G /\ n.socks[u].state = "connected" BY <1>1, <2>2, <3>1 DEF Lingers, Linked, u
    <3>3. Survives(n, G, u) BY <3>2 DEF Survives
    <3> QED BY <1>5, <2>1, <2>2, <3>2, <3>3 DEF Linked
  <2> QED BY <2>3, <2>4
<1>10. Paired(m) BY <1>9 DEF Paired
<1>11. ASSUME NEW l \in Sock, m.socks[l].backlog # <<>> \/ m.socks[l].state = "listening"
       PROVE  Survives(n, G, l)
  BY <1>6, <1>11
<1>12. \A l \in Sock, t \in Sock : InQueue(m, l, t) => InQueue(n, l, t) BY <1>5, <1>11 DEF InQueue
<1>13. ASSUME NEW l \in Sock, NEW t \in Sock, InQueue(n, l, t), t \notin G
       PROVE  InQueue(m, l, t)
  <2>1. Survives(n, G, l) BY <1>2, <1>13 DEF Survives, InQueue
  <2> QED BY <1>5, <1>13, <2>1 DEF InQueue
<1>14. \A t \in Sock : IsQueued(m, t) => IsQueued(n, t) BY <1>12 DEF IsQueued
<1>15. OnlyListenersQueue(m) BY <1>5, <1>11 DEF OnlyListenersQueue, Hangs, Queues
<1>16. QueuedOnce(m)
  <2>1. ASSUME NEW l \in Sock, NEW k \in Sock, NEW i \in 1..Len(m.socks[l].backlog),
               NEW j \in 1..Len(m.socks[k].backlog), m.socks[l].backlog[i] = m.socks[k].backlog[j]
        PROVE  l = k /\ i = j
    <3>1. m.socks[l].backlog # <<>> /\ m.socks[k].backlog # <<>> OBVIOUS
    <3>2. m.socks[l].backlog = n.socks[l].backlog /\ m.socks[k].backlog = n.socks[k].backlog
      BY <1>5, <1>11, <3>1
    <3>3. QueuedOnce(n) BY DEF Hangs, Queues
    <3> QED BY <2>1, <3>2, <3>3 DEF QueuedOnce
  <2> QED BY <2>1 DEF QueuedOnce
<1>17. QueuedIdle(m)
  <2>1. ASSUME NEW t \in Sock, IsQueued(m, t)
        PROVE  /\ m.socks[t].state = "connected" /\ m.socks[t].refs = 0
               /\ ~m.socks[t].shutWr /\ ~m.socks[t].shutRd
               /\ ~IsQueued(m, m.socks[t].far)
    <3>1. PICK l \in Sock : InQueue(m, l, t) BY <2>1 DEF IsQueued
    <3>2. InQueue(n, l, t) /\ Survives(n, G, l) BY <1>11, <1>12, <3>1 DEF InQueue
    <3>3. t \notin G BY <1>2, <3>2 DEF Survives
    <3>4. /\ n.socks[t].state = "connected" /\ n.socks[t].refs = 0
          /\ ~n.socks[t].shutWr /\ ~n.socks[t].shutRd
          /\ ~IsQueued(n, n.socks[t].far) /\ n.socks[t].far \in Sock
      BY <1>14, <2>1 DEF Hangs, Queues, QueuedIdle, Paired, Linked
    <3>5. Survives(n, G, t) BY <3>3, <3>4 DEF Survives
    <3> QED BY <1>5, <1>14, <3>4, <3>5
  <2> QED BY <2>1 DEF QueuedIdle
<1>18. Kept(m, NoSock)
  <2>1. ASSUME NEW t \in Sock, ~IsGone(m.socks[t])
        PROVE  m.socks[t].refs > 0 \/ (m.socks[t].state = "connected" /\ IsQueued(m, t))
    <3>1. Survives(n, G, t) BY <1>6, <2>1 DEF IsGone
    <3>2. t # s /\ t \notin G BY <1>3, <3>1 DEF Survives
    <3>3. n.socks[t].refs > 0 \/ (n.socks[t].state = "connected" /\ IsQueued(n, t))
      BY <1>5, <2>1, <3>1, <3>2 DEF Hangs, Kept, IsGone
    <3>4. IsQueued(n, t) => IsQueued(m, t) BY <1>13, <3>2 DEF IsQueued
    <3> QED BY <1>5, <3>1, <3>3, <3>4
  <2> QED BY <2>1 DEF Kept
<1> QED BY <1>7, <1>8, <1>10, <1>14, <1>15, <1>16, <1>17, <1>18 DEF Hangs, Queues

----------------------------------------------------------------------------
(***************************************************************************)
(* References given up, one socket after the other.                        *)
(***************************************************************************)
LEMMA RecountTrans ==
    ASSUME NEW n \in NetRec, NEW k, Recounted(n, k), NEW m, Recounted(k, m)
    PROVE  Recounted(n, m)
<1>1. ASSUME NEW s \in Sock PROVE Recount(m.socks[s], n.socks[s])
  <2> DEFINE a == n.socks[s]
             b == k.socks[s]
             c == m.socks[s]
  <2>1. a \in SockRec /\ b \in SockRec /\ c \in SockRec BY DEF Recounted, NetRec
  <2>2. Recount(b, a) /\ Recount(c, b) BY DEF Recounted
  <2> HIDE DEF a, b, c
  <2>3. Recount(c, a) BY <2>1, <2>2 DEF Recount, SockRec
  <2> QED BY <2>3 DEF a, c
<1> QED BY <1>1 DEF Recounted

LEMMA RecountSelf ==
    ASSUME NEW n \in NetRec
    PROVE  Recounted(n, n)
  BY DEF Recounted, Recount, NetRec, SockRec

LEMMA WanesTrans ==
    ASSUME NEW n \in NetRec, NEW k, Wanes(n, k), NEW m, Wanes(k, m)
    PROVE  Wanes(n, m)
<1>1. \A t \in Sock : IsGone(n.socks[t]) => IsGone(m.socks[t]) BY DEF Wanes
<1>2. ASSUME NEW t \in Sock, ~IsGone(m.socks[t]) PROVE Outlives(m.socks[t], n.socks[t])
  <2>1. ~IsGone(k.socks[t]) BY <1>2 DEF Wanes
  <2>2. Outlives(m.socks[t], k.socks[t]) /\ Outlives(k.socks[t], n.socks[t]) BY <1>2, <2>1 DEF Wanes
  <2> QED BY <2>2 DEF Outlives, Alike, Named
<1>3. ASSUME NEW t \in Sock, ~IsGone(m.socks[t]) PROVE StillWritable(n, m, t)
  <2>1. ~IsGone(k.socks[t]) BY <1>3 DEF Wanes
  <2>2. StillWritable(n, k, t) /\ StillWritable(k, m, t) /\ (k.socks[t].wrNew => m.socks[t].wrNew)
    BY <1>3, <2>1 DEF Wanes, Outlives
  <2> QED BY <2>2 DEF StillWritable
<1>4. \A t \in Sock : IsQueued(m, t) => IsQueued(n, t) BY DEF Wanes
<1>5. ASSUME NoneGone(n, m) PROVE Recounted(n, m)
  <2>1. NoneGone(n, k) /\ NoneGone(k, m) BY <1>5 DEF Wanes, NoneGone
  <2>2. Recounted(n, k) /\ Recounted(k, m) BY <2>1 DEF Wanes
  <2> QED BY <2>2, RecountTrans
<1>6. m.port = n.port BY DEF Wanes
<1> QED BY <1>1, <1>2, <1>3, <1>4, <1>5, <1>6 DEF Wanes

\* Counting alone makes nothing writable and queues nothing.
LEMMA RecountWanes ==
    ASSUME NEW n \in NetRec, Paired(n), NEW m, Recounted(n, m)
    PROVE  /\ Wanes(n, m)
           /\ \A t \in Sock : IsQueued(m, t) <=> IsQueued(n, t)
<1>1. ASSUME NEW t \in Sock
      PROVE  LET r == m.socks[t]  sk == n.socks[t] IN
             /\ Alike(r, sk) /\ Named(r, sk) /\ r.backlogMax = sk.backlogMax
             /\ r.fin = sk.fin /\ r.rx = sk.rx /\ r.flight = sk.flight /\ r.flStream = sk.flStream
             /\ r.rdNew = sk.rdNew /\ r.wrNew = sk.wrNew
  <2>1. m.socks[t] \in SockRec /\ n.socks[t] \in SockRec /\ Recount(m.socks[t], n.socks[t])
    BY DEF Recounted, NetRec
  <2> QED BY <2>1, RecountIs
<1>2. \A t \in Sock : Outlives(m.socks[t], n.socks[t]) BY <1>1 DEF Outlives
<1>3. \A t \in Sock : IsGone(m.socks[t]) <=> IsGone(n.socks[t]) BY <1>1 DEF Alike, IsGone
<1>4. \A t \in Sock : IsQueued(m, t) <=> IsQueued(n, t) BY <1>1 DEF Alike, IsQueued, InQueue
<1>5. ASSUME NEW t \in Sock PROVE IsWritable(m, t) => IsWritable(n, t)
  <2>1. CASE n.socks[t].far \in Sock
    <3> DEFINE a == n.socks[n.socks[t].far]
               b == m.socks[n.socks[t].far]
    <3>1. b.state = a.state /\ b.shutRd = a.shutRd /\ b.rx = a.rx /\ b.kind = a.kind
          /\ b.flight = a.flight /\ b.flStream = a.flStream
      BY <1>1, <2>1 DEF Alike
    <3>2. m.socks[t].state = n.socks[t].state /\ m.socks[t].shutWr = n.socks[t].shutWr
          /\ m.socks[m.socks[t].far] = b
      BY <1>1 DEF Alike
    <3> HIDE DEF a, b
    <3>3. Window(b) = Window(a) BY <3>1 DEF Window, RxLen, FlightRoom, FlLen
    <3> QED BY <3>1, <3>2, <3>3 DEF IsWritable, a
  <2>2. CASE n.socks[t].far \notin Sock
    <3>1. n.socks[t].state # "connected" BY <2>2 DEF Paired, Linked
    <3> QED BY <1>1, <3>1 DEF Alike, IsWritable
  <2> QED BY <2>1, <2>2
<1>6. m.port = n.port BY DEF Recounted
<1> QED BY <1>2, <1>3, <1>4, <1>5, <1>6 DEF Wanes, StillWritable

LEMMA ReleasedWanes ==
    ASSUME NEW n, NEW s \in Sock, Hangs(n, s), ~IsGone(n.socks[s]), n.socks[s].refs = 0, ~IsQueued(n, s),
           NEW m, Released(n, m, Goners(n, s))
    PROVE  Wanes(n, m)
<1> DEFINE G == Goners(n, s)
<1>1. s \in G BY DEF Goners
<1>2. Released(n, m, G) OBVIOUS
<1> HIDE DEF G
<1>3. ASSUME NEW t \in Sock, ~IsGone(m.socks[t]) PROVE Survives(n, G, t)
  BY <1>2, <1>3 DEF Released, Emptied, IsGone
<1>4. ASSUME NEW t \in Sock, IsGone(n.socks[t]) PROVE IsGone(m.socks[t])
  <2>1. Survives(n, G, t) => Stays(m.socks[t], n.socks[t]) BY <1>2 DEF Released
  <2> QED BY <1>3, <1>4, <2>1 DEF Stays, Lively, Alike, IsGone
<1>5. ASSUME NEW t \in Sock, ~IsGone(m.socks[t]) PROVE Outlives(m.socks[t], n.socks[t])
  <2>1. Stays(m.socks[t], n.socks[t]) BY <1>2, <1>3, <1>5 DEF Released
  <2> QED BY <2>1 DEF Stays, Lively, Outlives
<1>6. ASSUME NEW t \in Sock, ~IsGone(m.socks[t]) PROVE StillWritable(n, m, t)
  <2>1. Survives(n, G, t) BY <1>3, <1>6
  <2>2. CASE Bereft(n, G, t) BY <1>2, <2>1, <2>2 DEF Released, StillWritable
  <2>3. CASE ~Bereft(n, G, t) /\ n.socks[t].state = "connected"
    <3> DEFINE u == n.socks[t].far
    <3>1. u \in Sock /\ n.socks[u].far = t /\ u \notin G /\ t \notin G
      BY <2>1, <2>3 DEF Hangs, Paired, Linked, Bereft, Survives
    <3>2. Survives(n, G, u) /\ ~Bereft(n, G, u) BY <3>1 DEF Survives, Bereft
    <3>3. m.socks[t] = n.socks[t] /\ m.socks[u] = n.socks[u]
      BY <1>2, <2>1, <2>3, <3>1, <3>2 DEF Released
    <3> QED BY <3>3 DEF StillWritable, IsWritable
  <2>4. CASE n.socks[t].state # "connected" BY <2>4 DEF StillWritable, IsWritable
  <2> QED BY <2>2, <2>3, <2>4
<1>7. \A t \in Sock : IsQueued(m, t) => IsQueued(n, t) BY ReleasedHangs
<1>8. ~NoneGone(n, m)
  <2>1. ~Survives(n, G, s) BY <1>1 DEF Survives
  <2>2. IsGone(m.socks[s]) BY <1>3, <2>1
  <2> QED BY <2>2 DEF NoneGone
<1>9. m.port = n.port BY DEF Released
<1> QED BY <1>4, <1>5, <1>6, <1>7, <1>8, <1>9 DEF Wanes

LEMMA DropRests ==
    ASSUME NEW n, Hangs(n, NoSock), NEW p \in Proc, NEW s \in Sock, NEW k \in Nat, k <= n.refs[p][s],
           NEW m, m = DropRefs(n, p, s, k)
    PROVE  \E rest : Rests(n, m, rest, p, s, k)
<1> DEFINE a == n.refs[p][s] - k
           b == n.socks[s].refs - k
           rest == Rewritten(n, p, s, a, b)
<1>1. n \in NetRec /\ n.refs[p][s] \in Nat /\ n.socks[s].refs \in Nat /\ n.refs[p][s] <= n.socks[s].refs
      /\ Paired(n) /\ s # NoSock
  BY RefsBound, SockIs DEF Hangs
<1>2. a \in Nat /\ b \in Nat /\ b + n.refs[p][s] = n.socks[s].refs + a BY <1>1
<1>3. rest = [n EXCEPT !.refs[p][s] = @ - k, !.socks[s].refs = @ - k]
  BY <1>1 DEF Rewritten, NetRec, SockRec
<1> HIDE DEF rest
<1>4. m = IF k > 0 /\ rest.socks[s].refs = 0 THEN Release(rest, s) ELSE rest BY <1>3 DEF DropRefs
<1>5. \A t \in Sock : rest.socks[t].refs = Cardinality(DescriptorsIn(rest.refs, t))
  <2> HIDE DEF a, b
  <2> QED BY <1>2, RewrittenCounts DEF rest
<1>6. /\ Recounted(n, rest) /\ rest.refs = [n.refs EXCEPT ![p] = [n.refs[p] EXCEPT ![s] = a]]
      /\ rest.socks[s].refs = b /\ \A t \in Sock : t # s => rest.socks[t] = n.socks[t]
  <2> HIDE DEF a, b
  <2>1. Rewrites(n, rest, p, s, a, b) BY <1>1, <1>2, RewrittenIs DEF rest
  <2> QED BY <2>1 DEF Rewrites
<1>7. k > 0 => ~IsGone(n.socks[s]) /\ ~IsQueued(n, s)
  <2>1. k > 0 => n.refs[p][s] > 0 BY <1>1
  <2> QED BY <2>1, HeldIsOpen
<1>8. ASSUME NEW but, IF k > 0 /\ b = 0 THEN but = s ELSE but = NoSock PROVE Hangs(rest, but)
  <2>1. \A t \in Sock : IsGone(n.socks[t]) \/ IsQueued(n, t) => n.socks[t].refs = 0
    BY DEF Hangs, Counted, Queues, QueuedIdle
  <2>2. \A t \in Sock : IsGone(n.socks[t]) \/ IsQueued(n, t) => rest.socks[t].refs = 0
    BY <1>1, <1>6, <1>7, <2>1
  <2>3. \A t \in Sock : t # but /\ (n.socks[t].refs > 0 \/ t = NoSock) => rest.socks[t].refs > 0
    BY <1>1, <1>2, <1>6, <1>8, SockIs
  <2> QED BY <1>5, <1>6, <2>2, <2>3, RecountHangs
<1>9. Wanes(n, rest) /\ \A t \in Sock : IsQueued(rest, t) <=> IsQueued(n, t)
  BY <1>1, <1>6, RecountWanes
<1>10. CASE ~(k > 0 /\ b = 0)
  <2>1. m = rest BY <1>4, <1>6, <1>10
  <2>2. Rests(n, m, rest, p, s, k) BY <1>6, <1>8, <1>9, <1>10, <2>1 DEF Rests, a
  <2> QED BY <2>2
<1>11. CASE k > 0 /\ b = 0
  <2>1. m = Release(rest, s) BY <1>4, <1>6, <1>11
  <2>2. Hangs(rest, s) BY <1>8, <1>11
  <2>3. ~IsGone(rest.socks[s]) /\ ~IsQueued(rest, s) /\ rest.socks[s].refs = 0
    <3>1. rest.socks[s] \in SockRec /\ n.socks[s] \in SockRec /\ Recount(rest.socks[s], n.socks[s])
      BY <1>1, <1>6 DEF Recounted, NetRec
    <3>2. rest.socks[s].state = n.socks[s].state BY <3>1, RecountIs DEF Alike
    <3> QED BY <1>6, <1>7, <1>9, <1>11, <3>2 DEF IsGone
  <2>4. Rests(n, m, rest, p, s, k) BY <1>6, <1>9, <2>1, <2>2, <2>3 DEF Rests, a
  <2> QED BY <2>4
<1> QED BY <1>10, <1>11

LEMMA DropIs ==
    ASSUME NEW n, Hangs(n, NoSock), NEW p \in Proc, NEW s \in Sock, NEW k \in Nat, k <= n.refs[p][s],
           NEW m, m = DropRefs(n, p, s, k)
    PROVE  Dropped(n, m, p, s, k)
<1>1. PICK rest : Rests(n, m, rest, p, s, k) BY DropRests
<1>2. n \in NetRec BY DEF Hangs
<1>3. /\ Recounted(n, rest) /\ Wanes(n, rest)
      /\ rest.refs = [n.refs EXCEPT ![p] = [n.refs[p] EXCEPT ![s] = n.refs[p][s] - k]]
  BY <1>1 DEF Rests
<1>4. CASE Hangs(rest, NoSock) /\ m = rest BY <1>3, <1>4 DEF Dropped
<1>5. CASE /\ Hangs(rest, s) /\ ~IsGone(rest.socks[s]) /\ ~IsQueued(rest, s) /\ rest.socks[s].refs = 0
           /\ m = Release(rest, s)
  <2>1. Released(rest, m, Goners(rest, s)) BY <1>5, ReleaseIs
  <2>2. Hangs(m, NoSock) /\ Wanes(rest, m) BY <1>5, <2>1, ReleasedHangs, ReleasedWanes
  <2>3. Wanes(n, m) BY <1>2, <1>3, <2>2, WanesTrans
  <2>4. m.refs = rest.refs BY <2>1 DEF Released
  <2> QED BY <1>3, <2>2, <2>3, <2>4 DEF Dropped
<1> QED BY <1>1, <1>4, <1>5 DEF Rests

LEMMA SocksInOrder == LET q == [t \in Sock |-> t] IN
    q \in Seq(Sock) /\ Len(q) = MaxSockets /\ \A i \in 1..MaxSockets : q[i] = i
  BY SizesAssumption DEF Sock

\* Every socket in turn
LEMMA DropAllSteps ==
    ASSUME NEW n, NEW p, NEW held, NEW m, m = DropAll(n, p, held)
    PROVE  \E f : /\ f[0] = n /\ m = f[MaxSockets]
                  /\ \A i \in 1..MaxSockets : f[i] = DropRefs(f[i - 1], p, i, held[i])
<1> DEFINE q == [t \in Sock |-> t]
<1>1. q \in Seq(Sock) /\ Len(q) = MaxSockets /\ (\A i \in 1..MaxSockets : q[i] = i) /\ MaxSockets \in Nat
  BY SocksInOrder, SockIs
<1>2. m = AllDrop(n, q, p, held) BY DEF DropAll, AllDrop
<1> HIDE DEF q
<1>3. PICK f : DropSteps(f, n, q, p, held) /\ AllDrop(n, q, p, held) = f[Len(q)]
  <2>1. Len(q) \in Nat BY <1>1
  <2> QED BY <2>1, DropFold
<1>4. f[0] = n /\ \A i \in 1..MaxSockets : f[i] = DropRefs(f[i - 1], p, i, held[i])
  BY <1>1, <1>3 DEF DropSteps
<1> QED BY <1>1, <1>2, <1>3, <1>4

LEMMA DropStarts ==
    ASSUME NEW n, Hangs(n, NoSock), NEW p \in Proc, NEW held \in [Sock -> Nat]
    PROVE  DroppedAll(n, n, p, held, 0)
<1>1. n.refs \in [Proc -> [Sock -> Nat]] /\ n \in NetRec /\ Paired(n) BY DEF Hangs, NetRec
<1>2. n.refs = [n.refs EXCEPT ![p] = [t \in Sock |-> n.refs[p][t] - (IF t <= 0 THEN held[t] ELSE 0)]]
  <2> DEFINE g == [t \in Sock |-> n.refs[p][t] - (IF t <= 0 THEN held[t] ELSE 0)]
  <2>1. ASSUME NEW t \in Sock PROVE g[t] = n.refs[p][t]
    <3>1. ~(t <= 0) BY DEF Sock
    <3>2. n.refs[p][t] \in Nat BY <1>1
    <3> QED BY <3>1, <3>2
  <2>2. g = n.refs[p] BY <1>1, <2>1
  <2> HIDE DEF g
  <2>3. n.refs = [n.refs EXCEPT ![p] = g] BY <1>1, <2>2
  <2> QED BY <2>3 DEF g
<1>3. Wanes(n, n) BY <1>1, RecountSelf, RecountWanes
<1> QED BY <1>2, <1>3 DEF DroppedAll

LEMMA DropOne ==
    ASSUME NEW n, Hangs(n, NoSock), NEW p \in Proc, NEW held \in [Sock -> Nat],
           \A t \in Sock : held[t] <= n.refs[p][t], NEW i \in 1..MaxSockets,
           NEW x, DroppedAll(n, x, p, held, i - 1), NEW y, y = DropRefs(x, p, i, held[i])
    PROVE  DropsNext(n, x, y, p, held, i)
<1> DEFINE before == [t \in Sock |-> n.refs[p][t] - (IF t <= i - 1 THEN held[t] ELSE 0)]
           after  == [t \in Sock |-> n.refs[p][t] - (IF t <= i THEN held[t] ELSE 0)]
<1>0. n.refs \in [Proc -> [Sock -> Nat]] /\ n \in NetRec BY DEF Hangs, NetRec
<1>1. Hangs(x, NoSock) /\ Wanes(n, x) /\ x.refs = [n.refs EXCEPT ![p] = before] BY DEF DroppedAll
<1>2. i \in Sock /\ i \in Nat BY SockIs DEF Sock
<1>3. x.refs[p] = before /\ before[i] = n.refs[p][i]
  <2>1. n.refs[p][i] \in Nat BY <1>0, <1>2
  <2> QED BY <1>0, <1>1, <1>2, <2>1
<1>4. held[i] \in Nat /\ held[i] <= x.refs[p][i] BY <1>2, <1>3
<1>5. Dropped(x, y, p, i, held[i])
  <2> DEFINE k == held[i]
  <2>1. k \in Nat /\ y = DropRefs(x, p, i, k) /\ k <= x.refs[p][i] BY <1>4
  <2> HIDE DEF k
  <2>2. Dropped(x, y, p, i, k) BY <1>1, <1>2, <2>1, DropIs
  <2> QED BY <2>2 DEF k
<1>6. Hangs(y, NoSock) /\ Wanes(x, y) /\ y.refs = [x.refs EXCEPT ![p] = [x.refs[p] EXCEPT ![i] = x.refs[p][i] - held[i]]]
  BY <1>5 DEF Dropped
<1>7. Wanes(n, y)
  <2>1. x \in NetRec BY <1>1 DEF Hangs
  <2> QED BY <1>0, <1>1, <1>6, <2>1, WanesTrans
<1>8. y.refs = [n.refs EXCEPT ![p] = after]
  <2>1. [before EXCEPT ![i] = before[i] - held[i]] = after
    <3>1. \A t \in Sock : t # i => (t <= i - 1 <=> t <= i) BY <1>2 DEF Sock
    <3>2. ASSUME NEW t \in Sock PROVE [before EXCEPT ![i] = before[i] - held[i]][t] = after[t]
      <4>1. CASE t = i
        <5>1. after[i] = n.refs[p][i] - held[i] BY <1>2
        <5>2. [before EXCEPT ![i] = before[i] - held[i]][i] = before[i] - held[i] BY <1>2
        <5> QED BY <1>3, <4>1, <5>1, <5>2
      <4>2. CASE t # i
        <5>1. after[t] = before[t] BY <3>1, <4>2
        <5>2. [before EXCEPT ![i] = before[i] - held[i]][t] = before[t] BY <1>2, <4>2
        <5> QED BY <5>1, <5>2
      <4> QED BY <4>1, <4>2
    <3> HIDE DEF after
    <3>3. after = [t \in Sock |-> after[t]] BY DEF after
    <3> QED BY <3>2, <3>3
  <2> HIDE DEF before, after
  <2> QED BY <1>0, <1>1, <1>3, <1>6, <2>1
<1>9. DroppedAll(n, y, p, held, i) BY <1>6, <1>7, <1>8 DEF DroppedAll
<1> QED BY <1>1, <1>2, <1>4, <1>9 DEF DropsNext

LEMMA DropAllIs ==
    ASSUME NEW n, Hangs(n, NoSock), NEW p \in Proc, NEW held \in [Sock -> Nat],
           \A t \in Sock : held[t] <= n.refs[p][t], NEW m, m = DropAll(n, p, held)
    PROVE  DroppedAll(n, m, p, held, MaxSockets)
<1>1. PICK f : /\ f[0] = n /\ m = f[MaxSockets]
               /\ \A i \in 1..MaxSockets : f[i] = DropRefs(f[i - 1], p, i, held[i])
  BY DropAllSteps
<1>2. MaxSockets \in Nat BY SockIs
<1> DEFINE T == {i \in 0..MaxSockets : DroppedAll(n, f[i], p, held, i)}
<1>3. 0 \in T BY <1>1, <1>2, DropStarts
<1>4. ASSUME NEW i \in 1..MaxSockets, i - 1 \in T PROVE i \in T
  <2>1. DropsNext(n, f[i - 1], f[i], p, held, i) BY <1>1, <1>4, DropOne
  <2> QED BY <1>2, <2>1 DEF DropsNext
<1> HIDE DEF T
<1>5. \A i \in 0..MaxSockets : i \in T BY <1>2, <1>3, <1>4, Induct
<1>6. MaxSockets \in T BY <1>2, <1>5
<1> QED BY <1>1, <1>6 DEF T

\* Giving up nothing changes nothing.
LEMMA DropNothing ==
    ASSUME NEW n \in NetRec, NEW p \in Proc
    PROVE  DropAll(n, p, Nothing) = n
<1> DEFINE q == [t \in Sock |-> t]
<1>1. Len(q) = MaxSockets /\ (\A i \in 1..MaxSockets : q[i] = i) /\ MaxSockets \in Nat
  BY SocksInOrder, SockIs
<1>2. DropAll(n, p, Nothing) = AllDrop(n, q, p, Nothing) BY DEF DropAll, AllDrop
<1> HIDE DEF q
<1>3. PICK f : DropSteps(f, n, q, p, Nothing) /\ AllDrop(n, q, p, Nothing) = f[Len(q)]
  <2>1. Len(q) \in Nat BY <1>1
  <2> QED BY <2>1, DropFold
<1>4. f[0] = n /\ \A i \in 1..MaxSockets : f[i] = DropRefs(f[i - 1], p, i, 0)
  BY <1>1, <1>3 DEF DropSteps, Nothing, Sock
<1>5. ASSUME NEW s \in Sock PROVE DropRefs(n, p, s, 0) = n
  <2> DEFINE a == n.refs[p][s]
             b == n.socks[s].refs
  <2>1. /\ n.socks[s] \in SockRec /\ n.socks \in [Sock -> SockRec] /\ n.refs \in [Proc -> [Sock -> Nat]]
        /\ a \in Nat /\ b \in Nat
    BY DEF NetRec, SockRec
  <2>2. a - 0 = a /\ b - 0 = b BY <2>1
  <2>3. DropRefs(n, p, s, 0) = [n EXCEPT !.refs[p][s] = a, !.socks[s].refs = b]
    <3> DEFINE rest == [n EXCEPT !.refs[p][s] = @ - 0, !.socks[s].refs = @ - 0]
    <3>1. DropRefs(n, p, s, 0) = IF 0 > 0 /\ rest.socks[s].refs = 0 THEN Release(rest, s) ELSE rest
      BY DEF DropRefs
    <3>2. rest = [n EXCEPT !.refs[p][s] = a, !.socks[s].refs = b] BY <2>1, <2>2 DEF NetRec
    <3> HIDE DEF rest
    <3> QED BY <3>1, <3>2
  <2>4. [n.socks[s] EXCEPT !.refs = b] = n.socks[s] /\ [n.refs[p] EXCEPT ![s] = a] = n.refs[p]
    BY <2>1 DEF SockRec
  <2>5. [n.socks EXCEPT ![s] = n.socks[s]] = n.socks /\ [n.refs EXCEPT ![p] = n.refs[p]] = n.refs
    BY <2>1
  <2>6. [n EXCEPT !.refs[p][s] = a, !.socks[s].refs = b] = [n EXCEPT !.refs = n.refs, !.socks = n.socks]
    <3> HIDE DEF a, b
    <3> QED BY <2>1, <2>4, <2>5 DEF NetRec
  <2>7. [n EXCEPT !.refs = n.refs, !.socks = n.socks] = n BY DEF NetRec
  <2> QED BY <2>3, <2>6, <2>7
<1> DEFINE T == {i \in 0..MaxSockets : f[i] = n}
<1>6. 0 \in T BY <1>1, <1>4
<1>7. ASSUME NEW i \in 1..MaxSockets, i - 1 \in T PROVE i \in T
  <2>1. f[i - 1] = n /\ i \in Sock BY <1>7 DEF Sock
  <2> QED BY <1>1, <1>4, <1>5, <2>1
<1> HIDE DEF T
<1>8. \A i \in 0..MaxSockets : i \in T BY <1>1, <1>6, <1>7, Induct
<1>9. MaxSockets \in T BY <1>1, <1>8
<1> QED BY <1>1, <1>2, <1>3, <1>9 DEF T

\* A process takes references to what is open and not queued.
LEMMA AddAllIs ==
    ASSUME NEW n, Hangs(n, NoSock), NEW p \in Proc, NEW held \in [Sock -> Nat],
           \A t \in Sock : held[t] > 0 => ~IsGone(n.socks[t]) /\ ~IsQueued(n, t),
           NEW m, m = AddAll(n, p, held)
    PROVE  /\ Hangs(m, NoSock) /\ Recounted(n, m)
           /\ m.refs = [n.refs EXCEPT ![p] = [t \in Sock |-> n.refs[p][t] + held[t]]]
<1> DEFINE now == [t \in Sock |-> n.refs[p][t] + held[t]]
           socks == [t \in Sock |-> [n.socks[t] EXCEPT !.refs = n.socks[t].refs + held[t]]]
<1>1. n \in NetRec /\ n.refs \in [Proc -> [Sock -> Nat]] /\ n.socks \in [Sock -> SockRec]
  BY DEF Hangs, NetRec
<1>2. m = [n EXCEPT !.refs = [n.refs EXCEPT ![p] = now], !.socks = socks]
  <2>1. \A t \in Sock : [n.socks[t] EXCEPT !.refs = @ + held[t]] = [n.socks[t] EXCEPT !.refs = n.socks[t].refs + held[t]]
    BY <1>1 DEF SockRec
  <2>2. m = [n EXCEPT !.refs[p] = [t \in Sock |-> @[t] + held[t]],
                      !.socks = [t \in Sock |-> [n.socks[t] EXCEPT !.refs = @ + held[t]]]]
    BY DEF AddAll
  <2>3. m = [n EXCEPT !.refs = [n.refs EXCEPT ![p] = now],
                      !.socks = [t \in Sock |-> [n.socks[t] EXCEPT !.refs = @ + held[t]]]]
    BY <2>2
  <2>4. socks = [t \in Sock |-> [n.socks[t] EXCEPT !.refs = @ + held[t]]] BY <2>1
  <2> QED BY <2>3, <2>4
<1>3. ASSUME NEW t \in Sock
      PROVE  /\ socks[t] \in SockRec /\ socks[t].refs = n.socks[t].refs + held[t]
             /\ Recount(socks[t], n.socks[t])
  <2> DEFINE sk == n.socks[t]
             k == sk.refs + held[t]
  <2>0. sk \in SockRec BY <1>1
  <2>1. sk \in SockRec /\ k \in Nat BY <2>0 DEF SockRec
  <2>9. socks[t] = [sk EXCEPT !.refs = k] OBVIOUS
  <2> HIDE DEF sk, k, socks
  <2>2. socks[t] \in SockRec /\ socks[t].refs = k /\ Recount(socks[t], sk)
    BY <2>1, <2>9 DEF SockRec, Recount
  <2> QED BY <2>2 DEF sk, k
<1>4. socks \in [Sock -> SockRec] BY <1>3
<1>5. now \in [Sock -> Nat] /\ [n.refs EXCEPT ![p] = now] \in [Proc -> [Sock -> Nat]] BY <1>1
<1> HIDE DEF now
<1>6. /\ m \in NetRec /\ m.refs = [n.refs EXCEPT ![p] = now] /\ m.socks = socks
      /\ m.inFlight = n.inFlight /\ m.nextDue = n.nextDue /\ m.port = n.port
  <2> HIDE DEF socks
  <2> QED BY <1>1, <1>2, <1>4, <1>5 DEF NetRec
<1>7. \A t \in Sock : m.socks[t].refs = n.socks[t].refs + held[t] /\ Recount(m.socks[t], n.socks[t])
  BY <1>3, <1>6
<1> HIDE DEF socks
<1>8. Recounted(n, m) BY <1>6, <1>7 DEF Recounted
<1>9. ASSUME NEW t \in Sock PROVE m.socks[t].refs = Cardinality(DescriptorsIn(m.refs, t))
  <2> DEFINE old == Cardinality(DescriptorsIn(n.refs, t))
             new == Cardinality(DescriptorsIn(m.refs, t))
  <2>1. \A z \in Proc : z # p => n.refs[z][t] = m.refs[z][t] BY <1>1, <1>6
  <2>2. m.refs \in [Proc -> [Sock -> Nat]] BY <1>5, <1>6
  <2>3. old \in Nat /\ new \in Nat /\ new + n.refs[p][t] = old + m.refs[p][t]
    BY <1>1, <2>1, <2>2, CountChanges
  <2>4. m.refs[p][t] = n.refs[p][t] + held[t] /\ n.refs[p][t] \in Nat /\ held[t] \in Nat
    BY <1>1, <1>6 DEF now
  <2>5. n.socks[t].refs = old BY DEF Hangs, Counted
  <2> HIDE DEF old, new
  <2>6. m.socks[t].refs = new BY <1>7, <2>3, <2>4, <2>5
  <2> QED BY <2>6 DEF new
<1>10. \A t \in Sock : IsGone(n.socks[t]) \/ IsQueued(n, t) => m.socks[t].refs = 0
  <2>1. \A t \in Sock : IsGone(n.socks[t]) \/ IsQueued(n, t) => n.socks[t].refs = 0 /\ held[t] = 0
    BY DEF Hangs, Counted, Queues, QueuedIdle
  <2> QED BY <1>7, <2>1
<1>11. \A t \in Sock : t # NoSock /\ (n.socks[t].refs > 0 \/ t = NoSock) => m.socks[t].refs > 0
  <2>1. \A t \in Sock : n.socks[t].refs \in Nat /\ held[t] \in Nat BY <1>1 DEF SockRec
  <2> QED BY <1>7, <2>1
<1>12. Hangs(m, NoSock) BY <1>8, <1>9, <1>10, <1>11, RecountHangs
<1> QED BY <1>6, <1>8, <1>12 DEF now

\* What a process holds after a fork, an execve or its end
LEMMA SetRefsIs ==
    ASSUME NEW n, Hangs(n, NoSock), NEW p \in Proc, NEW held \in [Sock -> Nat],
           \A t \in Sock : held[t] > 0 => ~IsGone(n.socks[t]) /\ ~IsQueued(n, t),
           NEW m, m = SetRefs(n, p, held)
    PROVE  /\ Hangs(m, NoSock) /\ Wanes(n, m)
           /\ m.refs = [n.refs EXCEPT ![p] = held]
           /\ n.refs[p] = Nothing => Recounted(n, m)
<1> DEFINE x == AddAll(n, p, held)
           old == n.refs[p]
<1>1. n \in NetRec /\ old \in [Sock -> Nat] /\ n.refs \in [Proc -> [Sock -> Nat]] /\ Paired(n)
  BY DEF Hangs, NetRec
<1>2. /\ Hangs(x, NoSock) /\ Recounted(n, x)
      /\ x.refs = [n.refs EXCEPT ![p] = [t \in Sock |-> n.refs[p][t] + held[t]]]
  BY AddAllIs
<1>3. m = DropAll(x, p, old) BY DEF SetRefs
<1> HIDE DEF x
<1>4. x.refs[p] = [t \in Sock |-> old[t] + held[t]] /\ x.refs \in [Proc -> [Sock -> Nat]] /\ x \in NetRec
  BY <1>1, <1>2 DEF Hangs, NetRec
<1>5. \A t \in Sock : old[t] <= x.refs[p][t] BY <1>1, <1>4
<1>6. DroppedAll(x, m, p, old, MaxSockets)
  <2> HIDE DEF old
  <2> QED BY <1>1, <1>2, <1>3, <1>5, DropAllIs
<1>7. m.refs = [n.refs EXCEPT ![p] = held]
  <2>1. [t \in Sock |-> x.refs[p][t] - (IF t <= MaxSockets THEN old[t] ELSE 0)] = held
    <3>1. \A t \in Sock : t <= MaxSockets BY DEF Sock
    <3> QED BY <1>1, <1>4, <3>1
  <2>2. m.refs = [x.refs EXCEPT ![p] = held] BY <1>6, <2>1 DEF DroppedAll
  <2> QED BY <1>1, <1>2, <2>2
<1>8. Wanes(n, m)
  <2>1. Wanes(n, x) BY <1>1, <1>2, RecountWanes
  <2>2. Wanes(x, m) BY <1>6 DEF DroppedAll
  <2> QED BY <1>1, <2>1, <2>2, WanesTrans
<1>9. ASSUME old = Nothing PROVE Recounted(n, m)
  <2>1. m = x BY <1>3, <1>4, <1>9, DropNothing
  <2> QED BY <1>2, <2>1
<1> QED BY <1>6, <1>7, <1>8, <1>9 DEF DroppedAll

----------------------------------------------------------------------------
(***************************************************************************)
(* What the calls do to one socket.                                        *)
(***************************************************************************)
LEMMA SetIs ==
    ASSUME NEW n \in NetRec, NEW s \in Sock, NEW r \in SockRec,
           NEW m, m = [n EXCEPT !.socks = [n.socks EXCEPT ![s] = r]]
    PROVE  Sets(n, m, s, r) /\ m.port = n.port
  BY DEF Sets, NetRec

LEMMA SetsIs ==
    ASSUME NEW n \in NetRec, NEW m, NEW s \in Sock, NEW r, Sets(n, m, s, r)
    PROVE  /\ m.socks[s] = r
           /\ \A t \in Sock : t # s => m.socks[t] = n.socks[t]
  BY DEF Sets, NetRec

LEMMA PortIs ==
    ASSUME NEW n \in NetRec, PortsOK(n), NEW h \in Host, NEW kind, UsablePorts(n, h, kind) # {},
           NEW i, i = EphemeralPort(n, h, kind)
    PROVE  /\ i \in DOMAIN Ephemeral[h] /\ Ephemeral[h][i] \in Port
           /\ PortTaken(n, h, i) \in NetRec /\ PortsOK(PortTaken(n, h, i))
           /\ PortTaken(n, h, i).socks = n.socks /\ PortTaken(n, h, i).refs = n.refs
           /\ PortTaken(n, h, i).inFlight = n.inFlight /\ PortTaken(n, h, i).nextDue = n.nextDue
<1> DEFINE len == Len(Ephemeral[h])
           S == UsablePorts(n, h, kind)
           next == 1 + (i % len)
<1>1. Ephemeral[h] \in Seq(Port) /\ len \in Nat /\ len > 0 /\ DOMAIN Ephemeral[h] = 1..len
  BY InputsAssumption
<1>2. S \in SUBSET Nat BY <1>1 DEF UsablePorts
<1>3. First(S) \in Nat
  <2> HIDE DEF S
  <2>1. First(S) \in S BY <1>2, FirstLemma DEF S
  <2> QED BY <1>2, <2>1
<1>4. n.port \in [Host -> Nat] /\ n.port[h] \in 1..len BY <1>1 DEF NetRec, PortsOK
<1> HIDE DEF S
<1>5. i \in 1..len
  <2>1. i = 1 + ((n.port[h] - 1 + First(S)) % len) BY DEF EphemeralPort, Rotation, S
  <2>2. n.port[h] - 1 + First(S) \in Nat BY <1>1, <1>3, <1>4
  <2> HIDE DEF len
  <2> QED BY <1>1, <2>1, <2>2
<1>6. next \in 1..len
  <2> HIDE DEF len
  <2> QED BY <1>1, <1>5
<1>7. PortTaken(n, h, i) = [n EXCEPT !.port = [n.port EXCEPT ![h] = next]] BY DEF PortTaken
<1> HIDE DEF next
<1>8. [n.port EXCEPT ![h] = next] \in [Host -> Nat] BY <1>4, <1>6
<1>9. \A g \in Host : [n.port EXCEPT ![h] = next][g] \in DOMAIN Ephemeral[g]
  BY <1>1, <1>4, <1>6 DEF PortsOK
<1>10. i \in DOMAIN Ephemeral[h] /\ Ephemeral[h][i] \in Port BY <1>1, <1>5
<1> DEFINE k == PortTaken(n, h, i)
           port == [n.port EXCEPT ![h] = next]
<1>11. k = [n EXCEPT !.port = port] /\ port \in [Host -> Nat] BY <1>7, <1>8
<1> HIDE DEF k, port
<1>12. /\ k \in NetRec /\ k.port = port /\ k.socks = n.socks /\ k.refs = n.refs
       /\ k.inFlight = n.inFlight /\ k.nextDue = n.nextDue
  BY <1>11 DEF NetRec
<1> QED BY <1>9, <1>10, <1>12 DEF PortsOK, port, k

LEMMA BoundIs ==
    ASSUME NEW n \in NetRec, NEW s \in Sock, NEW name \in Name, NEW m, m = Bound(n, s, name)
    PROVE  Sets(n, m, s, Renamed(n.socks[s], name)) /\ m.port = n.port
<1>1. n.socks[s] \in SockRec /\ n.socks \in [Sock -> SockRec] BY DEF NetRec
<1>2. Renamed(n.socks[s], name) \in SockRec BY <1>1 DEF Renamed, SockRec
<1>3. m = [n EXCEPT !.socks = [n.socks EXCEPT ![s] = Renamed(n.socks[s], name)]]
  BY <1>1 DEF Bound, Renamed, NetRec
<1> QED BY <1>2, <1>3, SetIs

LEMMA BoundToAnyIs ==
    ASSUME NEW n \in NetRec, PortsOK(n), NEW s \in Sock, CanBindAny(n, s),
           NEW ip \in Host \cup {AnyIp, LoopIp, NoIp}, NEW m, m = BoundToAny(n, s, ip)
    PROVE  PortsOK(m) /\ \E name \in Name : Sets(n, m, s, Renamed(n.socks[s], name))
<1> DEFINE h == n.socks[s].host
           i == EphemeralPort(n, h, n.socks[s].kind)
           k == PortTaken(n, h, i)
           name == [ip |-> ip, port |-> Ephemeral[h][i]]
<1>1. h \in Host /\ UsablePorts(n, h, n.socks[s].kind) # {} BY DEF NetRec, SockRec, CanBindAny
<1>2. /\ Ephemeral[h][i] \in Port /\ k \in NetRec /\ PortsOK(k)
      /\ k.socks = n.socks /\ k.refs = n.refs /\ k.inFlight = n.inFlight /\ k.nextDue = n.nextDue
  <2> HIDE DEF h
  <2> QED BY <1>1, PortIs
<1>3. name \in Name BY <1>2 DEF Name
<1>4. m = Bound(k, s, name) BY DEF BoundToAny
<1> HIDE DEF name, k
<1>5. Sets(k, m, s, Renamed(k.socks[s], name)) /\ m.port = k.port BY <1>2, <1>3, <1>4, BoundIs
<1>6. Sets(n, m, s, Renamed(n.socks[s], name)) /\ PortsOK(m) BY <1>2, <1>5 DEF Sets, PortsOK
<1> QED BY <1>3, <1>6

LEMMA AltersHangs ==
    ASSUME NEW n, NEW m, NEW but, Hangs(n, but), Alters(n, m)
    PROVE  /\ Hangs(m, but)
           /\ \A t \in Sock : IsQueued(m, t) <=> IsQueued(n, t)
<1>1. /\ m \in NetRec /\ m.refs = n.refs
      /\ \A t \in Sock :
            /\ m.socks[t].far = n.socks[t].far /\ m.socks[t].refs = n.socks[t].refs
            /\ m.socks[t].backlog = n.socks[t].backlog
            /\ \/ m.socks[t].state = n.socks[t].state
               \/ n.socks[t].state \in {"new", "bound"} /\ m.socks[t].state \in {"bound", "listening"}
            /\ IsQueued(n, t) => m.socks[t].shutWr = n.socks[t].shutWr /\ m.socks[t].shutRd = n.socks[t].shutRd
  BY DEF Alters
<1>2. \A l \in Sock : n.socks[l].state \in {"new", "bound"} => n.socks[l].backlog = <<>>
  BY DEF Hangs, Queues, OnlyListenersQueue
<1>3. Counted(m) BY <1>1 DEF Hangs, Counted, IsGone
<1>4. \A l, t \in Sock : InQueue(m, l, t) <=> InQueue(n, l, t)
  <2>1. ASSUME NEW l \in Sock, NEW t \in Sock PROVE InQueue(m, l, t) <=> InQueue(n, l, t)
    <3>1. CASE m.socks[l].state = n.socks[l].state BY <1>1, <3>1 DEF InQueue
    <3>2. CASE m.socks[l].state # n.socks[l].state
      <4>1. n.socks[l].backlog = <<>> /\ m.socks[l].backlog = <<>> BY <1>1, <1>2, <3>2
      <4> QED BY <4>1 DEF InQueue
    <3> QED BY <3>1, <3>2
  <2> QED BY <2>1
<1>5. \A t \in Sock : IsQueued(m, t) <=> IsQueued(n, t) BY <1>4 DEF IsQueued
<1>6. Kept(m, but) BY <1>1, <1>5 DEF Hangs, Kept, IsGone
<1>7. Paired(m) BY <1>1 DEF Hangs, Paired, Linked
<1>8. OnlyListenersQueue(m) BY <1>1 DEF Hangs, Queues, OnlyListenersQueue
<1>9. QueuedOnce(m)
  <2>1. ASSUME NEW l \in Sock, NEW k \in Sock, NEW i \in 1..Len(m.socks[l].backlog),
               NEW j \in 1..Len(m.socks[k].backlog), m.socks[l].backlog[i] = m.socks[k].backlog[j]
        PROVE  l = k /\ i = j
    <3>1. m.socks[l].backlog = n.socks[l].backlog /\ m.socks[k].backlog = n.socks[k].backlog BY <1>1
    <3>2. QueuedOnce(n) BY DEF Hangs, Queues
    <3> QED BY <2>1, <3>1, <3>2 DEF QueuedOnce
  <2> QED BY <2>1 DEF QueuedOnce
<1>10. QueuedIdle(m)
  <2>1. ASSUME NEW t \in Sock, IsQueued(m, t)
        PROVE  /\ m.socks[t].state = "connected" /\ m.socks[t].refs = 0
               /\ ~m.socks[t].shutWr /\ ~m.socks[t].shutRd /\ ~IsQueued(m, m.socks[t].far)
    <3>1. /\ n.socks[t].state = "connected" /\ n.socks[t].refs = 0
          /\ ~n.socks[t].shutWr /\ ~n.socks[t].shutRd /\ ~IsQueued(n, n.socks[t].far)
          /\ n.socks[t].far \in Sock
      BY <1>5, <2>1 DEF Hangs, Queues, QueuedIdle, Paired, Linked
    <3> QED BY <1>1, <1>5, <2>1, <3>1
  <2> QED BY <2>1 DEF QueuedIdle
<1> QED BY <1>1, <1>3, <1>5, <1>6, <1>7, <1>8, <1>9, <1>10 DEF Hangs, Queues

----------------------------------------------------------------------------
(***************************************************************************)
(* New sockets and connections.                                            *)
(***************************************************************************)
LEMMA FreshIs ==
    ASSUME NEW h \in Host, NEW family \in {"inet", "unix"}, NEW kind \in {"stream", "dgram"},
           NEW r, r = Fresh(h, family, kind)
    PROVE  /\ r \in SockRec /\ r.state = "new" /\ r.kind = kind /\ r.refs = 0 /\ r.backlog = <<>>
           /\ r.host = h /\ r.far = NoSock
           /\ ~r.fin /\ ~r.shutWr /\ ~r.shutRd /\ r.rx = <<>> /\ r.flight = <<>> /\ r.flStream = 0
           /\ r.rdNew /\ r.wrNew
<1> DEFINE b == Blank(h)
<1>1. b \in SockRec /\ b.refs = 0 /\ b.backlog = <<>> /\ b.host = h /\ b.far = NoSock
      /\ ~b.fin /\ ~b.shutWr /\ ~b.shutRd /\ b.rx = <<>> /\ b.flight = <<>> /\ b.flStream = 0
      /\ b.rdNew /\ b.wrNew
  <2>1. b \in SockRec BY BlankIs
  <2> QED BY <2>1 DEF Blank
<1> HIDE DEF b
<1>2. r = [b EXCEPT !.state = "new", !.family = family, !.kind = kind] BY DEF Fresh, b
<1>3. r \in SockRec BY <1>1, <1>2, ZenonT(60) DEF SockRec
<1>4. /\ r.state = "new" /\ r.kind = kind /\ r.refs = b.refs /\ r.backlog = b.backlog
      /\ r.host = b.host /\ r.far = b.far /\ r.rx = b.rx /\ r.flight = b.flight /\ r.flStream = b.flStream
  BY <1>1, <1>2 DEF SockRec
<1>5. r.fin = b.fin /\ r.shutWr = b.shutWr /\ r.shutRd = b.shutRd /\ r.rdNew = b.rdNew /\ r.wrNew = b.wrNew
  BY <1>1, <1>2, ZenonT(60) DEF SockRec
<1> QED BY <1>1, <1>3, <1>4, <1>5

LEMMA NewIs ==
    ASSUME NEW n \in NetRec, NEW s \in Sock, NEW h \in Host, NEW family \in {"inet", "unix"},
           NEW kind \in {"stream", "dgram"}, NEW m, m = NewSock(n, s, h, family, kind)
    PROVE  Anew(n, m, s, Fresh(h, family, kind))
<1> DEFINE r == Fresh(h, family, kind)
           k == Less(n.inFlight, Len(n.socks[s].flight))
           x == [n.socks[s] EXCEPT !.flight = <<>>, !.flStream = 0]
<1>0. n.socks[s] \in SockRec /\ n.socks \in [Sock -> SockRec] /\ n.inFlight \in Nat BY DEF NetRec
<1>1. n.socks[s] \in SockRec /\ n.socks \in [Sock -> SockRec] /\ Len(n.socks[s].flight) \in Nat /\ n.inFlight \in Nat
  <2>1. Len(n.socks[s].flight) \in Nat BY <1>0 DEF SockRec
  <2> QED BY <1>0, <2>1
<1>2. k \in Nat BY <1>1 DEF Less
<1>3. r \in SockRec BY FreshIs
<1>4. DiscardFlight(n, s) = [n EXCEPT !.inFlight = k, !.socks = [n.socks EXCEPT ![s] = x]]
  BY <1>1, ZenonT(60) DEF DiscardFlight, Less, NetRec, SockRec
<1> HIDE DEF k, x, r
<1>5. m = [n EXCEPT !.inFlight = k, !.socks = [n.socks EXCEPT ![s] = r]]
  <2> DEFINE y == [n EXCEPT !.inFlight = k, !.socks = [n.socks EXCEPT ![s] = x]]
  <2>1. m = [y EXCEPT !.socks[s] = r] BY <1>4 DEF NewSock, r, Fresh
  <2>2. y.socks = [n.socks EXCEPT ![s] = x] BY DEF NetRec
  <2>3. [y.socks EXCEPT ![s] = r] = [n.socks EXCEPT ![s] = r] BY <1>1, <2>2
  <2>4. m = [y EXCEPT !.socks = [n.socks EXCEPT ![s] = r]]
    <3> HIDE DEF y
    <3> QED BY <2>1, <2>3
  <2> QED BY <2>4 DEF NetRec
<1>6. [n.socks EXCEPT ![s] = r] \in [Sock -> SockRec] BY <1>1, <1>3
<1>7. /\ m \in NetRec /\ m.socks = [n.socks EXCEPT ![s] = r]
      /\ m.refs = n.refs /\ m.port = n.port /\ m.nextDue = n.nextDue /\ m.inFlight = k
  BY <1>2, <1>5, <1>6 DEF NetRec
<1> QED BY <1>7 DEF r, k, Anew

\* Until somebody counts it nobody holds the new socket.
LEMMA NewHangs ==
    ASSUME NEW n, Hangs(n, NoSock), NEW s \in Sock, n.socks[s].state = "free", NEW h \in Host,
           NEW family \in {"inet", "unix"}, NEW kind \in {"stream", "dgram"},
           NEW m, m = NewSock(n, s, h, family, kind)
    PROVE  /\ Hangs(m, s) /\ ~IsGone(m.socks[s]) /\ ~IsQueued(m, s)
           /\ \A t \in Sock : IsQueued(m, t) <=> IsQueued(n, t)
<1>1. n \in NetRec BY DEF Hangs
<1>2. /\ m \in NetRec /\ m.refs = n.refs /\ m.socks[s] = Fresh(h, family, kind)
      /\ \A t \in Sock : t # s => m.socks[t] = n.socks[t]
  <2>1. m \in NetRec /\ m.refs = n.refs /\ m.socks = [n.socks EXCEPT ![s] = Fresh(h, family, kind)]
    <3>1. Anew(n, m, s, Fresh(h, family, kind)) BY <1>1, NewIs
    <3> QED BY <3>1 DEF Anew
  <2>2. n.socks \in [Sock -> SockRec] BY <1>1 DEF NetRec
  <2> QED BY <2>1, <2>2
<1>3. m.socks[s].state = "new" /\ m.socks[s].refs = 0 /\ m.socks[s].backlog = <<>> BY <1>2, FreshIs
<1>4. n.socks[s].refs = 0 /\ n.socks[s].backlog = <<>>
  BY DEF Hangs, Counted, IsGone, Queues, OnlyListenersQueue
<1>5. \A l, t \in Sock : InQueue(m, l, t) <=> InQueue(n, l, t) BY <1>2, <1>3 DEF InQueue
<1>6. \A t \in Sock : IsQueued(m, t) <=> IsQueued(n, t) BY <1>5 DEF IsQueued
<1>7. ~IsQueued(n, s) BY DEF Hangs, Queues, QueuedIdle
<1>8. Counted(m) BY <1>2, <1>3, <1>4 DEF Hangs, Counted
<1>9. Kept(m, s) BY <1>2, <1>6, SockIs DEF Hangs, Kept, IsGone
<1>10. Paired(m)
  <2>1. ASSUME NEW t \in Sock, Linked(m.socks[t])
        PROVE  /\ m.socks[t].far \in Sock /\ m.socks[t].far # t
               /\ m.socks[m.socks[t].far].far = t /\ Linked(m.socks[m.socks[t].far])
               /\ m.socks[t].state = "connected" \/ m.socks[m.socks[t].far].state = "connected"
    <3>1. t # s BY <1>3, <2>1 DEF Linked
    <3>2. n.socks[t].far \in Sock /\ Linked(n.socks[n.socks[t].far])
      BY <1>2, <2>1, <3>1 DEF Hangs, Paired
    <3>3. n.socks[t].far # s BY <3>2 DEF Linked
    <3> QED BY <1>2, <2>1, <3>1, <3>2, <3>3 DEF Hangs, Paired
  <2> QED BY <2>1 DEF Paired
<1>11. OnlyListenersQueue(m) BY <1>2, <1>3 DEF Hangs, Queues, OnlyListenersQueue
<1>12. QueuedOnce(m)
  <2>1. ASSUME NEW l \in Sock, NEW k \in Sock, NEW i \in 1..Len(m.socks[l].backlog),
               NEW j \in 1..Len(m.socks[k].backlog), m.socks[l].backlog[i] = m.socks[k].backlog[j]
        PROVE  l = k /\ i = j
    <3>1. m.socks[l].backlog = n.socks[l].backlog /\ m.socks[k].backlog = n.socks[k].backlog
      BY <1>2, <1>3, <1>4
    <3>2. QueuedOnce(n) BY DEF Hangs, Queues
    <3> QED BY <2>1, <3>1, <3>2 DEF QueuedOnce
  <2> QED BY <2>1 DEF QueuedOnce
<1>13. QueuedIdle(m)
  <2>1. ASSUME NEW t \in Sock, IsQueued(m, t)
        PROVE  /\ m.socks[t].state = "connected" /\ m.socks[t].refs = 0
               /\ ~m.socks[t].shutWr /\ ~m.socks[t].shutRd /\ ~IsQueued(m, m.socks[t].far)
    <3>1. /\ n.socks[t].state = "connected" /\ n.socks[t].refs = 0
          /\ ~n.socks[t].shutWr /\ ~n.socks[t].shutRd /\ ~IsQueued(n, n.socks[t].far)
          /\ n.socks[t].far \in Sock
      BY <1>6, <2>1 DEF Hangs, Queues, QueuedIdle, Paired, Linked
    <3>2. t # s BY <3>1
    <3> QED BY <1>2, <1>6, <3>1, <3>2
  <2> QED BY <2>1 DEF QueuedIdle
<1> QED BY <1>2, <1>3, <1>6, <1>7, <1>8, <1>9, <1>10, <1>11, <1>12, <1>13 DEF Hangs, Queues, IsGone

LEMMA EndIs ==
    ASSUME NEW sk \in SockRec, NEW far \in Sock, NEW r, r = End(sk, far)
    PROVE  Ended(r, sk, far)
<1>1. r \in SockRec BY NoNameIs DEF End, SockRec
<1>2. /\ r.state = "connected" /\ r.far = far
      /\ r.refs = sk.refs /\ r.backlog = sk.backlog
      /\ r.kind = sk.kind /\ r.rx = sk.rx /\ r.fin = sk.fin
      /\ r.shutWr = sk.shutWr /\ r.shutRd = sk.shutRd
      /\ r.flight = sk.flight /\ r.flStream = sk.flStream
  BY DEF End, SockRec
<1> QED BY <1>1, <1>2 DEF Ended

LEMMA QueueingIs ==
    ASSUME NEW sk \in SockRec, NEW far \in Sock, NEW r, r = Queueing(sk, far)
    PROVE  Enqueued(r, sk, far)
<1> DEFINE q == Append(sk.backlog, far)
<1>1. q \in Seq(Sock) BY DEF SockRec
<1>2. r = [sk EXCEPT !.backlog = q, !.rdNew = TRUE] BY DEF Queueing, SockRec
<1> HIDE DEF q
<1>3. r \in SockRec BY <1>1, <1>2 DEF SockRec
<1>4. /\ r.state = sk.state /\ r.refs = sk.refs /\ r.far = sk.far
      /\ r.shutWr = sk.shutWr /\ r.shutRd = sk.shutRd
      /\ r.kind = sk.kind /\ r.rx = sk.rx /\ r.fin = sk.fin
      /\ r.flight = sk.flight /\ r.flStream = sk.flStream
      /\ r.backlog = q /\ r.rdNew /\ r.wrNew = sk.wrNew
  BY <1>2 DEF SockRec
<1> QED BY <1>3, <1>4 DEF q, Enqueued

LEMMA JoinedIs ==
    ASSUME NEW n \in NetRec, NEW s \in Sock, NEW l \in Sock, NEW far \in Sock, s # l, far # s, far # l,
           NEW m, m = Joined(n, s, l, far)
    PROVE  Joins(n, m, s, l, far)
<1> DEFINE r  == Fresh(n.socks[l].host, n.socks[s].family, "stream")
           x  == NewSock(n, far, n.socks[l].host, n.socks[s].family, "stream")
           a  == End(n.socks[s], far)
           b  == End(r, s)
           c  == Queueing(n.socks[l], far)
<1>1. n.socks \in [Sock -> SockRec] /\ n.socks[s] \in SockRec /\ n.socks[l] \in SockRec
  BY DEF NetRec
<1>2. n.socks[l].host \in Host /\ n.socks[s].family \in {"inet", "unix"} /\ "stream" \in {"stream", "dgram"}
  BY <1>1 DEF SockRec
<1>3. Anew(n, x, far, r) /\ r \in SockRec BY <1>2, NewIs, FreshIs
<1>4. a \in SockRec /\ b \in SockRec /\ c \in SockRec
  <2> HIDE DEF r
  <2> QED BY <1>1, <1>3, EndIs, QueueingIs DEF Ended, Enqueued
<1>5. /\ x \in NetRec /\ x.socks = [n.socks EXCEPT ![far] = r]
      /\ x.refs = n.refs /\ x.port = n.port /\ x.nextDue = n.nextDue
      /\ x.inFlight = Less(n.inFlight, Len(n.socks[far].flight))
  BY <1>3 DEF Anew
<1>6. m = [x EXCEPT !.socks[far] = End(@, s), !.socks[s] = End(@, far), !.socks[l] = Queueing(@, far)]
  BY DEF Joined
<1> HIDE DEF x, r
<1>7. x.socks[far] = r /\ x.socks[s] = n.socks[s] /\ x.socks[l] = n.socks[l] BY <1>1, <1>5
<1> DEFINE q == [[[x.socks EXCEPT ![far] = b] EXCEPT ![s] = a] EXCEPT ![l] = c]
<1>8. m = [x EXCEPT !.socks = q]
  <2> HIDE DEF a, b, c
  <2>1. x.socks \in [Sock -> SockRec] BY <1>5 DEF NetRec
  <2> DEFINE y == [x EXCEPT !.socks = [x.socks EXCEPT ![far] = b]]
             z == [y EXCEPT !.socks = [y.socks EXCEPT ![s] = a]]
  <2>2. y.socks = [x.socks EXCEPT ![far] = b] /\ y.socks[s] = n.socks[s] /\ y.socks[l] = n.socks[l]
        /\ y.socks \in [Sock -> SockRec]
    BY <1>4, <1>5, <1>7, <2>1 DEF NetRec
  <2>3. z.socks = [y.socks EXCEPT ![s] = a] /\ z.socks[l] = n.socks[l]
    BY <1>4, <1>5, <1>7, <2>2 DEF NetRec
  <2>4. m = [z EXCEPT !.socks = [z.socks EXCEPT ![l] = c]]
    <3>1. End(x.socks[far], s) = b /\ End(x.socks[s], far) = a /\ Queueing(x.socks[l], far) = c
      BY <1>7 DEF a, b, c
    <3> QED BY <1>6, <3>1
  <2> QED BY <1>5, <2>2, <2>3, <2>4 DEF NetRec
<1>9. q \in [Sock -> SockRec]
  <2> HIDE DEF a, b, c
  <2>1. x.socks \in [Sock -> SockRec] BY <1>5 DEF NetRec
  <2> QED BY <1>4, <2>1
<1>10. q[s] = a /\ q[far] = b /\ q[l] = c /\ \A t \in Sock \ {s, l, far} : q[t] = n.socks[t]
  <2> HIDE DEF a, b, c
  <2> QED BY <1>1, <1>5
<1> HIDE DEF q, a, b, c
<1>11. /\ m \in NetRec /\ m.socks = q /\ m.refs = x.refs /\ m.port = x.port /\ m.nextDue = x.nextDue
       /\ m.inFlight = x.inFlight
  BY <1>5, <1>8, <1>9 DEF NetRec
<1> QED BY <1>5, <1>10, <1>11 DEF Joins, a, b, c, r

\* The connection hangs on its listener until it is accepted.
LEMMA JoinHangs ==
    ASSUME NEW n, Hangs(n, NoSock), NEW s \in Sock, NEW l \in Sock, NEW far \in Sock,
           n.socks[s].state \in {"new", "bound"}, n.socks[s].refs > 0,
           n.socks[l].state = "listening", n.socks[far].state = "free",
           NEW m, Joins(n, m, s, l, far)
    PROVE  /\ Hangs(m, NoSock)
           /\ \A t \in Sock : IsQueued(m, t) <=> IsQueued(n, t) \/ t = far
<1> DEFINE r == Fresh(n.socks[l].host, n.socks[s].family, "stream")
           O == Sock \ {s, l, far}
<1>1. n \in NetRec /\ n.socks[s] \in SockRec /\ n.socks[l] \in SockRec /\ s # l /\ s # far /\ l # far
  BY DEF Hangs, NetRec
<1>2. r \in SockRec /\ r.backlog = <<>> /\ r.refs = 0 /\ ~r.shutWr /\ ~r.shutRd
  <2>1. n.socks[l].host \in Host /\ n.socks[s].family \in {"inet", "unix"} BY <1>1 DEF SockRec
  <2> QED BY <2>1, FreshIs
<1>3. m \in NetRec /\ m.refs = n.refs BY DEF Joins
<1>4. /\ m.socks[s].state = "connected" /\ m.socks[s].far = far
      /\ m.socks[s].refs = n.socks[s].refs /\ m.socks[s].backlog = n.socks[s].backlog
  <2>1. m.socks[s] = End(n.socks[s], far) BY DEF Joins
  <2>2. Ended(m.socks[s], n.socks[s], far) BY <1>1, <2>1, EndIs
  <2> QED BY <2>2 DEF Ended
<1>5. /\ m.socks[far].state = "connected" /\ m.socks[far].far = s
      /\ m.socks[far].refs = 0 /\ m.socks[far].backlog = <<>>
      /\ ~m.socks[far].shutWr /\ ~m.socks[far].shutRd
  <2>1. m.socks[far] = End(r, s) BY DEF Joins
  <2> HIDE DEF r
  <2>2. Ended(m.socks[far], r, s) BY <1>1, <1>2, <2>1, EndIs
  <2> QED BY <1>2, <2>2 DEF Ended
<1>6. /\ m.socks[l].state = "listening" /\ m.socks[l].far = n.socks[l].far
      /\ m.socks[l].refs = n.socks[l].refs /\ m.socks[l].backlog = Append(n.socks[l].backlog, far)
  <2>1. m.socks[l] = Queueing(n.socks[l], far) BY DEF Joins
  <2>2. Enqueued(m.socks[l], n.socks[l], far) BY <1>1, <2>1, QueueingIs
  <2> QED BY <2>2 DEF Enqueued
<1>7. \A t \in O : m.socks[t] = n.socks[t] BY DEF Joins
<1> HIDE DEF r
<1>8. n.socks[far].refs = 0 /\ n.socks[s].backlog = <<>> /\ n.socks[far].backlog = <<>>
      /\ n.socks[l].backlog \in Seq(Sock)
  BY <1>1 DEF Hangs, Counted, IsGone, Queues, OnlyListenersQueue, SockRec
<1>9. \A k \in Sock : ~InQueue(n, k, s) /\ ~InQueue(n, k, far) /\ ~InQueue(n, k, l)
  BY DEF Hangs, Queues, QueuedIdle, IsQueued
<1>10. ASSUME NEW k \in Sock, NEW t \in Sock
       PROVE  InQueue(m, k, t) <=> InQueue(n, k, t) \/ (k = l /\ t = far)
  <2>1. CASE k \in O BY <1>7, <2>1 DEF InQueue
  <2>2. CASE k = s \/ k = far BY <1>1, <1>4, <1>5, <1>8, <2>2 DEF InQueue
  <2>3. CASE k = l
    <3> DEFINE q == n.socks[l].backlog
               w == m.socks[l].backlog
    <3>1. Len(q) \in Nat /\ Len(w) = Len(q) + 1 /\ w[Len(q) + 1] = far
          /\ \A i \in 1..Len(q) : w[i] = q[i]
      BY <1>6, <1>8
    <3>2. InQueue(m, l, t) <=> \E i \in 1..Len(w) : w[i] = t BY <1>6 DEF InQueue
    <3>3. InQueue(n, l, t) <=> \E i \in 1..Len(q) : q[i] = t BY DEF InQueue
    <3> HIDE DEF q, w
    <3>4. (\E i \in 1..Len(w) : w[i] = t) <=> (\E i \in 1..Len(q) : q[i] = t) \/ t = far BY <3>1
    <3> QED BY <2>3, <3>2, <3>3, <3>4
  <2> QED BY <2>1, <2>2, <2>3
<1>11. \A t \in Sock : IsQueued(m, t) <=> IsQueued(n, t) \/ t = far BY <1>10 DEF IsQueued
<1>12. Counted(m)
  <2>1. ASSUME NEW t \in Sock
        PROVE  m.socks[t].refs = n.socks[t].refs /\ (IsGone(m.socks[t]) => IsGone(n.socks[t]))
    BY <1>4, <1>5, <1>6, <1>7, <1>8 DEF IsGone
  <2> QED BY <1>3, <2>1 DEF Hangs, Counted
<1>13. Kept(m, NoSock)
  <2>1. ASSUME NEW t \in Sock, ~IsGone(m.socks[t])
        PROVE  m.socks[t].refs > 0 \/ (m.socks[t].state = "connected" /\ IsQueued(m, t))
    <3>1. CASE t = s BY <1>4, <3>1
    <3>2. CASE t = far BY <1>5, <1>11, <3>2
    <3>3. CASE t = l BY <1>6, <3>3, SockIs DEF Hangs, Kept, IsGone
    <3>4. CASE t \in O BY <1>7, <1>11, <2>1, <3>4, SockIs DEF Hangs, Kept
    <3> QED BY <3>1, <3>2, <3>3, <3>4
  <2> QED BY <2>1 DEF Kept
<1>14. Paired(m)
  <2>1. ASSUME NEW t \in Sock, Linked(m.socks[t])
        PROVE  /\ m.socks[t].far \in Sock /\ m.socks[t].far # t
               /\ m.socks[m.socks[t].far].far = t /\ Linked(m.socks[m.socks[t].far])
               /\ m.socks[t].state = "connected" \/ m.socks[m.socks[t].far].state = "connected"
    <3>1. CASE t = s \/ t = far BY <1>1, <1>4, <1>5, <3>1 DEF Linked
    <3>2. CASE t \in O
      <4>1. Linked(n.socks[t]) BY <1>7, <2>1, <3>2
      <4>2. /\ n.socks[t].far \in Sock /\ n.socks[t].far # t
            /\ n.socks[n.socks[t].far].far = t /\ Linked(n.socks[n.socks[t].far])
            /\ n.socks[t].state = "connected" \/ n.socks[n.socks[t].far].state = "connected"
        BY <4>1 DEF Hangs, Paired
      <4>3. n.socks[t].far \in O BY <4>2 DEF Linked
      <4> QED BY <1>7, <3>2, <4>2, <4>3
    <3>3. t # l BY <1>6, <2>1 DEF Linked
    <3> QED BY <3>1, <3>2, <3>3
  <2> QED BY <2>1 DEF Paired
<1>15. OnlyListenersQueue(m)
  <2>1. ASSUME NEW k \in Sock, m.socks[k].state # "listening" PROVE m.socks[k].backlog = <<>>
    <3>1. k \in O => m.socks[k].backlog = <<>> BY <1>7, <2>1 DEF Hangs, Queues, OnlyListenersQueue
    <3> QED BY <1>4, <1>5, <1>6, <1>8, <2>1, <3>1
  <2> QED BY <2>1 DEF OnlyListenersQueue
<1>16. QueuedOnce(m)
  <2> DEFINE Q(k) == IF k = l THEN Append(n.socks[l].backlog, far) ELSE n.socks[k].backlog
  <2>1. \A k \in Sock : m.socks[k].backlog = Q(k) BY <1>4, <1>5, <1>6, <1>7, <1>8
  <2>2. \A k \in Sock : n.socks[k].backlog \in Seq(Sock) BY <1>1 DEF NetRec, SockRec
  <2>3. \A k \in Sock : \A i \in 1..Len(n.socks[k].backlog) : n.socks[k].backlog[i] # far
    <3>1. \A k \in Sock : n.socks[k].state # "listening" => n.socks[k].backlog = <<>>
      BY DEF Hangs, Queues, OnlyListenersQueue
    <3> QED BY <1>9, <3>1 DEF InQueue
  <2>4. QueuedOnce(n) BY DEF Hangs, Queues
  <2>5. ASSUME NEW k \in Sock, NEW h \in Sock, NEW i \in 1..Len(Q(k)), NEW j \in 1..Len(Q(h)), Q(k)[i] = Q(h)[j]
        PROVE  k = h /\ i = j
    <3>1. ASSUME NEW g \in Sock, NEW a \in 1..Len(Q(g))
          PROVE  \/ g = l /\ a = Len(n.socks[l].backlog) + 1 /\ Q(g)[a] = far
                 \/ a \in 1..Len(n.socks[g].backlog) /\ Q(g)[a] = n.socks[g].backlog[a]
      BY <2>2
    <3>2. \/ k = l /\ i = Len(n.socks[l].backlog) + 1 /\ Q(k)[i] = far
          \/ i \in 1..Len(n.socks[k].backlog) /\ Q(k)[i] = n.socks[k].backlog[i]
      BY <3>1
    <3>3. \/ h = l /\ j = Len(n.socks[l].backlog) + 1 /\ Q(h)[j] = far
          \/ j \in 1..Len(n.socks[h].backlog) /\ Q(h)[j] = n.socks[h].backlog[j]
      BY <3>1
    <3> DEFINE u == Q(k)[i]
               v == Q(h)[j]
    <3>4. u = v BY <2>5
    <3> HIDE DEF Q
    <3> QED BY <2>3, <2>4, <2>5, <3>2, <3>3 DEF QueuedOnce
  <2> HIDE DEF Q
  <2> QED BY <2>1, <2>5 DEF QueuedOnce
<1>17. QueuedIdle(m)
  <2>1. ASSUME NEW t \in Sock, IsQueued(m, t)
        PROVE  /\ m.socks[t].state = "connected" /\ m.socks[t].refs = 0
               /\ ~m.socks[t].shutWr /\ ~m.socks[t].shutRd /\ ~IsQueued(m, m.socks[t].far)
    <3>1. CASE t = far
      <4>1. ~IsQueued(n, s) BY <1>9 DEF IsQueued
      <4> QED BY <1>1, <1>5, <1>11, <3>1, <4>1
    <3>2. CASE t # far
      <4>1. /\ n.socks[t].state = "connected" /\ n.socks[t].refs = 0
            /\ ~n.socks[t].shutWr /\ ~n.socks[t].shutRd /\ ~IsQueued(n, n.socks[t].far)
            /\ n.socks[t].far \in Sock /\ Linked(n.socks[n.socks[t].far])
        BY <1>11, <2>1, <3>2 DEF Hangs, Queues, QueuedIdle, Paired, Linked
      <4>2. t \in O /\ n.socks[t].far # far BY <4>1 DEF Linked
      <4> QED BY <1>7, <1>11, <4>1, <4>2
    <3> QED BY <3>1, <3>2
  <2> QED BY <2>1 DEF QueuedIdle
<1> QED BY <1>3, <1>11, <1>12, <1>13, <1>14, <1>15, <1>16, <1>17 DEF Hangs, Queues

\* Until it is counted nobody holds what is taken off a queue.
LEMMA TakenHangs ==
    ASSUME NEW n, Hangs(n, NoSock), NEW l \in Sock, n.socks[l].state = "listening", n.socks[l].backlog # <<>>,
           NEW x, x = [n EXCEPT !.socks[l].backlog = Tail(@)], NEW far, far = Head(n.socks[l].backlog)
    PROVE  Takes(n, x, l, far)
<1> DEFINE q == n.socks[l].backlog
           w == Tail(q)
           r == Shorter(n.socks[l])
<1>1. n \in NetRec /\ n.socks[l] \in SockRec /\ n.socks \in [Sock -> SockRec] BY DEF Hangs, NetRec
<1>2. q \in Seq(Sock) BY <1>1 DEF SockRec
<1>3. /\ w \in Seq(Sock) /\ Len(q) \in Nat /\ Len(q) > 0 /\ Len(w) = Len(q) - 1
      /\ \A i \in 1..Len(w) : w[i] = q[i + 1]
  <2>1. q # <<>> OBVIOUS
  <2> HIDE DEF q
  <2> QED BY <1>2, <2>1
<1>4. far \in Sock /\ far = q[1] BY <1>2, <1>3
<1>5. r = [n.socks[l] EXCEPT !.backlog = w] BY DEF Shorter
<1>6. x = [n EXCEPT !.socks = [n.socks EXCEPT ![l] = r]] BY <1>5
<1> HIDE DEF w, r
<1>7. r \in SockRec /\ r.backlog = w /\ r.state = "listening" /\ r.refs = n.socks[l].refs /\ r.far = n.socks[l].far
  <2>1. n.socks[l] \in SockRec BY <1>1
  <2> QED BY <1>3, <1>5, <2>1 DEF SockRec
<1>8. Sets(n, x, l, r) /\ x.port = n.port
  <2> DEFINE y == [n EXCEPT !.socks = [n.socks EXCEPT ![l] = r]]
  <2>1. Sets(n, y, l, r) /\ y.port = n.port BY <1>1, <1>7, SetIs
  <2>2. x = y BY <1>6
  <2> HIDE DEF y
  <2> QED BY <2>1, <2>2
<1>9. x.socks[l] = r /\ (\A t \in Sock : t # l => x.socks[t] = n.socks[t]) /\ x.refs = n.refs /\ x \in NetRec
  BY <1>1, <1>8, SetsIs DEF Sets
<1>10. \A k, t \in Sock : InQueue(x, k, t) => InQueue(n, k, t)
  <2>1. ASSUME NEW t \in Sock, InQueue(x, l, t) PROVE InQueue(n, l, t)
    <3>1. PICK i \in 1..Len(w) : w[i] = t BY <1>7, <1>9, <2>1 DEF InQueue
    <3>2. i + 1 \in 1..Len(q) /\ q[i + 1] = t BY <1>3, <3>1
    <3> QED BY <3>2 DEF InQueue
  <2> QED BY <1>9, <2>1 DEF InQueue
<1>11. \A t \in Sock : IsQueued(x, t) => IsQueued(n, t) BY <1>10 DEF IsQueued
<1>12. ASSUME NEW t \in Sock, t # far, IsQueued(n, t) PROVE IsQueued(x, t)
  <2>1. PICK k \in Sock : InQueue(n, k, t) BY <1>12 DEF IsQueued
  <2>2. CASE k # l BY <1>9, <2>1, <2>2 DEF InQueue, IsQueued
  <2>3. CASE k = l
    <3>1. PICK i \in 1..Len(q) : q[i] = t BY <2>1, <2>3 DEF InQueue
    <3>2. i - 1 \in 1..Len(w) /\ w[i - 1] = t
      <4>1. i \in Int /\ i # 1 BY <1>4, <1>12, <3>1
      <4>2. i - 1 \in 1..Len(w) BY <1>3, <4>1
      <4>3. w[i - 1] = q[(i - 1) + 1] BY <1>3, <4>2
      <4>4. (i - 1) + 1 = i BY <4>1
      <4> QED BY <3>1, <4>2, <4>3, <4>4
    <3>3. InQueue(x, l, t) BY <1>7, <1>9, <3>2 DEF InQueue
    <3> QED BY <3>3 DEF IsQueued
  <2> QED BY <2>2, <2>3
<1>13. IsQueued(n, far)
  <2>1. 1 \in 1..Len(q) BY <1>3
  <2> QED BY <1>4, <2>1 DEF IsQueued, InQueue
<1>14. /\ n.socks[far].state = "connected" /\ far # l BY <1>4, <1>13 DEF Hangs, Queues, QueuedIdle
<1>15. ~IsQueued(x, far)
  <2> SUFFICES ASSUME IsQueued(x, far) PROVE FALSE
    OBVIOUS
  <2>1. PICK k \in Sock : InQueue(x, k, far) BY DEF IsQueued
  <2>2. \E i \in 1..Len(n.socks[k].backlog) : n.socks[k].backlog[i] = far /\ (k = l => i # 1)
    <3>1. CASE k # l BY <1>9, <2>1, <3>1 DEF InQueue
    <3>2. CASE k = l
      <4>1. PICK i \in 1..Len(w) : w[i] = far BY <1>7, <1>9, <2>1, <3>2 DEF InQueue
      <4>2. i + 1 \in 1..Len(q) /\ q[i + 1] = far /\ i + 1 # 1 BY <1>3, <4>1
      <4> QED BY <3>2, <4>2
    <3> QED BY <3>1, <3>2
  <2>3. QueuedOnce(n) /\ 1 \in 1..Len(n.socks[l].backlog) /\ n.socks[l].backlog[1] = far
    BY <1>3, <1>4 DEF Hangs, Queues
  <2> QED BY <2>2, <2>3 DEF QueuedOnce
<1>16. Counted(x) BY <1>7, <1>9 DEF Hangs, Counted, IsGone
<1>17. Kept(x, far) BY <1>7, <1>9, <1>12, SockIs DEF Hangs, Kept, IsGone
<1>18. Paired(x) BY <1>7, <1>9 DEF Hangs, Paired, Linked
<1>19. OnlyListenersQueue(x) BY <1>7, <1>9 DEF Hangs, Queues, OnlyListenersQueue
<1>20. QueuedOnce(x)
  <2>1. ASSUME NEW k \in Sock, NEW h \in Sock, NEW i \in 1..Len(x.socks[k].backlog),
               NEW j \in 1..Len(x.socks[h].backlog), x.socks[k].backlog[i] = x.socks[h].backlog[j]
        PROVE  k = h /\ i = j
    <3>1. ASSUME NEW g \in Sock, NEW a \in 1..Len(x.socks[g].backlog)
          PROVE  IF g = l THEN a + 1 \in 1..Len(q) /\ x.socks[g].backlog[a] = q[a + 1]
                 ELSE a \in 1..Len(n.socks[g].backlog) /\ x.socks[g].backlog[a] = n.socks[g].backlog[a]
      <4>1. CASE g = l
        <5>1. a \in 1..Len(w) /\ x.socks[g].backlog[a] = w[a] BY <1>7, <1>9, <3>1, <4>1
        <5> QED BY <1>3, <4>1, <5>1, SMTT(40)
      <4>2. CASE g # l BY <1>9, <3>1, <4>2
      <4> QED BY <4>1, <4>2
    <3> DEFINE ai == IF k = l THEN i + 1 ELSE i
               aj == IF h = l THEN j + 1 ELSE j
    <3>2. ai \in 1..Len(n.socks[k].backlog) /\ x.socks[k].backlog[i] = n.socks[k].backlog[ai]
      BY <3>1, SMTT(40)
    <3>3. aj \in 1..Len(n.socks[h].backlog) /\ x.socks[h].backlog[j] = n.socks[h].backlog[aj]
      BY <3>1
    <3>4. QueuedOnce(n) BY DEF Hangs, Queues
    <3> HIDE DEF ai, aj, q
    <3>5. k = h /\ ai = aj
      <4>1. n.socks[k].backlog[ai] = n.socks[h].backlog[aj] BY <2>1, <3>2, <3>3
      <4>2. PICK u \in 1..Len(n.socks[k].backlog) : u = ai BY <3>2
      <4>3. PICK v \in 1..Len(n.socks[h].backlog) : v = aj BY <3>3
      <4>4. n.socks[k].backlog[u] = n.socks[h].backlog[v] BY <4>1, <4>2, <4>3
      <4>5. k = h /\ u = v BY <3>4, <4>4 DEF QueuedOnce
      <4> QED BY <4>2, <4>3, <4>5
    <3>6. i \in Int /\ j \in Int OBVIOUS
    <3> QED BY <3>5, <3>6 DEF ai, aj
  <2> QED BY <2>1 DEF QueuedOnce
<1>21. QueuedIdle(x)
  <2>1. ASSUME NEW t \in Sock, IsQueued(x, t)
        PROVE  /\ x.socks[t].state = "connected" /\ x.socks[t].refs = 0
               /\ ~x.socks[t].shutWr /\ ~x.socks[t].shutRd /\ ~IsQueued(x, x.socks[t].far)
    <3>1. /\ n.socks[t].state = "connected" /\ n.socks[t].refs = 0
          /\ ~n.socks[t].shutWr /\ ~n.socks[t].shutRd /\ ~IsQueued(n, n.socks[t].far)
          /\ n.socks[t].far \in Sock
      BY <1>11, <2>1 DEF Hangs, Queues, QueuedIdle, Paired, Linked
    <3>2. t # l BY <3>1
    <3> QED BY <1>9, <1>11, <3>1, <3>2
  <2> QED BY <2>1 DEF QueuedIdle
<1>22. Hangs(x, far) BY <1>9, <1>16, <1>17, <1>18, <1>19, <1>20, <1>21 DEF Hangs, Queues
<1>23. ~IsGone(x.socks[far]) BY <1>4, <1>9, <1>14 DEF IsGone
<1> QED BY <1>4, <1>8, <1>11, <1>15, <1>22, <1>23 DEF r, Takes

----------------------------------------------------------------------------
(***************************************************************************)
(* What every step keeps of the network.                                   *)
(***************************************************************************)
LEMMA LenNat ==
    ASSUME NEW n \in NetRec, NEW t \in Sock
    PROVE  /\ Len(n.socks[t].rx) \in Nat /\ n.socks[t].rx \in Seq(Byte \cup Name)
           /\ Len(n.socks[t].flight) \in Nat /\ n.socks[t].flight \in Seq([left: Nat, pay: Payload])
           /\ Len(n.socks[t].backlog) \in Nat /\ n.socks[t].backlog \in Seq(Sock)
<1>1. n.socks[t] \in SockRec BY DEF NetRec
<1>2. /\ n.socks[t].rx \in Seq(Byte \cup Name) /\ n.socks[t].flight \in Seq([left: Nat, pay: Payload])
      /\ n.socks[t].backlog \in Seq(Sock)
  BY <1>1 DEF SockRec
<1> QED BY <1>2, LenProperties

LEMMA CalmInOrder ==
    ASSUME NEW n \in NetRec, NEW m \in NetRec, Calms(n, m)
    PROVE  InOrder(n, m)
<1>1. \A t \in Sock : Len(m.socks[t].rx) \in Nat /\ Len(n.socks[t].rx) \in Nat BY LenNat
<1>2. ASSUME NEW t \in Sock, ~IsGone(m.socks[t]) PROVE ~(Len(m.socks[t].rx) > Len(n.socks[t].rx))
  <2>1. Len(m.socks[t].rx) <= Len(n.socks[t].rx) BY <1>2 DEF Calms
  <2> QED BY <1>1, <2>1
<1> QED BY <1>2 DEF InOrder

LEMMA WaneCalms ==
    ASSUME NEW n \in NetRec, NEW m, Wanes(n, m)
    PROVE  Calms(n, m)
<1>1. \A t \in Sock : ~IsGone(m.socks[t]) => m.socks[t].rx = n.socks[t].rx BY DEF Wanes, Outlives
<1>2. \A t \in Sock : Len(n.socks[t].rx) \in Nat BY LenNat
<1> QED BY <1>1, <1>2 DEF Calms

LEMMA RecountCalms ==
    ASSUME NEW n \in NetRec, NEW m, Recounted(n, m)
    PROVE  \A t \in Sock : m.socks[t].rx = n.socks[t].rx /\ m.socks[t].flight = n.socks[t].flight
                           /\ m.socks[t].state = n.socks[t].state
<1> TAKE t \in Sock
<1>1. m.socks[t] \in SockRec /\ n.socks[t] \in SockRec /\ Recount(m.socks[t], n.socks[t])
  BY DEF Recounted, NetRec
<1> QED BY <1>1, RecountIs DEF Alike

LEMMA WaneStands ==
    ASSUME NEW n, Stands(n), NEW m, Hangs(m, NoSock), Wanes(n, m)
    PROVE  Stands(m) /\ Calms(n, m)
<1>1. n \in NetRec BY DEF Stands, Hangs
<1>2. m.port = n.port BY DEF Wanes
<1>3. Calms(n, m) BY <1>1, WaneCalms
<1> QED BY <1>2, <1>3 DEF Stands, PortsOK

LEMMA SetStands ==
    ASSUME NEW n, Stands(n), NEW m, NEW s \in Sock, NEW r, Sets(n, m, s, r), PortsOK(m),
           Altered(r, n.socks[s]),
           (r.shutWr = n.socks[s].shutWr /\ r.shutRd = n.socks[s].shutRd) \/ ~IsQueued(n, s)
    PROVE  Stands(m)
<1>1. n \in NetRec /\ Hangs(n, NoSock) BY DEF Stands, Hangs
<1>2. m.socks[s] = r /\ \A t \in Sock : t # s => m.socks[t] = n.socks[t] BY <1>1, SetsIs
<1>3. m \in NetRec /\ m.refs = n.refs BY DEF Sets
<1>4. ASSUME NEW t \in Sock
      PROVE  LET q == m.socks[t]  sk == n.socks[t] IN
             /\ q.far = sk.far /\ q.refs = sk.refs /\ q.backlog = sk.backlog
             /\ \/ q.state = sk.state
                \/ sk.state \in {"new", "bound"} /\ q.state \in {"bound", "listening"}
             /\ IsQueued(n, t) => q.shutWr = sk.shutWr /\ q.shutRd = sk.shutRd
  <2>1. CASE t = s BY <1>2, <2>1 DEF Altered
  <2>2. CASE t # s BY <1>2, <2>2
  <2> QED BY <2>1, <2>2
<1>5. Alters(n, m) BY <1>3, <1>4 DEF Alters
<1>6. Hangs(m, NoSock) BY <1>1, <1>5, AltersHangs
<1> QED BY <1>6 DEF Stands

LEMMA SetCalms ==
    ASSUME NEW n \in NetRec, NEW m, NEW s \in Sock, NEW r, Sets(n, m, s, r), Len(r.rx) <= Len(n.socks[s].rx)
    PROVE  Calms(n, m)
<1>1. m.socks[s] = r /\ \A t \in Sock : t # s => m.socks[t] = n.socks[t] BY SetsIs
<1>2. \A t \in Sock : Len(n.socks[t].rx) \in Nat BY LenNat
<1>3. ASSUME NEW t \in Sock PROVE Len(m.socks[t].rx) <= Len(n.socks[t].rx)
  <2>1. CASE t = s BY <1>1, <2>1
  <2>2. CASE t # s BY <1>1, <1>2, <2>2
  <2> QED BY <2>1, <2>2
<1> QED BY <1>3 DEF Calms

LEMMA QuietStands ==
    ASSUME NEW n, Stands(n), NEW m, Quiet(n, m), m.port = n.port
    PROVE  Stands(m)
  BY QuietHangs DEF Stands, PortsOK

LEMMA CalmTrans ==
    ASSUME NEW n \in NetRec, NEW k \in NetRec, NEW m \in NetRec, Calms(n, k), Calms(k, m),
           \A t \in Sock : IsGone(k.socks[t]) => IsGone(m.socks[t])
    PROVE  Calms(n, m)
<1>1. \A t \in Sock : Len(m.socks[t].rx) \in Nat /\ Len(n.socks[t].rx) \in Nat /\ Len(k.socks[t].rx) \in Nat
  BY LenNat
<1>2. ASSUME NEW t \in Sock, ~IsGone(m.socks[t]) PROVE Len(m.socks[t].rx) <= Len(n.socks[t].rx)
  <2>1. Len(m.socks[t].rx) <= Len(k.socks[t].rx) BY <1>2 DEF Calms
  <2>2. ~IsGone(k.socks[t]) BY <1>2
  <2>3. Len(k.socks[t].rx) <= Len(n.socks[t].rx) BY <2>2 DEF Calms
  <2>4. Len(m.socks[t].rx) \in Nat /\ Len(k.socks[t].rx) \in Nat /\ Len(n.socks[t].rx) \in Nat
    BY <1>1
  <2> DEFINE a == Len(m.socks[t].rx)
             b == Len(k.socks[t].rx)
             c == Len(n.socks[t].rx)
  <2> HIDE DEF a, b, c
  <2>5. a \in Nat /\ b \in Nat /\ c \in Nat /\ a <= b /\ b <= c BY <2>1, <2>3, <2>4 DEF a, b, c
  <2>6. a <= c BY <2>5
  <2> QED BY <2>6 DEF a, c
<1> QED BY <1>2 DEF Calms

\* A delivery
LEMMA DeliverStands ==
    ASSUME NEW n, Stands(n), NEW d \in Sock, NEW from, NEW pay \in Payload, NEW m, m = Deliver(n, from, d, pay)
    PROVE  /\ Stands(m) /\ InOrder(n, m) /\ Quiet(n, m)
           /\ pay.kind = "fin" => Calms(n, m)
<1>1. n \in NetRec BY DEF Stands, Hangs
<1>2. PICK r : /\ Puts(n, m, d, r) /\ Lively(r, n.socks[d])
               /\ r = Land(n.socks[d], pay) \/ r = Flying(n.socks[d], Delay(from, n.socks[d]), pay)
  BY <1>1, DeliverPuts
<1>3. Quiet(n, m) /\ m.port = n.port BY <1>1, <1>2, PutQuiet DEF Puts
<1>4. Stands(m) BY <1>3, QuietStands
<1>5. m.socks[d] = r /\ \A t \in Sock : t # d => m.socks[t] = n.socks[t] BY <1>1, <1>2, PutsIs
<1>6. \A t \in Sock : Len(n.socks[t].rx) \in Nat BY <1>1, LenNat
<1>7. n.socks[d] \in SockRec /\ Delay(from, n.socks[d]) \in Nat BY <1>1, DelayIs DEF NetRec
<1>8. n.socks[d].flight # <<>> => r.rx = n.socks[d].rx
  <2>1. CASE n.socks[d].flight # <<>>
    <3>1. m = Launch(n, d, Delay(from, n.socks[d]), pay) BY <2>1 DEF Deliver, ArrivesNow
    <3>2. Puts(n, m, d, Flying(n.socks[d], Delay(from, n.socks[d]), pay))
      BY <1>1, <1>7, <3>1, LaunchIs
    <3>3. m.socks[d] = Flying(n.socks[d], Delay(from, n.socks[d]), pay) BY <1>1, <3>2, PutsIs
    <3>4. Flying(n.socks[d], Delay(from, n.socks[d]), pay).rx = n.socks[d].rx BY <1>7, FlyingIs
    <3> QED BY <1>5, <3>3, <3>4
  <2> QED BY <2>1
<1>9. InOrder(n, m)
  <2> SUFFICES ASSUME NEW t \in Sock, n.socks[t].flight # <<>> PROVE m.socks[t].rx = n.socks[t].rx
    BY <1>6 DEF InOrder
  <2>1. CASE t = d BY <1>5, <1>8, <2>1
  <2>2. CASE t # d BY <1>5, <2>2
  <2> QED BY <2>1, <2>2
<1>10. ASSUME pay.kind = "fin" PROVE Calms(n, m)
  <2>1. r.rx = n.socks[d].rx
    <3>1. Flying(n.socks[d], Delay(from, n.socks[d]), pay).rx = n.socks[d].rx BY <1>7, FlyingIs
    <3>2. IsGone(n.socks[d]) => Land(n.socks[d], pay) = n.socks[d] BY <1>7, LandIs
    <3>3. ~IsGone(n.socks[d]) => Land(n.socks[d], pay).rx = n.socks[d].rx BY <1>7, <1>10, LandRx
    <3> QED BY <1>2, <3>1, <3>2, <3>3
  <2>2. \A t \in Sock : m.socks[t].rx = n.socks[t].rx BY <1>5, <2>1
  <2> QED BY <1>6, <2>2 DEF Calms
<1> QED BY <1>3, <1>4, <1>9, <1>10

LEMMA WritableStands ==
    ASSUME NEW n, Stands(n), NEW s \in Sock, NEW m, m = Writable(n, s)
    PROVE  /\ Stands(m) /\ Quiet(n, m)
           /\ \A t \in Sock : m.socks[t].rx = n.socks[t].rx /\ m.socks[t].flight = n.socks[t].flight
<1>1. n \in NetRec BY DEF Stands, Hangs
<1>2. Puts(n, m, s, Told(n.socks[s])) BY <1>1, WritableIs
<1>3. Quiet(n, m) BY <1>1, WritableQuiet
<1>4. Stands(m) BY <1>2, <1>3, QuietStands DEF Puts
<1>5. m.socks[s] = Told(n.socks[s]) /\ \A t \in Sock : t # s => m.socks[t] = n.socks[t]
  BY <1>1, <1>2, PutsIs
<1>6. Told(n.socks[s]).rx = n.socks[s].rx /\ Told(n.socks[s]).flight = n.socks[s].flight
  <2>1. n.socks[s] \in SockRec BY <1>1 DEF NetRec
  <2> QED BY <2>1, ToldIs
<1> QED BY <1>3, <1>4, <1>5, <1>6

----------------------------------------------------------------------------
(***************************************************************************)
(* The calls, one after the other.                                         *)
(***************************************************************************)
LEMMA Standing ==
    ASSUME NEW n, Stands(n)
    PROVE  n \in NetRec /\ Hangs(n, NoSock) /\ PortsOK(n) /\ Paired(n)
           /\ \A s \in Sock : n.socks[s] \in SockRec
  BY DEF Stands, Hangs, NetRec

LEMMA MayIs ==
    ASSUME Stands(net), NEW p \in Proc, NEW s \in Sock, NEW op, May(p, op, s)
    PROVE  net.refs[p][s] > 0 /\ net.socks[s].refs > 0 /\ ~IsGone(net.socks[s]) /\ ~IsQueued(net, s)
  BY HeldIsOpen DEF May, Holds, Stands

LEMMA FarIs ==
    ASSUME NEW n, Stands(n), NEW s \in Sock, n.socks[s].state = "connected"
    PROVE  n.socks[s].far \in Sock /\ n.socks[s].far # s
  BY DEF Stands, Hangs, Paired, Linked

LEMMA RenamedIs ==
    ASSUME NEW sk \in SockRec, NEW name \in Name
    PROVE  LET r == Renamed(sk, name) IN
           /\ r \in SockRec /\ r.state = "bound" /\ r.local = name
           /\ r.far = sk.far /\ r.refs = sk.refs /\ r.backlog = sk.backlog
           /\ r.shutWr = sk.shutWr /\ r.shutRd = sk.shutRd /\ r.rx = sk.rx /\ r.flight = sk.flight
           /\ r.kind = sk.kind /\ r.family = sk.family /\ r.host = sk.host /\ r.fin = sk.fin
           /\ r.flStream = sk.flStream /\ r.rdNew = sk.rdNew /\ r.wrNew = sk.wrNew
           /\ r.peer = sk.peer /\ r.hasPeer = sk.hasPeer
  BY DEF Renamed, SockRec

LEMMA NamedIs ==
    ASSUME NEW n, Stands(n), NEW s \in Sock, n.socks[s].state = "new", NEW name \in Name, NEW m,
           Sets(n, m, s, Renamed(n.socks[s], name)), PortsOK(m)
    PROVE  NamedAnew(n, m, s)
<1>1. n \in NetRec /\ n.socks[s] \in SockRec BY Standing
<1> DEFINE r == Renamed(n.socks[s], name)
<1>2. /\ r.state = "bound" /\ r.far = n.socks[s].far /\ r.refs = n.socks[s].refs
      /\ r.backlog = n.socks[s].backlog /\ r.shutWr = n.socks[s].shutWr
      /\ r.shutRd = n.socks[s].shutRd /\ r.rx = n.socks[s].rx
  BY <1>1, RenamedIs
<1> HIDE DEF r
<1>3. Sets(n, m, s, r) BY DEF r
<1>4. Altered(r, n.socks[s]) BY <1>2 DEF Altered
<1>5. Stands(m) BY <1>2, <1>3, <1>4, SetStands
<1>6. Len(r.rx) <= Len(n.socks[s].rx) BY <1>1, <1>2, LenNat
<1>7. Calms(n, m) BY <1>1, <1>3, <1>6, SetCalms
<1> QED BY <1>5, <1>7 DEF NamedAnew

LEMMA BoundNames ==
    ASSUME NEW n, Stands(n), NEW s \in Sock, n.socks[s].state = "new", NEW name \in Name,
           NEW m, m = Bound(n, s, name)
    PROVE  NamedAnew(n, m, s)
<1>1. n \in NetRec /\ PortsOK(n) BY Standing
<1>2. Sets(n, m, s, Renamed(n.socks[s], name)) /\ m.port = n.port BY <1>1, BoundIs
<1>3. PortsOK(m) BY <1>1, <1>2 DEF PortsOK
<1> QED BY <1>2, <1>3, NamedIs

LEMMA BoundToAnyNames ==
    ASSUME NEW n, Stands(n), NEW s \in Sock, n.socks[s].state = "new", CanBindAny(n, s),
           NEW ip \in Host \cup {AnyIp, LoopIp, NoIp}, NEW m, m = BoundToAny(n, s, ip)
    PROVE  NamedAnew(n, m, s)
<1>1. n \in NetRec /\ PortsOK(n) BY Standing
<1>2. PortsOK(m) /\ \E name \in Name : Sets(n, m, s, Renamed(n.socks[s], name))
  BY <1>1, BoundToAnyIs
<1>3. PICK name \in Name : Sets(n, m, s, Renamed(n.socks[s], name)) BY <1>2
<1> QED BY <1>2, <1>3, NamedIs

LEMMA NamesAreNames ==
    ASSUME NEW p \in Proc
    PROVE  /\ \A name \in Program[p].names \cup Program[p].dests :
                 name \in Name /\ name.ip \in Host \cup {AnyIp, LoopIp, NoIp} /\ name.port \in Port \cup {NoPort}
           /\ \A make \in Program[p].makes : make[1] \in {"inet", "unix"} /\ make[2] \in {"stream", "dgram"}
  BY InputsAssumption DEF Name

LEMMA CalmKeeps ==
    ASSUME Stands(net), Stands(net'), Calms(net, net')
    PROVE  Keeps
<1>1. net \in NetRec /\ net' \in NetRec BY DEF Stands, Hangs
<1> QED BY <1>1, CalmInOrder DEF Keeps

LEMMA SameKeeps ==
    ASSUME Stands(net), net' = net
    PROVE  Keeps
<1>1. \A t \in Sock : Len(net.socks[t].rx) \in Nat BY Standing, LenNat
<1>2. Calms(net, net') BY <1>1 DEF Calms
<1> QED BY <1>2, CalmKeeps

LEMMA BindKeeps ==
    ASSUME Stands(net), NEW p \in Proc, NEW s \in Sock, Bind(p, s)
    PROVE  Keeps
<1>1. PICK name \in Program[p].names :
          \/ CanBind(net, s, name) /\ Succeeds(p, Bound(net, s, name))
          \/ CanBind(net, s, name) /\ CanBindAny(net, s) /\ Succeeds(p, BoundToAny(net, s, name.ip))
  BY DEF Bind
<1>2. name \in Name /\ name.ip \in Host \cup {AnyIp, LoopIp, NoIp} BY NamesAreNames
<1>3. net.socks[s].state = "new" BY <1>1 DEF CanBind
<1>4. NamedAnew(net, net', s)
  <2>1. CASE Succeeds(p, Bound(net, s, name))
    <3>1. net' = Bound(net, s, name) BY <2>1 DEF Succeeds
    <3> QED BY <1>2, <1>3, <3>1, BoundNames
  <2>2. CASE CanBindAny(net, s) /\ Succeeds(p, BoundToAny(net, s, name.ip))
    <3>1. net' = BoundToAny(net, s, name.ip) BY <2>2 DEF Succeeds
    <3> QED BY <1>2, <1>3, <2>2, <3>1, BoundToAnyNames
  <2> QED BY <1>1, <2>1, <2>2
<1> QED BY <1>4, CalmKeeps DEF NamedAnew

LEMMA ListeningIs ==
    ASSUME NEW n, Stands(n), NEW s \in Sock, n.socks[s].state \in {"bound", "listening"}, NEW max \in Nat,
           NEW m, m = [n EXCEPT !.socks[s].state = "listening", !.socks[s].backlogMax = max]
    PROVE  Sets(n, m, s, Listening(n.socks[s], max)) /\ Stands(m) /\ Calms(n, m)
<1>1. n \in NetRec /\ n.socks[s] \in SockRec /\ PortsOK(n) BY Standing
<1> DEFINE r == Listening(n.socks[s], max)
<1>2. /\ r \in SockRec /\ r.state = "listening" /\ r.far = n.socks[s].far /\ r.refs = n.socks[s].refs
      /\ r.backlog = n.socks[s].backlog /\ r.shutWr = n.socks[s].shutWr
      /\ r.shutRd = n.socks[s].shutRd /\ r.rx = n.socks[s].rx
  <2> DEFINE sk == n.socks[s]
  <2> HIDE DEF sk
  <2>1. sk \in SockRec BY <1>1 DEF sk
  <2>2. Listening(sk, max) \in SockRec BY <2>1 DEF Listening, SockRec
  <2>3. /\ Listening(sk, max).state = "listening" /\ Listening(sk, max).far = sk.far
        /\ Listening(sk, max).refs = sk.refs /\ Listening(sk, max).backlog = sk.backlog
        /\ Listening(sk, max).shutWr = sk.shutWr /\ Listening(sk, max).shutRd = sk.shutRd
        /\ Listening(sk, max).rx = sk.rx
    BY <2>1 DEF Listening, SockRec
  <2> QED BY <2>2, <2>3 DEF sk
<1>3. m = [n EXCEPT !.socks = [n.socks EXCEPT ![s] = r]] BY <1>1 DEF Listening, NetRec
<1> HIDE DEF r
<1>4. Sets(n, m, s, r) /\ m.port = n.port
  <2>1. n \in NetRec /\ r \in SockRec BY <1>1, <1>2
  <2> QED BY ONLY <1>3, <2>1, s \in Sock, SetIs
<1>5. Altered(r, n.socks[s]) BY <1>2 DEF Altered
<1>6. PortsOK(m) BY <1>1, <1>4 DEF PortsOK
<1>7. Stands(m) BY <1>2, <1>4, <1>5, <1>6, SetStands
<1>8. Len(r.rx) <= Len(n.socks[s].rx) BY <1>1, <1>2, LenNat
<1>9. Calms(n, m) BY <1>1, <1>4, <1>8, SetCalms
<1> QED BY <1>4, <1>7, <1>9 DEF r

LEMMA ListenKeeps ==
    ASSUME Stands(net), NEW p \in Proc, NEW s \in Sock, NEW max \in Backlogs, Listen(p, s, max)
    PROVE  Keeps
<1>1. max \in Nat BY InputsAssumption
<1>2. CASE net.socks[s].state \in {"bound", "listening"}
           /\ net' = [net EXCEPT !.socks[s].state = "listening", !.socks[s].backlogMax = max]
  BY <1>1, <1>2, ListeningIs, CalmKeeps
<1>3. CASE /\ net.socks[s].state = "new" /\ CanBindAny(net, s)
           /\ net' = [BoundToAny(net, s, AnyIp) EXCEPT !.socks[s].state = "listening", !.socks[s].backlogMax = max]
  <2> DEFINE k == BoundToAny(net, s, AnyIp)
  <2>1. NamedAnew(net, k, s) BY <1>3, BoundToAnyNames
  <2>2. net' = [k EXCEPT !.socks[s].state = "listening", !.socks[s].backlogMax = max] BY <1>3
  <2> HIDE DEF k
  <2>3. PICK name \in Name : Sets(net, k, s, Renamed(net.socks[s], name)) BY <2>1 DEF NamedAnew
  <2>4. k.socks[s].state = "bound"
    <3>1. k.socks[s] = Renamed(net.socks[s], name) BY <2>3, Standing, SetsIs
    <3> QED BY <3>1, Standing, RenamedIs
  <2>5. Stands(k) /\ Calms(net, k) BY <2>1 DEF NamedAnew
  <2>6. Sets(k, net', s, Listening(k.socks[s], max)) /\ Stands(net') /\ Calms(k, net')
    BY <1>1, <2>2, <2>4, <2>5, ListeningIs
  <2>7. \A t \in Sock : IsGone(k.socks[t]) => IsGone(net'.socks[t])
    <3>1. \A t \in Sock : t # s => net'.socks[t] = k.socks[t] BY <2>5, <2>6, Standing, SetsIs
    <3> QED BY <2>4, <3>1 DEF IsGone
  <2>8. Calms(net, net') BY <2>5, <2>6, <2>7, Standing, CalmTrans
  <2> QED BY <2>6, <2>8, CalmKeeps
<1> QED BY <1>2, <1>3 DEF Listen, Succeeds

LEMMA FreeSlotIs ==
    ASSUME NEW n, FreeSlots(n) # {}, NEW s, s = First(FreeSlots(n))
    PROVE  s \in Sock /\ n.socks[s].state = "free"
<1>1. FreeSlots(n) \in SUBSET Nat BY SockIs DEF FreeSlots
<1>2. s \in FreeSlots(n) BY <1>1, FirstLemma
<1> QED BY <1>2 DEF FreeSlots

LEMMA FreshRx ==
    ASSUME NEW h \in Host, NEW family \in {"inet", "unix"}, NEW kind \in {"stream", "dgram"}
    PROVE  Fresh(h, family, kind) \in SockRec /\ Fresh(h, family, kind).rx = <<>>
  BY FreshIs

LEMMA HostOfIs == ASSUME NEW p \in Proc PROVE HostOf[p] \in Host
  BY InputsAssumption

LEMMA MakeSocketKeeps ==
    ASSUME Stands(net), NEW p \in Proc, NEW make \in Program[p].makes, MakeSocket(p, make[1], make[2])
    PROVE  Keeps
<1> DEFINE s == First(FreeSlots(net))
           k == NewSock(net, s, HostOf[p], make[1], make[2])
<1>1. net' = AddRefs(k, p, s, 1) /\ FreeSlots(net) # {} BY DEF MakeSocket
<1>2. s \in Sock /\ net.socks[s].state = "free" BY <1>1, FreeSlotIs
<1> HIDE DEF s
<1>3. make[1] \in {"inet", "unix"} /\ make[2] \in {"stream", "dgram"} /\ HostOf[p] \in Host
  BY NamesAreNames, HostOfIs
<1>4. net \in NetRec /\ Hangs(net, NoSock) /\ PortsOK(net) BY Standing
<1>5. /\ Hangs(k, s) /\ ~IsGone(k.socks[s]) /\ ~IsQueued(k, s) BY <1>2, <1>3, <1>4, NewHangs
<1>6. Anew(net, k, s, Fresh(HostOf[p], make[1], make[2])) BY <1>2, <1>3, <1>4, NewIs
<1> HIDE DEF k
<1>7. Hangs(net', NoSock) /\ Recounted(k, net')
  <2>1. 1 \in Nat /\ 1 > 0 OBVIOUS
  <2> QED BY <1>1, <1>2, <1>5, <2>1, AddHangs
<1>8. net'.port = net.port BY <1>6, <1>7 DEF Recounted, Anew
<1>9. Stands(net') BY <1>4, <1>7, <1>8 DEF Stands, PortsOK
<1>10. Calms(net, net')
  <2>1. \A t \in Sock : net'.socks[t].rx = k.socks[t].rx
    <3>1. k \in NetRec BY <1>6 DEF Anew
    <3> QED BY <1>7, <3>1, RecountCalms
  <2>2. \A t \in Sock : k.socks[t].rx = IF t = s THEN <<>> ELSE net.socks[t].rx
    <3>1. k.socks = [net.socks EXCEPT ![s] = Fresh(HostOf[p], make[1], make[2])] BY <1>6 DEF Anew
    <3>2. Fresh(HostOf[p], make[1], make[2]).rx = <<>> BY <1>3, FreshRx
    <3>3. net.socks \in [Sock -> SockRec] BY <1>4 DEF NetRec
    <3> QED BY <3>1, <3>2, <3>3
  <2>3. \A t \in Sock : Len(net.socks[t].rx) \in Nat BY <1>4, LenNat
  <2>4. ASSUME NEW t \in Sock PROVE Len(net'.socks[t].rx) <= Len(net.socks[t].rx)
    <3>1. CASE t = s
      <4>1. net'.socks[t].rx = <<>> BY <2>1, <2>2, <3>1
      <4>2. Len(net'.socks[t].rx) = 0 BY <4>1
      <4>3. Len(net.socks[t].rx) \in Nat BY <2>3
      <4> QED BY <4>2, <4>3
    <3>2. CASE t # s
      <4>1. net'.socks[t].rx = net.socks[t].rx BY <2>1, <2>2, <3>2
      <4> QED BY <2>3, <4>1
    <3> QED BY <3>1, <3>2
  <2> QED BY <2>4 DEF Calms
<1> QED BY <1>9, <1>10, CalmKeeps

LEMMA PortedIs ==
    ASSUME NEW n, Stands(n), NEW s \in Sock, n.socks[s].kind = "stream",
           n.socks[s].state = "new" /\ n.socks[s].family = "inet" => CanBindAny(n, s),
           NEW m, m = Ported(n, s)
    PROVE  Stands(m) /\ m \in NetRec /\ m.socks = n.socks /\ m.refs = n.refs /\ m.inFlight = n.inFlight /\ m.nextDue = n.nextDue
<1>1. n \in NetRec /\ PortsOK(n) /\ n.socks[s].host \in Host BY Standing DEF SockRec
<1>2. CASE m = n BY <1>1, <1>2
<1>3. CASE n.socks[s].state = "new" /\ n.socks[s].family = "inet"
  <2> DEFINE i == EphemeralPort(n, n.socks[s].host, "stream")
  <2>1. UsablePorts(n, n.socks[s].host, "stream") # {} BY <1>3 DEF CanBindAny
  <2>2. m = PortTaken(n, n.socks[s].host, i) BY <1>3 DEF Ported
  <2> HIDE DEF i
  <2>3. m \in NetRec /\ PortsOK(m) /\ m.socks = n.socks /\ m.refs = n.refs
        /\ m.inFlight = n.inFlight /\ m.nextDue = n.nextDue
    BY <1>1, <2>1, <2>2, PortIs DEF i
  <2>4. Alters(n, m) BY <2>3 DEF Alters
  <2> QED BY <2>3, <2>4, AltersHangs DEF Stands
<1> QED BY <1>2, <1>3 DEF Ported

LEMMA ListenersAre ==
    ASSUME NEW n, NEW s, NEW h, NEW dest, Listeners(n, s, h, dest) # {}, NEW l, l = First(Listeners(n, s, h, dest))
    PROVE  l \in Sock /\ n.socks[l].state = "listening" /\ n.socks[l].kind = n.socks[s].kind
<1>1. Listeners(n, s, h, dest) \in SUBSET Nat BY SockIs DEF Listeners
<1>2. l \in Listeners(n, s, h, dest) BY <1>1, FirstLemma
<1> QED BY <1>2 DEF Listeners

\* What a connect does: it fails for want of a slot, or both ends are connected.
Connects(n, m, k, s, l, far) ==
    /\ n.socks[s].kind = "stream" /\ n.socks[s].state \in {"new", "bound"} /\ n.socks[s].refs > 0
    /\ l \in Sock /\ n.socks[l].state = "listening"
    /\ Stands(k) /\ k \in NetRec /\ k.socks = n.socks /\ k.refs = n.refs
    /\ k.inFlight = n.inFlight /\ k.nextDue = n.nextDue /\ proc' = proc
    /\ \/ m = k /\ UNCHANGED <<proc, wait, hist>>
       \/ /\ far \in Sock /\ n.socks[far].state = "free"
          /\ Joins(k, m, s, l, far)
          /\ wait' = WakeIo(wait)

LEMMA ConnectIs ==
    ASSUME Stands(net), NEW p \in Proc, NEW s \in Sock, NEW dest \in Program[p].dests, Connect(p, s, dest)
    PROVE  \E k, l, far : Connects(net, net', k, s, l, far)
<1> DEFINE h == IF dest.ip = NoIp THEN HostOf[p] ELSE HostForIp(HostOf[p], dest.ip)
           open == Listeners(net, s, h, dest)
           l == First(open)
           k == Ported(net, s)
           far == First(FreeSlots(k))
<1>1. /\ May(p, "none", s) /\ net.socks[s].kind = "stream" /\ net.socks[s].state \in {"new", "bound"}
      /\ open # {}
      /\ (net.socks[s].state = "new" /\ net.socks[s].family = "inet") => CanBindAny(net, s)
      /\ IF FreeSlots(k) = {} THEN net' = k /\ UNCHANGED <<proc, wait, hist>>
         ELSE net' = Joined(k, s, l, far) /\ wait' = WakeIo(wait)
      /\ proc' = proc
  BY DEF Connect
<1>2. l \in Sock /\ net.socks[l].state = "listening"
  <2> HIDE DEF h
  <2> QED BY <1>1, ListenersAre
<1>3. Stands(k) /\ k \in NetRec /\ k.socks = net.socks /\ k.refs = net.refs /\ k.inFlight = net.inFlight /\ k.nextDue = net.nextDue
  BY <1>1, PortedIs
<1>4. net.socks[s].refs > 0 BY <1>1, MayIs
<1> HIDE DEF h, open, l, k, far
<1>5. CASE FreeSlots(k) = {} BY <1>1, <1>2, <1>3, <1>4, <1>5 DEF Connects
<1>6. CASE FreeSlots(k) # {}
  <2>1. far \in Sock /\ k.socks[far].state = "free" BY <1>6, FreeSlotIs DEF far
  <2>2. net' = Joined(k, s, l, far) /\ wait' = WakeIo(wait) BY <1>1, <1>6
  <2>3. s # l /\ far # s /\ far # l BY <1>1, <1>2, <1>3, <2>1
  <2>4. Joins(k, net', s, l, far) BY <1>2, <1>3, <2>1, <2>2, <2>3, JoinedIs
  <2> QED BY <1>1, <1>2, <1>3, <1>4, <2>1, <2>2, <2>4 DEF Connects
<1> QED BY <1>5, <1>6

LEMMA JoinStands ==
    ASSUME NEW n, Stands(n), NEW s \in Sock, NEW l \in Sock, NEW far \in Sock,
           n.socks[s].state \in {"new", "bound"}, n.socks[s].refs > 0,
           n.socks[l].state = "listening", n.socks[far].state = "free",
           NEW m, Joins(n, m, s, l, far)
    PROVE  Stands(m) /\ Calms(n, m)
<1>1. n \in NetRec /\ Hangs(n, NoSock) /\ PortsOK(n) BY Standing
<1>2. n.socks[s] \in SockRec /\ n.socks[l] \in SockRec BY Standing
<1>3. Hangs(m, NoSock) BY <1>1, JoinHangs
<1>4. Stands(m) BY <1>1, <1>3 DEF Stands, PortsOK, Joins
<1> DEFINE new == Fresh(n.socks[l].host, n.socks[s].family, "stream")
<1>5. new \in SockRec /\ new.rx = <<>>
  <2>1. n.socks[l].host \in Host BY <1>2 DEF SockRec
  <2>2. n.socks[s].family \in {"inet", "unix"} BY <1>2 DEF SockRec
  <2> QED BY <2>1, <2>2, FreshRx
<1>6. m.socks[s] = End(n.socks[s], far) /\ m.socks[far] = End(new, s) /\ m.socks[l] = Queueing(n.socks[l], far)
  BY DEF Joins
<1>7. \A t \in Sock \ {s, l, far} : m.socks[t] = n.socks[t] BY DEF Joins
<1> HIDE DEF new
<1>8. m.socks[far].rx = <<>>
  <2>1. Ended(m.socks[far], new, s) BY <1>5, <1>6, EndIs
  <2> QED BY <1>5, <2>1 DEF Ended
<1>9. m.socks[s].rx = n.socks[s].rx
  <2>1. Ended(m.socks[s], n.socks[s], far) BY <1>2, <1>6, EndIs
  <2> QED BY <2>1 DEF Ended
<1>10. m.socks[l].rx = n.socks[l].rx
  <2>1. Enqueued(m.socks[l], n.socks[l], far) BY <1>2, <1>6, QueueingIs
  <2> QED BY <2>1 DEF Enqueued
<1>11. \A t \in Sock : Len(n.socks[t].rx) \in Nat BY <1>1, LenNat
<1>12. ASSUME NEW t \in Sock PROVE Len(m.socks[t].rx) <= Len(n.socks[t].rx)
  <2>1. CASE t = far
    <3>1. Len(m.socks[t].rx) = 0 BY <1>8, <2>1
    <3>2. Len(n.socks[t].rx) \in Nat BY <1>11
    <3> QED BY <3>1, <3>2
  <2>2. CASE t # far
    <3>1. m.socks[t].rx = n.socks[t].rx BY <1>7, <1>9, <1>10, <2>2
    <3> QED BY <1>11, <3>1
  <2> QED BY <2>1, <2>2
<1> QED BY <1>4, <1>12 DEF Calms

LEMMA ConnectKeeps ==
    ASSUME Stands(net), NEW p \in Proc, NEW s \in Sock, NEW dest \in Program[p].dests, Connect(p, s, dest)
    PROVE  Keeps
<1>1. PICK k, l, far : Connects(net, net', k, s, l, far) BY ConnectIs
<1>2. Stands(k) /\ k.socks = net.socks BY <1>1 DEF Connects
<1>3. CASE net' = k
  <2>1. \A t \in Sock : Len(net.socks[t].rx) \in Nat BY Standing, LenNat
  <2>2. Calms(net, net') BY <1>2, <1>3, <2>1 DEF Calms
  <2> QED BY <1>2, <1>3, <2>2, CalmKeeps
<1>4. CASE far \in Sock /\ net.socks[far].state = "free" /\ Joins(k, net', s, l, far)
  <2>1. l \in Sock /\ k.socks[s].state \in {"new", "bound"} /\ k.socks[s].refs > 0
        /\ k.socks[l].state = "listening" /\ k.socks[far].state = "free"
    BY <1>1, <1>2, <1>4 DEF Connects
  <2>2. Stands(net') /\ Calms(k, net') BY <1>2, <1>4, <2>1, JoinStands
  <2>3. Calms(net, net') BY <1>2, <2>2 DEF Calms
  <2> QED BY <2>2, <2>3, CalmKeeps
<1> QED BY <1>1, <1>3, <1>4 DEF Connects

LEMMA AcceptKeeps ==
    ASSUME Stands(net), NEW p \in Proc, NEW l \in Sock, Accept(p, l)
    PROVE  Keeps
<1> DEFINE queue == net.socks[l].backlog
<1>1. net.socks[l].state = "listening" BY DEF Accept
<1>2. CASE queue = <<>> BY <1>2, SameKeeps DEF Accept, Sleeps
<1>3. CASE queue # <<>>
  <2> DEFINE x == [net EXCEPT !.socks[l].backlog = Tail(@)]
             far == Head(net.socks[l].backlog)
  <2>1. net' = AddRefs(x, p, far, 1) BY <1>3 DEF Accept, Succeeds
  <2>9. x = [net EXCEPT !.socks[l].backlog = Tail(@)] /\ far = Head(net.socks[l].backlog) OBVIOUS
  <2> HIDE DEF x, far
  <2>2. net \in NetRec /\ Hangs(net, NoSock) /\ PortsOK(net) BY Standing
  <2>3. /\ Sets(net, x, l, Shorter(net.socks[l])) /\ x.port = net.port
        /\ far \in Sock /\ Hangs(x, far) /\ ~IsGone(x.socks[far]) /\ ~IsQueued(x, far)
    <3>1. Takes(net, x, l, far) BY <1>1, <1>3, <2>2, <2>9, TakenHangs
    <3> QED BY <3>1 DEF Takes
  <2>4. Hangs(net', NoSock) /\ Recounted(x, net')
    <3>1. 1 \in Nat /\ 1 > 0 OBVIOUS
    <3> QED BY <2>1, <2>3, <3>1, AddHangs
  <2>5. net'.port = net.port BY <2>3, <2>4 DEF Recounted
  <2>6. Stands(net') BY <2>2, <2>4, <2>5 DEF Stands, PortsOK
  <2>7. \A t \in Sock : net'.socks[t].rx = net.socks[t].rx
    <3>1. x \in NetRec BY <2>3 DEF Sets
    <3>2. \A t \in Sock : net'.socks[t].rx = x.socks[t].rx BY <2>4, <3>1, RecountCalms
    <3>3. x.socks[l] = Shorter(net.socks[l]) /\ \A t \in Sock : t # l => x.socks[t] = net.socks[t]
      BY <2>2, <2>3, SetsIs
    <3>4. Shorter(net.socks[l]).rx = net.socks[l].rx
      <4>1. net.socks[l] \in SockRec BY Standing
      <4> QED BY <4>1 DEF Shorter, SockRec
    <3> QED BY <3>2, <3>3, <3>4
  <2>8. Calms(net, net')
    <3>1. \A t \in Sock : Len(net.socks[t].rx) \in Nat BY <2>2, LenNat
    <3> QED BY <2>7, <3>1 DEF Calms
  <2> QED BY <2>6, <2>8, CalmKeeps
<1> QED BY <1>2, <1>3

LEMMA MinTwo ==
    ASSUME NEW a \in Int, NEW b \in Int
    PROVE  Min({a, b}) \in {a, b} /\ Min({a, b}) <= a /\ Min({a, b}) <= b
<1>1. \E x \in {a, b} : \A y \in {a, b} : x <= y
  <2>1. CASE a <= b BY <2>1
  <2>2. CASE b <= a BY <2>2
  <2> QED BY <2>1, <2>2
<1> DEFINE P(x) == x \in {a, b} /\ \A y \in {a, b} : x <= y
<1>2. P(CHOOSE x \in {a, b} : \A y \in {a, b} : x <= y) BY <1>1
<1>3. Min({a, b}) = CHOOSE x \in {a, b} : \A y \in {a, b} : x <= y BY DEF Min
<1> QED BY <1>2, <1>3

LEMMA MinThree ==
    ASSUME NEW a \in Int, NEW b \in Int, NEW c \in Int
    PROVE  /\ Min({a, b, c}) \in {a, b, c}
           /\ Min({a, b, c}) <= a /\ Min({a, b, c}) <= b /\ Min({a, b, c}) <= c
<1> DEFINE S == {a, b, c}
<1>1. \E x \in S : \A y \in S : x <= y
  <2>1. \E x \in {a, b} : x <= a /\ x <= b BY MinTwo
  <2>2. PICK x \in {a, b} : x <= a /\ x <= b BY <2>1
  <2>3. CASE x <= c BY <2>2, <2>3
  <2>4. CASE c <= x BY <2>2, <2>4
  <2> QED BY <2>2, <2>3, <2>4
<1>2. (CHOOSE x \in S : \A y \in S : x <= y) \in S /\ \A y \in S : (CHOOSE x \in S : \A z \in S : x <= z) <= y
  BY <1>1
<1>3. Min(S) = CHOOSE x \in S : \A y \in S : x <= y BY DEF Min
<1> QED BY <1>2, <1>3

LEMMA SizesAre ==
    /\ Ring \in Nat /\ FlightHeader \in Nat /\ FlightHeader > 0 /\ DgramLen \in Nat /\ DgramLen > 0
    /\ DgramLen + 2 * FlightHeader <= Ring
    /\ Modulus \in Nat /\ Modulus > 1 /\ MaxSockets \in Nat /\ Latency \in Nat
  BY SizesAssumption

LEMMA SizeIs == ASSUME NEW pay \in Payload PROVE Size(pay) \in Nat
<1>1. pay.kind \in {"bytes", "fin"} => pay.data \in Seq(Byte)
  <2>1. <<>> \in Seq(Byte) BY EmptySeq
  <2>2. pay.kind = "fin" => pay.data = <<>> BY DEF Payload
  <2>3. pay.kind = "bytes" => pay.data \in Seq(Byte) BY DEF Payload
  <2> QED BY <2>1, <2>2, <2>3
<1>2. pay.kind \in {"bytes", "fin"} => Len(pay.data) \in Nat BY <1>1, LenProperties
<1>3. pay.kind \in {"bytes", "fin", "dgram"} BY DEF Payload
<1> QED BY <1>2, <1>3, SizesAre DEF Size

LEMMA WeightsAre ==
    ASSUME NEW flight \in Seq([left: Nat, pay: Payload])
    PROVE  Weights(flight) \in Seq(Nat) /\ Len(Weights(flight)) = Len(flight)
<1>1. DOMAIN flight = 1..Len(flight) /\ Len(flight) \in Nat BY LenProperties
<1>2. \A i \in DOMAIN flight : flight[i] \in [left: Nat, pay: Payload] BY <1>1, ElementOfSeq
<1>3. \A i \in DOMAIN flight : FlightHeader + Size(flight[i].pay) \in Nat
  <2> TAKE i \in DOMAIN flight
  <2>1. flight[i].pay \in Payload BY <1>2
  <2> QED BY <2>1, SizeIs, SizesAre
<1>4. Weights(flight) \in [1..Len(flight) -> Nat] BY <1>1, <1>3 DEF Weights
<1> HIDE DEF Weights
<1> QED BY <1>1, <1>4, SeqDef, LenProperties

LEMMA FlLenIs ==
    ASSUME NEW sk \in SockRec
    PROVE  FlLen(sk) \in Nat /\ FlLen(sk) = Total(Weights(sk.flight)) /\ (sk.flight = <<>> => FlLen(sk) = 0)
<1>1. sk.flight \in Seq([left: Nat, pay: Payload]) BY DEF SockRec
<1>2. FlLen(sk) = Total(Weights(sk.flight)) BY DEF FlLen, Weights
<1>3. Weights(sk.flight) \in Seq(Nat) /\ Len(Weights(sk.flight)) = Len(sk.flight)
  BY <1>1, WeightsAre
<1>4. Total(Weights(sk.flight)) \in Nat BY <1>3, TotalNat
<1>5. sk.flight = <<>> => Len(Weights(sk.flight)) = 0 BY <1>3
<1>6. sk.flight = <<>> => Total(Weights(sk.flight)) = 0 BY <1>3, <1>5, TotalEmpty
<1> QED BY <1>2, <1>4, <1>6

LEMMA RxLenIs ==
    ASSUME NEW sk \in SockRec
    PROVE  RxLen(sk) \in Nat /\ Len(sk.rx) \in Nat /\ (sk.kind # "dgram" => RxLen(sk) = Len(sk.rx))
<1>1. sk.rx \in Seq(Byte \cup Name) BY DEF SockRec
<1>2. Len(sk.rx) \in Nat BY <1>1, LenProperties
<1>3. DgramLen * Len(sk.rx) \in Nat BY <1>2, SizesAre
<1> QED BY <1>2, <1>3 DEF RxLen

\* The window of a socket, case by case
LEMMA WindowIs ==
    ASSUME NEW sk \in SockRec
    PROVE  /\ Window(sk) \in Int /\ Window(sk) <= Ring - RxLen(sk) - sk.flStream
           /\ sk.flight = <<>> => Window(sk) = Ring - RxLen(sk) - sk.flStream
           /\ sk.flight # <<>> => /\ Window(sk) <= FlightRoom(sk)
                                  /\ Window(sk) \in {FlightRoom(sk), Ring - RxLen(sk) - sk.flStream}
           /\ FlightRoom(sk) \in Nat
           /\ FlLen(sk) + 2 * FlightHeader <= Ring => FlightRoom(sk) = Ring - FlLen(sk) - 2 * FlightHeader
           /\ FlLen(sk) + 2 * FlightHeader > Ring => FlightRoom(sk) = 0
           /\ sk.flight = <<>> => FlightRoom(sk) > 0
<1>1. FlLen(sk) \in Nat /\ RxLen(sk) \in Nat /\ sk.flStream \in Nat BY FlLenIs, RxLenIs DEF SockRec
<1> DEFINE left == Ring - RxLen(sk) - sk.flStream
<1>2. left \in Int BY <1>1, SizesAre
<1>3. /\ FlightRoom(sk) \in Nat
      /\ FlLen(sk) + 2 * FlightHeader <= Ring => FlightRoom(sk) = Ring - FlLen(sk) - 2 * FlightHeader
      /\ FlLen(sk) + 2 * FlightHeader > Ring => FlightRoom(sk) = 0
  BY <1>1, SizesAre DEF FlightRoom
<1>4. sk.flight = <<>> => FlightRoom(sk) > 0
  <2>1. sk.flight = <<>> => FlLen(sk) = 0 BY FlLenIs
  <2> QED BY <1>3, <2>1, SizesAre
<1> DEFINE w == Min({left, FlightRoom(sk)})
<1>5. w \in {left, FlightRoom(sk)} /\ w <= left /\ w <= FlightRoom(sk)
  <2>1. FlightRoom(sk) \in Int BY <1>3
  <2> DEFINE r == FlightRoom(sk)
  <2>2. left \in Int /\ r \in Int BY <1>2, <2>1
  <2> HIDE DEF left, r
  <2>3. Min({left, r}) \in {left, r} /\ Min({left, r}) <= left /\ Min({left, r}) <= r
    BY <2>2, MinTwo
  <2> QED BY <2>3 DEF r
<1>6. Window(sk) = IF sk.flight = <<>> THEN left ELSE w BY DEF Window
<1> HIDE DEF w
<1>7. CASE sk.flight = <<>> BY <1>2, <1>3, <1>4, <1>6, <1>7
<1>8. CASE sk.flight # <<>> BY <1>2, <1>3, <1>4, <1>5, <1>6, <1>8
<1> QED BY <1>7, <1>8

LEMMA FitsIs ==
    ASSUME NEW sk \in SockRec, NEW from, NEW k \in Nat
    PROVE  /\ Fits(from, sk, k) \in Int /\ Fits(from, sk, k) <= k
           /\ ArrivesNow(from, sk) => Fits(from, sk, k) <= Ring - RxLen(sk)
           /\ ~ArrivesNow(from, sk) => Fits(from, sk, k) <= Window(sk) /\ Fits(from, sk, k) <= FlightRoom(sk)
           /\ k > 0 /\ Fits(from, sk, k) = 0 => Window(sk) <= 0
<1>1. Window(sk) \in Int /\ FlightRoom(sk) \in Nat /\ RxLen(sk) \in Nat /\ sk.flStream \in Nat
  BY WindowIs, RxLenIs DEF SockRec
<1> DEFINE room == Ring - RxLen(sk)
<1>2. room \in Int BY <1>1, SizesAre
<1>3. CASE ArrivesNow(from, sk)
  <2>1. Fits(from, sk, k) = Min({k, room}) BY <1>3 DEF Fits
  <2> HIDE DEF room
  <2>2. Min({k, room}) \in {k, room} /\ Min({k, room}) <= k /\ Min({k, room}) <= room
    BY <1>2, MinTwo
  <2>3. sk.flight = <<>> BY <1>3 DEF ArrivesNow
  <2>4. Window(sk) = room - sk.flStream BY <2>3, WindowIs DEF room
  <2> QED BY <1>1, <1>2, <1>3, <2>1, <2>2, <2>4 DEF room
<1>4. CASE ~ArrivesNow(from, sk)
  <2> DEFINE w == Window(sk)
             r == FlightRoom(sk)
             f == Fits(from, sk, k)
  <2>1. f = Min({k, w, r}) BY <1>4 DEF Fits
  <2>2. sk.flight # <<>> => w <= r BY WindowIs
  <2>3. sk.flight = <<>> => r > 0 BY WindowIs
  <2>4. w \in Int /\ r \in Nat BY <1>1
  <2> HIDE DEF w, r, f
  <2>5. f \in {k, w, r} /\ f <= k /\ f <= w /\ f <= r BY <2>1, <2>4, MinThree
  <2>6. f \in Int /\ (k > 0 /\ f = 0 => w <= 0) BY <2>2, <2>3, <2>4, <2>5
  <2> QED BY <1>4, <2>5, <2>6 DEF f, w, r
<1> QED BY <1>3, <1>4

LEMMA NumberedIs ==
    ASSUME NEW from \in Number, NEW k \in Int
    PROVE  Numbered(from, k) \in Seq(Byte) /\ (k >= 0 => Len(Numbered(from, k)) = k)
<1>1. \A i \in 1..k : (from + i - 1) % Modulus \in Number BY SizesAre DEF Number
<1>2. Numbered(from, k) \in [1..k -> Byte] BY <1>1 DEF Numbered, Byte
<1>3. CASE k >= 0
  <2>1. k \in Nat BY <1>3
  <2> HIDE DEF Numbered
  <2>2. Numbered(from, k) \in Seq(Byte) BY <1>2, <2>1, SeqDef
  <2> QED BY <1>2, <2>1, <2>2, LenProperties
<1>4. CASE k < 0
  <2>1. 1..k = 1..0 BY <1>4
  <2>2. Numbered(from, k) \in [1..0 -> Byte] BY <1>2, <2>1
  <2> QED BY <1>4, <2>2, SeqDef
<1> QED BY <1>3, <1>4

LEMMA PutStands ==
    ASSUME NEW n, Stands(n), NEW s \in Sock, NEW r, Lively(r, n.socks[s]),
           NEW m, m = [n EXCEPT !.socks = [n.socks EXCEPT ![s] = r]]
    PROVE  Livens(n, m, s, r) /\ (Len(r.rx) <= Len(n.socks[s].rx) => Calms(n, m))
<1>1. n \in NetRec /\ r \in SockRec BY Standing DEF Lively
<1>2. Sets(n, m, s, r) /\ m.port = n.port BY <1>1, SetIs
<1>3. Puts(n, m, s, r) BY <1>2 DEF Sets, Puts
<1>4. Quiet(n, m) BY <1>1, <1>3, PutQuiet
<1>5. Stands(m) BY <1>2, <1>4, QuietStands
<1>6. m.socks[s] = r /\ \A t \in Sock : t # s => m.socks[t] = n.socks[t]
  <2>1. m.socks = [n.socks EXCEPT ![s] = r] BY <1>2 DEF Sets
  <2>2. n.socks \in [Sock -> SockRec] BY <1>1 DEF NetRec
  <2> QED BY <2>1, <2>2
<1>7. Len(r.rx) <= Len(n.socks[s].rx) => Calms(n, m) BY <1>1, <1>2, SetCalms
<1> QED BY <1>2, <1>4, <1>5, <1>6, <1>7 DEF Livens, Sets

LEMMA WithRxIs ==
    ASSUME NEW sk \in SockRec, NEW rx \in Seq(Byte \cup Name)
    PROVE  Lively(WithRx(sk, rx), sk) /\ WithRx(sk, rx).rx = rx /\ WithRx(sk, rx).flight = sk.flight
           /\ WithRx(sk, rx).flStream = sk.flStream /\ WithRx(sk, rx).fin = sk.fin
           /\ WithRx(sk, rx).rdNew = sk.rdNew /\ WithRx(sk, rx).wrNew = sk.wrNew
<1>1. WithRx(sk, rx) \in SockRec BY DEF WithRx, SockRec
<1>2. WithRx(sk, rx) \in SockRec => Lively(WithRx(sk, rx), sk)
  BY DEF Lively, WithRx, SockRec, Alike, Named
<1>3. WithRx(sk, rx).rx = rx /\ WithRx(sk, rx).flight = sk.flight
      /\ WithRx(sk, rx).flStream = sk.flStream /\ WithRx(sk, rx).fin = sk.fin
      /\ WithRx(sk, rx).rdNew = sk.rdNew /\ WithRx(sk, rx).wrNew = sk.wrNew
  BY DEF WithRx, SockRec
<1> QED BY <1>1, <1>2, <1>3

LEMMA FlaggedIs ==
    ASSUME NEW sk \in SockRec, NEW rd \in BOOLEAN, NEW wr \in BOOLEAN
    PROVE  Lively(Flagged(sk, rd, wr), sk) /\ Flagged(sk, rd, wr).rx = sk.rx
           /\ Flagged(sk, rd, wr).flight = sk.flight /\ Flagged(sk, rd, wr).flStream = sk.flStream
           /\ Flagged(sk, rd, wr).fin = sk.fin
           /\ Flagged(sk, rd, wr).rdNew = rd /\ Flagged(sk, rd, wr).wrNew = wr
<1>1. Flagged(sk, rd, wr) \in SockRec BY DEF Flagged, SockRec
<1>2. Flagged(sk, rd, wr) \in SockRec => Lively(Flagged(sk, rd, wr), sk)
  BY DEF Lively, Flagged, SockRec, Alike, Named
<1>3. /\ Flagged(sk, rd, wr).rx = sk.rx /\ Flagged(sk, rd, wr).flight = sk.flight
      /\ Flagged(sk, rd, wr).flStream = sk.flStream /\ Flagged(sk, rd, wr).fin = sk.fin
      /\ Flagged(sk, rd, wr).rdNew = rd /\ Flagged(sk, rd, wr).wrNew = wr
  BY DEF Flagged, SockRec
<1> QED BY <1>1, <1>2, <1>3

LEMMA RdNewIs ==
    ASSUME NEW n \in NetRec, NEW t \in Sock, NEW rd \in BOOLEAN
    PROVE  [n EXCEPT !.socks[t].rdNew = rd]
           = [n EXCEPT !.socks = [n.socks EXCEPT ![t] = Flagged(n.socks[t], rd, n.socks[t].wrNew)]]
<1> DEFINE sk == n.socks[t]
<1>1. sk \in SockRec BY DEF NetRec
<1> HIDE DEF sk
<1>2. [sk EXCEPT !.rdNew = rd] = Flagged(sk, rd, sk.wrNew) BY <1>1 DEF Flagged, SockRec
<1>3. [n EXCEPT !.socks[t].rdNew = rd] = [n EXCEPT !.socks = [n.socks EXCEPT ![t] = [sk EXCEPT !.rdNew = rd]]]
  BY DEF sk
<1> QED BY <1>2, <1>3 DEF sk

LEMMA FlaggedStands ==
    ASSUME NEW n, Stands(n), NEW t \in Sock, NEW rd \in BOOLEAN, NEW wr \in BOOLEAN,
           NEW m, m = [n EXCEPT !.socks = [n.socks EXCEPT ![t] = Flagged(n.socks[t], rd, wr)]]
    PROVE  Livens(n, m, t, Flagged(n.socks[t], rd, wr)) /\ Calms(n, m)
<1> DEFINE r == Flagged(n.socks[t], rd, wr)
<1>1. n \in NetRec /\ n.socks[t] \in SockRec /\ Len(n.socks[t].rx) \in Nat BY Standing, LenNat
<1>2. Lively(r, n.socks[t]) /\ r.rx = n.socks[t].rx BY <1>1, FlaggedIs
<1>3. m = [n EXCEPT !.socks = [n.socks EXCEPT ![t] = r]] OBVIOUS
<1> HIDE DEF r
<1>4. Len(r.rx) <= Len(n.socks[t].rx) BY <1>1, <1>2
<1>5. Livens(n, m, t, r) /\ Calms(n, m) BY <1>2, <1>3, <1>4, PutStands
<1> QED BY <1>5 DEF r

\* A call that waits for room leaves all but flags.
LEMMA CrowdsIs ==
    ASSUME net \in NetRec, NEW p, NEW op, NEW s, NEW t \in Sock, WaitsForRoom(p, op, s, t)
    PROVE  \E rd : Crowds(p, op, s, t, rd)
<1> DEFINE same == [net EXCEPT !.socks = [net.socks EXCEPT ![t] =
                       Flagged(net.socks[t], net.socks[t].rdNew, net.socks[t].wrNew)]]
<1>1. net.socks[t] \in SockRec /\ net.socks[t].rdNew \in BOOLEAN BY DEF NetRec, SockRec
<1>2. CASE Sleeps(p, op, s)
  <2>1. Flagged(net.socks[t], net.socks[t].rdNew, net.socks[t].wrNew) = net.socks[t] BY <1>1 DEF Flagged, SockRec
  <2>2. net = same BY <2>1 DEF NetRec
  <2> HIDE DEF same
  <2>3. net' = same /\ net' = net BY <1>2, <2>2 DEF Sleeps
  <2>4. Crowds(p, op, s, t, net.socks[t].rdNew) BY <1>1, <1>2, <2>3 DEF Crowds, Sleeps, same
  <2> QED BY <2>4
<1>3. CASE ~Sleeps(p, op, s)
  <2>1. net' = [net EXCEPT !.socks[t].rdNew = TRUE] BY <1>3 DEF WaitsForRoom
  <2>2. Crowds(p, op, s, t, TRUE) BY <1>3, <2>1, RdNewIs DEF WaitsForRoom, Crowds
  <2> QED BY <2>2
<1> QED BY <1>2, <1>3

LEMMA CrowdsStands ==
    ASSUME Stands(net), NEW p, NEW op, NEW s, NEW t, NEW rd, Crowds(p, op, s, t, rd)
    PROVE  Stands(net') /\ Calms(net, net') /\ net'.refs = net.refs
<1>1. t \in Sock /\ rd \in BOOLEAN /\ net.socks[t].wrNew \in BOOLEAN BY Standing DEF Crowds, NetRec, SockRec
<1>2. Livens(net, net', t, Flagged(net.socks[t], rd, net.socks[t].wrNew)) /\ Calms(net, net')
  BY <1>1, FlaggedStands DEF Crowds
<1> QED BY <1>2 DEF Livens, Quiet

LEMMA CrowdsKeeps ==
    ASSUME Stands(net), NEW p, NEW op, NEW s, NEW t, NEW rd, Crowds(p, op, s, t, rd)
    PROVE  Keeps
BY CrowdsStands, CalmKeeps

\* What is sent to a stream: some bytes, unless none fit
LEMMA SendIs ==
    ASSUME Stands(net), hist \in HistRec, NEW p \in Proc, NEW s \in Sock, NEW k \in Sizes, Send(p, s, k)
    PROVE  /\ net.socks[s].state = "connected" /\ net.socks[s].far \in Sock
           /\ \/ net' = net
              \/ \E rd : Crowds(p, "send", s, net.socks[s].far, rd)
              \/ \E pay \in Payload : /\ pay.kind = "bytes"
                                      /\ net' = Deliver(net, net.socks[s].host, net.socks[s].far, pay)
                                      /\ net.socks[net.socks[s].far].state = "connected"
<1> DEFINE sk == net.socks[s]
           peer == net.socks[net.socks[s].far]
           taken == Fits(sk.host, peer, k)
<1>1. sk.state = "connected" /\ sk.far \in Sock BY FarIs DEF Send
<1>2. CASE sk.shutWr \/ peer.state # "connected" \/ peer.shutRd \/ taken = 0
  <2>1. net' = net \/ WaitsForRoom(p, "send", s, sk.far) BY <1>2 DEF Send, Fails
  <2>2. net \in NetRec BY Standing
  <2> HIDE DEF sk
  <2> QED BY <1>1, <2>1, <2>2, CrowdsIs DEF sk
<1>3. CASE ~(sk.shutWr \/ peer.state # "connected" \/ peer.shutRd \/ taken = 0)
  <2> DEFINE data == Numbered(hist.sent[s], taken)
             pay == Bytes(data)
  <2>1. net' = Deliver(net, sk.host, sk.far, pay) BY <1>3 DEF Send
  <2>2. peer \in SockRec /\ k \in Nat BY <1>1, Standing, InputsAssumption
  <2>3. taken \in Int
    <3> HIDE DEF peer
    <3> QED BY <2>2, FitsIs
  <2>4. hist.sent[s] \in Number BY DEF HistRec
  <2>5. data \in Seq(Byte)
    <3> HIDE DEF taken
    <3> QED BY <2>3, <2>4, NumberedIs
  <2> HIDE DEF data
  <2>6. pay \in Payload /\ pay.kind = "bytes" BY <2>5, PayloadIs
  <2> QED BY <1>1, <1>3, <2>1, <2>6
<1> QED BY <1>1, <1>2, <1>3

LEMMA SendKeeps ==
    ASSUME Stands(net), hist \in HistRec, NEW p \in Proc, NEW s \in Sock, NEW k \in Sizes, Send(p, s, k)
    PROVE  Keeps
<1>1. CASE net' = net BY <1>1, SameKeeps
<1>3. CASE \E rd : Crowds(p, "send", s, net.socks[s].far, rd) BY <1>3, CrowdsKeeps
<1>2. CASE \E pay \in Payload : net' = Deliver(net, net.socks[s].host, net.socks[s].far, pay)
  <2>1. PICK pay \in Payload : net' = Deliver(net, net.socks[s].host, net.socks[s].far, pay) BY <1>2
  <2>2. net.socks[s].far \in Sock BY SendIs
  <2> QED BY <2>1, <2>2, DeliverStands DEF Keeps
<1> QED BY <1>1, <1>2, <1>3, SendIs

\* Bytes are taken off a ring, and the sender is told.
LEMMA ReceivedShape ==
    ASSUME NEW n, Stands(n), NEW s \in Sock, n.socks[s].state = "connected", NEW k \in Nat, k <= Len(n.socks[s].rx),
           NEW m, m = Received(n, s, k)
    PROVE  \E rx \in Seq(Byte \cup Name) :
              Len(rx) <= Len(n.socks[s].rx) /\ m = Writable(RingSet(n, s, rx), n.socks[s].far)
<1> DEFINE rx == SubSeq(n.socks[s].rx, k + 1, Len(n.socks[s].rx))
<1>1. n \in NetRec /\ n.socks[s] \in SockRec /\ n.socks[s].far \in Sock BY Standing, FarIs
<1>2. n.socks[s].rx \in Seq(Byte \cup Name) /\ Len(n.socks[s].rx) \in Nat BY <1>1, LenNat
<1>3. rx \in Seq(Byte \cup Name) /\ Len(rx) = Len(n.socks[s].rx) - k
  <2> DEFINE q == n.socks[s].rx
             S == Byte \cup Name
  <2>1. q \in Seq(S) /\ k + 1 \in 1..(Len(q) + 1) /\ Len(q) \in Nat BY <1>2
  <2> HIDE DEF q, S
  <2>2. \A i \in (k + 1)..Len(q) : q[i] \in S BY <2>1, ElementOfSeq
  <2>3. SubSeq(q, k + 1, Len(q)) \in Seq(S) BY <2>1, <2>2, SubSeqProperties
  <2>4. Len(SubSeq(q, k + 1, Len(q))) = IF k + 1 <= Len(q) THEN Len(q) - (k + 1) + 1 ELSE 0
    BY <2>1, <2>2, SubSeqProperties
  <2> QED BY <1>2, <2>3, <2>4 DEF q, S
<1>4. m = Writable(RingSet(n, s, rx), n.socks[s].far) BY <1>1 DEF Received, WithRx, NetRec, RingSet
<1>5. Len(rx) <= Len(n.socks[s].rx) BY <1>2, <1>3
<1> QED BY <1>3, <1>4, <1>5

LEMMA RingSetIs ==
    ASSUME NEW n, Stands(n), NEW s \in Sock, NEW rx \in Seq(Byte \cup Name), Len(rx) <= Len(n.socks[s].rx),
           NEW x, x = RingSet(n, s, rx)
    PROVE  Livens(n, x, s, WithRx(n.socks[s], rx)) /\ Calms(n, x)
<1>1. n.socks[s] \in SockRec BY Standing
<1>2. Lively(WithRx(n.socks[s], rx), n.socks[s]) /\ WithRx(n.socks[s], rx).rx = rx BY <1>1, WithRxIs
<1>3. x = [n EXCEPT !.socks = [n.socks EXCEPT ![s] = WithRx(n.socks[s], rx)]] BY DEF RingSet
<1> QED BY <1>2, <1>3, PutStands

LEMMA ReceivedIs ==
    ASSUME NEW n, Stands(n), NEW s \in Sock, n.socks[s].state = "connected", NEW k \in Nat, k <= Len(n.socks[s].rx),
           NEW m, m = Received(n, s, k)
    PROVE  Stands(m) /\ Calms(n, m) /\ Quiet(n, m)
<1>1. PICK rx \in Seq(Byte \cup Name) :
          Len(rx) <= Len(n.socks[s].rx) /\ m = Writable(RingSet(n, s, rx), n.socks[s].far)
  BY ReceivedShape
<1> DEFINE x == RingSet(n, s, rx)
<1>2. n.socks[s].far \in Sock BY FarIs
<1>3. Livens(n, x, s, WithRx(n.socks[s], rx)) /\ Calms(n, x) BY <1>1, RingSetIs
<1>4. Stands(x) /\ Quiet(n, x) /\ x \in NetRec BY <1>3 DEF Livens
<1>5. m = Writable(x, n.socks[s].far) BY <1>1
<1> HIDE DEF x
<1>6. /\ Stands(m) /\ Quiet(x, m)
      /\ \A t \in Sock : m.socks[t].rx = x.socks[t].rx /\ m.socks[t].flight = x.socks[t].flight
  BY <1>2, <1>4, <1>5, WritableStands
<1>7. Calms(n, m)
  <2>1. \A t \in Sock : IsGone(m.socks[t]) <=> IsGone(x.socks[t])
    BY <1>6 DEF Quiet, Lively, Alike, IsGone
  <2> QED BY <1>3, <1>6, <2>1 DEF Calms
<1>8. Quiet(n, m) BY <1>4, <1>6, QuietTrans
<1> QED BY <1>6, <1>7, <1>8

LEMMA RecvKeeps ==
    ASSUME Stands(net), NEW p \in Proc, NEW s \in Sock, NEW k \in Sizes, Recv(p, s, k)
    PROVE  Keeps
<1> DEFINE m == Min({k, Len(net.socks[s].rx)})
<1>1. net' = net \/ net' = Received(net, s, m) BY DEF Recv, Sleeps
<1>2. net.socks[s].state = "connected" BY DEF Recv
<1>3. m \in Nat /\ m <= Len(net.socks[s].rx)
  <2> DEFINE j == Len(net.socks[s].rx)
  <2>1. j \in Nat /\ k \in Nat BY Standing, LenNat, InputsAssumption
  <2> HIDE DEF j
  <2>2. Min({k, j}) \in {k, j} /\ Min({k, j}) <= j BY <2>1, MinTwo, SMTT(40)
  <2> QED BY <2>1, <2>2 DEF j
<1> HIDE DEF m
<1>4. CASE net' = net BY <1>4, SameKeeps
<1>5. CASE net' = Received(net, s, m)
  <2>1. Stands(net') /\ Calms(net, net') BY <1>2, <1>3, <1>5, ReceivedIs
  <2> QED BY <2>1, CalmKeeps
<1> QED BY <1>1, <1>4, <1>5

LEMMA SameTrans ==
    ASSUME NEW n, Stands(n), NEW k, Same(n, k), NEW m, Same(k, m)
    PROVE  Same(n, m)
<1>1. n \in NetRec /\ k \in NetRec /\ m \in NetRec BY Standing DEF Same
<1>2. \A t \in Sock : IsGone(k.socks[t]) => IsGone(m.socks[t]) BY DEF Same, IsGone
<1>3. Calms(n, m) BY <1>1, <1>2, CalmTrans DEF Same
<1> QED BY <1>3 DEF Same

LEMMA QuietSame ==
    ASSUME NEW n, NEW m, Stands(m), Quiet(n, m), Calms(n, m)
    PROVE  Same(n, m)
<1>1. \A t \in Sock : IsQueued(m, t) <=> IsQueued(n, t) BY QuietQueues
<1> QED BY <1>1 DEF Same, Quiet, Lively, Alike

\* One direction of s is shut.
LEMMA ShutIs ==
    ASSUME NEW n, Stands(n), NEW s \in Sock, ~IsQueued(n, s), NEW r \in SockRec, Named(r, n.socks[s]),
           r.state = n.socks[s].state, r.far = n.socks[s].far, r.refs = n.socks[s].refs,
           r.backlog = n.socks[s].backlog, Len(r.rx) <= Len(n.socks[s].rx),
           NEW m, m = [n EXCEPT !.socks = [n.socks EXCEPT ![s] = r]]
    PROVE  Same(n, m)
<1>1. n \in NetRec /\ PortsOK(n) /\ Hangs(n, NoSock) BY Standing
<1>2. Sets(n, m, s, r) /\ m.port = n.port BY <1>1, SetIs
<1>3. m.socks[s] = r /\ \A t \in Sock : t # s => m.socks[t] = n.socks[t]
  <2>1. m.socks = [n.socks EXCEPT ![s] = r] BY <1>2 DEF Sets
  <2>2. n.socks \in [Sock -> SockRec] BY <1>1 DEF NetRec
  <2> QED BY <2>1, <2>2
<1>4. Altered(r, n.socks[s]) BY DEF Altered
<1>5. PortsOK(m) BY <1>1, <1>2 DEF PortsOK
<1>6. Stands(m) BY <1>2, <1>4, <1>5, SetStands
<1>7. Calms(n, m) BY <1>1, <1>2, SetCalms
<1>8. \A t \in Sock : /\ m.socks[t].state = n.socks[t].state /\ m.socks[t].far = n.socks[t].far
                      /\ m.socks[t].host = n.socks[t].host /\ m.socks[t].kind = n.socks[t].kind
                      /\ m.socks[t].backlog = n.socks[t].backlog
  BY <1>3 DEF Named
<1>9. \A t \in Sock : IsQueued(m, t) <=> IsQueued(n, t) BY <1>8 DEF IsQueued, InQueue
<1> QED BY <1>6, <1>7, <1>8, <1>9 DEF Same

LEMMA NotReadingIs ==
    ASSUME NEW sk \in SockRec
    PROVE  LET r == NotReading(sk) IN
           /\ r \in SockRec /\ Named(r, sk) /\ r.state = sk.state /\ r.far = sk.far /\ r.refs = sk.refs
           /\ r.backlog = sk.backlog /\ r.rx = <<>> /\ r.shutRd /\ r.shutWr = sk.shutWr
           /\ r.flight = sk.flight /\ r.flStream = sk.flStream /\ r.fin = sk.fin
           /\ r.rdNew = sk.rdNew /\ r.wrNew = sk.wrNew
<1>1. <<>> \in Seq(Byte \cup Name) BY EmptySeq
<1> QED BY <1>1 DEF NotReading, SockRec, Named

LEMMA NotWritingIs ==
    ASSUME NEW sk \in SockRec
    PROVE  LET r == NotWriting(sk) IN
           /\ r \in SockRec /\ Named(r, sk) /\ r.state = sk.state /\ r.far = sk.far /\ r.refs = sk.refs
           /\ r.backlog = sk.backlog /\ r.rx = sk.rx /\ r.shutRd = sk.shutRd /\ r.shutWr
           /\ r.flight = sk.flight /\ r.flStream = sk.flStream /\ r.fin = sk.fin
           /\ r.rdNew = sk.rdNew /\ r.wrNew = sk.wrNew
  BY DEF NotWriting, SockRec, Named

LEMMA ReadEndIs ==
    ASSUME NEW n, Stands(n), NEW s \in Sock, n.socks[s].state = "connected", ~IsQueued(n, s)
    PROVE  /\ Same(n, ReadEnd(n, s)) /\ Same(n, NoLongerReads(n, s))
           /\ NoLongerReads(n, s) = Writable(ReadEnd(n, s), n.socks[s].far)
<1> DEFINE r == NotReading(n.socks[s])
           x == ReadEnd(n, s)
           m == NoLongerReads(n, s)
<1>1. n \in NetRec /\ n.socks[s] \in SockRec /\ n.socks[s].far \in Sock /\ Len(n.socks[s].rx) \in Nat
  BY Standing, FarIs, LenNat
<1>2. /\ r \in SockRec /\ Named(r, n.socks[s]) /\ r.state = n.socks[s].state /\ r.far = n.socks[s].far
      /\ r.refs = n.socks[s].refs /\ r.backlog = n.socks[s].backlog /\ r.rx = <<>>
  BY <1>1, NotReadingIs
<1>3. m = Writable(x, n.socks[s].far) BY <1>1 DEF NoLongerReads, ReadEnd, NotReading, NetRec
<1>4. x = [n EXCEPT !.socks = [n.socks EXCEPT ![s] = r]] BY DEF ReadEnd
<1> HIDE DEF r, x, m
<1>5. Len(r.rx) <= Len(n.socks[s].rx)
  <2>1. Len(r.rx) = 0 BY <1>2
  <2> QED BY <1>1, <2>1
<1>6. Same(n, x) BY <1>2, <1>4, <1>5, ShutIs
<1>7. Stands(x) BY <1>6 DEF Same
<1>8. Stands(m) /\ Quiet(x, m) /\ \A t \in Sock : m.socks[t].rx = x.socks[t].rx
  BY <1>1, <1>3, <1>7, WritableStands
<1>9. Calms(x, m)
  <2>1. \A t \in Sock : Len(x.socks[t].rx) \in Nat BY <1>7, Standing, LenNat
  <2> QED BY <1>8, <2>1 DEF Calms
<1>10. Same(x, m) BY <1>8, <1>9, QuietSame
<1>11. Same(n, m) BY <1>6, <1>10, SameTrans
<1> QED BY <1>3, <1>6, <1>11 DEF x, m

LEMMA WriteEndIs ==
    ASSUME NEW n, Stands(n), NEW s \in Sock, n.socks[s].state = "connected", ~IsQueued(n, s)
    PROVE  /\ Same(n, WriteEnd(n, s)) /\ Same(n, NoLongerWrites(n, s))
           /\ ~n.socks[s].shutWr =>
                 NoLongerWrites(n, s) = Deliver(WriteEnd(n, s), n.socks[s].host, n.socks[s].far, Fin)
           /\ n.socks[s].shutWr => NoLongerWrites(n, s) = n
<1> DEFINE r == NotWriting(n.socks[s])
           x == WriteEnd(n, s)
           m == NoLongerWrites(n, s)
<1>1. n \in NetRec /\ n.socks[s] \in SockRec /\ n.socks[s].far \in Sock /\ Len(n.socks[s].rx) \in Nat
  BY Standing, FarIs, LenNat
<1>2. /\ r \in SockRec /\ Named(r, n.socks[s]) /\ r.state = n.socks[s].state /\ r.far = n.socks[s].far
      /\ r.refs = n.socks[s].refs /\ r.backlog = n.socks[s].backlog /\ r.rx = n.socks[s].rx
  BY <1>1, NotWritingIs
<1>3. /\ ~n.socks[s].shutWr => m = Deliver(x, n.socks[s].host, n.socks[s].far, Fin)
      /\ n.socks[s].shutWr => m = n
  BY <1>1 DEF NoLongerWrites, WriteEnd, NotWriting, NetRec
<1>4. x = [n EXCEPT !.socks = [n.socks EXCEPT ![s] = r]] BY DEF WriteEnd
<1> HIDE DEF r, x, m
<1>5. Len(r.rx) <= Len(n.socks[s].rx) BY <1>1, <1>2
<1>6. Same(n, x) BY <1>2, <1>4, <1>5, ShutIs
<1>7. Stands(x) BY <1>6 DEF Same
<1>8. Same(n, n)
  <2>1. \A t \in Sock : Len(n.socks[t].rx) \in Nat BY <1>1, LenNat
  <2> QED BY <2>1 DEF Same, Calms
<1>9. ASSUME ~n.socks[s].shutWr PROVE Same(n, m)
  <2>1. m = Deliver(x, n.socks[s].host, n.socks[s].far, Fin) BY <1>3, <1>9
  <2>2. Fin \in Payload /\ Fin.kind = "fin" BY PayloadIs
  <2>3. Stands(m) /\ Quiet(x, m) /\ Calms(x, m) BY <1>1, <1>7, <2>1, <2>2, DeliverStands
  <2>4. Same(x, m) BY <2>3, QuietSame
  <2> QED BY <1>6, <2>4, SameTrans
<1> QED BY <1>3, <1>6, <1>8, <1>9 DEF x, m

LEMMA ShutdownKeeps ==
    ASSUME Stands(net), NEW p \in Proc, NEW s \in Sock, NEW read \in BOOLEAN, NEW write \in BOOLEAN,
           Shutdown(p, s, read, write)
    PROVE  Keeps
<1> DEFINE k == IF read THEN NoLongerReads(net, s) ELSE net
<1>1. /\ net.socks[s].state = "connected" /\ May(p, "none", s)
      /\ net' = IF write THEN NoLongerWrites(k, s) ELSE k
  BY DEF Shutdown
<1>2. ~IsQueued(net, s) BY <1>1, MayIs
<1>3. Same(net, net)
  <2>1. \A t \in Sock : Len(net.socks[t].rx) \in Nat BY Standing, LenNat
  <2> QED BY <2>1 DEF Same, Calms
<1>4. Same(net, k)
  <2>1. CASE read
    <3>1. k = NoLongerReads(net, s) BY <2>1
    <3> QED BY <1>1, <1>2, <3>1, ReadEndIs
  <2>2. CASE ~read BY <1>3, <2>2
  <2> QED BY <2>1, <2>2
<1> HIDE DEF k
<1>5. Stands(k) /\ k.socks[s].state = "connected" /\ ~IsQueued(k, s) BY <1>1, <1>2, <1>4 DEF Same
<1>6. Same(net, net')
  <2>1. CASE write
    <3>1. net' = NoLongerWrites(k, s) BY <1>1, <2>1
    <3>2. Same(k, net') BY <1>5, <3>1, WriteEndIs
    <3> QED BY <1>4, <3>2, SameTrans
  <2>2. CASE ~write BY <1>1, <1>4, <2>2
  <2> QED BY <2>1, <2>2
<1> QED BY <1>6, CalmKeeps DEF Same

\* A socket that sends or connects is bound first.
LEMMA BoundIfNewIs ==
    ASSUME NEW n, Stands(n), NEW s \in Sock, NeedsPort(n, s) => CanBindAny(n, s), NEW m, m = BoundIfNew(n, s)
    PROVE  /\ Stands(m) /\ Calms(n, m)
           /\ \A t \in Sock : m.socks[t].rx = n.socks[t].rx /\ m.socks[t].flight = n.socks[t].flight
           /\ m.socks[s].kind = n.socks[s].kind /\ m.socks[s].family = n.socks[s].family
           /\ n.socks[s].family # "inet" => m = n
           /\ m = n \/ \E name \in Name : Sets(n, m, s, Renamed(n.socks[s], name)) /\ n.socks[s].state = "new"
<1>1. n \in NetRec /\ n.socks[s] \in SockRec BY Standing
<1>2. CASE m = n
  <2>1. \A t \in Sock : Len(n.socks[t].rx) \in Nat BY <1>1, LenNat
  <2> QED BY <1>2, <2>1 DEF Calms
<1>3. CASE NeedsPort(n, s)
  <2>1. m = BoundToAny(n, s, AnyIp) BY <1>3 DEF BoundIfNew
  <2>2. n.socks[s].state = "new" /\ n.socks[s].family = "inet" BY <1>3 DEF NeedsPort
  <2>3. AnyIp \in Host \cup {AnyIp, LoopIp, NoIp} OBVIOUS
  <2>4. NamedAnew(n, m, s) BY <1>3, <2>1, <2>2, <2>3, BoundToAnyNames
  <2>5. PICK name \in Name : Sets(n, m, s, Renamed(n.socks[s], name)) BY <2>4 DEF NamedAnew
  <2> DEFINE r == Renamed(n.socks[s], name)
  <2>6. r.rx = n.socks[s].rx /\ r.flight = n.socks[s].flight /\ r.kind = n.socks[s].kind /\ r.family = n.socks[s].family
    BY <1>1, RenamedIs
  <2>7. m.socks = [n.socks EXCEPT ![s] = r] BY <2>5 DEF Sets
  <2>8. n.socks \in [Sock -> SockRec] BY <1>1 DEF NetRec
  <2> HIDE DEF r
  <2>9. m.socks[s] = r /\ \A t \in Sock : t # s => m.socks[t] = n.socks[t] BY <2>7, <2>8
  <2>10. \A t \in Sock : m.socks[t].rx = n.socks[t].rx /\ m.socks[t].flight = n.socks[t].flight
    BY <2>6, <2>9
  <2>11. Stands(m) /\ Calms(n, m) BY <2>4 DEF NamedAnew
  <2> QED BY <2>2, <2>5, <2>6, <2>9, <2>10, <2>11
<1> QED BY <1>2, <1>3 DEF BoundIfNew

LEMMA KnowingIs ==
    ASSUME NEW n, Stands(n), NEW s \in Sock, NEW dest \in Name,
           NEW m, m = [n EXCEPT !.socks[s].peer = dest, !.socks[s].hasPeer = TRUE]
    PROVE  Stands(m) /\ Calms(n, m) /\ Sets(n, m, s, Knowing(n.socks[s], dest))
<1>1. n \in NetRec /\ n.socks[s] \in SockRec /\ PortsOK(n) BY Standing
<1> DEFINE r == Knowing(n.socks[s], dest)
<1>2. /\ r \in SockRec /\ r.state = n.socks[s].state /\ r.far = n.socks[s].far /\ r.refs = n.socks[s].refs
      /\ r.backlog = n.socks[s].backlog /\ r.shutWr = n.socks[s].shutWr
      /\ r.shutRd = n.socks[s].shutRd /\ r.rx = n.socks[s].rx
  <2> DEFINE sk == n.socks[s]
  <2> HIDE DEF sk
  <2>1. sk \in SockRec BY <1>1 DEF sk
  <2>2. Knowing(sk, dest) \in SockRec BY <2>1 DEF Knowing, SockRec
  <2>3. /\ Knowing(sk, dest).state = sk.state /\ Knowing(sk, dest).far = sk.far
        /\ Knowing(sk, dest).refs = sk.refs /\ Knowing(sk, dest).backlog = sk.backlog
        /\ Knowing(sk, dest).shutWr = sk.shutWr /\ Knowing(sk, dest).shutRd = sk.shutRd
        /\ Knowing(sk, dest).rx = sk.rx
    BY <2>1 DEF Knowing, SockRec
  <2> QED BY <2>2, <2>3 DEF sk
<1>3. m = [n EXCEPT !.socks = [n.socks EXCEPT ![s] = r]] BY <1>1 DEF Knowing, NetRec
<1> HIDE DEF r
<1>4. Sets(n, m, s, r) /\ m.port = n.port
  <2>1. n \in NetRec /\ r \in SockRec BY <1>1, <1>2
  <2> QED BY ONLY <1>3, <2>1, s \in Sock, SetIs
<1>5. Altered(r, n.socks[s]) BY <1>2 DEF Altered
<1>6. PortsOK(m) BY <1>1, <1>4 DEF PortsOK
<1>7. Stands(m) BY <1>2, <1>4, <1>5, <1>6, SetStands
<1>8. Len(r.rx) <= Len(n.socks[s].rx) BY <1>1, <1>2, LenNat
<1>9. Calms(n, m) BY <1>1, <1>4, <1>8, SetCalms
<1> QED BY <1>4, <1>7, <1>9 DEF r

LEMMA ConnectDgramKeeps ==
    ASSUME Stands(net), NEW p \in Proc, NEW s \in Sock, NEW dest \in Program[p].dests, ConnectDgram(p, s, dest)
    PROVE  Keeps
<1> DEFINE k == BoundIfNew(net, s)
<1>1. /\ NeedsPort(net, s) => CanBindAny(net, s)
      /\ net' = [k EXCEPT !.socks[s].peer = dest, !.socks[s].hasPeer = TRUE]
  BY DEF ConnectDgram, Succeeds
<1>2. dest \in Name BY NamesAreNames
<1> HIDE DEF k
<1>3. Stands(k) /\ \A t \in Sock : k.socks[t].rx = net.socks[t].rx BY <1>1, BoundIfNewIs DEF k
<1>4. Stands(net') /\ Calms(k, net') BY <1>1, <1>2, <1>3, KnowingIs
<1>5. Calms(net, net') BY <1>3, <1>4 DEF Calms
<1> QED BY <1>4, <1>5, CalmKeeps

LEMMA HearersAre ==
    ASSUME NEW n, NEW s, NEW h, NEW dest, Hearers(n, s, h, dest) # {}, NEW t, t = First(Hearers(n, s, h, dest))
    PROVE  t \in Sock /\ n.socks[t].kind = "dgram" /\ n.socks[t].state = "bound"
<1>1. Hearers(n, s, h, dest) \in SUBSET Nat BY SockIs DEF Hearers
<1>2. t \in Hearers(n, s, h, dest) BY <1>1, FirstLemma
<1> QED BY <1>2 DEF Hearers

LEMMA SourceNameIs ==
    ASSUME NEW n \in NetRec, NEW s \in Sock, NEW dest
    PROVE  SourceName(n, s, dest) \in Name
<1>1. n.socks[s] \in SockRec BY DEF NetRec
<1>2. n.socks[s].local \in Name /\ n.socks[s].host \in Host BY <1>1 DEF SockRec
<1>3. OwnAddress(n.socks[s].host, dest) \in Host \cup {AnyIp, LoopIp, NoIp} BY <1>2 DEF OwnAddress
<1> QED BY <1>2, <1>3 DEF SourceName, Name

\* What sending a datagram does to the network k in which the sender is bound
Datagram(k, m, t, from, pay) ==
    \/ m = k
    \/ /\ t \in Sock /\ pay \in Payload /\ pay.kind = "dgram" /\ k.socks[t].kind = "dgram"
       /\ k.socks[t].state = "bound" /\ TakesDgram(from, k.socks[t]) /\ m = Deliver(k, from, t, pay)
    \/ /\ t \in Sock /\ k.socks[t].kind = "dgram" /\ k.socks[t].state = "bound"
       /\ m = [k EXCEPT !.socks = [k.socks EXCEPT ![t] = Flagged(k.socks[t], TRUE, k.socks[t].wrNew)]]

LEMMA WrNewIs ==
    ASSUME NEW n \in NetRec, NEW t \in Sock, NEW wr \in BOOLEAN
    PROVE  [n EXCEPT !.socks[t].wrNew = wr]
           = [n EXCEPT !.socks = [n.socks EXCEPT ![t] = Flagged(n.socks[t], n.socks[t].rdNew, wr)]]
<1> DEFINE sk == n.socks[t]
<1>1. sk \in SockRec BY DEF NetRec
<1> HIDE DEF sk
<1>2. [sk EXCEPT !.wrNew = wr] = Flagged(sk, sk.rdNew, wr) BY <1>1 DEF Flagged, SockRec
<1>3. [n EXCEPT !.socks[t].wrNew = wr] = [n EXCEPT !.socks = [n.socks EXCEPT ![t] = [sk EXCEPT !.wrNew = wr]]]
  BY DEF sk
<1> QED BY <1>2, <1>3 DEF sk

\* A UNIX-domain datagram that has to wait
DgramWaits(p, s, k, t) ==
    /\ k = net /\ t \in Sock /\ IsFull(net.socks[t], net.socks[s].host)
    /\ WaitsForRoom(p, "sendto", s, t)

LEMMA SendDgramIs ==
    ASSUME Stands(net), NEW p \in Proc, NEW s \in Sock, NEW dest \in Program[p].dests, SendDgram(p, s, dest),
           NEW k, k = BoundIfNew(net, s)
    PROVE  /\ NeedsPort(net, s) => CanBindAny(net, s)
           /\ \E t, from, pay :
                 \/ Datagram(k, net', t, from, pay) /\ Succeeds(p, net')
                 \/ k = net /\ Fails(p)
                 \/ DgramWaits(p, s, k, t)
<1> DEFINE h == IF dest.ip = NoIp THEN HostOf[p] ELSE HostForIp(HostOf[p], dest.ip)
           hearers == Hearers(k, s, h, dest)
           t == First(hearers)
           sk == k.socks[s]
           from == sk.host
           pay == Dgram(SourceName(k, s, dest))
           flagged == [k EXCEPT !.socks[t].rdNew = TRUE]
<1>1. (NeedsPort(net, s) => CanBindAny(net, s)) /\ SendDgramFrom(p, s, k, dest) BY DEF SendDgram
<1>2. /\ Stands(k) /\ k.socks[s].family = net.socks[s].family
      /\ net.socks[s].family # "inet" => k = net
  BY <1>1, BoundIfNewIs
<1>3. k \in NetRec BY <1>2, Standing
<1>4. hearers # {} => t \in Sock /\ k.socks[t].kind = "dgram" /\ k.socks[t].state = "bound"
  <2> HIDE DEF h
  <2> QED BY HearersAre
<1>5. hearers # {} =>
          flagged = [k EXCEPT !.socks = [k.socks EXCEPT ![t] = Flagged(k.socks[t], TRUE, k.socks[t].wrNew)]]
  <2> HIDE DEF hearers, t
  <2> QED BY <1>3, <1>4, RdNewIs DEF flagged
<1>6. pay \in Payload /\ pay.kind = "dgram"
  <2>1. SourceName(k, s, dest) \in Name BY <1>3, SourceNameIs
  <2> QED BY <2>1, PayloadIs
<1>7. \/ hearers # {} /\ TakesDgram(from, k.socks[t]) /\ Succeeds(p, Deliver(k, from, t, pay))
      \/ Succeeds(p, k)
      \/ hearers # {} /\ Succeeds(p, flagged)
      \/ sk.family # "inet" /\ Fails(p)
      \/ /\ sk.family # "inet" /\ hearers # {} /\ ~TakesDgram(from, k.socks[t])
         /\ WaitsForRoom(p, "sendto", s, t)
  BY <1>1 DEF SendDgramFrom
<1> HIDE DEF hearers, t, from, pay, flagged
<1>8. CASE hearers # {} /\ TakesDgram(from, k.socks[t]) /\ Succeeds(p, Deliver(k, from, t, pay))
  <2>1. net' = Deliver(k, from, t, pay) BY <1>8 DEF Succeeds
  <2>2. Datagram(k, net', t, from, pay) /\ Succeeds(p, net') BY <1>4, <1>6, <1>8, <2>1 DEF Datagram
  <2> QED BY <1>1, <2>2
<1>9. CASE Succeeds(p, k)
  <2>1. net' = k BY <1>9 DEF Succeeds
  <2>2. Datagram(k, net', t, from, pay) /\ Succeeds(p, net') BY <1>9, <2>1 DEF Datagram
  <2> QED BY <1>1, <2>2
<1>10. CASE hearers # {} /\ Succeeds(p, flagged)
  <2>1. net' = flagged BY <1>10 DEF Succeeds
  <2>2. Datagram(k, net', t, from, pay) /\ Succeeds(p, net') BY <1>4, <1>5, <1>10, <2>1 DEF Datagram
  <2> QED BY <1>1, <2>2
<1>11. CASE sk.family # "inet" /\ Fails(p) BY <1>1, <1>2, <1>11
<1>12. CASE /\ sk.family # "inet" /\ hearers # {} /\ ~TakesDgram(from, k.socks[t])
            /\ WaitsForRoom(p, "sendto", s, t)
  <2>1. DgramWaits(p, s, k, t) BY <1>2, <1>4, <1>12 DEF DgramWaits, IsFull, from
  <2> QED BY <1>1, <2>1
<1> QED BY <1>7, <1>8, <1>9, <1>10, <1>11, <1>12

LEMMA DatagramStands ==
    ASSUME NEW k, Stands(k), NEW t, NEW from, NEW pay, NEW m, Datagram(k, m, t, from, pay)
    PROVE  Stands(m) /\ InOrder(k, m) /\ Quiet(k, m)
<1>1. CASE m = k
  <2>1. \A u \in Sock : Len(k.socks[u].rx) \in Nat BY Standing, LenNat
  <2>2. InOrder(k, m) BY <1>1, <2>1, Standing, CalmInOrder DEF Calms
  <2>3. \A u \in Sock : k.socks[u] \in SockRec BY Standing
  <2>4. k \in NetRec BY Standing
  <2>5. Quiet(k, m) BY <1>1, <2>3, <2>4 DEF Quiet, Lively, Alike, Named
  <2> QED BY <1>1, <2>2, <2>5
<1>2. CASE t \in Sock /\ pay \in Payload /\ m = Deliver(k, from, t, pay) BY <1>2, DeliverStands
<1>3. CASE t \in Sock /\ m = [k EXCEPT !.socks = [k.socks EXCEPT ![t] = Flagged(k.socks[t], TRUE, k.socks[t].wrNew)]]
  <2>1. k \in NetRec /\ k.socks[t].wrNew \in BOOLEAN BY <1>3, Standing DEF SockRec
  <2>2. Livens(k, m, t, Flagged(k.socks[t], TRUE, k.socks[t].wrNew)) /\ Calms(k, m)
    BY <1>3, <2>1, FlaggedStands
  <2>3. Stands(m) /\ Quiet(k, m) /\ m \in NetRec BY <2>2 DEF Livens
  <2>4. InOrder(k, m) BY <2>1, <2>2, <2>3, CalmInOrder
  <2> QED BY <2>3, <2>4
<1> QED BY <1>1, <1>2, <1>3 DEF Datagram

LEMMA SendDgramKeeps ==
    ASSUME Stands(net), NEW p \in Proc, NEW s \in Sock, NEW dest \in Program[p].dests, SendDgram(p, s, dest)
    PROVE  Keeps
<1> DEFINE k == BoundIfNew(net, s)
<1>1. /\ NeedsPort(net, s) => CanBindAny(net, s)
      /\ \E t, from, pay :
            \/ Datagram(k, net', t, from, pay) /\ Succeeds(p, net')
            \/ k = net /\ Fails(p)
            \/ DgramWaits(p, s, k, t)
  BY SendDgramIs
<1>2. /\ Stands(k)
      /\ \A u \in Sock : k.socks[u].rx = net.socks[u].rx /\ k.socks[u].flight = net.socks[u].flight
  BY <1>1, BoundIfNewIs
<1> HIDE DEF k
<1>3. PICK t, from, pay :
            \/ Datagram(k, net', t, from, pay) /\ Succeeds(p, net')
            \/ k = net /\ Fails(p)
            \/ DgramWaits(p, s, k, t)
  BY <1>1
<1>4. CASE Datagram(k, net', t, from, pay)
  <2>1. Stands(net') /\ InOrder(k, net') BY <1>2, <1>4, DatagramStands
  <2> QED BY <1>2, <2>1 DEF Keeps, InOrder
<1>5. CASE Fails(p) BY <1>5, SameKeeps DEF Fails
<1>6. CASE DgramWaits(p, s, k, t) BY <1>6, Standing, CrowdsIs, CrowdsKeeps DEF DgramWaits
<1> QED BY <1>3, <1>4, <1>5, <1>6

LEMMA RecvDgramKeeps ==
    ASSUME Stands(net), NEW p \in Proc, NEW s \in Sock, RecvDgram(p, s)
    PROVE  Keeps
<1>1. CASE net.socks[s].rx = <<>> BY <1>1, SameKeeps DEF RecvDgram, Sleeps
<1>2. CASE net.socks[s].rx # <<>>
  <2> DEFINE rx == Tail(net.socks[s].rx)
             r == WithRx(net.socks[s], rx)
  <2>1. net \in NetRec /\ net.socks[s] \in SockRec BY Standing
  <2>2. net.socks[s].rx \in Seq(Byte \cup Name) /\ Len(net.socks[s].rx) \in Nat BY <2>1, LenNat
  <2>3. net' = [net EXCEPT !.socks = [net.socks EXCEPT ![s] = r]]
    BY <1>2, <2>1 DEF RecvDgram, Succeeds, WithRx, NetRec
  <2>4. rx \in Seq(Byte \cup Name) /\ Len(rx) = Len(net.socks[s].rx) - 1
    BY <1>2, <2>2, HeadTailProperties
  <2> HIDE DEF rx
  <2>5. Lively(r, net.socks[s]) /\ r.rx = rx BY <2>1, <2>4, WithRxIs
  <2>6. Len(r.rx) <= Len(net.socks[s].rx) BY <2>2, <2>4, <2>5
  <2> HIDE DEF r
  <2>7. Livens(net, net', s, r) /\ Calms(net, net') BY <2>3, <2>5, <2>6, PutStands
  <2> QED BY <2>7, CalmKeeps DEF Livens
<1> QED BY <1>1, <1>2

\* A report uses the event up.
Reports(s) ==
    \E rd, wr \in BOOLEAN :
        /\ rd => net.socks[s].rdNew
        /\ wr => net.socks[s].wrNew
        /\ net' = [net EXCEPT !.socks = [net.socks EXCEPT ![s] = Flagged(net.socks[s], rd, wr)]]

LEMMA KeventIs ==
    ASSUME Stands(net), NEW p \in Proc, NEW s \in Sock, KeventRead(p, s) \/ KeventWrite(p, s)
    PROVE  \/ Reports(s) /\ wait' = Unwaiting(p) /\ UNCHANGED <<proc, hist>>
           \/ Sleeps(p, "edgeread", s) /\ ~(IsReadable(net, s) /\ net.socks[s].rdNew)
           \/ Sleeps(p, "edgewrite", s) /\ ~(IsWritable(net, s) /\ net.socks[s].wrNew)
<1>1. net \in NetRec /\ net.socks[s].rdNew \in BOOLEAN /\ net.socks[s].wrNew \in BOOLEAN
  BY Standing DEF SockRec
<1>2. CASE net' = [net EXCEPT !.socks[s].rdNew = FALSE]
  <2>1. net' = [net EXCEPT !.socks = [net.socks EXCEPT ![s] = Flagged(net.socks[s], FALSE, net.socks[s].wrNew)]]
    BY <1>1, <1>2, RdNewIs
  <2>2. Reports(s) BY <1>1, <2>1 DEF Reports
  <2>3. KeventRead(p, s) \/ KeventWrite(p, s) =>
            \/ wait' = Unwaiting(p) /\ UNCHANGED <<proc, hist>>
            \/ Sleeps(p, "edgeread", s) /\ ~(IsReadable(net, s) /\ net.socks[s].rdNew)
            \/ Sleeps(p, "edgewrite", s) /\ ~(IsWritable(net, s) /\ net.socks[s].wrNew)
    BY DEF KeventRead, KeventWrite
  <2> QED BY <2>2, <2>3
<1>3. CASE net' = [net EXCEPT !.socks[s].wrNew = FALSE]
  <2>1. net' = [net EXCEPT !.socks = [net.socks EXCEPT ![s] = Flagged(net.socks[s], net.socks[s].rdNew, FALSE)]]
    BY <1>1, <1>3, WrNewIs
  <2>2. Reports(s) BY <1>1, <2>1 DEF Reports
  <2>3. KeventRead(p, s) \/ KeventWrite(p, s) =>
            \/ wait' = Unwaiting(p) /\ UNCHANGED <<proc, hist>>
            \/ Sleeps(p, "edgeread", s) /\ ~(IsReadable(net, s) /\ net.socks[s].rdNew)
            \/ Sleeps(p, "edgewrite", s) /\ ~(IsWritable(net, s) /\ net.socks[s].wrNew)
    BY DEF KeventRead, KeventWrite
  <2> QED BY <2>2, <2>3
<1>4. CASE \/ Sleeps(p, "edgeread", s) /\ ~(IsReadable(net, s) /\ net.socks[s].rdNew)
           \/ Sleeps(p, "edgewrite", s) /\ ~(IsWritable(net, s) /\ net.socks[s].wrNew)
  BY <1>4
<1> QED BY <1>2, <1>3, <1>4 DEF KeventRead, KeventWrite

LEMMA ReportsKeep ==
    ASSUME Stands(net), NEW s \in Sock, Reports(s)
    PROVE  Keeps
<1>1. PICK rd \in BOOLEAN, wr \in BOOLEAN :
          net' = [net EXCEPT !.socks = [net.socks EXCEPT ![s] = Flagged(net.socks[s], rd, wr)]]
  BY DEF Reports
<1>2. Livens(net, net', s, Flagged(net.socks[s], rd, wr)) /\ Calms(net, net') BY <1>1, FlaggedStands
<1> QED BY <1>2, CalmKeeps DEF Livens

LEMMA KeventKeeps ==
    ASSUME Stands(net), NEW p \in Proc, NEW s \in Sock, KeventRead(p, s) \/ KeventWrite(p, s)
    PROVE  Keeps
<1>1. CASE Reports(s) BY <1>1, ReportsKeep
<1>2. CASE net' = net BY <1>2, SameKeeps
<1> QED BY <1>1, <1>2, KeventIs DEF Sleeps

----------------------------------------------------------------------------
(***************************************************************************)
(* Descriptors and processes.                                              *)
(***************************************************************************)
\* A step that gives up references of p, and perhaps takes some
LEMMA GivesUpIs ==
    ASSUME Stands(net), NEW p \in Proc, NEW s \in Sock, net.refs[p][s] > 0, net' = DropRefs(net, p, s, 1)
    PROVE  /\ Hangs(net', NoSock) /\ Wanes(net, net')
           /\ net'.refs = [net.refs EXCEPT ![p] = [net.refs[p] EXCEPT ![s] = net.refs[p][s] - 1]]
<1>1. Hangs(net, NoSock) /\ net.refs[p][s] \in Nat BY Standing DEF NetRec
<1>2. 1 \in Nat /\ 1 <= net.refs[p][s] BY <1>1
<1>3. Dropped(net, net', p, s, 1) BY <1>1, <1>2, DropIs
<1> QED BY <1>3 DEF Dropped

LEMMA WaneKeeps ==
    ASSUME Stands(net), Hangs(net', NoSock), Wanes(net, net')
    PROVE  Keeps
<1>1. Stands(net') /\ Calms(net, net') BY WaneStands
<1> QED BY <1>1, CalmKeeps

LEMMA CloseKeeps ==
    ASSUME Stands(net), NEW p \in Proc, NEW s \in Sock, Close(p, s) \/ Outside(p, s)
    PROVE  Keeps /\ net.refs[p][s] > 0 /\ net' = DropRefs(net, p, s, 1) /\ Wanes(net, net')
<1>1. net' = DropRefs(net, p, s, 1) /\ net.refs[p][s] > 0
  BY DEF Close, Outside, Succeeds, May, Holds
<1>2. Hangs(net', NoSock) /\ Wanes(net, net') BY <1>1, GivesUpIs
<1> QED BY <1>1, <1>2, WaneKeeps

LEMMA DupKeeps ==
    ASSUME Stands(net), NEW p \in Proc, NEW s \in Sock, Dup(p, s)
    PROVE  Keeps /\ Recounted(net, net')
           /\ net'.refs = [net.refs EXCEPT ![p] = [net.refs[p] EXCEPT ![s] = @ + 1]]
<1>1. May(p, "none", s) /\ net' = AddRefs(net, p, s, 1) BY DEF Dup
<1>2. ~IsGone(net.socks[s]) /\ ~IsQueued(net, s) BY <1>1, MayIs
<1>3. Hangs(net, NoSock) /\ net \in NetRec /\ PortsOK(net) /\ Paired(net) BY Standing
<1>4. PICK k \in Nat : k = 1 OBVIOUS
<1>5. Hangs(net', NoSock) /\ Recounted(net, net')
      /\ net'.refs = [net.refs EXCEPT ![p] = [net.refs[p] EXCEPT ![s] = @ + 1]]
  <2>1. net' = AddRefs(net, p, s, k) /\ k > 0 /\ NoSock \in {s, NoSock} BY <1>1, <1>4
  <2>2. Hangs(net', NoSock) /\ Recounted(net, net') BY <1>2, <1>3, <2>1, AddHangs
  <2>3. net'.refs = [net.refs EXCEPT ![p] = [net.refs[p] EXCEPT ![s] = @ + k]]
    BY <1>2, <1>3, <2>1, AddHangs
  <2> QED BY <1>4, <2>2, <2>3
<1>6. Wanes(net, net') BY <1>3, <1>5, RecountWanes
<1> QED BY <1>5, <1>6, WaneKeeps

\* Whoever holds something can hand it on.
LEMMA HandedOn ==
    ASSUME NEW n, Stands(n), NEW p \in Proc, NEW q \in Proc, NEW held \in [Sock -> Nat],
           \A t \in Sock : held[t] > 0 => n.refs[q][t] > 0, NEW m, m = SetRefs(n, p, held)
    PROVE  /\ Hangs(m, NoSock) /\ Wanes(n, m)
           /\ m.refs = [n.refs EXCEPT ![p] = held]
           /\ n.refs[p] = Nothing => Recounted(n, m)
<1>1. Hangs(n, NoSock) BY Standing
<1>2. \A t \in Sock : held[t] > 0 => ~IsGone(n.socks[t]) /\ ~IsQueued(n, t) BY <1>1, HeldIsOpen
<1> QED BY <1>1, <1>2, SetRefsIs

LEMMA ForkKeeps ==
    ASSUME Stands(net), NEW p \in Proc, NEW child \in Proc, Fork(p, child)
    PROVE  /\ Keeps /\ Wanes(net, net')
           /\ net'.refs = [net.refs EXCEPT ![child] = net.refs[p]]
           /\ net.refs[child] = Nothing => Recounted(net, net')
<1>1. net' = SetRefs(net, child, net.refs[p]) BY DEF Fork
<1>2. net.refs[p] \in [Sock -> Nat] BY Standing DEF NetRec
<1> DEFINE held == net.refs[p]
<1>3. \A t \in Sock : held[t] > 0 => net.refs[p][t] > 0 OBVIOUS
<1>4. held \in [Sock -> Nat] /\ net' = SetRefs(net, child, held) BY <1>1, <1>2
<1> HIDE DEF held
<1>5. /\ Hangs(net', NoSock) /\ Wanes(net, net')
      /\ net'.refs = [net.refs EXCEPT ![child] = held]
      /\ net.refs[child] = Nothing => Recounted(net, net')
  BY <1>3, <1>4, HandedOn
<1> QED BY <1>5, WaneKeeps DEF held

LEMMA ExecKeeps ==
    ASSUME Stands(net), NEW p \in Proc, NEW s \in Sock, Exec(p, s)
    PROVE  /\ Keeps /\ Wanes(net, net')
           /\ net'.refs = [net.refs EXCEPT ![p] = [net.refs[p] EXCEPT ![s] = 0]]
<1> DEFINE held == [net.refs[p] EXCEPT ![s] = 0]
<1>1. net' = SetRefs(net, p, held) BY DEF Exec
<1>2. net.refs[p] \in [Sock -> Nat] BY Standing DEF NetRec
<1>3. held \in [Sock -> Nat] /\ \A t \in Sock : held[t] > 0 => net.refs[p][t] > 0 BY <1>2
<1> HIDE DEF held
<1>5. /\ Hangs(net', NoSock) /\ Wanes(net, net')
      /\ net'.refs = [net.refs EXCEPT ![p] = held]
  BY <1>1, <1>3, HandedOn
<1> QED BY <1>5, WaneKeeps DEF held

LEMMA DieKeeps ==
    ASSUME Stands(net), NEW p \in Proc, Die(p)
    PROVE  /\ Keeps /\ Wanes(net, net')
           /\ net'.refs = [net.refs EXCEPT ![p] = Nothing]
<1>1. net' = SetRefs(net, p, Nothing) BY DEF Die
<1>2. Nothing \in [Sock -> Nat] /\ \A t \in Sock : Nothing[t] > 0 => net.refs[p][t] > 0
  BY DEF Nothing
<1>5. /\ Hangs(net', NoSock) /\ Wanes(net, net')
      /\ net'.refs = [net.refs EXCEPT ![p] = Nothing]
  BY <1>1, <1>2, HandedOn
<1> QED BY <1>5, WaneKeeps

----------------------------------------------------------------------------
(***************************************************************************)
(* The clock.                                                              *)
(***************************************************************************)
LEMMA LaterIs == ASSUME NEW left \in Nat, NEW d \in Nat PROVE Later(left, d) \in Nat
  BY DEF Later

OlderSock(sk, d) == [sk EXCEPT !.flight = AgedFlight(sk.flight, d)]

LEMMA AgedFlightIs ==
    ASSUME NEW flight \in Seq([left: Nat, pay: Payload]), NEW d \in Nat
    PROVE  /\ AgedFlight(flight, d) \in Seq([left: Nat, pay: Payload])
           /\ Len(AgedFlight(flight, d)) = Len(flight) /\ DOMAIN AgedFlight(flight, d) = DOMAIN flight
           /\ \A i \in 1..Len(flight) : /\ AgedFlight(flight, d)[i].pay = flight[i].pay
                                        /\ AgedFlight(flight, d)[i].left = Later(flight[i].left, d)
<1>1. DOMAIN flight = 1..Len(flight) /\ Len(flight) \in Nat BY LenProperties
<1>2. \A i \in 1..Len(flight) : flight[i] \in [left: Nat, pay: Payload] BY <1>1, ElementOfSeq
<1>3. \A i \in 1..Len(flight) : [left |-> Later(flight[i].left, d), pay |-> flight[i].pay] \in [left: Nat, pay: Payload]
  BY <1>2, LaterIs
<1>4. AgedFlight(flight, d) \in [1..Len(flight) -> [left: Nat, pay: Payload]]
  BY <1>1, <1>3 DEF AgedFlight
<1>5. \A i \in 1..Len(flight) : /\ AgedFlight(flight, d)[i].pay = flight[i].pay
                                /\ AgedFlight(flight, d)[i].left = Later(flight[i].left, d)
  BY <1>1 DEF AgedFlight
<1> HIDE DEF AgedFlight
<1>6. AgedFlight(flight, d) \in Seq([left: Nat, pay: Payload]) BY <1>1, <1>4, SeqDef
<1>7. Len(AgedFlight(flight, d)) = Len(flight) /\ DOMAIN AgedFlight(flight, d) = DOMAIN flight
  BY <1>1, <1>4, <1>6, LenProperties
<1> QED BY <1>5, <1>6, <1>7

LEMMA OlderSockIs ==
    ASSUME NEW sk \in SockRec, NEW d \in Nat
    PROVE  Ages(OlderSock(sk, d), sk, d)
<1> DEFINE f == AgedFlight(sk.flight, d)
           r == OlderSock(sk, d)
<1>1. sk.flight \in Seq([left: Nat, pay: Payload]) BY DEF SockRec
<1>2. f \in Seq([left: Nat, pay: Payload]) /\ Len(f) = Len(sk.flight) /\ DOMAIN f = DOMAIN sk.flight
  BY <1>1, AgedFlightIs
<1>3. \A i \in 1..Len(sk.flight) : f[i].pay = sk.flight[i].pay BY <1>1, AgedFlightIs
<1>4. r = [sk EXCEPT !.flight = f] BY DEF OlderSock
<1> HIDE DEF f, r
<1>5. r \in SockRec BY <1>2, <1>4 DEF SockRec
<1>6. /\ r.rx = sk.rx /\ r.fin = sk.fin /\ r.rdNew = sk.rdNew /\ r.wrNew = sk.wrNew
      /\ r.flStream = sk.flStream /\ r.flight = f
  BY <1>4 DEF SockRec
<1>7. Alike(r, sk) /\ Named(r, sk) /\ r.refs = sk.refs /\ r.backlogMax = sk.backlogMax
  BY <1>4 DEF SockRec, Alike, Named
<1>8. Weights(f) = Weights(sk.flight)
  <2>1. DOMAIN sk.flight = 1..Len(sk.flight) BY <1>1, LenProperties
  <2>2. \A i \in DOMAIN sk.flight : f[i].pay = sk.flight[i].pay BY <1>3, <2>1
  <2> QED BY <1>2, <2>2 DEF Weights
<1>9. FlLen(r) = FlLen(sk) BY <1>5, <1>6, <1>8, FlLenIs
<1>10. Lively(r, sk) BY <1>5, <1>7 DEF Lively
<1> QED BY <1>2, <1>3, <1>6, <1>9, <1>10 DEF Ages, f, r

LEMMA AgedIs ==
    ASSUME NEW n, Stands(n), NEW d \in Nat, NEW m, m = Aged(n, d)
    PROVE  AgesAll(n, m, d)
<1> DEFINE socks == [s \in Sock |-> OlderSock(n.socks[s], d)]
           due == IF n.nextDue = NoTime THEN NoTime ELSE Later(n.nextDue, d)
<1>1. n \in NetRec /\ \A s \in Sock : n.socks[s] \in SockRec BY Standing
<1>2. m = [n EXCEPT !.socks = socks, !.nextDue = due]
  BY <1>1 DEF Aged, OlderSock, AgedFlight, NetRec
<1>3. \A s \in Sock : Ages(OlderSock(n.socks[s], d), n.socks[s], d) BY <1>1, OlderSockIs
<1>4. due \in Nat \cup {NoTime} BY <1>1, LaterIs DEF NetRec
<1>5. socks \in [Sock -> SockRec] BY <1>3 DEF Ages, Lively
<1>6. \A s \in Sock : socks[s] = OlderSock(n.socks[s], d) OBVIOUS
<1> HIDE DEF socks, due
<1>7. m \in NetRec /\ m.socks = socks /\ m.refs = n.refs /\ m.port = n.port /\ m.inFlight = n.inFlight /\ m.nextDue = due
  BY <1>1, <1>2, <1>4, <1>5 DEF NetRec
<1>8. \A s \in Sock : Ages(m.socks[s], n.socks[s], d) BY <1>3, <1>6, <1>7
<1>9. Quiet(n, m) BY <1>7, <1>8 DEF Quiet, Ages
<1>10. Stands(m) BY <1>7, <1>9, QuietStands
<1>11. Calms(n, m)
  <2>1. \A s \in Sock : Len(n.socks[s].rx) \in Nat BY <1>1, LenNat
  <2> QED BY <1>8, <2>1 DEF Calms, Ages
<1> QED BY <1>7, <1>8, <1>9, <1>10, <1>11 DEF AgesAll, due

\* How much is due
LEMMA DueIs ==
    ASSUME NEW sk \in SockRec
    PROVE  /\ DueLen(sk) \in 0..Len(sk.flight) /\ Len(sk.flight) \in Nat
           /\ Due(sk) \in Seq([left: Nat, pay: Payload]) /\ Len(Due(sk)) = DueLen(sk)
           /\ \A i \in 1..DueLen(sk) : Due(sk)[i] = sk.flight[i] /\ sk.flight[i].left = 0
           /\ DueLen(sk) < Len(sk.flight) => sk.flight[DueLen(sk) + 1].left # 0
<1> DEFINE late == {i \in DOMAIN sk.flight : sk.flight[i].left # 0}
           q == sk.flight
           k == DueLen(sk)
           S == [left: Nat, pay: Payload]
<1>1. q \in Seq(S) /\ DOMAIN q = 1..Len(q) /\ Len(q) \in Nat
  <2>1. q \in Seq(S) BY DEF SockRec
  <2> QED BY <2>1, LenProperties
<1>2. k = IF late = {} THEN Len(q) ELSE First(late) - 1 BY DEF DueLen
<1>3. late # {} => First(late) \in late /\ \A i \in late : First(late) <= i
  <2>1. late \in SUBSET Nat BY <1>1
  <2> HIDE DEF late
  <2> QED BY <2>1, FirstLemma
<1>4. late \subseteq 1..Len(q) BY <1>1
<1> DEFINE top == First(late)
<1>16. ASSUME late = {} PROVE k \in 0..Len(q) /\ (\A i \in 1..k : i \notin late) /\ (k < Len(q) => k + 1 \in late)
  <2>1. k = Len(q) BY <1>2, <1>16
  <2> HIDE DEF late, q, k
  <2> QED BY <1>1, <1>16, <2>1
<1>17. ASSUME late # {} PROVE k \in 0..Len(q) /\ (\A i \in 1..k : i \notin late) /\ (k < Len(q) => k + 1 \in late)
  <2>1. k = top - 1 /\ top \in late /\ \A i \in late : top <= i BY <1>2, <1>3, <1>17
  <2> HIDE DEF late, q, k, top
  <2>2. top \in 1..Len(q) BY <1>4, <2>1
  <2>3. k \in 0..Len(q) /\ k + 1 = top BY <1>1, <2>1, <2>2
  <2>4. ASSUME NEW i \in 1..k PROVE i \notin late
    <3>1. ~(top <= i) BY <1>1, <2>2, <2>3
    <3> QED BY <2>1, <3>1
  <2> QED BY <2>1, <2>3, <2>4
<1>5. k \in 0..Len(q) BY <1>16, <1>17
<1>6. \A i \in 1..k : i \notin late BY <1>16, <1>17
<1>7. k < Len(q) => k + 1 \in late BY <1>16, <1>17
<1>8. \A i \in 1..k : q[i].left = 0 BY <1>1, <1>5, <1>6
<1>9. k < Len(q) => q[k + 1].left # 0 BY <1>7
<1>10. Due(sk) = SubSeq(q, 1, k) BY DEF Due
<1> HIDE DEF late, q, k, S
<1>11. \A i \in 1..k : q[i] \in S BY <1>1, <1>5, ElementOfSeq
<1>12. SubSeq(q, 1, k) \in Seq(S) BY <1>1, <1>5, <1>11, SubSeqProperties
<1>13. Len(SubSeq(q, 1, k)) = IF 1 <= k THEN k - 1 + 1 ELSE 0 BY <1>1, <1>5, <1>11, SubSeqProperties
<1>14. \A i \in 1..k - 1 + 1 : SubSeq(q, 1, k)[i] = q[1 + i - 1]
  BY <1>1, <1>5, <1>11, SubSeqProperties
<1>15. Len(SubSeq(q, 1, k)) = k /\ \A i \in 1..k : SubSeq(q, 1, k)[i] = q[i] BY <1>5, <1>13, <1>14
<1> QED BY <1>1, <1>5, <1>8, <1>9, <1>10, <1>12, <1>15 DEF q, k, S

----------------------------------------------------------------------------
(***************************************************************************)
(* What is in flight.                                                      *)
(***************************************************************************)
\* No element of a sum is more than the sum.
LEMMA TotalHolds ==
    ASSUME NEW s \in Seq(Nat), NEW i \in 1..Len(s)
    PROVE  s[i] \in Nat /\ s[i] <= Total(s) /\ Total(s) \in Nat
<1> DEFINE t == [s EXCEPT ![i] = 0]
<1>1. Len(s) \in Nat /\ DOMAIN s = 1..Len(s) /\ s[i] \in Nat BY LenProperties, ElementOfSeq
<1>2. t \in Seq(Nat) /\ Len(t) = Len(s) /\ t[i] = 0 /\ \A j \in 1..Len(s) : j # i => t[j] = s[j]
  BY <1>1, ExceptSeq
<1> HIDE DEF t
<1>3. Total(t) + s[i] = Total(s) + t[i] BY <1>2, TotalChange
<1>4. Total(t) \in Nat /\ Total(s) \in Nat BY <1>2, TotalNat
<1> QED BY <1>1, <1>2, <1>3, <1>4

LEMMA PayIs == ASSUME NEW pay \in Payload, pay.kind = "bytes" PROVE Len(pay.data) \in Nat /\ pay.data \in Seq(Byte)
<1>1. pay.data \in Seq(Byte) BY DEF Payload
<1> QED BY <1>1, LenProperties

LEMMA LoadIs == ASSUME NEW pay \in Payload PROVE Load(pay) \in Nat
  BY PayIs DEF Load

LEMMA LoadsAre ==
    ASSUME NEW flight \in Seq([left: Nat, pay: Payload])
    PROVE  /\ Loads(flight) \in Seq(Nat) /\ Len(Loads(flight)) = Len(flight)
           /\ StreamLen(flight) = Total(Loads(flight)) /\ StreamLen(flight) \in Nat
           /\ flight = <<>> => StreamLen(flight) = 0
           /\ \A i \in 1..Len(flight) : Loads(flight)[i] = Load(flight[i].pay)
<1>1. DOMAIN flight = 1..Len(flight) /\ Len(flight) \in Nat BY LenProperties
<1>2. \A i \in DOMAIN flight : flight[i] \in [left: Nat, pay: Payload] BY <1>1, ElementOfSeq
<1>3. \A i \in 1..Len(flight) : Loads(flight)[i] = Load(flight[i].pay) BY <1>1 DEF Loads, Load
<1>4. \A i \in 1..Len(flight) : Load(flight[i].pay) \in Nat BY <1>1, <1>2, LoadIs
<1>5. Loads(flight) = [i \in 1..Len(flight) |-> Load(flight[i].pay)] BY <1>1 DEF Loads, Load
<1>6. Loads(flight) \in [1..Len(flight) -> Nat] BY <1>4, <1>5
<1>7. StreamLen(flight) = Total(Loads(flight)) BY DEF StreamLen, Loads
<1> HIDE DEF Loads
<1>8. Loads(flight) \in Seq(Nat) BY <1>1, <1>6, SeqDef
<1>9. Len(Loads(flight)) = Len(flight) BY <1>1, <1>6, <1>8, LenProperties
<1>10. Total(Loads(flight)) \in Nat BY <1>8, TotalNat
<1>11. flight = <<>> => Total(Loads(flight)) = 0
  <2>1. flight = <<>> => Len(Loads(flight)) = 0 BY <1>9
  <2> QED BY <1>8, <2>1, TotalEmpty
<1> QED BY <1>3, <1>7, <1>8, <1>9, <1>10, <1>11

LEMMA FlightGrows ==
    ASSUME NEW flight \in Seq([left: Nat, pay: Payload]), NEW left \in Nat, NEW pay \in Payload,
           NEW more, more = Append(flight, [left |-> left, pay |-> pay])
    PROVE  Grown(flight, left, pay, more)
<1> DEFINE S == [left: Nat, pay: Payload]
           r == [left |-> left, pay |-> pay]
<1>1. r \in S OBVIOUS
<1>2. r.pay = pay OBVIOUS
<1>13. flight \in Seq(S) /\ more = Append(flight, r) OBVIOUS
<1> HIDE DEF S, r
<1>3. /\ more \in Seq(S) /\ Len(more) = Len(flight) + 1 /\ Len(flight) \in Nat
      /\ \A i \in 1..Len(flight) : more[i] = flight[i]
      /\ more[Len(flight) + 1] = r
  BY <1>1, <1>13, AppendProperties, LenProperties
<1>4. Loads(flight) \in Seq(Nat) /\ Len(Loads(flight)) = Len(flight) /\ StreamLen(flight) = Total(Loads(flight))
      /\ \A i \in 1..Len(flight) : Loads(flight)[i] = Load(flight[i].pay)
  BY LoadsAre
<1>5. Loads(more) \in Seq(Nat) /\ Len(Loads(more)) = Len(more) /\ StreamLen(more) = Total(Loads(more))
      /\ \A i \in 1..Len(more) : Loads(more)[i] = Load(more[i].pay)
  BY <1>3, LoadsAre DEF S
<1>6. Load(pay) \in Nat /\ FlightHeader + Size(pay) \in Nat BY LoadIs, SizeIs, SizesAre
<1>7. Loads(more) = Append(Loads(flight), Load(pay))
  <2> DEFINE a == Append(Loads(flight), Load(pay))
  <2>1. a \in Seq(Nat) /\ Len(a) = Len(flight) + 1 /\ a[Len(flight) + 1] = Load(pay)
        /\ \A i \in 1..Len(flight) : a[i] = Loads(flight)[i]
    BY <1>4, <1>6, AppendProperties
  <2> HIDE DEF a
  <2>2. \A i \in 1..Len(more) : Loads(more)[i] = a[i]
    <3> TAKE i \in 1..Len(more)
    <3>1. CASE i = Len(flight) + 1 BY <1>2, <1>3, <1>5, <2>1, <3>1
    <3>2. CASE i # Len(flight) + 1
      <4>1. i \in 1..Len(flight) BY <1>3, <3>2
      <4> QED BY <1>3, <1>4, <1>5, <2>1, <4>1
    <3> QED BY <3>1, <3>2
  <2>3. Loads(more) = a BY <1>3, <1>5, <2>1, <2>2, SeqEqual
  <2> QED BY <2>3 DEF a
<1>8. StreamLen(more) = StreamLen(flight) + Load(pay) BY <1>4, <1>5, <1>6, <1>7, TotalAppend
<1>9. Weights(flight) \in Seq(Nat) /\ Len(Weights(flight)) = Len(flight) BY WeightsAre
<1>10. Weights(more) \in Seq(Nat) /\ Len(Weights(more)) = Len(more) BY <1>3, WeightsAre DEF S
<1>11. Weights(more) = Append(Weights(flight), FlightHeader + Size(pay))
  <2> DEFINE k == FlightHeader + Size(pay)
             a == Append(Weights(flight), k)
  <2>1. a \in Seq(Nat) /\ Len(a) = Len(flight) + 1 /\ a[Len(flight) + 1] = k
        /\ \A i \in 1..Len(flight) : a[i] = Weights(flight)[i]
    BY <1>6, <1>9, AppendProperties
  <2> HIDE DEF a
  <2>2. \A i \in 1..Len(more) : Weights(more)[i] = a[i]
    <3> TAKE i \in 1..Len(more)
    <3>0. DOMAIN more = 1..Len(more) /\ DOMAIN flight = 1..Len(flight) BY <1>3, LenProperties
    <3>1. CASE i = Len(flight) + 1 BY <1>2, <1>3, <2>1, <3>0, <3>1 DEF Weights
    <3>2. CASE i # Len(flight) + 1
      <4>1. i \in 1..Len(flight) BY <1>3, <3>2
      <4> QED BY <1>3, <2>1, <3>0, <4>1 DEF Weights
    <3> QED BY <3>1, <3>2
  <2>3. Weights(more) = a BY <1>3, <1>10, <2>1, <2>2, SeqEqual
  <2> QED BY <2>3 DEF a
<1>12. Total(Weights(more)) = Total(Weights(flight)) + FlightHeader + Size(pay)
  <2>1. Total(Weights(more)) = Total(Weights(flight)) + (FlightHeader + Size(pay))
    BY <1>6, <1>9, <1>11, TotalAppend
  <2>2. Total(Weights(flight)) \in Nat BY <1>9, TotalNat
  <2> QED BY <2>1, <2>2, SizesAre, SizeIs
<1> QED BY <1>3, <1>8, <1>12 DEF S, r, Grown

\* What is left when the first k records went
Shrunk(flight, gone, rest) ==
    /\ rest \in Seq([left: Nat, pay: Payload]) /\ Len(rest) = Len(flight) - Len(gone) /\ Len(flight) \in Nat
    /\ \A i \in 1..Len(rest) : rest[i] = flight[Len(gone) + i]
    /\ StreamLen(flight) = StreamLen(gone) + StreamLen(rest)
    /\ Total(Weights(flight)) = Total(Weights(gone)) + Total(Weights(rest))
LEMMA FlightShrinks ==
    ASSUME NEW flight \in Seq([left: Nat, pay: Payload]), NEW k \in 0..Len(flight),
           NEW gone \in Seq([left: Nat, pay: Payload]), Len(gone) = k, \A i \in 1..k : gone[i] = flight[i],
           NEW rest, rest = SubSeq(flight, k + 1, Len(flight))
    PROVE  Shrunk(flight, gone, rest)
<1> DEFINE S == [left: Nat, pay: Payload]
<1> HIDE DEF S
<1>1. flight \in Seq(S) /\ gone \in Seq(S) /\ Len(flight) \in Nat /\ k \in Nat
  BY LenProperties DEF S
<1>2. \A i \in (k + 1)..Len(flight) : flight[i] \in S BY <1>1, ElementOfSeq
<1>3. rest \in Seq(S) BY <1>1, <1>2, SubSeqProperties
<1>4. Len(rest) = IF k + 1 <= Len(flight) THEN Len(flight) - (k + 1) + 1 ELSE 0
  BY <1>1, <1>2, SubSeqProperties
<1>5. \A i \in 1..Len(flight) - (k + 1) + 1 : rest[i] = flight[k + 1 + i - 1]
  BY <1>1, <1>2, SubSeqProperties
<1>6. Len(rest) = Len(flight) - k /\ \A i \in 1..Len(rest) : rest[i] = flight[k + i]
  BY <1>1, <1>4, <1>5
<1>7. /\ Loads(flight) \in Seq(Nat) /\ Len(Loads(flight)) = Len(flight) /\ StreamLen(flight) = Total(Loads(flight))
      /\ \A i \in 1..Len(flight) : Loads(flight)[i] = Load(flight[i].pay)
  BY <1>1, LoadsAre DEF S
<1>8. /\ Loads(gone) \in Seq(Nat) /\ Len(Loads(gone)) = Len(gone) /\ StreamLen(gone) = Total(Loads(gone))
      /\ \A i \in 1..Len(gone) : Loads(gone)[i] = Load(gone[i].pay)
  BY <1>1, LoadsAre DEF S
<1>9. /\ Loads(rest) \in Seq(Nat) /\ Len(Loads(rest)) = Len(rest) /\ StreamLen(rest) = Total(Loads(rest))
      /\ \A i \in 1..Len(rest) : Loads(rest)[i] = Load(rest[i].pay)
  BY <1>3, LoadsAre DEF S
<1>10. \A i \in 1..k : i \in 1..Len(flight) BY <1>1
<1>11. \A i \in 1..Len(rest) : k + i \in 1..Len(flight) BY <1>1, <1>6
<1>12. StreamLen(flight) = StreamLen(gone) + StreamLen(rest)
  <2>1. \A i \in 1..Len(Loads(gone)) : Loads(flight)[i] = Loads(gone)[i] BY <1>7, <1>8, <1>10
  <2>2. \A i \in 1..Len(Loads(rest)) : Loads(flight)[Len(Loads(gone)) + i] = Loads(rest)[i]
    <3> TAKE i \in 1..Len(Loads(rest))
    <3>1. i \in 1..Len(rest) /\ Len(Loads(gone)) = k BY <1>8, <1>9
    <3>2. rest[i] = flight[k + i] /\ k + i \in 1..Len(flight) BY <1>6, <1>11, <3>1
    <3>3. Loads(flight)[k + i] = Load(flight[k + i].pay) /\ Loads(rest)[i] = Load(rest[i].pay)
      BY <1>7, <1>9, <3>1, <3>2
    <3> QED BY <3>1, <3>2, <3>3
  <2>3. Len(Loads(flight)) = Len(Loads(gone)) + Len(Loads(rest)) BY <1>1, <1>6, <1>7, <1>8, <1>9, SMTT(40)
  <2>4. Total(Loads(flight)) = Total(Loads(gone)) + Total(Loads(rest))
    BY <1>7, <1>8, <1>9, <2>1, <2>2, <2>3, TotalCut
  <2> QED BY <1>7, <1>8, <1>9, <2>4
<1>13. Total(Weights(flight)) = Total(Weights(gone)) + Total(Weights(rest))
  <2>1. Weights(flight) \in Seq(Nat) /\ Len(Weights(flight)) = Len(flight) BY WeightsAre
  <2>2. Weights(gone) \in Seq(Nat) /\ Len(Weights(gone)) = k BY WeightsAre
  <2>3. Weights(rest) \in Seq(Nat) /\ Len(Weights(rest)) = Len(rest) BY <1>3, WeightsAre DEF S
  <2>4. DOMAIN flight = 1..Len(flight) /\ DOMAIN gone = 1..k /\ DOMAIN rest = 1..Len(rest)
    BY <1>1, <1>3, LenProperties
  <2>5. \A i \in 1..k : Weights(flight)[i] = Weights(gone)[i] BY <1>10, <2>4 DEF Weights
  <2>6. \A i \in 1..Len(rest) : Weights(flight)[k + i] = Weights(rest)[i]
    BY <1>6, <1>11, <2>4 DEF Weights
  <2>7. Len(Weights(flight)) = Len(Weights(gone)) + Len(Weights(rest))
    <3> DEFINE a == Len(flight)
               b == Len(rest)
    <3>1. a \in Nat /\ k \in Nat /\ b = a - k BY <1>1, <1>6
    <3> HIDE DEF a, b
    <3>2. a = k + b BY <3>1
    <3> QED BY <2>1, <2>2, <2>3, <3>2 DEF a, b
  <2>8. \A i \in 1..Len(Weights(gone)) : Weights(flight)[i] = Weights(gone)[i] BY <2>2, <2>5
  <2>9. \A i \in 1..Len(Weights(rest)) : Weights(flight)[Len(Weights(gone)) + i] = Weights(rest)[i]
    BY <2>2, <2>3, <2>6
  <2> QED BY <2>1, <2>2, <2>3, <2>7, <2>8, <2>9, TotalCut
<1> QED BY <1>1, <1>3, <1>6, <1>12, <1>13 DEF S, Shrunk

----------------------------------------------------------------------------
(***************************************************************************)
(* The counters of the traffic and what each kind of socket may have       *)
(* received, in flight and in its ring.                                    *)
(***************************************************************************)
LEMMA LensAre ==
    ASSUME NEW n \in NetRec
    PROVE  /\ Lens(n) \in Seq(Nat) /\ Len(Lens(n)) = MaxSockets
           /\ \A s \in Sock : Lens(n)[s] = Len(n.socks[s].flight) /\ s \in 1..Len(Lens(n))
<1>1. \A s \in Sock : Len(n.socks[s].flight) \in Nat BY LenNat
<1>2. Lens(n) \in [1..MaxSockets -> Nat] BY <1>1 DEF Lens, Sock
<1>3. \A s \in Sock : Lens(n)[s] = Len(n.socks[s].flight) BY DEF Lens
<1> HIDE DEF Lens
<1>4. Lens(n) \in Seq(Nat) BY <1>2, SizesAre, SeqDef
<1>5. Len(Lens(n)) = MaxSockets BY <1>2, <1>4, SizesAre, LenProperties
<1> QED BY <1>3, <1>4, <1>5 DEF Sock

\* Nothing in flight is nothing in flight to anybody.
LEMMA NothingFlies ==
    ASSUME NEW n \in NetRec, Clocked(n), n.inFlight = 0 \/ n.nextDue = NoTime
    PROVE  \A s \in Sock : n.socks[s].flight = <<>>
<1> TAKE s \in Sock
<1>1. CASE n.nextDue = NoTime BY <1>1 DEF Clocked
<1>2. CASE n.inFlight = 0
  <2>1. Lens(n) \in Seq(Nat) /\ s \in 1..Len(Lens(n)) /\ Lens(n)[s] = Len(n.socks[s].flight)
    BY LensAre
  <2>2. Lens(n)[s] <= Total(Lens(n)) /\ Lens(n)[s] \in Nat BY <2>1, TotalHolds
  <2>3. Total(Lens(n)) = 0 BY <1>2 DEF Clocked
  <2>4. Len(n.socks[s].flight) = 0 BY <2>1, <2>2, <2>3
  <2> QED BY <2>4, LenNat, EmptySeq
<1> QED BY <1>1, <1>2

\* The counters do not move when nothing flies or lands.
LEMMA ClockedSame ==
    ASSUME NEW n \in NetRec, Clocked(n), NEW m \in NetRec, m.inFlight = n.inFlight, m.nextDue = n.nextDue,
           \A s \in Sock : m.socks[s].flight = n.socks[s].flight
    PROVE  Clocked(m)
<1>1. Lens(m) = Lens(n) BY DEF Lens
<1> QED BY <1>1 DEF Clocked

\* One record more in flight
LEMMA ClockedLaunch ==
    ASSUME NEW n \in NetRec, Clocked(n), NEW d \in Sock, NEW left \in Nat, NEW pay \in Payload, NEW m \in NetRec,
           m.inFlight = n.inFlight + 1,
           m.nextDue = (IF n.inFlight = 0 \/ n.nextDue = NoTime \/ left < n.nextDue THEN left ELSE n.nextDue),
           m.socks[d].flight = Append(n.socks[d].flight, [left |-> left, pay |-> pay]),
           \A s \in Sock : s # d => m.socks[s].flight = n.socks[s].flight
    PROVE  Clocked(m)
<1>1. Lens(n) \in Seq(Nat) /\ Len(Lens(n)) = MaxSockets /\ Lens(m) \in Seq(Nat) /\ Len(Lens(m)) = MaxSockets
  BY LensAre
<1>2. /\ \A s \in Sock : Lens(n)[s] = Len(n.socks[s].flight) /\ s \in 1..Len(Lens(n))
      /\ \A s \in Sock : Lens(m)[s] = Len(m.socks[s].flight)
  BY LensAre
<1>3. /\ Len(n.socks[d].flight) \in Nat
      /\ Len(m.socks[d].flight) = Len(n.socks[d].flight) + 1
      /\ \A i \in 1..Len(n.socks[d].flight) : m.socks[d].flight[i] = n.socks[d].flight[i]
      /\ m.socks[d].flight[Len(n.socks[d].flight) + 1] = [left |-> left, pay |-> pay]
  <2> DEFINE f == n.socks[d].flight
             g == m.socks[d].flight
  <2>1. f \in Seq([left: Nat, pay: Payload]) BY LenNat
  <2>2. g = Append(f, [left |-> left, pay |-> pay]) OBVIOUS
  <2> HIDE DEF f, g
  <2>3. Grown(f, left, pay, g) BY <2>1, <2>2, FlightGrows
  <2> QED BY <2>3 DEF f, g, Grown
<1>4. \A j \in 1..Len(Lens(n)) : j # d => Lens(n)[j] = Lens(m)[j] BY <1>1, <1>2 DEF Sock
<1>5. Total(Lens(m)) + Lens(n)[d] = Total(Lens(n)) + Lens(m)[d] BY <1>1, <1>2, <1>4, TotalChange
<1>6. Total(Lens(m)) \in Nat /\ Total(Lens(n)) \in Nat BY <1>1, TotalNat
<1>7. Total(Lens(m)) = Total(Lens(n)) + 1
  <2> DEFINE a == Total(Lens(m))
             b == Total(Lens(n))
             c == Len(n.socks[d].flight)
  <2>1. a + c = b + (c + 1) /\ a \in Nat /\ b \in Nat /\ c \in Nat BY <1>2, <1>3, <1>5, <1>6
  <2> HIDE DEF a, b, c
  <2>2. a = b + 1 BY <2>1
  <2> QED BY <2>2 DEF a, b
<1>8. ASSUME NEW s \in Sock, m.socks[s].flight # <<>>
      PROVE  m.nextDue # NoTime /\ m.nextDue <= m.socks[s].flight[1].left
  <2>1. NoTime \notin Nat /\ n.nextDue \in Nat \cup {NoTime} /\ n.inFlight \in Nat
    BY DEF NoTime, NetRec
  <2>2. m.nextDue \in Nat /\ m.nextDue <= left BY <2>1
  <2>3. n.socks[s].flight # <<>> => n.nextDue # NoTime /\ n.inFlight # 0 /\ n.nextDue <= n.socks[s].flight[1].left
    BY NothingFlies DEF Clocked
  <2>4. n.socks[s].flight # <<>> => m.nextDue <= n.nextDue /\ n.nextDue \in Nat BY <2>1, <2>3
  <2>5. n.socks[s].flight # <<>> => n.socks[s].flight[1].left \in Nat
    <3>1. n.socks[s].flight \in Seq([left: Nat, pay: Payload]) /\ Len(n.socks[s].flight) \in Nat
      BY LenNat
    <3> DEFINE f == n.socks[s].flight
               S == [left: Nat, pay: Payload]
    <3>2. ASSUME f # <<>> PROVE f[1] \in S
      <4> HIDE DEF f, S
      <4>1. f \in Seq(S) /\ Len(f) \in Nat BY <3>1 DEF f, S
      <4>2. 1 \in 1..Len(f) BY <3>2, <4>1, EmptySeq
      <4> QED BY <4>1, <4>2, ElementOfSeq
    <3> QED BY <3>2
  <2>6. CASE n.socks[s].flight # <<>>
    <3>1. m.socks[s].flight[1] = n.socks[s].flight[1]
      <4>1. CASE s # d BY <4>1
      <4>2. CASE s = d
        <5>1. Len(n.socks[d].flight) # 0 BY <2>6, <4>2, LenNat, EmptySeq
        <5>2. 1 \in 1..Len(n.socks[d].flight) BY <1>3, <5>1
        <5> QED BY <1>3, <4>2, <5>2
      <4> QED BY <4>1, <4>2
    <3> DEFINE a == m.nextDue
               b == n.nextDue
               c == n.socks[s].flight[1].left
    <3>2. a \in Nat /\ b \in Nat /\ c \in Nat /\ a <= b /\ b <= c BY <2>2, <2>3, <2>4, <2>5, <2>6
    <3> HIDE DEF a, b, c
    <3>3. a <= c BY <3>2
    <3> QED BY <2>1, <2>2, <3>1, <3>3 DEF a, c
  <2>7. CASE n.socks[s].flight = <<>>
    <3>1. s = d BY <1>8, <2>7
    <3>2. Len(n.socks[d].flight) = 0 BY <2>7, <3>1
    <3>3. m.socks[s].flight[1] = [left |-> left, pay |-> pay] BY <1>3, <3>1, <3>2
    <3>4. m.socks[s].flight[1].left = left BY <3>3
    <3> QED BY <2>1, <2>2, <3>4
  <2> QED BY <2>6, <2>7
<1> QED BY <1>7, <1>8 DEF Clocked

----------------------------------------------------------------------------
(***************************************************************************)
(* Traffic stays in order when no record is sent or lands.                 *)
(***************************************************************************)
LEMMA LadenSame ==
    ASSUME NEW r, NEW sk, Laden(r, sk)
    PROVE  FlLen(r) = FlLen(sk) /\ \A kind : Carries(r, kind) <=> Carries(sk, kind)
  BY DEF Laden, FlLen, Carries

LEMMA TimesGrows ==
    ASSUME NEW a \in Nat, NEW b \in Nat, NEW c \in Nat, a <= b
    PROVE  c * a <= c * b /\ c * a \in Nat /\ c * (a + 1) = c * a + c
<1>1. PICK d \in Nat : b = a + d
  <2>1. b - a \in Nat /\ b = a + (b - a) OBVIOUS
  <2> QED BY <2>1
<1>2. c * (a + d) = c * a + c * d /\ c * d \in Nat /\ c * a \in Nat /\ c * (a + 1) = c * a + c
  OBVIOUS
<1> QED BY <1>1, <1>2

LEMMA RxLenGrows ==
    ASSUME NEW sk \in SockRec, NEW r \in SockRec, r.kind = sk.kind, Len(r.rx) <= Len(sk.rx)
    PROVE  RxLen(r) <= RxLen(sk) /\ RxLen(r) \in Nat /\ RxLen(sk) \in Nat
<1>1. Len(r.rx) \in Nat /\ Len(sk.rx) \in Nat /\ RxLen(r) \in Nat /\ RxLen(sk) \in Nat BY RxLenIs
<1>2. DgramLen * Len(r.rx) <= DgramLen * Len(sk.rx) BY <1>1, SizesAre, TimesGrows
<1>3. RxLen(r) <= RxLen(sk) BY <1>2 DEF RxLen
<1> QED BY <1>1, <1>3

LEMMA MildBlameless ==
    ASSUME NEW sk \in SockRec, Blameless(sk), NEW r, Mild(r, sk)
    PROVE  Blameless(r)
<1>1. r \in SockRec /\ r.flight = sk.flight /\ r.flStream = sk.flStream /\ Laden(r, sk)
  BY DEF Mild, Laden
<1>2. FlLen(r) = FlLen(sk) /\ \A kind : Carries(r, kind) <=> Carries(sk, kind) BY <1>1, LadenSame
<1>3. RxLen(r) <= RxLen(sk) /\ RxLen(r) \in Nat /\ RxLen(sk) \in Nat BY <1>1, RxLenGrows DEF Mild
<1>4. RxLen(r) + r.flStream <= Ring
  <2> DEFINE a == RxLen(r)
             b == RxLen(sk)
             c == sk.flStream
  <2>1. a \in Nat /\ b \in Nat /\ c \in Nat /\ a <= b /\ b + c <= Ring /\ Ring \in Nat
    BY <1>3, SizesAre DEF Blameless, SockRec
  <2> HIDE DEF a, b, c
  <2>2. a + c <= Ring BY <2>1
  <2> QED BY <1>1, <2>2 DEF a, c
<1>5. sk.rx = <<>> => r.rx = <<>>
  <2>1. r.rx \in Seq(Byte \cup Name) BY <1>1 DEF SockRec
  <2>2. Len(r.rx) \in Nat /\ Len(r.rx) <= Len(sk.rx) BY <1>1, RxLenIs DEF Mild
  <2>3. sk.rx = <<>> => Len(r.rx) = 0 BY <2>2
  <2> QED BY <2>1, <2>3, EmptySeq
<1>6. r.flStream = StreamLen(r.flight) /\ FlLen(r) <= Ring BY <1>1, <1>2 DEF Blameless
<1>7. r.state \notin {"new", "bound"} => r.kind = "stream" BY DEF Blameless, Mild
<1>8. r.kind = "stream" /\ r.state \in {"new", "bound", "listening"} =>
          r.rx = <<>> /\ r.flight = <<>> /\ ~r.fin /\ ~r.shutWr /\ ~r.shutRd
  BY <1>1, <1>5 DEF Blameless, Mild
<1>9. IsGone(r) => r.rx = <<>> /\ ~r.fin BY <1>5 DEF Blameless, Mild, IsGone
<1>10. r.state = "connected" => ~Carries(r, "dgram") BY <1>2 DEF Blameless, Mild
<1>11. r.kind = "dgram" => r.flStream = 0 /\ ~Carries(r, "bytes") /\ ~Carries(r, "fin")
  BY <1>1, <1>2 DEF Blameless, Mild
<1> QED BY <1>4, <1>6, <1>7, <1>8, <1>9, <1>10, <1>11 DEF Blameless

LEMMA EmptiedBlameless ==
    ASSUME NEW sk \in SockRec, Blameless(sk), NEW r \in {Freed(sk), Closed(sk)}
    PROVE  Blameless(r) /\ Laden(r, sk) /\ ~r.fin /\ ~Speaks(r)
<1>1. /\ r \in SockRec /\ r.state \in {"free", "closed"} /\ r.kind = "stream" /\ r.rx = <<>> /\ ~r.fin
      /\ r.flight = sk.flight /\ r.flStream = sk.flStream
  BY FreedIs, ClosedIs
<1>2. Laden(r, sk) BY <1>1 DEF Laden
<1>3. FlLen(r) = FlLen(sk) BY <1>2, LadenSame
<1>4. RxLen(r) = 0
  <2>1. RxLen(r) = Len(r.rx) BY <1>1 DEF RxLen
  <2> QED BY <1>1, <2>1
<1>5. RxLen(r) + r.flStream <= Ring
  <2> DEFINE b == RxLen(sk)
             c == sk.flStream
  <2>1. b \in Nat /\ c \in Nat /\ b + c <= Ring /\ Ring \in Nat
    BY SizesAre, RxLenIs DEF Blameless, SockRec
  <2> HIDE DEF b, c
  <2>2. 0 + c <= Ring BY <2>1
  <2> QED BY <1>1, <1>4, <2>2 DEF c
<1>6. r.flStream = StreamLen(r.flight) /\ FlLen(r) <= Ring BY <1>1, <1>3 DEF Blameless
<1> QED BY <1>1, <1>2, <1>5, <1>6 DEF Blameless, IsGone, Speaks

\* m is n but for records that lost what they received or said.
Even(n, m) ==
    /\ m \in NetRec /\ m.inFlight = n.inFlight /\ m.nextDue = n.nextDue
    /\ \A t \in Sock :
        /\ m.socks[t].flight = n.socks[t].flight /\ Blameless(m.socks[t])
        /\ Linked(m.socks[t]) => Linked(n.socks[t]) /\ m.socks[t].far = n.socks[t].far /\ (m.socks[t].fin => n.socks[t].fin)
        /\ Speaks(m.socks[t]) => Speaks(n.socks[t])

LEMMA OwedSame ==
    ASSUME NEW n, NEW m, NEW t \in Sock, Owed(n, t), m.socks[t].flight = n.socks[t].flight,
           Linked(m.socks[t]) /\ Speaks(m.socks[m.socks[t].far]) =>
               /\ Linked(n.socks[t]) /\ m.socks[t].far = n.socks[t].far /\ (m.socks[t].fin => n.socks[t].fin)
               /\ Speaks(n.socks[n.socks[t].far])
    PROVE  Owed(m, t)
<1>1. FlLen(m.socks[t]) = FlLen(n.socks[t]) BY DEF FlLen
<1>2. Carries(m.socks[t], "fin") <=> Carries(n.socks[t], "fin") BY DEF Carries
<1> QED BY <1>1, <1>2 DEF Owed

LEMMA EvenTraffic ==
    ASSUME NEW n \in NetRec, Ends(n), Traffic(n), NEW m, Even(n, m)
    PROVE  Traffic(m)
<1>1. Clocked(m) BY ClockedSame DEF Traffic, Even
<1>2. ASSUME NEW t \in Sock PROVE Owed(m, t)
  <2>1. Owed(n, t) /\ m.socks[t].flight = n.socks[t].flight BY DEF Traffic, Even
  <2>2. Linked(m.socks[t]) => /\ Linked(n.socks[t]) /\ m.socks[t].far = n.socks[t].far
                              /\ (m.socks[t].fin => n.socks[t].fin)
    BY DEF Even
  <2>3. Linked(n.socks[t]) => n.socks[t].far \in Sock BY DEF Ends
  <2>4. \A x \in Sock : Speaks(m.socks[x]) => Speaks(n.socks[x]) BY DEF Even
  <2>5. Linked(m.socks[t]) /\ Speaks(m.socks[m.socks[t].far]) => Speaks(n.socks[n.socks[t].far])
    BY <2>2, <2>3, <2>4
  <2> QED BY <2>1, <2>2, <2>5, OwedSame
<1> QED BY <1>1, <1>2 DEF Traffic, Even

LEMMA StandsEnds ==
    ASSUME NEW n, Hangs(n, NoSock) \/ Stands(n)
    PROVE  Ends(n)
  BY DEF Ends, Stands, Hangs, Paired

\* A payload d may be sent: a FIN there is room for, bytes that fit its window,
\* a datagram that fits.
Welcome(n, d, from, pay) ==
    \/ /\ pay.kind = "fin" /\ Linked(n.socks[d])
       /\ n.socks[d].flight # <<>> => FlLen(n.socks[d]) + FlightHeader <= Ring
    \/ /\ pay.kind = "bytes" /\ n.socks[d].state = "connected" /\ Len(pay.data) > 0
       /\ IF ArrivesNow(from, n.socks[d]) THEN Len(pay.data) <= Ring - RxLen(n.socks[d])
          ELSE Len(pay.data) <= Window(n.socks[d]) /\ Len(pay.data) <= FlightRoom(n.socks[d])
    \/ /\ pay.kind = "dgram" /\ n.socks[d].kind = "dgram" /\ TakesDgram(from, n.socks[d])

LEMMA DgramIs ==
    ASSUME NEW pay \in Payload, pay.kind = "dgram"
    PROVE  pay.data \in Seq(Name) /\ Len(pay.data) = 1 /\ Size(pay) = DgramLen
<1>1. pay \in [kind: {"dgram"}, data: {q \in Seq(Name) : Len(q) = 1}] BY DEF Payload
<1> QED BY <1>1 DEF Size

LEMMA ConcatLen ==
    ASSUME NEW a \in Seq(Byte \cup Name), NEW b \in Seq(Byte \cup Name)
    PROVE  a \o b \in Seq(Byte \cup Name) /\ Len(a \o b) = Len(a) + Len(b) /\ Len(a) \in Nat /\ Len(b) \in Nat
  BY ConcatProperties, LenProperties

LEMMA PayData ==
    ASSUME NEW pay \in Payload
    PROVE  pay.data \in Seq(Byte \cup Name) /\ Len(pay.data) \in Nat
<1>1. pay.kind \in {"bytes", "dgram", "fin"} BY DEF Payload
<1>2. CASE pay.kind = "bytes" BY <1>2, PayIs
<1>3. CASE pay.kind = "dgram" BY <1>3, DgramIs
<1>4. CASE pay.kind = "fin"
  <2>1. pay.data = <<>> BY <1>4 DEF Payload
  <2>2. <<>> \in Seq(Byte \cup Name) /\ Len(<<>>) = 0 BY EmptySeq
  <2> QED BY <2>1, <2>2
<1> QED BY <1>1, <1>2, <1>3, <1>4

\* What a payload adds to a ring when it lands
LEMMA LandGrows ==
    ASSUME NEW sk \in SockRec, NEW pay \in Payload, ~IsGone(sk),
           sk.kind = (IF pay.kind = "dgram" THEN "dgram" ELSE "stream"), NEW r, r = Land(sk, pay)
    PROVE  /\ RxLen(r) \in Nat /\ RxLen(sk) \in Nat
           /\ pay.kind # "dgram" => RxLen(r) = RxLen(sk) + Load(pay)
           /\ pay.kind = "dgram" => RxLen(r) = RxLen(sk) \/ (RxLen(r) = RxLen(sk) + DgramLen /\ DgramLen <= Ring - RxLen(sk))
<1>1. r \in SockRec /\ r.kind = sk.kind BY LandIs DEF Alike
<1>2. RxLen(r) \in Nat /\ RxLen(sk) \in Nat /\ Len(sk.rx) \in Nat BY <1>1, RxLenIs
<1>3. sk.rx \in Seq(Byte \cup Name) BY DEF SockRec
<1>4. pay.kind \in {"bytes", "dgram", "fin"} BY DEF Payload
<1>5. CASE pay.kind = "fin"
  <2>1. r.rx = sk.rx BY <1>5, LandRx
  <2> QED BY <1>1, <1>2, <1>5, <2>1 DEF RxLen, Load
<1>6. CASE pay.kind = "bytes"
  <2>1. r.rx = sk.rx \o pay.data BY <1>6, LandRx
  <2>2. Len(r.rx) = Len(sk.rx) + Len(pay.data) BY <1>3, <2>1, PayData, ConcatLen
  <2>3. RxLen(r) = Len(r.rx) /\ RxLen(sk) = Len(sk.rx) BY <1>1, <1>6 DEF RxLen
  <2> QED BY <1>2, <1>6, <2>2, <2>3 DEF Load
<1>7. CASE pay.kind = "dgram"
  <2>1. RxLen(r) = DgramLen * Len(r.rx) /\ RxLen(sk) = DgramLen * Len(sk.rx) BY <1>1, <1>7 DEF RxLen
  <2>2. CASE r.rx = sk.rx BY <1>2, <1>7, <2>1, <2>2
  <2>3. CASE r.rx = sk.rx \o pay.data /\ DgramLen <= Ring - RxLen(sk)
    <3>1. Len(r.rx) = Len(sk.rx) + 1 BY <1>3, <1>7, <2>3, PayData, DgramIs, ConcatLen
    <3>2. DgramLen * (Len(sk.rx) + 1) = DgramLen * Len(sk.rx) + DgramLen
      BY <1>2, SizesAre, TimesGrows
    <3> QED BY <1>2, <1>7, <2>1, <2>3, <3>1, <3>2
  <2> QED BY <1>7, <2>2, <2>3, LandRx
<1> QED BY <1>4, <1>5, <1>6, <1>7

\* What lands at once
LEMMA LandBlameless ==
    ASSUME NEW sk \in SockRec, Blameless(sk), sk.flight = <<>>, NEW pay \in Payload,
           pay.kind = "fin" => Linked(sk),
           pay.kind = "bytes" => sk.state = "connected" /\ Len(pay.data) <= Ring - RxLen(sk),
           pay.kind = "dgram" => sk.kind = "dgram",
           NEW r, r = Land(sk, pay)
    PROVE  Blameless(r)
<1>1. CASE IsGone(sk) BY <1>1 DEF Land
<1>2. CASE ~IsGone(sk)
  <2>1. /\ r \in SockRec /\ r.kind = sk.kind /\ r.state = sk.state /\ r.flight = <<>> /\ r.flStream = sk.flStream
        /\ r.shutWr = sk.shutWr /\ r.shutRd = sk.shutRd
    BY LandIs DEF Alike
  <2>2. pay.kind \in {"bytes", "dgram", "fin"} BY DEF Payload
  <2>3. sk.kind = (IF pay.kind = "dgram" THEN "dgram" ELSE "stream") BY <2>2 DEF Blameless, Linked
  <2>4. sk.flStream = 0 BY LoadsAre DEF Blameless, SockRec
  <2>5. RxLen(r) <= Ring /\ RxLen(r) \in Nat
    <3>1. /\ RxLen(r) \in Nat /\ RxLen(sk) \in Nat
          /\ pay.kind # "dgram" => RxLen(r) = RxLen(sk) + Load(pay)
          /\ pay.kind = "dgram" => RxLen(r) = RxLen(sk) \/ (RxLen(r) = RxLen(sk) + DgramLen /\ DgramLen <= Ring - RxLen(sk))
      BY <1>2, <2>3, LandGrows
    <3>2. RxLen(sk) <= Ring BY <2>4, <3>1 DEF Blameless
    <3> DEFINE a == RxLen(r)
               b == RxLen(sk)
               c == Load(pay)
    <3>3. pay.kind # "dgram" => c <= Ring - b /\ c \in Nat
      <4>1. CASE pay.kind = "bytes" BY <4>1, LoadIs DEF Load
      <4>2. CASE pay.kind = "fin"
        <5>1. c = 0 BY <4>2 DEF Load
        <5> QED BY <3>1, <3>2, <5>1, SizesAre
      <4> QED BY <2>2, <4>1, <4>2
    <3>4. a \in Nat /\ b \in Nat /\ b <= Ring /\ Ring \in Nat /\ DgramLen \in Nat
      BY <3>1, <3>2, SizesAre
    <3>5. \/ c <= Ring - b /\ c \in Nat /\ a = b + c
          \/ a = b
          \/ a = b + DgramLen /\ DgramLen <= Ring - b
      BY <3>1, <3>3
    <3> HIDE DEF a, b, c
    <3>6. a <= Ring BY <3>4, <3>5
    <3> QED BY <3>1, <3>6 DEF a
  <2>6. RxLen(r) + r.flStream <= Ring BY <2>1, <2>4, <2>5
  <2>7. FlLen(r) = FlLen(sk) /\ \A kind : Carries(r, kind) <=> Carries(sk, kind)
    BY <2>1, LadenSame DEF Laden
  <2>8. sk.kind = "stream" => sk.state = "connected" BY <1>2, <2>2, <2>3 DEF Linked, IsGone
  <2>9. r.state = "connected" => r.kind = "stream" BY <2>1 DEF Blameless
  <2>10. r.flStream = StreamLen(r.flight) /\ FlLen(r) <= Ring BY <2>1, <2>7 DEF Blameless
  <2>11. r.state \notin {"new", "bound"} => r.kind = "stream" BY <2>1 DEF Blameless
  <2>12. r.state = "connected" => ~Carries(r, "dgram") BY <2>1, <2>7 DEF Blameless
  <2>13. r.kind = "dgram" => r.flStream = 0 /\ ~Carries(r, "bytes") /\ ~Carries(r, "fin")
    BY <2>1, <2>7 DEF Blameless
  <2>14. ~IsGone(r) BY <1>2, <2>1 DEF IsGone
  <2>15. r.kind = "stream" => r.state = "connected" BY <2>1, <2>8
  <2> QED BY <2>6, <2>10, <2>11, <2>12, <2>13, <2>14, <2>15 DEF Blameless
<1> QED BY <1>1, <1>2

\* What is sent and has to travel
LEMMA FlyBlameless ==
    ASSUME NEW sk \in SockRec, Blameless(sk), NEW left \in Nat, NEW pay \in Payload,
           pay.kind = "fin" => Linked(sk) /\ (sk.flight # <<>> => FlLen(sk) + FlightHeader <= Ring),
           pay.kind = "bytes" => sk.state = "connected" /\ Len(pay.data) > 0 /\ Len(pay.data) <= Window(sk) /\ Len(pay.data) <= FlightRoom(sk),
           pay.kind = "dgram" => sk.kind = "dgram" /\ DgramLen <= FlightRoom(sk),
           NEW r, r = Flying(sk, left, pay)
    PROVE  /\ Blameless(r)
           /\ pay.kind = "bytes" => FlLen(r) + FlightHeader <= Ring
           /\ pay.kind # "fin" /\ Carries(r, "fin") => Carries(sk, "fin")
<1>1. /\ r \in SockRec /\ r.kind = sk.kind /\ r.state = sk.state /\ r.rx = sk.rx /\ r.fin = sk.fin
      /\ r.shutWr = sk.shutWr /\ r.shutRd = sk.shutRd
      /\ r.flight = Append(sk.flight, [left |-> left, pay |-> pay])
      /\ r.flStream = sk.flStream + Load(pay)
  BY FlyingIs DEF Alike, Load
<1>2. pay.kind \in {"bytes", "dgram", "fin"} BY DEF Payload
<1>3. sk.kind = (IF pay.kind = "dgram" THEN "dgram" ELSE "stream") BY <1>2 DEF Blameless, Linked
<1>4. sk.flight \in Seq([left: Nat, pay: Payload]) BY DEF SockRec
<1>5. /\ Len(r.flight) = Len(sk.flight) + 1 /\ Len(sk.flight) \in Nat
      /\ \A i \in 1..Len(sk.flight) : r.flight[i] = sk.flight[i]
      /\ r.flight[Len(sk.flight) + 1] = [left |-> left, pay |-> pay]
      /\ StreamLen(r.flight) = StreamLen(sk.flight) + Load(pay)
      /\ Total(Weights(r.flight)) = Total(Weights(sk.flight)) + FlightHeader + Size(pay)
  <2> DEFINE f == sk.flight
             g == r.flight
  <2>1. f \in Seq([left: Nat, pay: Payload]) /\ g = Append(f, [left |-> left, pay |-> pay])
    BY <1>1, <1>4
  <2> HIDE DEF f, g
  <2>2. Grown(f, left, pay, g) BY <2>1, FlightGrows
  <2> QED BY <2>2 DEF f, g, Grown
<1>6. FlLen(r) = FlLen(sk) + FlightHeader + Size(pay) /\ FlLen(sk) \in Nat /\ Size(pay) \in Nat
      /\ (sk.flight = <<>> => FlLen(sk) = 0)
  BY <1>1, <1>5, FlLenIs, SizeIs
<1>7. \A kind : Carries(r, kind) <=> Carries(sk, kind) \/ pay.kind = kind
  <2> TAKE kind
  <2> DEFINE L == Len(sk.flight)
  <2>1. L \in Nat /\ Len(r.flight) = L + 1 BY <1>5
  <2>2. \A i \in 1..L + 1 : i \in 1..L \/ i = L + 1 BY <2>1
  <2>3. 1..L \subseteq 1..L + 1 /\ L + 1 \in 1..L + 1 BY <2>1
  <2>4. r.flight[L + 1].pay = pay BY <1>5
  <2>5. \A i \in 1..L : r.flight[i] = sk.flight[i] BY <1>5
  <2>6. Carries(sk, kind) <=> \E i \in 1..L : sk.flight[i].pay.kind = kind BY DEF Carries
  <2>7. Carries(r, kind) <=> \E i \in 1..L + 1 : r.flight[i].pay.kind = kind BY <2>1 DEF Carries
  <2> HIDE DEF L
  <2> QED BY <2>2, <2>3, <2>4, <2>5, <2>6, <2>7
<1> DEFINE f == FlLen(sk)
           x == RxLen(sk)
           c == sk.flStream
           w == Window(sk)
           o == FlightRoom(sk)
           k == Len(pay.data)
           H == FlightHeader
<1>8. /\ f \in Nat /\ x \in Nat /\ c \in Nat /\ w \in Int /\ o \in Nat /\ k \in Nat
      /\ Ring \in Nat /\ H \in Nat /\ H > 0 /\ DgramLen \in Nat /\ DgramLen > 0 /\ DgramLen + 2 * H <= Ring
      /\ x + c <= Ring /\ f <= Ring /\ w <= Ring - x - c
      /\ f + 2 * H <= Ring => o = Ring - f - 2 * H
      /\ f + 2 * H > Ring => o = 0
  BY <1>6, RxLenIs, WindowIs, PayData, SizesAre DEF Blameless, SockRec
<1>9. RxLen(r) = x BY <1>1 DEF RxLen
<1>10. RxLen(r) + r.flStream <= Ring
  <2>1. CASE pay.kind = "bytes"
    <3>1. Load(pay) = k /\ k <= w BY <2>1 DEF Load
    <3>2. r.flStream = c + k /\ RxLen(r) = x BY <1>1, <1>9, <3>1
    <3> HIDE DEF x, c, w, k, f, o, H
    <3>3. x + (c + k) <= Ring BY <1>8, <3>1
    <3> QED BY <3>2, <3>3
  <2>2. CASE pay.kind # "bytes"
    <3>1. r.flStream = c BY <1>1, <1>8, <2>2 DEF Load
    <3> QED BY <1>8, <1>9, <3>1
  <2> QED BY <2>1, <2>2
<1>11. FlLen(r) <= Ring /\ (pay.kind = "bytes" => FlLen(r) + FlightHeader <= Ring)
  <2>1. CASE pay.kind = "bytes"
    <3>1. Size(pay) = k /\ k <= o /\ k > 0 BY <2>1 DEF Size
    <3>2. FlLen(r) = f + H + k BY <1>6, <3>1
    <3> HIDE DEF x, c, w, k, f, o, H
    <3>3. f + H + k + H <= Ring /\ f + H + k <= Ring BY <1>8, <3>1
    <3> QED BY <3>2, <3>3 DEF H
  <2>2. CASE pay.kind = "fin"
    <3>1. Size(pay) = 0 BY <2>2, EmptySeq DEF Size, Payload
    <3>2. FlLen(r) = f + H BY <1>6, <1>8, <3>1
    <3>3. sk.flight # <<>> => f + H <= Ring BY <2>2
    <3>4. sk.flight = <<>> => f = 0 BY <1>6
    <3>5. f + H <= Ring
      <4> HIDE DEF x, c, w, k, f, o, H
      <4> QED BY <1>8, <3>3, <3>4
    <3> QED BY <2>2, <3>2, <3>5
  <2>3. CASE pay.kind = "dgram"
    <3>1. Size(pay) = DgramLen /\ DgramLen <= o BY <2>3, DgramIs
    <3>2. FlLen(r) = f + H + DgramLen BY <1>6, <3>1
    <3>3. f + H + DgramLen <= Ring
      <4> HIDE DEF x, c, w, k, f, o, H
      <4> QED BY <1>8, <3>1
    <3> QED BY <2>3, <3>2, <3>3
  <2> QED BY <1>2, <2>1, <2>2, <2>3
<1>12. r.flStream = StreamLen(r.flight) BY <1>1, <1>5 DEF Blameless
<1>13. r.kind = "stream" => Linked(r) BY <1>1, <1>2, <1>3 DEF Linked
<1>14. r.state \notin {"new", "bound"} => r.kind = "stream" BY <1>1 DEF Blameless
<1>15. IsGone(r) => r.rx = <<>> /\ ~r.fin BY <1>1 DEF Blameless, IsGone
<1>16. r.state = "connected" => ~Carries(r, "dgram") BY <1>1, <1>3, <1>7 DEF Blameless
<1>17. r.kind = "dgram" => r.flStream = 0 /\ ~Carries(r, "bytes") /\ ~Carries(r, "fin")
  BY <1>1, <1>2, <1>3, <1>7 DEF Blameless, Load
<1>18. r.state \in {"new", "bound", "listening"} => r.kind # "stream" BY <1>13 DEF Linked
<1> HIDE DEF x, c, w, k, f, o, H
<1> QED BY <1>7, <1>10, <1>11, <1>12, <1>14, <1>15, <1>16, <1>17, <1>18 DEF Blameless

\* Traffic to one socket, the rest as before
LEMMA PutTraffic ==
    ASSUME NEW n \in NetRec, Ends(n), Traffic(n), NEW d \in Sock, NEW m, Quiet(n, m), Clocked(m),
           \A t \in Sock : t # d => m.socks[t] = n.socks[t], Blameless(m.socks[d]),
           Linked(n.socks[d]) /\ Speaks(n.socks[n.socks[d].far]) =>
               /\ m.socks[d].flight # <<>> => FlLen(m.socks[d]) + FlightHeader <= Ring
               /\ ~m.socks[d].fin /\ ~Carries(m.socks[d], "fin")
    PROVE  Traffic(m)
<1>1. \A t \in Sock : /\ m.socks[t].state = n.socks[t].state /\ m.socks[t].far = n.socks[t].far
                      /\ m.socks[t].shutWr = n.socks[t].shutWr
  BY DEF Quiet, Lively, Alike
<1>2. \A t \in Sock : Speaks(m.socks[t]) <=> Speaks(n.socks[t]) BY <1>1 DEF Speaks
<1>3. \A t \in Sock : Linked(m.socks[t]) <=> Linked(n.socks[t]) BY <1>1 DEF Linked
<1>4. \A t \in Sock : Linked(n.socks[t]) => n.socks[t].far \in Sock BY DEF Ends
<1>5. ASSUME NEW t \in Sock PROVE Owed(m, t)
  <2>1. CASE t = d BY <1>1, <1>2, <1>3, <1>4, <2>1 DEF Owed
  <2>2. CASE t # d
    <3>1. Owed(n, t) /\ m.socks[t] = n.socks[t] BY <2>2 DEF Traffic
    <3>2. Linked(m.socks[t]) /\ Speaks(m.socks[m.socks[t].far]) => Speaks(n.socks[n.socks[t].far])
      BY <1>2, <1>4, <3>1
    <3> QED BY <3>1, <3>2 DEF Owed
  <2> QED BY <2>1, <2>2
<1>6. \A t \in Sock : Blameless(m.socks[t]) BY DEF Traffic
<1> QED BY <1>5, <1>6 DEF Traffic

LEMMA DeliverIsFine ==
    ASSUME NEW n \in NetRec, Traffic(n), NEW d \in Sock, Linked(n.socks[d]) => n.socks[d].far \in Sock,
           NEW from, NEW pay \in Payload, Welcome(n, d, from, pay),
           NEW m, m = Deliver(n, from, d, pay)
    PROVE  Delivered(n, m, d, pay)
<1> DEFINE sk == n.socks[d]
           r == m.socks[d]
<1>1. sk \in SockRec /\ Blameless(sk) /\ Clocked(n) BY DEF NetRec, Traffic
<1>2. Quiet(n, m) /\ m \in NetRec BY DeliverQuiet DEF Quiet
<1>3. pay.kind \in {"bytes", "dgram", "fin"} BY DEF Payload
<1>4. /\ r.state = sk.state /\ r.far = sk.far
      /\ \A x \in Sock : Speaks(m.socks[x]) <=> Speaks(n.socks[x])
  BY <1>2 DEF Quiet, Lively, Alike, Speaks
<1>5. CASE ArrivesNow(from, sk)
  <2>1. Puts(n, m, d, Land(sk, pay)) /\ m.inFlight = n.inFlight /\ m.nextDue = n.nextDue
    BY <1>5, DeliverIs
  <2>2. r = Land(sk, pay) /\ \A t \in Sock : t # d => m.socks[t] = n.socks[t] BY <2>1, PutsIs
  <2>3. m.port = n.port BY <2>1 DEF Puts
  <2>4. sk.flight = <<>> /\ r.flight = sk.flight BY <1>1, <1>5, <2>2, LandIs DEF ArrivesNow
  <2>5. Clocked(m)
    <3>1. \A t \in Sock : m.socks[t].flight = n.socks[t].flight BY <2>2, <2>4
    <3> QED BY <1>1, <1>2, <2>1, <3>1, ClockedSame
  <2>6. Blameless(r)
    <3> HIDE DEF sk, r
    <3>1. pay.kind = "fin" => Linked(sk) BY DEF Welcome, sk
    <3>2. pay.kind = "bytes" => sk.state = "connected" /\ Len(pay.data) <= Ring - RxLen(sk)
      BY <1>5 DEF Welcome, sk
    <3>3. pay.kind = "dgram" => sk.kind = "dgram" BY DEF Welcome, sk
    <3> QED BY <1>1, <2>2, <2>4, <3>1, <3>2, <3>3, LandBlameless
  <2>7. ASSUME pay.kind # "fin", sk.state = "connected", Owed(n, d) PROVE Owed(m, d)
    <3>1. r.fin = sk.fin
      <4>1. ~IsGone(sk) BY <2>7 DEF IsGone
      <4> HIDE DEF sk, r
      <4> QED BY <1>1, <2>2, <2>7, <4>1, LandRx
    <3>2. Linked(n.socks[d]) BY <2>7 DEF Linked
    <3>3. Speaks(m.socks[m.socks[d].far]) => Speaks(n.socks[n.socks[d].far]) BY <1>4, <3>2
    <3> QED BY <1>4, <2>4, <2>7, <3>1, <3>2, <3>3, OwedSame
  <2> QED BY <1>2, <2>2, <2>3, <2>5, <2>6, <2>7 DEF Delivered
<1>6. CASE ~ArrivesNow(from, sk)
  <2> DEFINE left == Delay(from, sk)
  <2>1. left \in Nat /\ m = Launch(n, d, left, pay) BY <1>6, DelayIs, DeliverIs
  <2> HIDE DEF left
  <2>2. /\ Puts(n, m, d, Flying(sk, left, pay))
        /\ m.inFlight = n.inFlight + 1
        /\ m.nextDue = IF n.inFlight = 0 \/ n.nextDue = NoTime \/ left < n.nextDue THEN left ELSE n.nextDue
    BY <2>1, LaunchIs
  <2>3. r = Flying(sk, left, pay) /\ \A t \in Sock : t # d => m.socks[t] = n.socks[t]
    BY <2>2, PutsIs
  <2>4. m.port = n.port BY <2>2 DEF Puts
  <2>5. r.flight = Append(sk.flight, [left |-> left, pay |-> pay]) /\ r.fin = sk.fin
    BY <1>1, <2>1, <2>3, FlyingIs
  <2>6. Clocked(m) BY <1>1, <1>2, <2>1, <2>2, <2>3, <2>5, ClockedLaunch
  <2>7. /\ Blameless(r)
        /\ pay.kind = "bytes" => FlLen(r) + FlightHeader <= Ring
        /\ pay.kind # "fin" /\ Carries(r, "fin") => Carries(sk, "fin")
    <3> HIDE DEF sk, r
    <3>1. pay.kind = "fin" => Linked(sk) /\ (sk.flight # <<>> => FlLen(sk) + FlightHeader <= Ring)
      BY DEF Welcome, sk
    <3>2. pay.kind = "bytes" => sk.state = "connected" /\ Len(pay.data) > 0 /\ Len(pay.data) <= Window(sk) /\ Len(pay.data) <= FlightRoom(sk)
      BY <1>6 DEF Welcome, sk
    <3>3. pay.kind = "dgram" => sk.kind = "dgram" /\ DgramLen <= FlightRoom(sk)
      BY <1>6 DEF Welcome, sk, TakesDgram
    <3> QED BY <1>1, <2>1, <2>3, <3>1, <3>2, <3>3, FlyBlameless
  <2>8. ASSUME pay.kind # "fin", sk.state = "connected", Owed(n, d) PROVE Owed(m, d)
    <3>1. pay.kind = "bytes" BY <1>1, <1>3, <2>8 DEF Welcome, Blameless
    <3>2. Linked(n.socks[d]) BY <2>8 DEF Linked
    <3>3. Speaks(m.socks[m.socks[d].far]) => Speaks(n.socks[n.socks[d].far]) BY <1>4, <3>2
    <3>4. Speaks(n.socks[n.socks[d].far]) => ~sk.fin /\ ~Carries(sk, "fin") BY <2>8, <3>2 DEF Owed
    <3> QED BY <2>5, <2>7, <3>1, <3>3, <3>4 DEF Owed
  <2> QED BY <1>2, <2>3, <2>4, <2>6, <2>7, <2>8 DEF Delivered
<1> QED BY <1>5, <1>6

LEMMA DeliverTraffic ==
    ASSUME NEW n \in NetRec, Ends(n), Traffic(n), NEW d \in Sock, NEW from, NEW pay \in Payload, Welcome(n, d, from, pay),
           pay.kind = "fin" => ~Speaks(n.socks[n.socks[d].far]), NEW m, m = Deliver(n, from, d, pay)
    PROVE  Traffic(m)
<1>1. Linked(n.socks[d]) => n.socks[d].far \in Sock BY DEF Ends
<1>2. Delivered(n, m, d, pay) BY <1>1, DeliverIsFine
<1>3. /\ Quiet(n, m) /\ Clocked(m) /\ Blameless(m.socks[d])
      /\ \A t \in Sock : t # d => m.socks[t] = n.socks[t]
      /\ pay.kind # "fin" /\ n.socks[d].state = "connected" => Owed(m, d)
  BY <1>2 DEF Delivered, Traffic
<1>4. m.socks[d].state = n.socks[d].state /\ m.socks[d].far = n.socks[d].far
  BY <1>3 DEF Quiet, Lively, Alike
<1>5. \A x \in Sock : Speaks(m.socks[x]) <=> Speaks(n.socks[x])
  BY <1>3 DEF Quiet, Lively, Alike, Speaks
<1>6. pay.kind = "fin" => ~Speaks(n.socks[n.socks[d].far]) OBVIOUS
<1>7. pay.kind = "bytes" => n.socks[d].state = "connected" BY DEF Welcome
<1>8. pay.kind = "dgram" => ~Linked(n.socks[d]) BY DEF Welcome, Traffic, Blameless, Linked
<1>9. pay.kind \in {"bytes", "dgram", "fin"} BY DEF Payload
<1>10. Linked(n.socks[d]) /\ Speaks(n.socks[n.socks[d].far]) => pay.kind = "bytes"
  BY <1>6, <1>8, <1>9
<1>11. Linked(n.socks[d]) /\ Speaks(n.socks[n.socks[d].far]) =>
               /\ m.socks[d].flight # <<>> => FlLen(m.socks[d]) + FlightHeader <= Ring
               /\ ~m.socks[d].fin /\ ~Carries(m.socks[d], "fin")
  BY <1>1, <1>3, <1>4, <1>5, <1>7, <1>10 DEF Owed, Linked
<1> QED BY <1>3, <1>11, PutTraffic

LEMMA SameBlameless == ASSUME NEW sk \in SockRec, Blameless(sk) PROVE Blameless(Told(sk))
<1> DEFINE r == Told(sk)
<1>1. /\ r \in SockRec /\ r.state = sk.state /\ r.kind = sk.kind /\ r.shutWr = sk.shutWr /\ r.shutRd = sk.shutRd
      /\ r.rx = sk.rx /\ r.fin = sk.fin /\ r.flight = sk.flight /\ r.flStream = sk.flStream
  BY ToldIs DEF Lively, Alike
<1> HIDE DEF r
<1>2. Len(r.rx) <= Len(sk.rx) BY <1>1, RxLenIs
<1>3. Mild(r, sk) BY <1>1, <1>2 DEF Mild, Laden
<1> QED BY <1>3, MildBlameless DEF r

\* Some records go.
LEMMA FreedTraffic ==
    ASSUME NEW n \in NetRec, Ends(n), Traffic(n), NEW m \in NetRec, m.inFlight = n.inFlight, m.nextDue = n.nextDue,
           \A t \in Sock : m.socks[t] = n.socks[t] \/ m.socks[t] = Freed(n.socks[t])
    PROVE  Traffic(m)
<1>1. ASSUME NEW t \in Sock
      PROVE  /\ m.socks[t].flight = n.socks[t].flight /\ Blameless(m.socks[t])
             /\ Linked(m.socks[t]) => Linked(n.socks[t]) /\ m.socks[t].far = n.socks[t].far /\ (m.socks[t].fin => n.socks[t].fin)
             /\ Speaks(m.socks[t]) => Speaks(n.socks[t])
  <2>1. n.socks[t] \in SockRec /\ Blameless(n.socks[t]) BY DEF NetRec, Traffic
  <2>2. CASE m.socks[t] = n.socks[t] BY <2>1, <2>2
  <2>3. CASE m.socks[t] = Freed(n.socks[t])
    <3>1. m.socks[t].state = "free" BY <2>1, <2>3, FreedIs
    <3>2. Blameless(m.socks[t]) /\ Laden(m.socks[t], n.socks[t]) /\ ~Speaks(m.socks[t])
      BY <2>1, <2>3, EmptiedBlameless
    <3> QED BY <3>1, <3>2 DEF Laden, Linked
  <2> QED BY <2>2, <2>3
<1>2. Even(n, m) BY <1>1 DEF Even
<1> QED BY <1>2, EvenTraffic

\* What a hang-up does to the traffic
Told2(n, m, s, k) ==
    /\ m \in NetRec /\ k \in NetRec /\ Quiet(n, k) /\ Clocked(k)
    /\ \A t \in Sock : Blameless(k.socks[t]) /\ (t # n.socks[s].far => k.socks[t] = n.socks[t])
    /\ m.inFlight = k.inFlight /\ m.nextDue = k.nextDue
    /\ m.socks[s] = Closed(n.socks[s])
    /\ m.socks[n.socks[s].far] = Told(k.socks[n.socks[s].far])
    /\ \A t \in Sock : t # s /\ t # n.socks[s].far => m.socks[t] = n.socks[t]

LEMMA QuietSelf == ASSUME NEW n \in NetRec PROVE Quiet(n, n)
  BY DEF Quiet, Lively, Alike, Named, NetRec

LEMMA HangUpTells ==
    ASSUME NEW n \in NetRec, Ends(n), Traffic(n), NEW s \in Sock, n.socks[s].state = "connected",
           n.socks[s].far \in Sock, n.socks[s].far # s, n.socks[n.socks[s].far].far = s, Linked(n.socks[n.socks[s].far]),
           NEW m, m = HangUp(n, s)
    PROVE  \E k : Told2(n, m, s, k)
<1> DEFINE peer == n.socks[s].far
           k == IF n.socks[s].shutWr THEN n ELSE Deliver(n, n.socks[s].host, peer, Fin)
           w == Writable(k, peer)
<1>1. peer \in Sock /\ peer # s OBVIOUS
<1>2. Fin \in Payload /\ Fin.kind = "fin" BY PayloadIs
<1>3. Quiet(n, k) /\ Clocked(k) /\ \A t \in Sock : Blameless(k.socks[t]) /\ (t # peer => k.socks[t] = n.socks[t])
  <2>1. CASE n.socks[s].shutWr BY <2>1, QuietSelf DEF Traffic
  <2>2. CASE ~n.socks[s].shutWr
    <3>1. k = Deliver(n, n.socks[s].host, peer, Fin) BY <2>2
    <3>2. Speaks(n.socks[s]) BY <2>2 DEF Speaks
    <3>3. n.socks[peer].flight # <<>> => FlLen(n.socks[peer]) + FlightHeader <= Ring
      BY <3>2 DEF Traffic, Owed
    <3>4. Welcome(n, peer, n.socks[s].host, Fin) BY <1>2, <3>3 DEF Welcome
    <3>5. Linked(n.socks[peer]) => n.socks[peer].far \in Sock OBVIOUS
    <3> HIDE DEF peer, k
    <3>6. Delivered(n, k, peer, Fin) BY <1>1, <1>2, <3>1, <3>4, <3>5, DeliverIsFine
    <3>7. Quiet(n, k) /\ Clocked(k) /\ Blameless(k.socks[peer]) /\ \A t \in Sock : t # peer => k.socks[t] = n.socks[t]
      BY <3>6 DEF Delivered
    <3>8. \A t \in Sock : Blameless(n.socks[t]) BY DEF Traffic
    <3> QED BY <3>7, <3>8
  <2> QED BY <2>1, <2>2
<1>4. m = [w EXCEPT !.socks[s] = Closed(@)] BY DEF HangUp
<1> HIDE DEF peer, k, w
<1>5. k \in NetRec BY <1>3 DEF Quiet
<1>6. Puts(k, w, peer, Told(k.socks[peer])) /\ w.inFlight = k.inFlight /\ w.nextDue = k.nextDue
  BY <1>1, <1>5, WritableIs DEF w
<1>7. w \in NetRec /\ w.socks[peer] = Told(k.socks[peer]) /\ \A t \in Sock : t # peer => w.socks[t] = k.socks[t]
  <2>1. w \in NetRec BY <1>6 DEF Puts
  <2> QED BY <1>1, <1>5, <1>6, <2>1, PutsIs
<1>8. w.socks[s] = n.socks[s] /\ n.socks[s] \in SockRec BY <1>1, <1>3, <1>7 DEF NetRec
<1>9. Closed(n.socks[s]) \in SockRec BY <1>8, ClosedIs
<1>10. m = [w EXCEPT !.socks[s] = Closed(n.socks[s])] BY <1>4, <1>8
<1>11. Puts(w, m, s, Closed(n.socks[s])) /\ m.inFlight = w.inFlight /\ m.nextDue = w.nextDue
  BY <1>7, <1>9, <1>10, Put
<1>12. m \in NetRec /\ m.socks[s] = Closed(n.socks[s]) /\ \A t \in Sock : t # s => m.socks[t] = w.socks[t]
  <2>1. m \in NetRec BY <1>11 DEF Puts
  <2> QED BY <1>7, <1>11, <2>1, PutsIs
<1>13. Told2(n, m, s, k) BY <1>1, <1>3, <1>5, <1>6, <1>7, <1>11, <1>12 DEF Told2, peer
<1> QED BY <1>13

LEMMA HangUpTraffic ==
    ASSUME NEW n \in NetRec, Ends(n), Traffic(n), NEW s \in Sock, n.socks[s].state = "connected",
           n.socks[s].far \in Sock, n.socks[s].far # s, n.socks[n.socks[s].far].far = s, Linked(n.socks[n.socks[s].far]),
           NEW m, m = HangUp(n, s)
    PROVE  Traffic(m)
<1> DEFINE peer == n.socks[s].far
<1>1. PICK k : Told2(n, m, s, k) BY HangUpTells
<1>2. /\ m \in NetRec /\ k \in NetRec /\ Quiet(n, k) /\ Clocked(k)
      /\ \A t \in Sock : Blameless(k.socks[t]) /\ (t # peer => k.socks[t] = n.socks[t])
      /\ m.inFlight = k.inFlight /\ m.nextDue = k.nextDue
      /\ m.socks[s] = Closed(n.socks[s]) /\ m.socks[peer] = Told(k.socks[peer])
      /\ \A t \in Sock : t # s /\ t # peer => m.socks[t] = n.socks[t]
  BY <1>1 DEF Told2
<1>3. peer \in Sock /\ peer # s /\ n.socks[peer].far = s /\ n.socks[s] \in SockRec /\ Blameless(n.socks[s])
  BY DEF NetRec, Traffic
<1> HIDE DEF peer
<1>4. /\ m.socks[s].state = "closed" /\ m.socks[s].flight = n.socks[s].flight /\ m.socks[s].far = n.socks[s].far
      /\ ~m.socks[s].fin
  BY <1>2, <1>3, ClosedIs
<1>5. Blameless(m.socks[s]) BY <1>2, <1>3, EmptiedBlameless
<1>6. k.socks[peer] \in SockRec BY <1>2, <1>3 DEF NetRec
<1>7. Blameless(m.socks[peer]) BY <1>2, <1>3, <1>6, SameBlameless
<1>8. m.socks[peer].flight = k.socks[peer].flight BY <1>2, <1>6, ToldIs
<1>9. /\ m.socks[peer].state = n.socks[peer].state /\ m.socks[peer].far = n.socks[peer].far
      /\ m.socks[peer].shutWr = n.socks[peer].shutWr
  <2>1. Lively(Told(k.socks[peer]), k.socks[peer]) /\ Lively(k.socks[peer], n.socks[peer])
    BY <1>2, <1>3, <1>6, ToldIs DEF Quiet
  <2> QED BY <1>2, <2>1 DEF Lively, Alike
<1>10. \A t \in Sock : Blameless(m.socks[t]) BY <1>2, <1>5, <1>7
<1>11. Clocked(m)
  <2>1. \A t \in Sock : m.socks[t].flight = k.socks[t].flight BY <1>2, <1>3, <1>4, <1>8
  <2> QED BY <1>2, <2>1, ClockedSame
<1>12. \A t \in Sock : Speaks(m.socks[t]) => Speaks(n.socks[t]) BY <1>2, <1>4, <1>9 DEF Speaks
<1>13. ASSUME NEW t \in Sock PROVE Owed(m, t)
  <2>1. Owed(n, t) /\ (Linked(n.socks[t]) => n.socks[t].far \in Sock) BY DEF Traffic, Ends
  <2>2. CASE t = peer
    <3>1. m.socks[t].far = s BY <1>3, <1>9, <2>2
    <3>2. ~Speaks(m.socks[s]) BY <1>4 DEF Speaks
    <3> QED BY <3>1, <3>2 DEF Owed
  <2>3. CASE t = s
    <3>1. Linked(n.socks[t]) BY <2>3 DEF Linked
    <3> QED BY <1>4, <1>12, <2>1, <2>3, <3>1, OwedSame
  <2>4. CASE t # s /\ t # peer
    <3>1. m.socks[t] = n.socks[t] BY <1>2, <2>4
    <3> QED BY <1>12, <2>1, <3>1, OwedSame
  <2> QED BY <2>2, <2>3, <2>4
<1> QED BY <1>10, <1>11, <1>13 DEF Traffic

LEMMA EndGoesTraffic ==
    ASSUME NEW n \in NetRec, Ends(n), Traffic(n), NEW s \in Sock, n.socks[s].state = "connected",
           n.socks[s].far \in Sock, n.socks[s].far # s, n.socks[n.socks[s].far].far = s, Linked(n.socks[n.socks[s].far])
    PROVE  Traffic(EndGoes(n, s))
<1> DEFINE peer == n.socks[s].far
           m == EndGoes(n, s)
<1>1. CASE n.socks[peer].state = "closed"
  <2>1. m = [n EXCEPT !.socks[peer] = Freed(@), !.socks[s] = Freed(@)] BY <1>1 DEF EndGoes
  <2> HIDE DEF m
  <2>2. FreesTwo(n, m, peer, s) BY <2>1, PutTwo
  <2>3. /\ m \in NetRec /\ m.inFlight = n.inFlight /\ m.nextDue = n.nextDue
        /\ \A t \in Sock : m.socks[t] = n.socks[t] \/ m.socks[t] = Freed(n.socks[t])
    BY <2>2 DEF FreesTwo
  <2>4. Traffic(m) BY <2>3, FreedTraffic
  <2> QED BY <2>4 DEF m
<1>2. CASE n.socks[peer].state # "closed"
  <2>1. EndGoes(n, s) = HangUp(n, s) BY <1>2 DEF EndGoes
  <2> QED BY <2>1, HangUpTraffic
<1> QED BY <1>1, <1>2

LEMMA ReleasedEnds ==
    ASSUME NEW n, NEW but, Hangs(n, but), NEW x, NEW G, Released(n, x, G)
    PROVE  Ends(x)
<1> SUFFICES ASSUME NEW t \in Sock, Linked(x.socks[t]) PROVE x.socks[t].far \in Sock
  BY DEF Ends
<1>1. Linked(n.socks[t]) => n.socks[t].far \in Sock BY DEF Hangs, Paired
<1>2. CASE Survives(n, G, t)
  <2>1. Stays(x.socks[t], n.socks[t]) BY <1>2 DEF Released
  <2> QED BY <1>1, <2>1 DEF Stays, Lively, Alike, Linked
<1>3. CASE Lingers(n, G, t)
  <2>1. Emptied(x.socks[t], n.socks[t], "closed") BY <1>3 DEF Released
  <2> QED BY <1>1, <1>3, <2>1 DEF Emptied, Lingers, Linked
<1>4. CASE ~Survives(n, G, t) /\ ~Lingers(n, G, t)
  <2>1. Emptied(x.socks[t], n.socks[t], "free") BY <1>4 DEF Released
  <2> QED BY <2>1 DEF Emptied, Linked
<1> QED BY <1>2, <1>3, <1>4

LEMMA ResetTraffic ==
    ASSUME NEW n, NEW but, Hangs(n, but), NEW l \in Sock, n.socks[l].state = "listening",
           NEW i \in 1..Len(n.socks[l].backlog), NEW x, Released(n, x, FirstQueued(n, l, i - 1)), Traffic(x),
           NEW far, far = n.socks[l].backlog[i]
    PROVE  Released(n, Reset(x, far), FirstQueued(n, l, i)) /\ Traffic(Reset(x, far))
<1> DEFINE G == FirstQueued(n, l, i - 1)
           H == FirstQueued(n, l, i)
           peer == n.socks[far].far
<1>1. /\ far \in Sock /\ n.socks[far].state = "connected" /\ peer \notin H /\ far \notin G
      /\ Stays(x.socks[far], n.socks[far]) /\ Reset(x, far) = EndGoes(x, far) /\ Released(n, Reset(x, far), H)
  BY ResetReleases
<1>2. G \in SUBSET H
  <2>1. Len(n.socks[l].backlog) \in Nat BY LenNat DEF Hangs
  <2>2. \A j \in 1..i - 1 : j \in 1..i BY <2>1
  <2> QED BY <2>2 DEF FirstQueued
<1>3. peer \in Sock /\ peer # far /\ n.socks[peer].far = far /\ Linked(n.socks[peer])
  BY <1>1 DEF Hangs, Paired, Linked
<1> HIDE DEF peer, H
<1>4. Survives(n, G, peer) BY <1>1, <1>2, <1>3 DEF Survives
<1>5. Stays(x.socks[peer], n.socks[peer]) /\ x \in NetRec BY <1>3, <1>4 DEF Released
<1>6. x.socks[far].state = "connected" /\ x.socks[far].far = peer
  BY <1>1 DEF Stays, Lively, Alike, peer
<1>7. x.socks[peer].far = far /\ Linked(x.socks[peer])
  BY <1>3, <1>5 DEF Stays, Lively, Alike, Linked
<1>8. Ends(x) BY ReleasedEnds
<1>9. Traffic(EndGoes(x, far)) BY <1>1, <1>3, <1>5, <1>6, <1>7, <1>8, EndGoesTraffic
<1> QED BY <1>1, <1>9 DEF H

LEMMA ResetsTraffic ==
    ASSUME NEW n, NEW but, Hangs(n, but), Traffic(n), NEW l \in Sock, n.socks[l].state = "listening"
    PROVE  Traffic(AllReset(n, n.socks[l].backlog))
<1> DEFINE q == n.socks[l].backlog
<1>1. q \in Seq(Sock) /\ Len(q) \in Nat BY LenNat DEF Hangs
<1>2. PICK f : ResetSteps(f, n, q) /\ AllReset(n, q) = f[Len(q)]
  <2> HIDE DEF q
  <2>1. Len(q) \in Nat BY <1>1
  <2> QED BY <2>1, ResetFold
<1> DEFINE T == {i \in 0..Len(q) : Released(n, f[i], FirstQueued(n, l, i)) /\ Traffic(f[i])}
<1>3. 0 \in T
  <2>1. FirstQueued(n, l, 0) = {} BY DEF FirstQueued
  <2>2. f[0] = n BY <1>2 DEF ResetSteps
  <2>3. Released(n, n, {}) BY NothingReleased DEF Hangs
  <2>4. 0 \in 0..Len(q) BY <1>1
  <2> QED BY <2>1, <2>2, <2>3, <2>4
<1>4. ASSUME NEW i \in 1..Len(q), i - 1 \in T PROVE i \in T
  <2>1. Released(n, f[i - 1], FirstQueued(n, l, i - 1)) /\ Traffic(f[i - 1]) BY <1>4
  <2>2. Released(n, Reset(f[i - 1], q[i]), FirstQueued(n, l, i)) /\ Traffic(Reset(f[i - 1], q[i]))
    BY <2>1, ResetTraffic
  <2>3. f[i] = Reset(f[i - 1], q[i]) /\ i \in 0..Len(q) BY <1>1, <1>2 DEF ResetSteps
  <2> QED BY <2>2, <2>3
<1> HIDE DEF T, q
<1>5. \A i \in 0..Len(q) : i \in T BY <1>1, <1>3, <1>4, Induct
<1>6. Len(q) \in T BY <1>1, <1>5
<1> QED BY <1>2, <1>6 DEF T, q

LEMMA ReleaseTraffic ==
    ASSUME NEW n, NEW but, Hangs(n, but), Traffic(n), NEW s \in Sock, ~IsGone(n.socks[s])
    PROVE  Traffic(Release(n, s))
<1> DEFINE m == Release(n, s)
<1>1. n \in NetRec /\ n.socks[s] \in SockRec BY DEF Hangs, NetRec
<1>2. ASSUME NEW x \in NetRec, Ends(x), Traffic(x), m = [x EXCEPT !.socks[s] = Freed(@)]
      PROVE  Traffic(m)
  <2> HIDE DEF m
  <2>1. x.socks[s] \in SockRec BY DEF NetRec
  <2>2. Freed(x.socks[s]) \in SockRec BY <2>1, FreedIs
  <2>3. m = [x EXCEPT !.socks[s] = Freed(x.socks[s])] BY <1>2
  <2>4. Puts(x, m, s, Freed(x.socks[s])) /\ m.inFlight = x.inFlight /\ m.nextDue = x.nextDue
    BY <2>2, <2>3, Put
  <2>5. m \in NetRec BY <2>4 DEF Puts
  <2>6. m.socks[s] = Freed(x.socks[s]) /\ \A t \in Sock : t # s => m.socks[t] = x.socks[t]
    BY <2>4, PutsIs
  <2> QED BY <1>2, <2>4, <2>5, <2>6, FreedTraffic
<1>3. CASE n.socks[s].state = "listening"
  <2> DEFINE q == n.socks[s].backlog
             x == AllReset(n, q)
  <2>1. Traffic(x) BY <1>3, ResetsTraffic
  <2>2. Released(n, x, FirstQueued(n, s, Len(q))) BY <1>3, ResetsRelease
  <2>3. m = [x EXCEPT !.socks[s] = Freed(@)] BY <1>3 DEF Release, AllReset
  <2> HIDE DEF x, q, m
  <2>4. x \in NetRec /\ Ends(x) BY <2>2, ReleasedEnds DEF Released
  <2>5. Traffic(m) BY <1>2, <2>1, <2>3, <2>4
  <2> QED BY <2>5 DEF m
<1>4. CASE n.socks[s].state = "connected"
  <2>1. m = EndGoes(n, s) BY <1>4 DEF Release, EndGoes
  <2>2. n.socks[s].far \in Sock /\ n.socks[s].far # s /\ n.socks[n.socks[s].far].far = s /\ Linked(n.socks[n.socks[s].far])
    BY <1>4 DEF Hangs, Paired, Linked
  <2>3. Ends(n) BY DEF Hangs, Paired, Ends
  <2>4. Traffic(EndGoes(n, s)) BY <1>1, <1>4, <2>2, <2>3, EndGoesTraffic
  <2> QED BY <2>1, <2>4
<1>5. CASE n.socks[s].state \notin {"listening", "connected"}
  <2>1. m = [n EXCEPT !.socks[s] = Freed(@)] BY <1>5 DEF Release
  <2>2. Ends(n) BY DEF Hangs, Paired, Ends
  <2> HIDE DEF m
  <2>3. Traffic(m) BY <1>1, <1>2, <2>1, <2>2
  <2> QED BY <2>3 DEF m
<1> QED BY <1>3, <1>4, <1>5
----------------------------------------------------------------------------
(***************************************************************************)
(* Traffic through releases.                                               *)
(***************************************************************************)
LEMMA RecountTraffic ==
    ASSUME NEW n \in NetRec, Ends(n), Traffic(n), NEW m, Recounted(n, m)
    PROVE  Traffic(m)
<1>1. m \in NetRec /\ m.inFlight = n.inFlight /\ m.nextDue = n.nextDue BY DEF Recounted
<1>2. ASSUME NEW t \in Sock
      PROVE  /\ m.socks[t].flight = n.socks[t].flight /\ Mild(m.socks[t], n.socks[t])
             /\ m.socks[t].far = n.socks[t].far /\ m.socks[t].fin = n.socks[t].fin
             /\ m.socks[t].state = n.socks[t].state /\ m.socks[t].shutWr = n.socks[t].shutWr
  <2>1. m.socks[t] \in SockRec /\ n.socks[t] \in SockRec BY <1>1 DEF NetRec
  <2>2. Recount(m.socks[t], n.socks[t]) BY DEF Recounted
  <2> DEFINE r == m.socks[t]
             sk == n.socks[t]
  <2> HIDE DEF r, sk
  <2>3. r \in SockRec /\ sk \in SockRec /\ Recount(r, sk) BY <2>1, <2>2 DEF r, sk
  <2>4. /\ Alike(r, sk) /\ r.fin = sk.fin /\ r.rx = sk.rx /\ r.flight = sk.flight /\ r.flStream = sk.flStream
    BY <2>3, RecountIs
  <2>5. Len(sk.rx) \in Nat BY <2>3, RxLenIs
  <2>6. Mild(r, sk) BY <2>3, <2>4, <2>5 DEF Mild, Laden, Alike
  <2> QED BY <2>4, <2>6 DEF r, sk, Alike
<1>3. \A t \in Sock : Blameless(m.socks[t])
  <2> TAKE t \in Sock
  <2>1. n.socks[t] \in SockRec BY DEF NetRec
  <2> QED BY <1>2, <2>1, MildBlameless DEF Traffic
<1>4. Even(n, m) BY <1>1, <1>2, <1>3 DEF Even, Linked, Speaks
<1> QED BY <1>4, EvenTraffic

LEMMA DropTraffic ==
    ASSUME NEW n, Hangs(n, NoSock), Traffic(n), NEW p \in Proc, NEW s \in Sock, NEW k \in Nat, k <= n.refs[p][s],
           NEW m, m = DropRefs(n, p, s, k)
    PROVE  Traffic(m)
<1>1. PICK rest : Rests(n, m, rest, p, s, k) BY DropRests
<1>2. n \in NetRec /\ Ends(n) BY StandsEnds DEF Hangs
<1>3. Traffic(rest)
  <2>1. Recounted(n, rest) BY <1>1 DEF Rests
  <2> QED BY <1>2, <2>1, RecountTraffic
<1>4. CASE m = rest BY <1>3, <1>4
<1>5. CASE Hangs(rest, s) /\ ~IsGone(rest.socks[s]) /\ m = Release(rest, s)
  BY <1>3, <1>5, ReleaseTraffic
<1> QED BY <1>1, <1>4, <1>5 DEF Rests

LEMMA DropAllTraffic ==
    ASSUME NEW n, Hangs(n, NoSock), Traffic(n), NEW p \in Proc, NEW held \in [Sock -> Nat],
           \A t \in Sock : held[t] <= n.refs[p][t], NEW m, m = DropAll(n, p, held)
    PROVE  Traffic(m)
<1>1. PICK f : /\ f[0] = n /\ m = f[MaxSockets]
               /\ \A i \in 1..MaxSockets : f[i] = DropRefs(f[i - 1], p, i, held[i])
  BY DropAllSteps
<1>2. MaxSockets \in Nat BY SockIs
<1> DEFINE T == {i \in 0..MaxSockets : DroppedAll(n, f[i], p, held, i) /\ Traffic(f[i])}
<1>3. 0 \in T BY <1>1, <1>2, DropStarts
<1>4. ASSUME NEW i \in 1..MaxSockets, i - 1 \in T PROVE i \in T
  <2>1. DropsNext(n, f[i - 1], f[i], p, held, i) BY <1>1, <1>4, DropOne
  <2> DEFINE x == f[i - 1]
             k == held[i]
  <2>2. /\ Hangs(x, NoSock) /\ Traffic(x) /\ k \in Nat /\ k <= x.refs[p][i] /\ i \in Sock
        /\ f[i] = DropRefs(x, p, i, k) /\ DroppedAll(n, f[i], p, held, i)
    BY <1>1, <1>4, <2>1 DEF DropsNext
  <2> HIDE DEF x, k
  <2>3. Traffic(f[i]) BY <2>2, DropTraffic
  <2> QED BY <1>2, <2>2, <2>3
<1> HIDE DEF T
<1>5. \A i \in 0..MaxSockets : i \in T BY <1>2, <1>3, <1>4, Induct
<1>6. MaxSockets \in T BY <1>2, <1>5
<1> QED BY <1>1, <1>6 DEF T

LEMMA SetRefsTraffic ==
    ASSUME NEW n, Hangs(n, NoSock), Traffic(n), NEW p \in Proc, NEW held \in [Sock -> Nat],
           \A t \in Sock : held[t] > 0 => ~IsGone(n.socks[t]) /\ ~IsQueued(n, t),
           NEW m, m = SetRefs(n, p, held)
    PROVE  Traffic(m)
<1> DEFINE x == AddAll(n, p, held)
           old == n.refs[p]
<1>1. n \in NetRec /\ old \in [Sock -> Nat] /\ n.refs \in [Proc -> [Sock -> Nat]] /\ Ends(n)
  BY StandsEnds DEF Hangs, NetRec
<1>2. /\ Hangs(x, NoSock) /\ Recounted(n, x)
      /\ x.refs = [n.refs EXCEPT ![p] = [t \in Sock |-> n.refs[p][t] + held[t]]]
  BY AddAllIs
<1>3. m = DropAll(x, p, old) BY DEF SetRefs
<1> HIDE DEF x
<1>4. x.refs[p] = [t \in Sock |-> old[t] + held[t]] BY <1>1, <1>2
<1>5. \A t \in Sock : old[t] <= x.refs[p][t] BY <1>1, <1>4
<1>6. Traffic(x) BY <1>1, <1>2, RecountTraffic
<1> HIDE DEF old
<1> QED BY <1>1, <1>2, <1>3, <1>5, <1>6, DropAllTraffic

----------------------------------------------------------------------------
(***************************************************************************)
(* Traffic through the calls.                                              *)
(***************************************************************************)
LEMMA ChangesAre ==
    ASSUME NEW n \in NetRec, NEW m, NEW s \in Sock, NEW r, Sets(n, m, s, r) \/ Livens(n, m, s, r)
    PROVE  Changes(n, m, s, r)
<1>1. CASE Sets(n, m, s, r)
  <2>1. m.socks[s] = r /\ \A t \in Sock : t # s => m.socks[t] = n.socks[t] BY <1>1, SetsIs
  <2> QED BY <1>1, <2>1 DEF Sets, Changes
<1>2. CASE Livens(n, m, s, r) BY <1>2 DEF Livens, Changes
<1> QED BY <1>1, <1>2

LEMMA SoftTraffic ==
    ASSUME NEW n \in NetRec, Ends(n), Traffic(n), NEW s \in Sock, NEW r, Soft(r, n.socks[s]),
           NEW m, Changes(n, m, s, r)
    PROVE  Traffic(m)
<1>1. \A t \in Sock : n.socks[t] \in SockRec /\ Blameless(n.socks[t]) BY DEF NetRec, Traffic
<1>2. Blameless(r) BY <1>1, MildBlameless DEF Soft
<1>3. m.socks[s] = r /\ m \in NetRec /\ m.inFlight = n.inFlight /\ m.nextDue = n.nextDue
      /\ \A t \in Sock : t # s => m.socks[t] = n.socks[t]
  BY DEF Changes
<1>4. /\ r.flight = n.socks[s].flight /\ r.far = n.socks[s].far /\ (r.fin => n.socks[s].fin)
      /\ Linked(r) => Linked(n.socks[s])
      /\ Speaks(r) => Speaks(n.socks[s])
  BY DEF Soft, Mild, Laden, Linked, Speaks
<1>5. ASSUME NEW t \in Sock
      PROVE  /\ m.socks[t].flight = n.socks[t].flight /\ Blameless(m.socks[t])
             /\ Linked(m.socks[t]) => Linked(n.socks[t]) /\ m.socks[t].far = n.socks[t].far /\ (m.socks[t].fin => n.socks[t].fin)
             /\ Speaks(m.socks[t]) => Speaks(n.socks[t])
  <2>1. CASE t = s BY <1>2, <1>3, <1>4, <2>1
  <2>2. CASE t # s BY <1>1, <1>3, <2>2
  <2> QED BY <2>1, <2>2
<1>6. Even(n, m) BY <1>3, <1>5 DEF Even
<1> QED BY <1>6, EvenTraffic

\* The ways a record changes softly
LEMMA LivelySoft ==
    ASSUME NEW sk \in SockRec, NEW r, Lively(r, sk), r.flight = sk.flight, r.flStream = sk.flStream,
           r.fin => sk.fin, Len(r.rx) <= Len(sk.rx)
    PROVE  Soft(r, sk)
  BY DEF Lively, Alike, Soft, Mild, Laden
LEMMA RenamedSoft ==
    ASSUME NEW sk \in SockRec, sk.state = "new", NEW name \in Name
    PROVE  Soft(Renamed(sk, name), sk)
<1> DEFINE r == Renamed(sk, name)
<1>1. /\ r \in SockRec /\ r.state = "bound" /\ r.far = sk.far
      /\ r.shutWr = sk.shutWr /\ r.shutRd = sk.shutRd /\ r.rx = sk.rx /\ r.flight = sk.flight
      /\ r.kind = sk.kind /\ r.fin = sk.fin /\ r.flStream = sk.flStream
  BY RenamedIs
<1>2. Len(sk.rx) \in Nat BY RxLenIs
<1> HIDE DEF r
<1>3. Soft(r, sk) BY <1>1, <1>2 DEF Soft, Mild, Laden
<1> QED BY <1>3 DEF r
LEMMA ListeningSoft ==
    ASSUME NEW sk \in SockRec, sk.state \in {"bound", "listening"}, sk.kind = "stream", NEW max \in Nat
    PROVE  Soft(Listening(sk, max), sk)
<1> DEFINE r == Listening(sk, max)
<1>1. /\ r \in SockRec /\ r.state = "listening" /\ r.far = sk.far
      /\ r.shutWr = sk.shutWr /\ r.shutRd = sk.shutRd /\ r.rx = sk.rx /\ r.flight = sk.flight
      /\ r.kind = sk.kind /\ r.fin = sk.fin /\ r.flStream = sk.flStream
  BY DEF Listening, SockRec
<1>2. Len(sk.rx) \in Nat BY RxLenIs
<1> HIDE DEF r
<1>3. Soft(r, sk) BY <1>1, <1>2 DEF Soft, Mild, Laden
<1> QED BY <1>3 DEF r
LEMMA KnowingSoft ==
    ASSUME NEW sk \in SockRec, NEW dest \in Name
    PROVE  Soft(Knowing(sk, dest), sk)
<1> DEFINE r == Knowing(sk, dest)
<1>1. /\ r \in SockRec /\ r.state = sk.state /\ r.far = sk.far
      /\ r.shutWr = sk.shutWr /\ r.shutRd = sk.shutRd /\ r.rx = sk.rx /\ r.flight = sk.flight
      /\ r.kind = sk.kind /\ r.fin = sk.fin /\ r.flStream = sk.flStream
  BY DEF Knowing, SockRec
<1>2. Len(sk.rx) \in Nat BY RxLenIs
<1> HIDE DEF r
<1>3. Soft(r, sk) BY <1>1, <1>2 DEF Soft, Mild, Laden
<1> QED BY <1>3 DEF r
LEMMA ShorterSoft ==
    ASSUME NEW sk \in SockRec, sk.backlog # <<>>
    PROVE  Soft(Shorter(sk), sk)
<1> DEFINE r == Shorter(sk)
<1>0. Tail(sk.backlog) \in Seq(Sock) BY DEF SockRec
<1>1. /\ r \in SockRec /\ r.state = sk.state /\ r.far = sk.far
      /\ r.shutWr = sk.shutWr /\ r.shutRd = sk.shutRd /\ r.rx = sk.rx /\ r.flight = sk.flight
      /\ r.kind = sk.kind /\ r.fin = sk.fin /\ r.flStream = sk.flStream
  BY <1>0 DEF Shorter, SockRec
<1>2. Len(sk.rx) \in Nat BY RxLenIs
<1> HIDE DEF r
<1>3. Soft(r, sk) BY <1>1, <1>2 DEF Soft, Mild, Laden
<1> QED BY <1>3 DEF r
LEMMA ShutSoft ==
    ASSUME NEW sk \in SockRec, sk.state = "connected"
    PROVE  Soft(NotReading(sk), sk) /\ Soft(NotWriting(sk), sk)
<1>1. Soft(NotReading(sk), sk)
  <2> DEFINE r == NotReading(sk)
  <2>1. /\ r \in SockRec /\ r.state = sk.state /\ r.far = sk.far /\ r.rx = <<>> /\ r.shutWr = sk.shutWr
        /\ r.flight = sk.flight /\ r.flStream = sk.flStream /\ r.fin = sk.fin /\ r.kind = sk.kind
    BY NotReadingIs DEF Named
  <2>2. Len(sk.rx) \in Nat BY RxLenIs
  <2> HIDE DEF r
  <2>3. Soft(r, sk) BY <2>1, <2>2 DEF Soft, Mild, Laden
  <2> QED BY <2>3 DEF r
<1>2. Soft(NotWriting(sk), sk)
  <2> DEFINE r == NotWriting(sk)
  <2>1. /\ r \in SockRec /\ r.state = sk.state /\ r.far = sk.far /\ r.rx = sk.rx /\ r.shutWr
        /\ r.flight = sk.flight /\ r.flStream = sk.flStream /\ r.fin = sk.fin /\ r.kind = sk.kind
    BY NotWritingIs DEF Named
  <2>2. Len(sk.rx) \in Nat BY RxLenIs
  <2> HIDE DEF r
  <2>3. Soft(r, sk) BY <2>1, <2>2 DEF Soft, Mild, Laden
  <2> QED BY <2>3 DEF r
<1> QED BY <1>1, <1>2
LEMMA ToldSoft ==
    ASSUME NEW sk \in SockRec
    PROVE  Soft(Told(sk), sk)
<1>1. Lively(Told(sk), sk) /\ Told(sk).rx = sk.rx /\ Told(sk).fin = sk.fin /\ Told(sk).flight = sk.flight
      /\ Told(sk).flStream = sk.flStream
  BY ToldIs
<1>2. Len(sk.rx) \in Nat BY RxLenIs
<1> QED BY <1>1, <1>2, LivelySoft

LEMMA WritableTraffic ==
    ASSUME NEW n \in NetRec, Ends(n), Traffic(n), NEW s \in Sock, NEW m, m = Writable(n, s)
    PROVE  Traffic(m)
<1>1. Puts(n, m, s, Told(n.socks[s])) /\ m.inFlight = n.inFlight /\ m.nextDue = n.nextDue
  BY WritableIs
<1>2. Changes(n, m, s, Told(n.socks[s]))
  <2>1. m.socks[s] = Told(n.socks[s]) /\ \A t \in Sock : t # s => m.socks[t] = n.socks[t]
    BY <1>1, PutsIs
  <2> QED BY <1>1, <2>1 DEF Puts, Changes
<1>3. n.socks[s] \in SockRec BY DEF NetRec
<1>4. Soft(Told(n.socks[s]), n.socks[s]) BY <1>3, ToldSoft
<1> QED BY <1>2, <1>4, SoftTraffic

\* A slot that is used anew, what was in flight to it being discarded
LEMMA ClearedClocked ==
    ASSUME NEW n \in NetRec, Clocked(n), NEW s \in Sock, NEW m \in NetRec,
           m.inFlight = Less(n.inFlight, Len(n.socks[s].flight)), m.nextDue = n.nextDue,
           m.socks[s].flight = <<>>, \A t \in Sock : t # s => m.socks[t].flight = n.socks[t].flight
    PROVE  Clocked(m)
<1> DEFINE a == Lens(n)
           b == Lens(m)
<1>1. /\ a \in Seq(Nat) /\ Len(a) = MaxSockets /\ b \in Seq(Nat) /\ Len(b) = MaxSockets
      /\ \A t \in Sock : /\ a[t] = Len(n.socks[t].flight) /\ t \in 1..Len(a)
                         /\ b[t] = Len(m.socks[t].flight) /\ t \in 1..Len(b)
  BY LensAre
<1>2. b[s] = 0 BY <1>1
<1>3. \A t \in 1..Len(a) : t # s => a[t] = b[t] BY <1>1 DEF Sock
<1> HIDE DEF a, b
<1>4. Total(b) + a[s] = Total(a) + b[s] BY <1>1, <1>3, TotalChange
<1>5. a[s] \in Nat /\ a[s] <= Total(a) /\ Total(a) \in Nat /\ Total(b) \in Nat
  BY <1>1, TotalHolds, TotalNat
<1>6. n.inFlight = Total(a) /\ m.inFlight = Less(Total(a), a[s]) BY <1>1 DEF Clocked, a
<1>7. m.inFlight = Total(b) BY <1>2, <1>4, <1>5, <1>6 DEF Less
<1>8. \A t \in Sock : m.socks[t].flight # <<>> => m.nextDue # NoTime /\ m.nextDue <= m.socks[t].flight[1].left
  BY DEF Clocked
<1> QED BY <1>7, <1>8 DEF Clocked, b

LEMMA IdleBlameless ==
    ASSUME NEW r, Idles(r), r.state \in {"new", "bound"} \/ r.kind = "stream"
    PROVE  Blameless(r) /\ \A kind : ~Carries(r, kind)
<1>1. RxLen(r) = 0
  <2>1. Len(r.rx) = 0 BY DEF Idles
  <2>2. DgramLen * 0 = 0 BY SizesAre
  <2> QED BY <2>1, <2>2 DEF RxLen
<1>2. StreamLen(r.flight) = 0 BY LoadsAre DEF Idles, SockRec
<1>3. FlLen(r) = 0 BY FlLenIs DEF Idles
<1>4. \A kind : ~Carries(r, kind) BY DEF Carries, Idles
<1>5. Ring \in Nat BY SizesAre
<1> QED BY <1>1, <1>2, <1>3, <1>4, <1>5 DEF Blameless, Idles

LEMMA HangsEnds == ASSUME NEW n, NEW but, Hangs(n, but) PROVE Ends(n) /\ n \in NetRec
  BY DEF Ends, Hangs, Paired

LEMMA NewTraffic ==
    ASSUME NEW n \in NetRec, Ends(n), Traffic(n), NEW s \in Sock, NEW h \in Host, NEW family \in {"inet", "unix"},
           NEW kind \in {"stream", "dgram"}, NEW m, m = NewSock(n, s, h, family, kind)
    PROVE  Traffic(m)
<1> DEFINE r == Fresh(h, family, kind)
<1>1. Anew(n, m, s, r) BY NewIs
<1>2. Idles(r) /\ r.state = "new" BY FreshIs DEF Idles
<1> HIDE DEF r
<1>3. m.socks[s] = r /\ \A t \in Sock : t # s => m.socks[t] = n.socks[t]
  <2>1. m.socks = [n.socks EXCEPT ![s] = r] BY <1>1 DEF Anew
  <2>2. n.socks \in [Sock -> SockRec] BY DEF NetRec
  <2> QED BY <2>1, <2>2
<1>4. Clocked(m)
  <2>1. m.socks[s].flight = <<>> BY <1>2, <1>3 DEF Idles
  <2>2. m \in NetRec /\ m.inFlight = Less(n.inFlight, Len(n.socks[s].flight)) /\ m.nextDue = n.nextDue
    BY <1>1 DEF Anew
  <2>3. Clocked(n) BY DEF Traffic
  <2> QED BY <1>3, <2>1, <2>2, <2>3, ClearedClocked
<1>5. \A t \in Sock : Blameless(m.socks[t])
  <2>1. Blameless(r) BY <1>2, IdleBlameless
  <2> QED BY <1>3, <2>1 DEF Traffic
<1>6. ASSUME NEW t \in Sock PROVE Owed(m, t)
  <2>1. CASE t = s BY <1>2, <1>3, <2>1 DEF Owed, Linked
  <2>2. CASE t # s
    <3>1. m.socks[t] = n.socks[t] /\ Owed(n, t) BY <1>3, <2>2 DEF Traffic
    <3>2. ASSUME Linked(m.socks[t]), Speaks(m.socks[m.socks[t].far]) PROVE Speaks(n.socks[n.socks[t].far])
      <4>1. n.socks[t].far \in Sock BY <3>1, <3>2 DEF Ends
      <4>2. CASE n.socks[t].far = s BY <1>2, <1>3, <3>1, <3>2, <4>2 DEF Speaks
      <4>3. CASE n.socks[t].far # s BY <1>3, <3>1, <3>2, <4>1, <4>3
      <4> QED BY <4>2, <4>3
    <3> QED BY <3>1, <3>2, OwedSame
  <2> QED BY <2>1, <2>2
<1> QED BY <1>4, <1>5, <1>6 DEF Traffic

LEMMA EndIdles ==
    ASSUME NEW sk, Idles(sk), sk.kind = "stream", NEW far \in Sock, NEW r, r = End(sk, far)
    PROVE  Idles(r) /\ r.kind = "stream" /\ r.state = "connected" /\ r.far = far
<1>1. sk \in SockRec BY DEF Idles
<1>2. Ended(r, sk, far) BY <1>1, EndIs
<1> QED BY <1>2 DEF Ended, Idles

LEMMA QueueingSoft ==
    ASSUME NEW sk \in SockRec, NEW far \in Sock, NEW r, r = Queueing(sk, far)
    PROVE  Soft(r, sk)
<1>1. Enqueued(r, sk, far) BY QueueingIs
<1>2. Len(sk.rx) \in Nat BY RxLenIs
<1> QED BY <1>1, <1>2 DEF Enqueued, Soft, Mild, Laden

LEMMA JoinTraffic ==
    ASSUME NEW n, Hangs(n, NoSock), Traffic(n), NEW s \in Sock, NEW l \in Sock, NEW far \in Sock,
           n.socks[s].state \in {"new", "bound"}, n.socks[s].kind = "stream",
           n.socks[l].state = "listening", n.socks[far].state = "free",
           NEW m, Joins(n, m, s, l, far)
    PROVE  Traffic(m)
<1>1. n \in NetRec /\ \A t \in Sock : n.socks[t] \in SockRec /\ Blameless(n.socks[t]) /\ Owed(n, t)
  BY DEF Hangs, NetRec, Traffic
<1> DEFINE new == Fresh(n.socks[l].host, n.socks[s].family, "stream")
<1>2. Idles(new) /\ new.kind = "stream"
  <2>1. n.socks[l].host \in Host /\ n.socks[s].family \in {"inet", "unix"} BY <1>1 DEF SockRec
  <2> QED BY <2>1, FreshIs DEF Idles
<1>3. /\ m \in NetRec /\ m.nextDue = n.nextDue /\ m.inFlight = Less(n.inFlight, Len(n.socks[far].flight))
      /\ m.socks[s] = End(n.socks[s], far) /\ m.socks[far] = End(new, s) /\ m.socks[l] = Queueing(n.socks[l], far)
      /\ \A t \in Sock \ {s, l, far} : m.socks[t] = n.socks[t]
  BY DEF Joins
<1> HIDE DEF new
<1>4. Idles(n.socks[s])
  <2>1. n.socks[s] \in SockRec /\ Blameless(n.socks[s]) BY <1>1
  <2>2. /\ n.socks[s].flStream = StreamLen(n.socks[s].flight) /\ n.socks[s].rx = <<>> /\ n.socks[s].flight = <<>>
        /\ ~n.socks[s].fin /\ ~n.socks[s].shutWr /\ ~n.socks[s].shutRd
    BY <2>1 DEF Blameless
  <2>3. n.socks[s].flight \in Seq([left: Nat, pay: Payload]) BY <1>1, LenNat
  <2>4. StreamLen(n.socks[s].flight) = 0 BY <2>2, <2>3, LoadsAre
  <2> QED BY <2>1, <2>2, <2>4 DEF Idles
<1>5. /\ Idles(m.socks[s]) /\ m.socks[s].kind = "stream" /\ m.socks[s].state = "connected" /\ m.socks[s].far = far
      /\ Idles(m.socks[far]) /\ m.socks[far].kind = "stream" /\ m.socks[far].state = "connected" /\ m.socks[far].far = s
  <2> DEFINE a == n.socks[s]
             b == m.socks[s]
             c == m.socks[far]
  <2>1. a.kind = "stream" /\ b = End(a, far) /\ c = End(new, s) /\ Idles(a) BY <1>3, <1>4
  <2> HIDE DEF a, b, c
  <2>2. Idles(b) /\ b.kind = "stream" /\ b.state = "connected" /\ b.far = far BY <2>1, EndIdles
  <2>3. Idles(c) /\ c.kind = "stream" /\ c.state = "connected" /\ c.far = s BY <1>2, <2>1, EndIdles, SMTT(40)
  <2> QED BY <2>2, <2>3 DEF b, c
<1>6. Soft(m.socks[l], n.socks[l]) BY <1>1, <1>3, QueueingSoft
<1>7. \A t \in Sock : Blameless(m.socks[t])
  <2>1. Blameless(m.socks[s]) /\ Blameless(m.socks[far]) BY <1>5, IdleBlameless
  <2>2. Blameless(m.socks[l]) BY <1>1, <1>6, MildBlameless DEF Soft
  <2> QED BY <1>1, <1>3, <2>1, <2>2
<1>8. \A t \in Sock : t # far => m.socks[t].flight = n.socks[t].flight
  <2>1. m.socks[s].flight = n.socks[s].flight BY <1>4, <1>5 DEF Idles
  <2>2. m.socks[l].flight = n.socks[l].flight BY <1>6 DEF Soft, Mild, Laden
  <2> QED BY <1>3, <2>1, <2>2
<1>9. Clocked(m)
  <2>1. m.socks[far].flight = <<>> BY <1>5 DEF Idles
  <2>2. Clocked(n) BY DEF Traffic
  <2> QED BY <1>1, <1>3, <1>8, <2>1, <2>2, ClearedClocked
<1>10. ASSUME NEW t \in Sock PROVE Owed(m, t)
  <2>1. CASE t \in {s, far}
    <3>1. m.socks[t].flight = <<>> /\ ~m.socks[t].fin /\ ~Carries(m.socks[t], "fin")
      BY <1>5, <2>1, IdleBlameless DEF Idles
    <3> QED BY <3>1 DEF Owed
  <2>2. CASE t = l
    <3>1. m.socks[l].state = "listening" BY <1>6 DEF Soft, Mild
    <3> QED BY <2>2, <3>1 DEF Owed, Linked
  <2>3. CASE t \notin {s, l, far}
    <3>1. m.socks[t] = n.socks[t] BY <1>3, <2>3
    <3>2. CASE ~Linked(n.socks[t]) BY <3>1, <3>2 DEF Owed
    <3>3. CASE Linked(n.socks[t])
      <4> DEFINE u == n.socks[t].far
      <4>1. u \in Sock /\ Linked(n.socks[u]) BY <3>3 DEF Hangs, Paired
      <4>2. u \notin {s, l, far} BY <4>1 DEF Linked
      <4>3. m.socks[u] = n.socks[u] BY <1>3, <4>1, <4>2
      <4> QED BY <1>1, <3>1, <4>3 DEF Owed
    <3> QED BY <3>2, <3>3
  <2> QED BY <2>1, <2>2, <2>3
<1> QED BY <1>7, <1>9, <1>10 DEF Traffic

LEMMA NamedTraffic ==
    ASSUME NEW n, Stands(n), Traffic(n), NEW s \in Sock, n.socks[s].state = "new", NEW m, NamedAnew(n, m, s)
    PROVE  Traffic(m)
<1>1. PICK name \in Name : Sets(n, m, s, Renamed(n.socks[s], name)) BY DEF NamedAnew
<1>2. n \in NetRec /\ Ends(n) /\ n.socks[s] \in SockRec BY Standing, StandsEnds
<1>3. Soft(Renamed(n.socks[s], name), n.socks[s]) BY <1>2, RenamedSoft
<1>4. Changes(n, m, s, Renamed(n.socks[s], name)) BY <1>1, <1>2, ChangesAre
<1> QED BY <1>2, <1>3, <1>4, SoftTraffic

LEMMA ListeningTraffic ==
    ASSUME NEW n, Stands(n), Traffic(n), NEW s \in Sock, n.socks[s].state \in {"bound", "listening"},
           n.socks[s].kind = "stream", NEW max \in Nat,
           NEW m, m = [n EXCEPT !.socks[s].state = "listening", !.socks[s].backlogMax = max]
    PROVE  Traffic(m)
<1>1. Sets(n, m, s, Listening(n.socks[s], max)) BY ListeningIs
<1>2. n \in NetRec /\ Ends(n) /\ n.socks[s] \in SockRec BY Standing, StandsEnds
<1>3. Soft(Listening(n.socks[s], max), n.socks[s]) BY <1>2, ListeningSoft
<1>4. Changes(n, m, s, Listening(n.socks[s], max)) BY <1>1, <1>2, ChangesAre
<1> QED BY <1>2, <1>3, <1>4, SoftTraffic

LEMMA BindFlows ==
    ASSUME Stands(net), Traffic(net), NEW p \in Proc, NEW s \in Sock, Bind(p, s)
    PROVE  Flows
<1>1. PICK name \in Program[p].names :
          \/ CanBind(net, s, name) /\ Succeeds(p, Bound(net, s, name))
          \/ CanBind(net, s, name) /\ CanBindAny(net, s) /\ Succeeds(p, BoundToAny(net, s, name.ip))
  BY DEF Bind
<1>2. name \in Name /\ name.ip \in Host \cup {AnyIp, LoopIp, NoIp} BY NamesAreNames
<1>3. net.socks[s].state = "new" BY <1>1 DEF CanBind
<1>4. NamedAnew(net, net', s)
  <2>1. CASE Succeeds(p, Bound(net, s, name))
    <3>1. net' = Bound(net, s, name) BY <2>1 DEF Succeeds
    <3> QED BY <1>2, <1>3, <3>1, BoundNames
  <2>2. CASE CanBindAny(net, s) /\ Succeeds(p, BoundToAny(net, s, name.ip))
    <3>1. net' = BoundToAny(net, s, name.ip) BY <2>2 DEF Succeeds
    <3> QED BY <1>2, <1>3, <2>2, <3>1, BoundToAnyNames
  <2> QED BY <1>1, <2>1, <2>2
<1> QED BY <1>3, <1>4, NamedTraffic DEF Flows

LEMMA ListenFlows ==
    ASSUME Stands(net), Traffic(net), NEW p \in Proc, NEW s \in Sock, NEW max \in Backlogs, Listen(p, s, max)
    PROVE  Flows
<1>1. max \in Nat BY InputsAssumption
<1>2. CASE net.socks[s].state \in {"bound", "listening"} /\ net.socks[s].kind = "stream"
           /\ net' = [net EXCEPT !.socks[s].state = "listening", !.socks[s].backlogMax = max]
  BY <1>1, <1>2, ListeningTraffic DEF Flows
<1>3. CASE /\ net.socks[s].state = "new" /\ CanBindAny(net, s) /\ net.socks[s].kind = "stream"
           /\ net' = [BoundToAny(net, s, AnyIp) EXCEPT !.socks[s].state = "listening", !.socks[s].backlogMax = max]
  <2> DEFINE k == BoundToAny(net, s, AnyIp)
  <2>1. NamedAnew(net, k, s) BY <1>3, BoundToAnyNames
  <2>2. net' = [k EXCEPT !.socks[s].state = "listening", !.socks[s].backlogMax = max] BY <1>3
  <2> HIDE DEF k
  <2>3. PICK name \in Name : Sets(net, k, s, Renamed(net.socks[s], name)) BY <2>1 DEF NamedAnew
  <2>4. k.socks[s].state = "bound" /\ k.socks[s].kind = "stream"
    <3>1. k.socks[s] = Renamed(net.socks[s], name) BY <2>3, Standing, SetsIs
    <3>2. net.socks[s].kind = "stream" BY <1>3
    <3>3. Renamed(net.socks[s], name).state = "bound" /\ Renamed(net.socks[s], name).kind = net.socks[s].kind
      BY Standing, RenamedIs
    <3> QED BY <3>1, <3>2, <3>3
  <2>5. Stands(k) BY <2>1 DEF NamedAnew
  <2>6. Traffic(k) BY <1>3, <2>1, NamedTraffic
  <2> QED BY <1>1, <2>2, <2>4, <2>5, <2>6, ListeningTraffic DEF Flows
<1> QED BY <1>2, <1>3 DEF Listen, Succeeds

LEMMA MakeSocketFlows ==
    ASSUME Stands(net), Traffic(net), NEW p \in Proc, NEW make \in Program[p].makes, MakeSocket(p, make[1], make[2])
    PROVE  Flows
<1> DEFINE s == First(FreeSlots(net))
           k == NewSock(net, s, HostOf[p], make[1], make[2])
<1>1. net' = AddRefs(k, p, s, 1) /\ FreeSlots(net) # {} BY DEF MakeSocket
<1>2. s \in Sock /\ net.socks[s].state = "free" BY <1>1, FreeSlotIs
<1> HIDE DEF s
<1>3. make[1] \in {"inet", "unix"} /\ make[2] \in {"stream", "dgram"} /\ HostOf[p] \in Host
  BY NamesAreNames, HostOfIs
<1>4. net \in NetRec /\ Hangs(net, NoSock) /\ Ends(net) BY Standing, StandsEnds
<1>5. /\ Hangs(k, s) /\ ~IsGone(k.socks[s]) /\ ~IsQueued(k, s) BY <1>2, <1>3, <1>4, NewHangs
<1>6. Traffic(k) BY <1>2, <1>3, <1>4, NewTraffic
<1> HIDE DEF k
<1>7. Recounted(k, net')
  <2>1. 1 \in Nat /\ 1 > 0 OBVIOUS
  <2> QED BY <1>1, <1>2, <1>5, <2>1, AddHangs
<1>8. Ends(k) /\ k \in NetRec BY <1>5, HangsEnds
<1> QED BY <1>6, <1>7, <1>8, RecountTraffic DEF Flows

LEMMA ConnectFlows ==
    ASSUME Stands(net), Traffic(net), NEW p \in Proc, NEW s \in Sock, NEW dest \in Program[p].dests, Connect(p, s, dest)
    PROVE  Flows
<1>1. PICK k, l, far : Connects(net, net', k, s, l, far) BY ConnectIs
<1>2. Stands(k) /\ k \in NetRec /\ k.socks = net.socks /\ k.inFlight = net.inFlight /\ k.nextDue = net.nextDue
  BY <1>1 DEF Connects
<1>3. Traffic(k)
  <2>1. net \in NetRec /\ Ends(net) BY Standing, StandsEnds
  <2>2. Even(net, k) BY <1>2 DEF Even, Traffic
  <2> QED BY <2>1, <2>2, EvenTraffic
<1>4. CASE net' = k BY <1>3, <1>4 DEF Flows
<1>5. CASE far \in Sock /\ net.socks[far].state = "free" /\ Joins(k, net', s, l, far)
  <2>1. l \in Sock /\ k.socks[s].state \in {"new", "bound"} /\ k.socks[s].kind = "stream"
        /\ k.socks[l].state = "listening" /\ k.socks[far].state = "free"
    BY <1>1, <1>2, <1>5 DEF Connects
  <2>2. Hangs(k, NoSock) BY <1>2, Standing
  <2> QED BY <1>3, <1>5, <2>1, <2>2, JoinTraffic DEF Flows
<1> QED BY <1>1, <1>4, <1>5 DEF Connects

LEMMA AcceptFlows ==
    ASSUME Stands(net), Traffic(net), NEW p \in Proc, NEW l \in Sock, Accept(p, l)
    PROVE  Flows
<1> DEFINE queue == net.socks[l].backlog
<1>1. net.socks[l].state = "listening" BY DEF Accept
<1>2. CASE queue = <<>> BY <1>2 DEF Accept, Sleeps, Flows
<1>3. CASE queue # <<>>
  <2> DEFINE x == [net EXCEPT !.socks[l].backlog = Tail(@)]
             far == Head(net.socks[l].backlog)
  <2>1. net' = AddRefs(x, p, far, 1) BY <1>3 DEF Accept, Succeeds
  <2>2. x = [net EXCEPT !.socks[l].backlog = Tail(@)] /\ far = Head(net.socks[l].backlog) OBVIOUS
  <2> HIDE DEF x, far
  <2>3. net \in NetRec /\ Hangs(net, NoSock) /\ Ends(net) /\ net.socks[l] \in SockRec
    BY Standing, StandsEnds
  <2>4. /\ Sets(net, x, l, Shorter(net.socks[l]))
        /\ far \in Sock /\ Hangs(x, far) /\ ~IsGone(x.socks[far]) /\ ~IsQueued(x, far)
    <3>1. Takes(net, x, l, far) BY <1>1, <1>3, <2>2, <2>3, TakenHangs
    <3> QED BY <3>1 DEF Takes
  <2>5. Recounted(x, net')
    <3>1. 1 \in Nat /\ 1 > 0 OBVIOUS
    <3> QED BY <2>1, <2>4, <3>1, AddHangs
  <2>6. Traffic(x)
    <3>1. Soft(Shorter(net.socks[l]), net.socks[l]) BY <1>3, <2>3, ShorterSoft
    <3>2. Changes(net, x, l, Shorter(net.socks[l])) BY <2>3, <2>4, ChangesAre
    <3> QED BY <2>3, <3>1, <3>2, SoftTraffic
  <2>7. Ends(x) /\ x \in NetRec BY <2>4, HangsEnds
  <2> QED BY <2>5, <2>6, <2>7, RecountTraffic DEF Flows
<1> QED BY <1>2, <1>3

\* A window is never less than nothing.
LEMMA FitsNat ==
    ASSUME NEW sk \in SockRec, Blameless(sk), NEW from, NEW k \in Nat
    PROVE  Window(sk) >= 0 /\ Fits(from, sk, k) >= 0
<1>1. Window(sk) \in Int /\ FlightRoom(sk) \in Nat /\ RxLen(sk) \in Nat /\ sk.flStream \in Nat /\ Ring \in Nat
  BY WindowIs, RxLenIs, SizesAre DEF SockRec
<1> DEFINE w == Window(sk)
           room == FlightRoom(sk)
           a == RxLen(sk)
           b == sk.flStream
<1>2. a + b <= Ring BY DEF Blameless
<1>3. w = Ring - a - b \/ w = room BY WindowIs
<1>4. ArrivesNow(from, sk) => Fits(from, sk, k) = Min({k, Ring - a}) BY DEF Fits
<1>5. ~ArrivesNow(from, sk) => Fits(from, sk, k) = Min({k, w, room}) BY DEF Fits
<1>6. w \in Int /\ room \in Nat /\ a \in Nat /\ b \in Nat BY <1>1
<1> HIDE DEF w, room, a, b
<1>7. w >= 0 /\ Ring - a >= 0 /\ Ring - a \in Int BY <1>1, <1>2, <1>3, <1>6
<1>8. Min({k, Ring - a}) >= 0
  <2>1. Min({k, Ring - a}) \in {k, Ring - a} BY <1>7, MinTwo
  <2> QED BY <1>7, <2>1
<1>9. Min({k, w, room}) >= 0
  <2>1. Min({k, w, room}) \in {k, w, room} BY <1>6, MinThree
  <2> QED BY <1>6, <1>7, <2>1
<1> QED BY <1>4, <1>5, <1>7, <1>8, <1>9 DEF w

LEMMA FlaggedTraffic ==
    ASSUME NEW n, Stands(n), Traffic(n), NEW t \in Sock, NEW rd \in BOOLEAN, NEW wr \in BOOLEAN,
           NEW m, m = [n EXCEPT !.socks = [n.socks EXCEPT ![t] = Flagged(n.socks[t], rd, wr)]]
    PROVE  Traffic(m)
<1> DEFINE r == Flagged(n.socks[t], rd, wr)
<1>1. n \in NetRec /\ n.socks[t] \in SockRec /\ Len(n.socks[t].rx) \in Nat /\ Ends(n)
  BY Standing, LenNat, StandsEnds
<1>2. Lively(r, n.socks[t]) /\ r.rx = n.socks[t].rx /\ r.flight = n.socks[t].flight
      /\ r.flStream = n.socks[t].flStream /\ r.fin = n.socks[t].fin
  BY <1>1, FlaggedIs
<1>3. Livens(n, m, t, r) BY FlaggedStands
<1> HIDE DEF r
<1>4. Soft(r, n.socks[t]) BY <1>1, <1>2, LivelySoft
<1>5. Changes(n, m, t, r) BY <1>1, <1>3, ChangesAre
<1> QED BY <1>1, <1>4, <1>5, SoftTraffic

LEMMA CrowdsFlow ==
    ASSUME Stands(net), Traffic(net), NEW p, NEW op, NEW s, NEW t, NEW rd, Crowds(p, op, s, t, rd)
    PROVE  Flows
<1>1. t \in Sock /\ rd \in BOOLEAN /\ net.socks[t].wrNew \in BOOLEAN BY Standing DEF Crowds, NetRec, SockRec
<1> QED BY <1>1, FlaggedTraffic DEF Crowds, Flows

LEMMA SendFlows ==
    ASSUME Stands(net), Traffic(net), hist \in HistRec, NEW p \in Proc, NEW s \in Sock, NEW k \in Sizes, Send(p, s, k)
    PROVE  Flows
<1> DEFINE sk == net.socks[s]
           d == net.socks[s].far
           peer == net.socks[d]
           taken == Fits(sk.host, peer, k)
<1>1. sk.state = "connected" /\ d \in Sock /\ net \in NetRec /\ Ends(net)
  BY FarIs, Standing, StandsEnds DEF Send
<1>2. CASE sk.shutWr \/ peer.state # "connected" \/ peer.shutRd \/ taken = 0
  <2>1. net' = net \/ WaitsForRoom(p, "send", s, d) BY <1>2 DEF Send, Fails
  <2> HIDE DEF sk, d
  <2> QED BY <1>1, <2>1, CrowdsIs, CrowdsFlow DEF Flows
<1>3. CASE ~(sk.shutWr \/ peer.state # "connected" \/ peer.shutRd \/ taken = 0)
  <2> DEFINE data == Numbered(hist.sent[s], taken)
             pay == Bytes(data)
  <2>1. net' = Deliver(net, sk.host, d, pay) BY <1>3 DEF Send
  <2>2. peer \in SockRec /\ k \in Nat BY <1>1, Standing, InputsAssumption
  <2>3. /\ taken \in Int
        /\ ArrivesNow(sk.host, peer) => taken <= Ring - RxLen(peer)
        /\ ~ArrivesNow(sk.host, peer) => taken <= Window(peer) /\ taken <= FlightRoom(peer)
    <3> HIDE DEF peer
    <3> QED BY <2>2, FitsIs
  <2>4. taken >= 0
    <3>1. Blameless(peer) BY <1>1 DEF Traffic
    <3> HIDE DEF peer
    <3> QED BY <2>2, <3>1, FitsNat
  <2>5. hist.sent[s] \in Number BY DEF HistRec
  <2>6. data \in Seq(Byte) /\ Len(data) = taken
    <3> HIDE DEF taken
    <3> QED BY <2>3, <2>4, <2>5, NumberedIs
  <2> HIDE DEF data
  <2>7. pay \in Payload /\ pay.kind = "bytes" /\ pay.data = data BY <2>6, PayloadIs
  <2>8. Welcome(net, d, sk.host, pay)
    <3>1. Len(pay.data) > 0 /\ net.socks[d].state = "connected" BY <1>3, <2>3, <2>4, <2>6, <2>7
    <3> HIDE DEF pay, taken
    <3> QED BY <2>3, <2>6, <2>7, <3>1 DEF Welcome
  <2> HIDE DEF pay
  <2>9. Traffic(net') BY <1>1, <2>1, <2>7, <2>8, DeliverTraffic
  <2> QED BY <2>9 DEF Flows
<1> QED BY <1>2, <1>3

LEMMA ReceivedTraffic ==
    ASSUME NEW n, Stands(n), Traffic(n), NEW s \in Sock, n.socks[s].state = "connected", NEW k \in Nat,
           k <= Len(n.socks[s].rx), NEW m, m = Received(n, s, k)
    PROVE  Traffic(m)
<1>1. PICK rx \in Seq(Byte \cup Name) :
          Len(rx) <= Len(n.socks[s].rx) /\ m = Writable(RingSet(n, s, rx), n.socks[s].far)
  BY ReceivedShape
<1> DEFINE x == RingSet(n, s, rx)
           r == WithRx(n.socks[s], rx)
<1>2. n.socks[s].far \in Sock /\ n \in NetRec /\ Ends(n) /\ n.socks[s] \in SockRec
  BY FarIs, Standing, StandsEnds
<1>3. Livens(n, x, s, r) BY <1>1, RingSetIs
<1>4. Lively(r, n.socks[s]) /\ r.rx = rx /\ r.flight = n.socks[s].flight /\ r.flStream = n.socks[s].flStream
      /\ r.fin = n.socks[s].fin
  BY <1>2, WithRxIs
<1>5. m = Writable(x, n.socks[s].far) BY <1>1
<1> HIDE DEF x, r
<1>6. Soft(r, n.socks[s]) BY <1>1, <1>2, <1>4, LivelySoft
<1>7. Traffic(x) BY <1>2, <1>3, <1>6, ChangesAre, SoftTraffic
<1>8. x \in NetRec /\ Ends(x) BY <1>3, StandsEnds DEF Livens
<1> QED BY <1>2, <1>5, <1>7, <1>8, WritableTraffic

LEMMA RecvFlows ==
    ASSUME Stands(net), Traffic(net), NEW p \in Proc, NEW s \in Sock, NEW k \in Sizes, Recv(p, s, k)
    PROVE  Flows
<1> DEFINE m == Min({k, Len(net.socks[s].rx)})
<1>1. net' = net \/ net' = Received(net, s, m) BY DEF Recv, Sleeps
<1>2. net.socks[s].state = "connected" BY DEF Recv
<1>3. m \in Nat /\ m <= Len(net.socks[s].rx)
  <2> DEFINE j == Len(net.socks[s].rx)
  <2>1. j \in Nat /\ k \in Nat BY Standing, LenNat, InputsAssumption
  <2> HIDE DEF j
  <2>2. Min({k, j}) \in {k, j} /\ Min({k, j}) <= j BY <2>1, MinTwo
  <2> QED BY <2>1, <2>2 DEF j
<1> HIDE DEF m
<1>4. CASE net' = net BY <1>4 DEF Flows
<1>5. CASE net' = Received(net, s, m) BY <1>2, <1>3, <1>5, ReceivedTraffic DEF Flows
<1> QED BY <1>1, <1>4, <1>5

LEMMA ReadEndTraffic ==
    ASSUME NEW n, Stands(n), Traffic(n), NEW s \in Sock, n.socks[s].state = "connected", ~IsQueued(n, s),
           NEW m, m = NoLongerReads(n, s)
    PROVE  Traffic(m)
<1> DEFINE x == ReadEnd(n, s)
           r == NotReading(n.socks[s])
<1>1. Same(n, x) /\ m = Writable(x, n.socks[s].far) BY ReadEndIs
<1>2. n.socks[s].far \in Sock /\ n \in NetRec /\ Ends(n) /\ n.socks[s] \in SockRec
  BY FarIs, Standing, StandsEnds
<1>3. r \in SockRec /\ Soft(r, n.socks[s]) BY <1>2, NotReadingIs, ShutSoft
<1>4. Sets(n, x, s, r) BY <1>2, <1>3, SetIs DEF ReadEnd
<1> HIDE DEF x, r
<1>5. Traffic(x) BY <1>2, <1>3, <1>4, ChangesAre, SoftTraffic
<1>6. x \in NetRec /\ Ends(x) BY <1>1, Standing, StandsEnds DEF Same
<1> QED BY <1>1, <1>2, <1>5, <1>6, WritableTraffic

LEMMA WriteEndTraffic ==
    ASSUME NEW n, Stands(n), Traffic(n), NEW s \in Sock, n.socks[s].state = "connected", ~IsQueued(n, s),
           NEW m, m = NoLongerWrites(n, s)
    PROVE  Traffic(m)
<1> DEFINE x == WriteEnd(n, s)
           r == NotWriting(n.socks[s])
           d == n.socks[s].far
<1>1. /\ Same(n, x)
      /\ ~n.socks[s].shutWr => m = Deliver(x, n.socks[s].host, d, Fin)
      /\ n.socks[s].shutWr => m = n
  BY WriteEndIs
<1>2. d \in Sock /\ d # s /\ n \in NetRec /\ Ends(n) /\ n.socks[s] \in SockRec
  BY FarIs, Standing, StandsEnds
<1>3. r \in SockRec /\ Soft(r, n.socks[s]) /\ r.shutWr BY <1>2, NotWritingIs, ShutSoft
<1>4. Sets(n, x, s, r) BY <1>2, <1>3, SetIs DEF WriteEnd
<1> HIDE DEF x, r
<1>5. Traffic(x) /\ Changes(n, x, s, r) BY <1>2, <1>3, <1>4, ChangesAre, SoftTraffic
<1>6. x \in NetRec /\ Ends(x) BY <1>1, Standing, StandsEnds DEF Same
<1>7. CASE n.socks[s].shutWr BY <1>1, <1>7
<1>8. CASE ~n.socks[s].shutWr
  <2>1. x.socks[d] = n.socks[d] /\ x.socks[s] = r BY <1>2, <1>5 DEF Changes
  <2>2. Linked(n.socks[d]) /\ n.socks[d].far = s BY Standing DEF Paired, Linked
  <2>3. ~Speaks(x.socks[x.socks[d].far]) BY <1>3, <2>1, <2>2 DEF Speaks
  <2>4. n.socks[d].flight # <<>> => FlLen(n.socks[d]) + FlightHeader <= Ring
    <3>1. Owed(n, d) BY <1>2 DEF Traffic
    <3>2. Speaks(n.socks[s]) BY <1>8 DEF Speaks
    <3> QED BY <2>2, <3>1, <3>2 DEF Owed
  <2>5. Fin \in Payload /\ Fin.kind = "fin" BY PayloadIs
  <2>6. Welcome(x, d, n.socks[s].host, Fin) BY <2>1, <2>2, <2>4, <2>5 DEF Welcome
  <2> QED BY <1>1, <1>2, <1>5, <1>6, <1>8, <2>3, <2>5, <2>6, DeliverTraffic
<1> QED BY <1>7, <1>8

LEMMA ShutdownFlows ==
    ASSUME Stands(net), Traffic(net), NEW p \in Proc, NEW s \in Sock, NEW read \in BOOLEAN, NEW write \in BOOLEAN,
           Shutdown(p, s, read, write)
    PROVE  Flows
<1> DEFINE k == IF read THEN NoLongerReads(net, s) ELSE net
<1>1. /\ net.socks[s].state = "connected" /\ May(p, "none", s)
      /\ net' = IF write THEN NoLongerWrites(k, s) ELSE k
  BY DEF Shutdown
<1>2. ~IsQueued(net, s) BY <1>1, MayIs
<1>3. Stands(k) /\ k.socks[s].state = "connected" /\ ~IsQueued(k, s) /\ Traffic(k)
  <2>1. CASE read
    <3>1. k = NoLongerReads(net, s) BY <2>1
    <3>2. Same(net, k) BY <1>1, <1>2, <3>1, ReadEndIs
    <3>3. Traffic(k) BY <1>1, <1>2, <3>1, ReadEndTraffic
    <3> QED BY <1>1, <1>2, <3>2, <3>3 DEF Same
  <2>2. CASE ~read BY <1>1, <1>2, <2>2
  <2> QED BY <2>1, <2>2
<1> HIDE DEF k
<1>4. CASE write
  <2>1. net' = NoLongerWrites(k, s) BY <1>1, <1>4
  <2> QED BY <1>3, <2>1, WriteEndTraffic DEF Flows
<1>5. CASE ~write BY <1>1, <1>3, <1>5 DEF Flows
<1> QED BY <1>4, <1>5

LEMMA BoundTraffic ==
    ASSUME NEW n, Stands(n), Traffic(n), NEW s \in Sock, NeedsPort(n, s) => CanBindAny(n, s), NEW m, m = BoundIfNew(n, s)
    PROVE  Traffic(m)
<1>1. CASE m = n BY <1>1
<1>2. CASE \E name \in Name : Sets(n, m, s, Renamed(n.socks[s], name)) /\ n.socks[s].state = "new"
  <2>1. Stands(m) /\ Calms(n, m) BY BoundIfNewIs
  <2>2. NamedAnew(n, m, s) BY <1>2, <2>1 DEF NamedAnew
  <2> QED BY <1>2, <2>2, NamedTraffic
<1> QED BY <1>1, <1>2, BoundIfNewIs

LEMMA ConnectDgramFlows ==
    ASSUME Stands(net), Traffic(net), NEW p \in Proc, NEW s \in Sock, NEW dest \in Program[p].dests, ConnectDgram(p, s, dest)
    PROVE  Flows
<1> DEFINE k == BoundIfNew(net, s)
<1>1. /\ NeedsPort(net, s) => CanBindAny(net, s)
      /\ net' = [k EXCEPT !.socks[s].peer = dest, !.socks[s].hasPeer = TRUE]
  BY DEF ConnectDgram, Succeeds
<1>2. dest \in Name BY NamesAreNames
<1> HIDE DEF k
<1>3. Stands(k) /\ Traffic(k) BY <1>1, BoundIfNewIs, BoundTraffic DEF k
<1>4. k \in NetRec /\ Ends(k) /\ k.socks[s] \in SockRec BY <1>3, Standing, StandsEnds
<1>5. Sets(k, net', s, Knowing(k.socks[s], dest)) BY <1>1, <1>2, <1>3, KnowingIs
<1>6. Soft(Knowing(k.socks[s], dest), k.socks[s]) BY <1>2, <1>4, KnowingSoft
<1>7. Changes(k, net', s, Knowing(k.socks[s], dest)) BY <1>4, <1>5, ChangesAre
<1> QED BY <1>3, <1>4, <1>6, <1>7, SoftTraffic DEF Flows

LEMMA DatagramTraffic ==
    ASSUME NEW k, Stands(k), Traffic(k), NEW t, NEW from, NEW pay, NEW m, Datagram(k, m, t, from, pay)
    PROVE  Traffic(m)
<1>0. k \in NetRec /\ Ends(k) BY Standing, StandsEnds
<1>1. CASE m = k BY <1>1
<1>2. CASE /\ t \in Sock /\ pay \in Payload /\ pay.kind = "dgram" /\ k.socks[t].kind = "dgram"
           /\ TakesDgram(from, k.socks[t]) /\ m = Deliver(k, from, t, pay)
  <2>1. Welcome(k, t, from, pay) BY <1>2 DEF Welcome
  <2>2. pay.kind # "fin" BY <1>2
  <2> QED BY <1>0, <1>2, <2>1, <2>2, DeliverTraffic
<1>3. CASE t \in Sock /\ m = [k EXCEPT !.socks = [k.socks EXCEPT ![t] = Flagged(k.socks[t], TRUE, k.socks[t].wrNew)]]
  <2>1. k.socks[t].wrNew \in BOOLEAN BY <1>3, Standing DEF SockRec
  <2> QED BY <1>3, <2>1, FlaggedTraffic
<1> QED BY <1>1, <1>2, <1>3 DEF Datagram

LEMMA SendDgramFlows ==
    ASSUME Stands(net), Traffic(net), NEW p \in Proc, NEW s \in Sock, NEW dest \in Program[p].dests, SendDgram(p, s, dest)
    PROVE  Flows
<1> DEFINE k == BoundIfNew(net, s)
<1>1. /\ NeedsPort(net, s) => CanBindAny(net, s)
      /\ \E t, from, pay :
            \/ Datagram(k, net', t, from, pay) /\ Succeeds(p, net')
            \/ k = net /\ Fails(p)
            \/ DgramWaits(p, s, k, t)
  BY SendDgramIs
<1>2. Stands(k) /\ Traffic(k) BY <1>1, BoundIfNewIs, BoundTraffic
<1> HIDE DEF k
<1>3. PICK t, from, pay :
            \/ Datagram(k, net', t, from, pay) /\ Succeeds(p, net')
            \/ k = net /\ Fails(p)
            \/ DgramWaits(p, s, k, t)
  BY <1>1
<1>4. CASE Datagram(k, net', t, from, pay) BY <1>2, <1>4, DatagramTraffic DEF Flows
<1>5. CASE Fails(p) BY <1>5 DEF Fails, Flows
<1>6. CASE DgramWaits(p, s, k, t)
  <2> QED BY <1>6, Standing, CrowdsIs, CrowdsFlow DEF DgramWaits
<1> QED BY <1>3, <1>4, <1>5, <1>6

LEMMA RecvDgramFlows ==
    ASSUME Stands(net), Traffic(net), NEW p \in Proc, NEW s \in Sock, RecvDgram(p, s)
    PROVE  Flows
<1>1. CASE net.socks[s].rx = <<>> BY <1>1 DEF RecvDgram, Sleeps, Flows
<1>2. CASE net.socks[s].rx # <<>>
  <2> DEFINE rx == Tail(net.socks[s].rx)
  <2>1. net \in NetRec /\ net.socks[s] \in SockRec /\ Ends(net) BY Standing, StandsEnds
  <2>2. net.socks[s].rx \in Seq(Byte \cup Name) /\ Len(net.socks[s].rx) \in Nat BY <2>1, LenNat
  <2>3. Len(net.socks[s].rx) \in Nat BY <2>2
  <2>4. net' = RingSet(net, s, rx) BY <1>2, <2>1 DEF RecvDgram, Succeeds, WithRx, NetRec, RingSet
  <2>5. rx \in Seq(Byte \cup Name) /\ Len(rx) = Len(net.socks[s].rx) - 1
    BY <1>2, <2>2, HeadTailProperties
  <2> HIDE DEF rx
  <2>6. Len(rx) = Len(net.socks[s].rx) - 1 BY <2>5
  <2>7. Len(rx) <= Len(net.socks[s].rx) BY <2>3, <2>6
  <2>8. Livens(net, net', s, WithRx(net.socks[s], rx)) BY <2>4, <2>5, <2>7, RingSetIs
  <2> DEFINE r == WithRx(net.socks[s], rx)
  <2>9. Lively(r, net.socks[s]) /\ r.rx = rx /\ r.flight = net.socks[s].flight
        /\ r.flStream = net.socks[s].flStream /\ r.fin = net.socks[s].fin
    BY <2>1, <2>5, WithRxIs
  <2>10. Livens(net, net', s, r) BY <2>8
  <2> HIDE DEF r
  <2>11. Soft(r, net.socks[s]) BY <2>1, <2>7, <2>9, LivelySoft
  <2>12. Changes(net, net', s, r) BY <2>1, <2>10, ChangesAre
  <2> QED BY <2>1, <2>11, <2>12, SoftTraffic DEF Flows
<1> QED BY <1>1, <1>2

LEMMA KeventFlows ==
    ASSUME Stands(net), Traffic(net), NEW p \in Proc, NEW s \in Sock, KeventRead(p, s) \/ KeventWrite(p, s)
    PROVE  Flows
<1>1. CASE Reports(s)
  <2>1. PICK rd \in BOOLEAN, wr \in BOOLEAN :
            net' = [net EXCEPT !.socks = [net.socks EXCEPT ![s] = Flagged(net.socks[s], rd, wr)]]
    BY <1>1 DEF Reports
  <2> QED BY <2>1, FlaggedTraffic DEF Flows
<1>2. CASE net' = net BY <1>2 DEF Flows
<1> QED BY <1>1, <1>2, KeventIs DEF Sleeps

LEMMA CloseFlows ==
    ASSUME Stands(net), Traffic(net), NEW p \in Proc, NEW s \in Sock, Close(p, s) \/ Outside(p, s)
    PROVE  Flows
<1>1. net' = DropRefs(net, p, s, 1) /\ net.refs[p][s] > 0 BY CloseKeeps
<1>2. Hangs(net, NoSock) /\ net.refs[p][s] \in Nat BY Standing DEF NetRec
<1>3. 1 \in Nat /\ 1 <= net.refs[p][s] BY <1>1, <1>2
<1> QED BY <1>1, <1>2, <1>3, DropTraffic DEF Flows

LEMMA DupFlows ==
    ASSUME Stands(net), Traffic(net), NEW p \in Proc, NEW s \in Sock, Dup(p, s)
    PROVE  Flows
<1>1. Recounted(net, net') BY DupKeeps
<1>2. net \in NetRec /\ Ends(net) BY Standing, StandsEnds
<1> QED BY <1>1, <1>2, RecountTraffic DEF Flows

LEMMA HandedTraffic ==
    ASSUME NEW n, Stands(n), Traffic(n), NEW p \in Proc, NEW q \in Proc, NEW held \in [Sock -> Nat],
           \A t \in Sock : held[t] > 0 => n.refs[q][t] > 0, NEW m, m = SetRefs(n, p, held)
    PROVE  Traffic(m)
<1>1. Hangs(n, NoSock) BY Standing
<1>2. \A t \in Sock : held[t] > 0 => ~IsGone(n.socks[t]) /\ ~IsQueued(n, t) BY <1>1, HeldIsOpen
<1> QED BY <1>1, <1>2, SetRefsTraffic

LEMMA ForkFlows ==
    ASSUME Stands(net), Traffic(net), NEW p \in Proc, NEW child \in Proc, Fork(p, child)
    PROVE  Flows
<1> DEFINE held == net.refs[p]
<1>1. held \in [Sock -> Nat] /\ net' = SetRefs(net, child, held) BY Standing DEF NetRec, Fork
<1>2. \A t \in Sock : held[t] > 0 => net.refs[p][t] > 0 OBVIOUS
<1> HIDE DEF held
<1> QED BY <1>1, <1>2, HandedTraffic DEF Flows

LEMMA ExecFlows ==
    ASSUME Stands(net), Traffic(net), NEW p \in Proc, NEW s \in Sock, Exec(p, s)
    PROVE  Flows
<1> DEFINE held == [net.refs[p] EXCEPT ![s] = 0]
<1>1. net' = SetRefs(net, p, held) BY DEF Exec
<1>2. net.refs[p] \in [Sock -> Nat] BY Standing DEF NetRec
<1>3. held \in [Sock -> Nat] /\ \A t \in Sock : held[t] > 0 => net.refs[p][t] > 0 BY <1>2
<1> HIDE DEF held
<1> QED BY <1>1, <1>3, HandedTraffic DEF Flows

LEMMA DieFlows ==
    ASSUME Stands(net), Traffic(net), NEW p \in Proc, Die(p)
    PROVE  Flows
<1>1. net' = SetRefs(net, p, Nothing) BY DEF Die
<1>2. Nothing \in [Sock -> Nat] /\ \A t \in Sock : Nothing[t] > 0 => net.refs[p][t] > 0
  BY DEF Nothing
<1> QED BY <1>1, <1>2, HandedTraffic DEF Flows

----------------------------------------------------------------------------
(***************************************************************************)
(* Traffic through the clock.                                              *)
(***************************************************************************)
\* What grew older weighs as much.
LEMMA AgesCarries ==
    ASSUME NEW sk \in SockRec, NEW d \in Nat, NEW r, Ages(r, sk, d)
    PROVE  /\ \A kind : Carries(r, kind) <=> Carries(sk, kind)
           /\ StreamLen(r.flight) = StreamLen(sk.flight)
           /\ RxLen(r) = RxLen(sk)
           /\ r.flight = <<>> <=> sk.flight = <<>>
<1>1. sk.flight \in Seq([left: Nat, pay: Payload]) /\ r.flight \in Seq([left: Nat, pay: Payload])
  BY DEF SockRec, Ages, Lively
<1>2. DOMAIN sk.flight = 1..Len(sk.flight) /\ DOMAIN r.flight = 1..Len(sk.flight) /\ Len(r.flight) = Len(sk.flight)
  <2>1. Len(r.flight) = Len(sk.flight) BY DEF Ages
  <2> QED BY <1>1, <2>1, LenProperties
<1>3. \A i \in 1..Len(sk.flight) : r.flight[i].pay = sk.flight[i].pay BY DEF Ages
<1>4. \A kind : Carries(r, kind) <=> Carries(sk, kind) BY <1>2, <1>3 DEF Carries
<1>5. Loads(r.flight) = Loads(sk.flight) BY <1>2, <1>3 DEF Loads
<1>6. StreamLen(r.flight) = StreamLen(sk.flight) BY <1>1, <1>5, LoadsAre
<1>7. RxLen(r) = RxLen(sk) BY DEF Ages, Lively, Alike, RxLen
<1>8. r.flight = <<>> <=> sk.flight = <<>>
  <2>1. r.flight = <<>> <=> Len(r.flight) = 0 BY <1>1, EmptySeq
  <2>2. sk.flight = <<>> <=> Len(sk.flight) = 0 BY <1>1, EmptySeq
  <2> QED BY <1>2, <2>1, <2>2
<1> QED BY <1>4, <1>6, <1>7, <1>8

LEMMA AgesBlameless ==
    ASSUME NEW sk \in SockRec, Blameless(sk), NEW d \in Nat, NEW r, Ages(r, sk, d)
    PROVE  Blameless(r)
<1>1. /\ \A kind : Carries(r, kind) <=> Carries(sk, kind)
      /\ StreamLen(r.flight) = StreamLen(sk.flight) /\ RxLen(r) = RxLen(sk)
      /\ r.flight = <<>> <=> sk.flight = <<>>
  BY AgesCarries
<1>2. /\ r.state = sk.state /\ r.kind = sk.kind /\ r.shutWr = sk.shutWr /\ r.shutRd = sk.shutRd
      /\ r.rx = sk.rx /\ r.fin = sk.fin /\ r.flStream = sk.flStream /\ FlLen(r) = FlLen(sk)
  BY DEF Ages, Lively, Alike
<1>3. IsGone(r) <=> IsGone(sk) BY <1>2 DEF IsGone
<1> QED BY <1>1, <1>2, <1>3 DEF Blameless

LEMMA LaterGrows ==
    ASSUME NEW a \in Nat, NEW b \in Nat, NEW d \in Nat, a <= b
    PROVE  Later(a, d) <= Later(b, d) /\ Later(a, d) \in Nat
  BY DEF Later

LEMMA AgedTraffic ==
    ASSUME NEW n, Stands(n), Traffic(n), NEW d \in Nat, NEW m, AgesAll(n, m, d)
    PROVE  Traffic(m)
<1>1. n \in NetRec /\ m \in NetRec /\ \A s \in Sock : n.socks[s] \in SockRec BY Standing DEF AgesAll
<1>2. ASSUME NEW s \in Sock
      PROVE  /\ Ages(m.socks[s], n.socks[s], d) /\ Blameless(m.socks[s])
             /\ m.socks[s].flight = <<>> <=> n.socks[s].flight = <<>>
             /\ Len(m.socks[s].flight) = Len(n.socks[s].flight)
             /\ \A kind : Carries(m.socks[s], kind) <=> Carries(n.socks[s], kind)
  <2>1. Ages(m.socks[s], n.socks[s], d) /\ n.socks[s] \in SockRec /\ Blameless(n.socks[s])
    BY <1>1 DEF AgesAll, Traffic
  <2>2. Blameless(m.socks[s]) BY <2>1, AgesBlameless
  <2>3. /\ m.socks[s].flight = <<>> <=> n.socks[s].flight = <<>>
        /\ \A kind : Carries(m.socks[s], kind) <=> Carries(n.socks[s], kind)
    BY <2>1, AgesCarries
  <2> QED BY <2>1, <2>2, <2>3 DEF Ages
<1>3. Clocked(m)
  <2>1. Lens(m) = Lens(n) BY <1>2 DEF Lens
  <2>2. m.inFlight = Total(Lens(m)) BY <2>1 DEF AgesAll, Traffic, Clocked
  <2>3. ASSUME NEW s \in Sock, m.socks[s].flight # <<>>
        PROVE  m.nextDue # NoTime /\ m.nextDue <= m.socks[s].flight[1].left
    <3>1. n.socks[s].flight # <<>> BY <1>2, <2>3
    <3>2. n.nextDue # NoTime /\ n.nextDue <= n.socks[s].flight[1].left BY <3>1 DEF Traffic, Clocked
    <3>3. n.nextDue \in Nat BY <1>1, <3>2 DEF NetRec
    <3>4. m.nextDue = Later(n.nextDue, d) BY <3>2 DEF AgesAll
    <3>5. n.socks[s].flight \in Seq([left: Nat, pay: Payload]) /\ Len(n.socks[s].flight) \in Nat
      BY <1>1, LenNat
    <3>6. 1 \in 1..Len(n.socks[s].flight) BY <3>1, <3>5, EmptySeq
    <3>7. n.socks[s].flight[1].left \in Nat
      <4>1. n.socks[s].flight[1] \in [left: Nat, pay: Payload] BY <3>5, <3>6, ElementOfSeq
      <4> QED BY <4>1
    <3>8. m.socks[s].flight = AgedFlight(n.socks[s].flight, d) BY <1>2 DEF Ages
    <3>9. m.socks[s].flight[1].left = Later(n.socks[s].flight[1].left, d)
      <4>1. AgedFlight(n.socks[s].flight, d)[1].left = Later(n.socks[s].flight[1].left, d)
        BY ONLY <3>5, <3>6, AgedFlightIs, d \in Nat
      <4> QED BY <3>8, <4>1
    <3>10. Later(n.nextDue, d) <= Later(n.socks[s].flight[1].left, d) /\ Later(n.nextDue, d) \in Nat
      BY <3>2, <3>3, <3>7, LaterGrows
    <3>11. m.nextDue # NoTime BY <3>4, <3>10 DEF NoTime
    <3> QED BY <3>4, <3>9, <3>10, <3>11
  <2> QED BY <2>2, <2>3 DEF Clocked
<1>4. ASSUME NEW s \in Sock PROVE Owed(m, s)
  <2>1. Owed(n, s) BY DEF Traffic
  <2>2. ASSUME Linked(m.socks[s]), Speaks(m.socks[m.socks[s].far])
        PROVE  Linked(n.socks[s]) /\ Speaks(n.socks[n.socks[s].far])
    <3>1. Linked(n.socks[s]) /\ m.socks[s].far = n.socks[s].far
      BY <1>2, <2>2 DEF Ages, Lively, Alike, Linked
    <3>2. n.socks[s].far \in Sock BY <3>1, Standing DEF Paired
    <3>3. Ages(m.socks[n.socks[s].far], n.socks[n.socks[s].far], d) BY <1>2, <3>2
    <3> QED BY <2>2, <3>1, <3>3 DEF Ages, Lively, Alike, Speaks
  <2>3. /\ FlLen(m.socks[s]) = FlLen(n.socks[s]) /\ m.socks[s].fin = n.socks[s].fin
        /\ m.socks[s].flight = <<>> <=> n.socks[s].flight = <<>>
        /\ Carries(m.socks[s], "fin") <=> Carries(n.socks[s], "fin")
    BY <1>2 DEF Ages
  <2> QED BY <2>1, <2>2, <2>3 DEF Owed
<1> QED BY <1>2, <1>3, <1>4 DEF Traffic

LEMMA LandOne ==
    ASSUME NEW sk \in SockRec, Blameless(sk), NEW x, NEW sum \in Nat, Landing(sk, x, sum),
           NEW i \in 1..Len(sk.flight), NEW r, r = Land(x, sk.flight[i].pay)
    PROVE  Landing(sk, r, sum + Load(sk.flight[i].pay)) /\ (~IsGone(sk) => r.rdNew)
<1> DEFINE pay == sk.flight[i].pay
<1>1. pay \in Payload
  <2>1. sk.flight \in Seq([left: Nat, pay: Payload]) BY DEF SockRec
  <2>2. sk.flight[i] \in [left: Nat, pay: Payload] BY <2>1, ElementOfSeq
  <2> QED BY <2>2
<1>2. x \in SockRec /\ x.state = sk.state /\ x.kind = sk.kind /\ (IsGone(x) <=> IsGone(sk))
  BY DEF Landing, Lively, Alike, IsGone
<1>3. r = Land(x, pay) OBVIOUS
<1>4. Carries(sk, pay.kind) BY DEF Carries
<1> HIDE DEF pay
<1>5. /\ Lively(r, x) /\ r.flight = x.flight /\ r.flStream = x.flStream /\ r.wrNew = x.wrNew
      /\ IsGone(x) => r = x
      /\ ~IsGone(x) => r.rdNew
  <2>1. /\ Land(x, pay) \in SockRec
        /\ Alike(Land(x, pay), x) /\ Named(Land(x, pay), x)
        /\ Land(x, pay).refs = x.refs /\ Land(x, pay).backlogMax = x.backlogMax
        /\ Land(x, pay).flight = x.flight /\ Land(x, pay).flStream = x.flStream
        /\ Land(x, pay).wrNew = x.wrNew
        /\ IsGone(x) => Land(x, pay) = x
        /\ ~IsGone(x) => Land(x, pay).rdNew
    BY <1>1, <1>2, LandIs
  <2> QED BY <1>3, <2>1 DEF Lively
<1>6. CASE IsGone(sk)
  <2>1. r = x /\ x = sk BY <1>2, <1>5, <1>6 DEF Landing
  <2> QED BY <1>6, <2>1 DEF Landing
<1>7. CASE ~IsGone(sk)
  <2>1. /\ pay.kind = "fin" => r.fin
        /\ pay.kind # "fin" => r.fin = x.fin
    BY <1>1, <1>2, <1>3, <1>7, LandRx
  <2>2. sk.kind = (IF pay.kind = "dgram" THEN "dgram" ELSE "stream")
    <3>1. sk.kind = "dgram" => pay.kind = "dgram"
      <4>1. pay.kind \in {"bytes", "fin", "dgram"} BY <1>1 DEF Payload
      <4> QED BY <1>4, <4>1 DEF Blameless
    <3>2. sk.kind = "stream" => sk.state = "connected"
      <4>1. sk.flight # <<>> BY EmptySeq
      <4>2. sk.state \in {"free", "new", "bound", "listening", "connected", "closed"} BY DEF SockRec
      <4> QED BY <1>7, <4>1, <4>2 DEF Blameless, IsGone
    <3>3. sk.kind = "stream" => pay.kind # "dgram" BY <1>4, <3>2 DEF Blameless
    <3>4. sk.kind \in {"stream", "dgram"} BY DEF SockRec
    <3> QED BY <3>1, <3>3, <3>4
  <2>3. /\ RxLen(r) \in Nat /\ RxLen(x) \in Nat
        /\ pay.kind # "dgram" => RxLen(r) = RxLen(x) + Load(pay)
        /\ pay.kind = "dgram" => RxLen(r) = RxLen(x) \/ (RxLen(r) = RxLen(x) + DgramLen /\ DgramLen <= Ring - RxLen(x))
    BY <1>1, <1>2, <1>3, <1>7, <2>2, LandGrows
  <2>4. RxLen(sk) \in Nat /\ Load(pay) \in Nat BY <1>1, RxLenIs, LoadIs
  <2>5. sk.kind = "stream" => RxLen(r) = RxLen(sk) + (sum + Load(pay))
    <3>1. sk.kind = "stream" => RxLen(x) = RxLen(sk) + sum BY <1>7 DEF Landing
    <3> HIDE DEF pay
    <3> QED BY <2>2, <2>3, <2>4, <3>1
  <2>6. sk.kind = "dgram" => RxLen(r) <= Ring
    <3>1. sk.kind = "dgram" => RxLen(x) <= Ring BY <1>7 DEF Landing
    <3> QED BY <2>2, <2>3, <3>1, SizesAre
  <2>7. sk.fin => r.fin BY <2>1 DEF Landing
  <2>8. r.fin => sk.fin \/ Carries(sk, "fin") BY <1>4, <2>1 DEF Landing
  <2>9. Lively(r, sk) /\ r.flight = sk.flight /\ r.flStream = sk.flStream /\ r.wrNew = sk.wrNew
    BY <1>5 DEF Landing, Lively, Alike, Named
  <2>10. r.rdNew BY <1>2, <1>5, <1>7
  <2>11. Landing(sk, r, sum + Load(pay)) BY <1>7, <2>5, <2>6, <2>7, <2>8, <2>9, <2>10 DEF Landing
  <2> QED BY <2>10, <2>11 DEF pay
<1> QED BY <1>6, <1>7

LEMMA LandsAllIs ==
    ASSUME NEW sk \in SockRec, Blameless(sk), NEW x, x = AllLand(sk, Due(sk))
    PROVE  LandsAll(sk, x)
<1>1. /\ DueLen(sk) \in 0..Len(sk.flight) /\ Len(sk.flight) \in Nat
      /\ Due(sk) \in Seq([left: Nat, pay: Payload]) /\ Len(Due(sk)) = DueLen(sk)
      /\ \A i \in 1..DueLen(sk) : Due(sk)[i] = sk.flight[i]
  BY DueIs
<1> DEFINE k == DueLen(sk)
<1> DEFINE due == Due(sk)
<1>2. PICK f : LandSteps(f, sk, due) /\ AllLand(sk, due) = f[Len(due)]
  <2>1. Len(due) \in Nat BY <1>1
  <2> HIDE DEF due
  <2> QED BY <2>1, LandFold
<1>3. Loads(due) \in Seq(Nat) /\ Len(Loads(due)) = k /\ StreamLen(due) = Total(Loads(due))
      /\ \A i \in 1..k : Loads(due)[i] = Load(due[i].pay)
  BY <1>1, LoadsAre
<1>4. PICK g : Partial(g, Loads(due)) /\ Total(Loads(due)) = g[Len(Loads(due))] /\ \A i \in 0..Len(Loads(due)) : g[i] \in Nat
  BY <1>3, TotalHas
<1> DEFINE Good(i) == Landing(sk, f[i], g[i]) /\ (i > 0 /\ ~IsGone(sk) => f[i].rdNew)
<1> DEFINE T == {i \in 0..k : Good(i)}
<1>5. k \in Nat /\ k <= Len(sk.flight) BY <1>1
<1>6. 0 \in T
  <2>1. f[0] = sk /\ g[0] = 0 BY <1>2, <1>4 DEF LandSteps, Partial
  <2>2. RxLen(sk) \in Nat BY RxLenIs
  <2>3. sk.kind = "dgram" => RxLen(sk) <= Ring
    <3>1. sk.kind = "dgram" => sk.flStream = 0 /\ RxLen(sk) + sk.flStream <= Ring BY DEF Blameless
    <3> QED BY <2>2, <3>1
  <2>4. Lively(sk, sk) BY DEF Lively, Alike, Named
  <2>5. RxLen(sk) = RxLen(sk) + 0 BY <2>2
  <2>6. Landing(sk, sk, 0) BY <2>3, <2>4, <2>5 DEF Landing
  <2> QED BY <1>5, <2>1, <2>6
<1>7. ASSUME NEW i \in 1..k, i - 1 \in T
      PROVE  i \in T
  <2>1. Landing(sk, f[i - 1], g[i - 1]) /\ i \in 1..Len(sk.flight) /\ i \in 0..k /\ i > 0
    BY <1>5, <1>7
  <2>2. g[i - 1] \in Nat BY <1>3, <1>4, <1>5
  <2>3. f[i] = LandRecord(f[i - 1], due[i]) BY <1>1, <1>2 DEF LandSteps
  <2>4. f[i] = Land(f[i - 1], sk.flight[i].pay) BY <1>1, <2>3 DEF LandRecord
  <2>5. g[i] = g[i - 1] + Load(sk.flight[i].pay)
    <3>1. g[i] = g[i - 1] + Loads(due)[i] BY <1>3, <1>4 DEF Partial
    <3>2. due[i] = sk.flight[i] BY <1>1
    <3> QED BY <1>3, <3>1, <3>2
  <2>6. Landing(sk, f[i], g[i - 1] + Load(sk.flight[i].pay)) /\ (~IsGone(sk) => f[i].rdNew)
    <3> HIDE DEF k, due, T
    <3> QED BY <2>1, <2>2, <2>4, LandOne
  <2> QED BY <2>1, <2>5, <2>6
<1>8. \A i \in 0..k : i \in T
  <2> HIDE DEF T, k
  <2> QED BY <1>5, <1>6, <1>7, Induct
<1>9. Good(k) BY <1>5, <1>8
<1>10. x = f[k] /\ StreamLen(due) = g[k] BY <1>1, <1>2, <1>3, <1>4
<1>11. k = 0 => x = sk BY <1>2, <1>10 DEF LandSteps
<1> QED BY <1>9, <1>10, <1>11 DEF LandsAll

LEMMA LandDueShape ==
    ASSUME NEW sk \in SockRec, Blameless(sk), NEW r, r = LandDue(sk)
    PROVE  \E x, rest : /\ LandsAll(sk, x) /\ rest = SubSeq(sk.flight, DueLen(sk) + 1, Len(sk.flight))
                        /\ r = [x EXCEPT !.flight = rest, !.flStream = x.flStream - StreamLen(Due(sk))]
<1> DEFINE x == AllLand(sk, Due(sk))
<1>1. LandsAll(sk, x)
  <2>1. x = AllLand(sk, Due(sk)) OBVIOUS
  <2> HIDE DEF x
  <2> QED BY <2>1, LandsAllIs
<1>2. x.flight = sk.flight /\ x \in SockRec BY <1>1 DEF LandsAll, Landing, Lively
<1>3. r = [x EXCEPT !.flight = SubSeq(x.flight, DueLen(sk) + 1, Len(x.flight)),
                    !.flStream = x.flStream - StreamLen(Due(sk))]
  BY DEF LandDue, AllLand
<1> QED
  <2> HIDE DEF x
  <2> QED BY <1>1, <1>2, <1>3

LEMMA LandDueIs ==
    ASSUME NEW sk \in SockRec, Blameless(sk), NEW r, r = LandDue(sk)
    PROVE  LandsDue(sk, r)
<1>1. PICK x, rest : /\ LandsAll(sk, x) /\ rest = SubSeq(sk.flight, DueLen(sk) + 1, Len(sk.flight))
                     /\ r = [x EXCEPT !.flight = rest, !.flStream = x.flStream - StreamLen(Due(sk))]
  BY LandDueShape
<1>2. /\ DueLen(sk) \in 0..Len(sk.flight) /\ Len(sk.flight) \in Nat
      /\ Due(sk) \in Seq([left: Nat, pay: Payload]) /\ Len(Due(sk)) = DueLen(sk)
      /\ \A i \in 1..DueLen(sk) : Due(sk)[i] = sk.flight[i]
  BY DueIs
<1>3. sk.flight \in Seq([left: Nat, pay: Payload]) /\ DueLen(sk) \in Nat BY <1>2 DEF SockRec
<1>4. /\ rest \in Seq([left: Nat, pay: Payload]) /\ Len(rest) = Len(sk.flight) - DueLen(sk)
      /\ \A i \in 1..Len(rest) : rest[i] = sk.flight[DueLen(sk) + i]
      /\ StreamLen(sk.flight) = StreamLen(Due(sk)) + StreamLen(rest)
      /\ Total(Weights(sk.flight)) = Total(Weights(Due(sk))) + Total(Weights(rest))
  <2> DEFINE flight == sk.flight
  <2> DEFINE k == DueLen(sk)
  <2> DEFINE gone == Due(sk)
  <2>1. /\ flight \in Seq([left: Nat, pay: Payload]) /\ k \in 0..Len(flight)
        /\ gone \in Seq([left: Nat, pay: Payload]) /\ Len(gone) = k /\ \A i \in 1..k : gone[i] = flight[i]
        /\ rest = SubSeq(flight, k + 1, Len(flight))
    BY <1>1, <1>2, <1>3
  <2>2. Shrunk(flight, gone, rest)
    <3> HIDE DEF flight, k, gone
    <3> QED BY <2>1, FlightShrinks
  <2> QED BY <2>1, <2>2 DEF Shrunk
<1>5. StreamLen(Due(sk)) \in Nat /\ StreamLen(rest) \in Nat /\ StreamLen(sk.flight) \in Nat
  BY <1>2, <1>3, <1>4, LoadsAre
<1>6. sk.flStream = StreamLen(sk.flight) /\ RxLen(sk) + sk.flStream <= Ring /\ FlLen(sk) <= Ring
  BY DEF Blameless
<1>7. Landing(sk, x, StreamLen(Due(sk))) BY <1>1 DEF LandsAll
<1>8. x \in SockRec /\ Alike(x, sk) /\ Named(x, sk) /\ x.refs = sk.refs /\ x.backlogMax = sk.backlogMax
      /\ x.flStream = sk.flStream /\ x.wrNew = sk.wrNew
  BY <1>7 DEF Landing, Lively
<1>9. x.flStream - StreamLen(Due(sk)) = StreamLen(rest) BY <1>4, <1>5, <1>6, <1>8
<1>10. r = [x EXCEPT !.flight = rest, !.flStream = StreamLen(rest)] BY <1>1, <1>9
<1>11. /\ r \in SockRec /\ r.flight = rest /\ r.flStream = StreamLen(rest)
       /\ r.state = x.state /\ r.far = x.far /\ r.kind = x.kind /\ r.host = x.host /\ r.backlog = x.backlog
       /\ r.shutWr = x.shutWr /\ r.shutRd = x.shutRd /\ Named(r, x)
       /\ r.refs = x.refs /\ r.backlogMax = x.backlogMax /\ r.rx = x.rx /\ r.fin = x.fin
       /\ r.rdNew = x.rdNew /\ r.wrNew = x.wrNew
  BY <1>4, <1>5, <1>8, <1>10, ZenonT(60) DEF SockRec, Named
<1>12. Lively(r, sk) BY <1>8, <1>11 DEF Lively, Alike, Named
<1>13. FlLen(r) <= FlLen(sk) /\ FlLen(r) \in Nat
  <2>1. Weights(Due(sk)) \in Seq(Nat) BY <1>2, WeightsAre
  <2>2. Total(Weights(Due(sk))) \in Nat BY <2>1, TotalNat
  <2>3. FlLen(r) \in Nat /\ FlLen(r) = Total(Weights(rest)) BY <1>11, FlLenIs
  <2>4. FlLen(sk) \in Nat /\ FlLen(sk) = Total(Weights(sk.flight)) BY FlLenIs
  <2> QED BY <1>4, <2>2, <2>3, <2>4
<1>14. ASSUME NEW kind, Carries(r, kind) PROVE Carries(sk, kind)
  <2>1. PICK i \in 1..Len(rest) : rest[i].pay.kind = kind BY <1>11, <1>14 DEF Carries
  <2>2. DueLen(sk) + i \in 1..Len(sk.flight) BY <1>2, <1>3, <1>4, <2>1
  <2> QED BY <1>4, <2>1, <2>2 DEF Carries
<1>15. RxLen(r) = RxLen(x) /\ RxLen(sk) \in Nat BY <1>11, RxLenIs DEF RxLen
<1>16. RxLen(r) + r.flStream <= Ring
  <2>1. CASE IsGone(sk)
    <3>1. RxLen(r) = RxLen(sk) BY <1>7, <1>15, <2>1 DEF Landing
    <3> QED BY <1>4, <1>5, <1>6, <1>11, <1>15, <3>1, SizesAre
  <2>2. CASE ~IsGone(sk) /\ sk.kind = "stream"
    <3>1. RxLen(r) = RxLen(sk) + StreamLen(Due(sk)) BY <1>7, <1>15, <2>2 DEF Landing
    <3> QED BY <1>4, <1>5, <1>6, <1>11, <1>15, <3>1
  <2>3. CASE ~IsGone(sk) /\ sk.kind = "dgram"
    <3>1. RxLen(r) <= Ring BY <1>7, <1>15, <2>3 DEF Landing
    <3>2. sk.flStream = 0 BY <2>3 DEF Blameless
    <3>3. r.flStream = 0 BY <1>4, <1>5, <1>6, <1>11, <3>2
    <3>4. RxLen(r) \in Nat BY <1>11, RxLenIs
    <3> QED BY <3>1, <3>3, <3>4, SizesAre
  <2>4. sk.kind \in {"stream", "dgram"} BY DEF SockRec
  <2> QED BY <2>1, <2>2, <2>3, <2>4
<1>17. sk.flight = <<>> => x = sk /\ r.flight = <<>>
  <2>1. sk.flight = <<>> => Len(sk.flight) = 0 BY <1>3, EmptySeq
  <2>2. Len(sk.flight) = 0 => DueLen(sk) = 0 /\ Len(rest) = 0 BY <1>2, <1>4
  <2>3. Len(rest) = 0 => rest = <<>> BY <1>4, EmptySeq
  <2> QED BY <1>1, <1>11, <2>1, <2>2, <2>3 DEF LandsAll
<1>18. r.state = sk.state /\ r.kind = sk.kind /\ r.shutWr = sk.shutWr /\ r.shutRd = sk.shutRd
       /\ (IsGone(r) <=> IsGone(sk))
  BY <1>8, <1>11 DEF Alike, IsGone
<1>19. Blameless(r)
  <2>1. r.flStream = StreamLen(r.flight) BY <1>11
  <2>2. FlLen(r) <= Ring
    <3>1. FlLen(sk) \in Nat BY FlLenIs
    <3> QED BY <1>6, <1>13, <3>1, SizesAre
  <2>3. r.state \notin {"new", "bound"} => r.kind = "stream" BY <1>18 DEF Blameless
  <2>4. r.kind = "stream" /\ r.state \in {"new", "bound", "listening"} =>
          r.rx = <<>> /\ r.flight = <<>> /\ ~r.fin /\ ~r.shutWr /\ ~r.shutRd
    BY <1>11, <1>17, <1>18 DEF Blameless
  <2>5. IsGone(r) => r.rx = <<>> /\ ~r.fin
    <3>1. IsGone(sk) => x = sk BY <1>7 DEF Landing
    <3> QED BY <1>11, <1>18, <3>1 DEF Blameless
  <2>6. r.state = "connected" => ~Carries(r, "dgram") BY <1>14, <1>18 DEF Blameless
  <2>7. r.kind = "dgram" => r.flStream = 0 /\ ~Carries(r, "bytes") /\ ~Carries(r, "fin")
    <3>1. r.kind = "dgram" => sk.flStream = 0 BY <1>18 DEF Blameless
    <3>2. sk.flStream = 0 => r.flStream = 0 BY <1>4, <1>5, <1>6, <1>11
    <3> QED BY <1>14, <1>18, <3>1, <3>2 DEF Blameless
  <2> QED BY <1>16, <2>1, <2>2, <2>3, <2>4, <2>5, <2>6, <2>7 DEF Blameless
<1>20. Len(sk.flight) = DueLen(sk) + Len(r.flight) /\ Len(r.flight) \in Nat
  BY <1>2, <1>3, <1>4, <1>11, SMTT(40)
<1>21. /\ sk.rdNew => r.rdNew
       /\ sk.fin => r.fin
       /\ r.fin => sk.fin \/ Carries(sk, "fin")
       /\ IsGone(sk) => r.rx = sk.rx
  BY <1>7, <1>11 DEF Landing
<1>22. /\ DueLen(sk) > 0 /\ ~IsGone(sk) => r.rdNew
       /\ DueLen(sk) = 0 => r.rx = sk.rx /\ r.fin = sk.fin
  BY <1>1, <1>11 DEF LandsAll
<1> QED BY <1>3, <1>4, <1>8, <1>11, <1>12, <1>13, <1>19, <1>20, <1>21, <1>22 DEF LandsDue
LEMMA CarriesLess ==
    ASSUME NEW sk, NEW r, LandsDue(sk, r), NEW kind, Carries(r, kind)
    PROVE  Carries(sk, kind)
<1>1. PICK i \in 1..Len(r.flight) : r.flight[i].pay.kind = kind BY DEF Carries
<1>2. r.flight[i] = sk.flight[DueLen(sk) + i] BY <1>1 DEF LandsDue
<1>3. DueLen(sk) + i \in 1..Len(sk.flight) BY <1>1 DEF LandsDue
<1> QED BY <1>1, <1>2, <1>3 DEF Carries

\* ... and the sender may be told.
LEMMA LandedTold ==
    ASSUME NEW sk \in SockRec, NEW x, LandsDue(sk, x), NEW b \in BOOLEAN, NEW r, r = [x EXCEPT !.wrNew = x.wrNew \/ b]
    PROVE  LandsDue(sk, r) /\ (b => r.wrNew)
<1>1. x \in SockRec /\ Blameless(x) /\ Lively(x, sk) BY DEF LandsDue, Lively
<1>2. /\ r \in SockRec /\ Lively(r, x) /\ r.flight = x.flight /\ r.flStream = x.flStream /\ r.fin = x.fin
      /\ r.rx = x.rx /\ r.rdNew = x.rdNew /\ (x.wrNew \/ b => r.wrNew)
  BY <1>1 DEF SockRec, Lively, Alike, Named
<1>3. Blameless(r)
  <2>1. Mild(r, x)
    <3>1. Len(x.rx) <= Len(x.rx) BY <1>1, RxLenIs
    <3> QED BY <1>1, <1>2, <3>1 DEF Mild, Laden, Lively, Alike
  <2> QED BY <1>1, <2>1, MildBlameless
<1>4. Lively(r, sk) BY <1>1, <1>2 DEF Lively, Alike, Named
<1>5. FlLen(r) = FlLen(x) BY <1>2 DEF FlLen
<1> QED BY <1>2, <1>3, <1>4, <1>5 DEF LandsDue

LEMMA AdvanceIs ==
    ASSUME NEW n, Stands(n), Traffic(n), AnythingDue(n), NEW m, m = Advance(n)
    PROVE  Advances(n, m)
<1>1. n \in NetRec /\ \A s \in Sock : n.socks[s] \in SockRec /\ Blameless(n.socks[s])
  BY Standing DEF Traffic
<1> DEFINE told(s) == s \in {n.socks[d].far : d \in {t \in Sock : n.socks[t].state = "connected" /\ LandsBytes(n.socks[t])}}
<1> DEFINE socks == [s \in Sock |-> [LandDue(n.socks[s]) EXCEPT !.wrNew = @ \/ (told(s) /\ ~IsGone(n.socks[s]))]]
<1>2. m = [n EXCEPT !.socks = socks, !.inFlight = n.inFlight - Total(DueLens(n)),
                    !.nextDue = IF Heads(n) = {} THEN NoTime ELSE Min(Heads(n))]
  BY DEF Advance, DueLens, Heads
<1>3. ASSUME NEW s \in Sock
      PROVE  /\ LandsDue(n.socks[s], socks[s]) /\ socks[s] \in SockRec
             /\ told(s) /\ ~IsGone(n.socks[s]) => socks[s].wrNew
  <2> DEFINE x == LandDue(n.socks[s])
  <2> DEFINE b == told(s) /\ ~IsGone(n.socks[s])
  <2>1. LandsDue(n.socks[s], x)
    <3>1. x = LandDue(n.socks[s]) OBVIOUS
    <3> HIDE DEF x
    <3> QED BY <1>1, <3>1, LandDueIs
  <2>2. socks[s] = [x EXCEPT !.wrNew = x.wrNew \/ b] OBVIOUS
  <2>3. b \in BOOLEAN OBVIOUS
  <2> DEFINE r == socks[s]
  <2>4. LandsDue(n.socks[s], r) /\ (b => r.wrNew)
    <3>1. r = [x EXCEPT !.wrNew = x.wrNew \/ b] BY <2>2
    <3> HIDE DEF r, x, b, socks
    <3> QED BY <1>1, <2>1, <2>3, <3>1, LandedTold
  <2>5. r \in SockRec
    <3> HIDE DEF r, x, b, socks
    <3> QED BY <2>4 DEF LandsDue, Lively
  <2> QED BY <2>4, <2>5
<1>4. \A s \in Sock : Opens(n, s) => told(s) BY DEF Opens
<1>5. socks \in [Sock -> SockRec]
  <2>1. DOMAIN socks = Sock /\ socks = [s \in Sock |-> socks[s]] OBVIOUS
  <2> HIDE DEF socks
  <2> QED BY <1>3, <2>1
<1>6. m.socks = socks
  <2> HIDE DEF socks
  <2> QED BY <1>1, <1>2 DEF NetRec
<1> QED
  <2> HIDE DEF socks
  <2>1. \A s \in Sock : Opens(n, s) /\ ~IsGone(n.socks[s]) => socks[s].wrNew BY <1>3, <1>4
  <2> HIDE DEF told
  <2> QED BY <1>2, <1>3, <1>5, <1>6, <2>1 DEF Advances
LEMMA HeadsAre ==
    ASSUME NEW n \in NetRec
    PROVE  /\ Heads(n) \in SUBSET Nat
           /\ \A s \in Sock : DueLen(n.socks[s]) < Len(n.socks[s].flight) =>
                 n.socks[s].flight[DueLen(n.socks[s]) + 1].left \in Heads(n)
           /\ Heads(n) # {} => Min(Heads(n)) \in Heads(n) /\ \A x \in Heads(n) : Min(Heads(n)) <= x
<1>1. ASSUME NEW s \in Sock, DueLen(n.socks[s]) < Len(n.socks[s].flight)
      PROVE  n.socks[s].flight[DueLen(n.socks[s]) + 1].left \in Nat
  <2>1. n.socks[s] \in SockRec BY DEF NetRec
  <2>2. DueLen(n.socks[s]) \in 0..Len(n.socks[s].flight) /\ Len(n.socks[s].flight) \in Nat
    BY <2>1, DueIs
  <2>3. n.socks[s].flight \in Seq([left: Nat, pay: Payload]) BY <2>1 DEF SockRec
  <2>4. DueLen(n.socks[s]) + 1 \in 1..Len(n.socks[s].flight) BY <1>1, <2>2
  <2>5. n.socks[s].flight[DueLen(n.socks[s]) + 1] \in [left: Nat, pay: Payload]
    BY <2>3, <2>4, ElementOfSeq
  <2> QED BY <2>5
<1>2. Heads(n) \in SUBSET Nat BY <1>1 DEF Heads
<1>3. ASSUME Heads(n) # {}
      PROVE  Min(Heads(n)) \in Heads(n) /\ \A x \in Heads(n) : Min(Heads(n)) <= x
  <2>1. \E x \in Heads(n) : \A y \in Heads(n) : x <= y BY <1>2, <1>3, LeastNat
  <2> QED BY <2>1 DEF Min
<1>4. \A s \in Sock : DueLen(n.socks[s]) < Len(n.socks[s].flight) =>
         n.socks[s].flight[DueLen(n.socks[s]) + 1].left \in Heads(n)
  BY DEF Heads
<1> QED BY <1>2, <1>3, <1>4

\* The counters are what is left.
LEMMA AdvanceCounts ==
    ASSUME NEW n, Stands(n), Traffic(n), NEW m, Advances(n, m)
    PROVE  m \in NetRec /\ m.refs = n.refs /\ m.port = n.port /\ Clocked(m)
<1>1. n \in NetRec /\ \A s \in Sock : n.socks[s] \in SockRec BY Standing
<1>2. ASSUME NEW s \in Sock
      PROVE  /\ Len(n.socks[s].flight) = DueLen(n.socks[s]) + Len(m.socks[s].flight)
             /\ DueLen(n.socks[s]) \in Nat /\ Len(m.socks[s].flight) \in Nat
             /\ \A i \in 1..Len(m.socks[s].flight) : m.socks[s].flight[i] = n.socks[s].flight[DueLen(n.socks[s]) + i]
  BY DEF Advances, LandsDue
<1>3. m.socks \in [Sock -> SockRec] BY DEF Advances
<1>4. Lens(n) \in Seq(Nat) /\ Len(Lens(n)) = MaxSockets BY <1>1, LensAre
<1>5. DueLens(n) \in Seq(Nat) /\ Len(DueLens(n)) = MaxSockets
  BY <1>2, SizesAssumption DEF DueLens, Sock
<1>6. Lens(m) \in Seq(Nat) /\ Len(Lens(m)) = MaxSockets BY <1>2, SizesAssumption DEF Lens, Sock
<1>7. Total(Lens(n)) = Total(DueLens(n)) + Total(Lens(m))
  <2>1. \A s \in 1..MaxSockets : Lens(n)[s] = DueLens(n)[s] + Lens(m)[s]
    BY <1>2 DEF Lens, DueLens, Sock
  <2>2. Len(Lens(n)) = Len(DueLens(n)) /\ Len(Lens(n)) = Len(Lens(m)) BY <1>4, <1>5, <1>6
  <2>3. \A s \in 1..Len(Lens(n)) : Lens(n)[s] = DueLens(n)[s] + Lens(m)[s] BY <1>4, <2>1
  <2> DEFINE a == Lens(n)
             b == DueLens(n)
             c == Lens(m)
  <2>4. a \in Seq(Nat) /\ b \in Seq(Nat) /\ c \in Seq(Nat) BY <1>4, <1>5, <1>6
  <2>5. Total(a) = Total(b) + Total(c)
    <3>1. Len(a) = Len(b) /\ Len(a) = Len(c) /\ \A s \in 1..Len(a) : a[s] = b[s] + c[s]
      BY <2>2, <2>3
    <3> HIDE DEF a, b, c
    <3> QED BY <2>4, <3>1, TotalPlus
  <2> QED BY <2>5
<1>8. Total(DueLens(n)) \in Nat /\ Total(Lens(m)) \in Nat BY <1>5, <1>6, TotalNat
<1>9. n.inFlight = Total(Lens(n)) BY DEF Traffic, Clocked
<1>10. n.inFlight - Total(DueLens(n)) = Total(Lens(m)) BY <1>7, <1>8, <1>9
<1>11. m = [n EXCEPT !.socks = m.socks, !.inFlight = Total(Lens(m)),
                     !.nextDue = IF Heads(n) = {} THEN NoTime ELSE Min(Heads(n))]
  BY <1>10 DEF Advances
<1>12. (IF Heads(n) = {} THEN NoTime ELSE Min(Heads(n))) \in Nat \cup {NoTime} BY <1>1, HeadsAre
<1> DEFINE due == IF Heads(n) = {} THEN NoTime ELSE Min(Heads(n))
<1> DEFINE all == Total(Lens(m))
<1> DEFINE socks == m.socks
<1>13. /\ m \in NetRec /\ m.refs = n.refs /\ m.port = n.port /\ m.inFlight = all /\ m.nextDue = due
  <2>1. m = [n EXCEPT !.socks = socks, !.inFlight = all, !.nextDue = due] BY <1>11
  <2>2. due \in Nat \cup {NoTime} /\ all \in Nat /\ socks \in [Sock -> SockRec] BY <1>3, <1>8, <1>12
  <2> HIDE DEF due, all, socks
  <2> QED BY <1>1, <2>1, <2>2 DEF NetRec
<1>14. ASSUME NEW s \in Sock, m.socks[s].flight # <<>>
       PROVE  m.nextDue # NoTime /\ m.nextDue <= m.socks[s].flight[1].left
  <2>1. Len(m.socks[s].flight) # 0 BY <1>13, <1>14, LenNat, EmptySeq
  <2>2. 1 \in 1..Len(m.socks[s].flight) /\ DueLen(n.socks[s]) < Len(n.socks[s].flight) BY <1>2, <2>1
  <2>3. m.socks[s].flight[1] = n.socks[s].flight[DueLen(n.socks[s]) + 1] BY <1>2, <2>2
  <2>4. n.socks[s].flight[DueLen(n.socks[s]) + 1].left \in Heads(n) BY <1>1, <2>2, HeadsAre
  <2>5. Heads(n) # {} BY <2>4
  <2>6. Min(Heads(n)) \in Nat /\ Min(Heads(n)) <= n.socks[s].flight[DueLen(n.socks[s]) + 1].left
    <3>1. Heads(n) \in SUBSET Nat /\ Min(Heads(n)) \in Heads(n) /\ \A x \in Heads(n) : Min(Heads(n)) <= x
      BY <1>1, <2>5, HeadsAre
    <3> QED BY <2>4, <3>1
  <2>7. Min(Heads(n)) # NoTime BY <2>6 DEF NoTime
  <2> QED BY <1>13, <2>3, <2>5, <2>6, <2>7
<1>15. Clocked(m) BY <1>13, <1>14 DEF Clocked
<1> QED BY <1>13, <1>15

LEMMA AdvanceQuiet ==
    ASSUME NEW n, Stands(n), Traffic(n), NEW m, Advances(n, m)
    PROVE  Stands(m) /\ Quiet(n, m) /\ InOrder(n, m) /\ m \in NetRec
<1>1. n \in NetRec /\ m \in NetRec /\ m.refs = n.refs /\ m.port = n.port BY Standing, AdvanceCounts
<1>2. Quiet(n, m) BY <1>1 DEF Advances, LandsDue, Quiet
<1>3. Stands(m) BY <1>1, <1>2, QuietStands
<1>4. ASSUME NEW t \in Sock, Len(m.socks[t].rx) > Len(n.socks[t].rx)
      PROVE  Len(m.socks[t].flight) < Len(n.socks[t].flight)
  <2>1. LandsDue(n.socks[t], m.socks[t]) BY DEF Advances
  <2>2. m.socks[t].rx # n.socks[t].rx BY <1>1, <1>4, LenNat
  <2>3. DueLen(n.socks[t]) # 0 BY <2>1, <2>2 DEF LandsDue
  <2>4. /\ Len(n.socks[t].flight) = DueLen(n.socks[t]) + Len(m.socks[t].flight)
        /\ DueLen(n.socks[t]) \in Nat /\ Len(m.socks[t].flight) \in Nat
    BY <2>1 DEF LandsDue
  <2> QED BY <2>3, <2>4
<1> QED BY <1>1, <1>2, <1>3, <1>4 DEF InOrder

LEMMA AdvanceTraffic ==
    ASSUME NEW n, Stands(n), Traffic(n), NEW m, Advances(n, m)
    PROVE  Traffic(m)
<1>1. Clocked(m) /\ n \in NetRec /\ m \in NetRec BY Standing, AdvanceCounts
<1>2. ASSUME NEW s \in Sock
      PROVE  LandsDue(n.socks[s], m.socks[s])
  BY DEF Advances
<1>3. ASSUME NEW s \in Sock PROVE Owed(m, s)
  <2>1. SUFFICES ASSUME Linked(m.socks[s]), Speaks(m.socks[m.socks[s].far])
                 PROVE  /\ m.socks[s].flight # <<>> => FlLen(m.socks[s]) + FlightHeader <= Ring
                        /\ ~m.socks[s].fin /\ ~Carries(m.socks[s], "fin")
    BY DEF Owed
  <2>2. LandsDue(n.socks[s], m.socks[s]) BY <1>2
  <2>3. Linked(n.socks[s]) /\ m.socks[s].far = n.socks[s].far
    BY <2>1, <2>2 DEF LandsDue, Lively, Alike, Linked
  <2>4. n.socks[s].far \in Sock BY <2>3, Standing DEF Paired
  <2>5. Speaks(n.socks[n.socks[s].far])
    <3>1. LandsDue(n.socks[n.socks[s].far], m.socks[n.socks[s].far]) BY <1>2, <2>4
    <3> QED BY <2>1, <2>3, <3>1 DEF LandsDue, Lively, Alike, Speaks
  <2>6. /\ n.socks[s].flight # <<>> => FlLen(n.socks[s]) + FlightHeader <= Ring
        /\ ~n.socks[s].fin /\ ~Carries(n.socks[s], "fin")
    BY <2>3, <2>5 DEF Traffic, Owed
  <2>7. ~m.socks[s].fin /\ ~Carries(m.socks[s], "fin")
    <3>1. ~Carries(m.socks[s], "fin") BY <2>2, <2>6, CarriesLess
    <3> QED BY <2>2, <2>6, <3>1 DEF LandsDue
  <2>8. m.socks[s].flight # <<>> => n.socks[s].flight # <<>>
    <3>1. m.socks[s].flight # <<>> => Len(m.socks[s].flight) # 0 BY <1>1, LenNat, EmptySeq
    <3>2. n.socks[s].flight = <<>> => Len(n.socks[s].flight) = 0 BY <1>1, LenNat, EmptySeq
    <3>3. /\ Len(n.socks[s].flight) = DueLen(n.socks[s]) + Len(m.socks[s].flight)
          /\ DueLen(n.socks[s]) \in Nat /\ Len(m.socks[s].flight) \in Nat
      BY <2>2 DEF LandsDue
    <3> QED BY <3>1, <3>2, <3>3
  <2>9. FlLen(m.socks[s]) <= FlLen(n.socks[s]) /\ FlLen(m.socks[s]) \in Nat /\ FlLen(n.socks[s]) \in Nat
    <3>1. n.socks[s] \in SockRec /\ m.socks[s] \in SockRec BY <1>1 DEF NetRec
    <3>2. FlLen(m.socks[s]) \in Nat /\ FlLen(n.socks[s]) \in Nat BY <3>1, FlLenIs
    <3> QED BY <2>2, <3>2 DEF LandsDue
  <2>10. m.socks[s].flight # <<>> => FlLen(m.socks[s]) + FlightHeader <= Ring
    BY <2>6, <2>8, <2>9, SizesAre
  <2> QED BY <2>7, <2>10
<1>4. \A s \in Sock : Blameless(m.socks[s]) BY <1>2 DEF LandsDue
<1> QED BY <1>1, <1>3, <1>4 DEF Traffic
----------------------------------------------------------------------------
(***************************************************************************)
(* The invariant.                                                          *)
(***************************************************************************)
LEMMA ClockIs ==
    ASSUME Stands(net), Traffic(net), NEW d \in Nat, ClockMoves(d)
    PROVE  \E a : Passes(a, d) /\ Stands(a) /\ Traffic(a)
<1> DEFINE a == Aged(net, d)
<1>1. /\ net' = Advance(a)
      /\ AnythingDue(a) => wait' = WakeIo(wait) /\ hist' = [hist EXCEPT !.silent = FALSE]
      /\ ~AnythingDue(a) => wait' = wait /\ hist' = hist
  BY DEF ClockMoves
<1>2. a = Aged(net, d) OBVIOUS
<1> HIDE DEF a
<1>3. AgesAll(net, a, d) BY <1>2, AgedIs
<1>4. Stands(a) /\ Traffic(a) BY <1>3, AgedTraffic DEF AgesAll
<1>5. CASE AnythingDue(a)
  <2>1. Advances(a, net') BY <1>1, <1>4, <1>5, AdvanceIs
  <2> QED BY <1>1, <1>3, <1>4, <1>5, <2>1 DEF Passes
<1>6. CASE ~AnythingDue(a)
  <2>1. net' = a BY <1>1, <1>6 DEF Advance
  <2> QED BY <1>1, <1>3, <1>4, <1>6, <2>1 DEF Passes
<1> QED BY <1>5, <1>6

LEMMA ClockKeeps ==
    ASSUME Stands(net), Traffic(net), NEW d \in Nat, ClockMoves(d)
    PROVE  Keeps /\ Flows
<1>1. PICK a : Passes(a, d) /\ Stands(a) /\ Traffic(a) BY ClockIs
<1>2. AgesAll(net, a, d) BY <1>1 DEF Passes
<1>3. net \in NetRec /\ a \in NetRec /\ Calms(net, a) BY <1>2, Standing DEF AgesAll
<1>4. CASE net' = a
  <2>1. InOrder(net, a) BY <1>3, CalmInOrder
  <2> QED BY <1>1, <1>4, <2>1 DEF Keeps, Flows
<1>5. CASE Advances(a, net')
  <2>1. Stands(net') /\ Quiet(a, net') /\ InOrder(a, net') BY <1>1, <1>5, AdvanceQuiet
  <2>2. Traffic(net') BY <1>1, <1>5, AdvanceTraffic
  <2>3. ASSUME NEW t \in Sock, ~IsGone(net'.socks[t]), net.socks[t].flight # <<>>,
               Len(net'.socks[t].rx) > Len(net.socks[t].rx)
        PROVE  Len(net'.socks[t].flight) < Len(net.socks[t].flight)
    <3>1. Ages(a.socks[t], net.socks[t], d) /\ net.socks[t] \in SockRec
      BY <1>2, <1>3 DEF AgesAll, NetRec
    <3>2. a.socks[t].rx = net.socks[t].rx /\ Len(a.socks[t].flight) = Len(net.socks[t].flight)
      BY <3>1 DEF Ages
    <3>3. a.socks[t].flight # <<>> BY <2>3, <3>1, AgesCarries
    <3> QED BY <2>1, <2>3, <3>2, <3>3 DEF InOrder
  <2> QED BY <2>1, <2>2, <2>3 DEF Keeps, Flows, InOrder
<1> QED BY <1>1, <1>4, <1>5 DEF Passes

LEMMA NumberIs ==
    /\ 0 \in Number
    /\ \A k \in Int : k % Modulus \in Number
  BY SizesAre DEF Number

LEMMA CountsAre ==
    ASSUME hist \in HistRec, NEW n, NEW silent \in BOOLEAN, History(n, silent)
    PROVE  Recorded
<1>1. hist.sent \in [Sock -> Number] /\ hist.got \in [Sock -> Number] BY DEF HistRec
<1>2. Counts(n, hist.sent) \in [Sock -> Number] /\ Counts(n, hist.got) \in [Sock -> Number]
  BY <1>1, NumberIs DEF Counts
<1> QED BY <1>2 DEF History, Recorded, HistRec

LEMMA SucceedsRecords ==
    ASSUME hist \in HistRec, NEW p, NEW n, Succeeds(p, n)
    PROVE  Recorded
  BY CountsAre DEF Succeeds

LEMMA SameRecords == ASSUME hist \in HistRec, hist' = hist PROVE Recorded
  BY DEF Recorded

LEMMA SpeaksUpRecords == ASSUME hist \in HistRec, hist' = [hist EXCEPT !.silent = FALSE] PROVE Recorded
  BY DEF Recorded, HistRec

LEMMA CrowdsRecord ==
    ASSUME hist \in HistRec, NEW p, NEW op, NEW s, NEW t, WaitsForRoom(p, op, s, t)
    PROVE  Recorded
<1>1. hist' = hist \/ hist' = [hist EXCEPT !.silent = TRUE] BY DEF WaitsForRoom, Sleeps
<1> QED BY <1>1 DEF Recorded, HistRec

LEMMA CountRecords ==
    ASSUME hist \in HistRec, NEW s \in Sock, NEW a \in Int, NEW b \in Int,
           hist' = [hist EXCEPT !.silent = FALSE, !.sent = [hist.sent EXCEPT ![s] = (hist.sent[s] + a) % Modulus]]
           \/ hist' = [hist EXCEPT !.silent = FALSE, !.got = [hist.got EXCEPT ![s] = (hist.got[s] + b) % Modulus]]
    PROVE  Recorded
<1>1. hist.sent \in [Sock -> Number] /\ hist.got \in [Sock -> Number] BY DEF HistRec
<1>2. hist.sent[s] \in Int /\ hist.got[s] \in Int BY <1>1, SizesAre DEF Number
<1>3. (hist.sent[s] + a) % Modulus \in Number /\ (hist.got[s] + b) % Modulus \in Number
  BY <1>2, NumberIs
<1>4. /\ [hist.sent EXCEPT ![s] = (hist.sent[s] + a) % Modulus] \in [Sock -> Number]
      /\ [hist.got EXCEPT ![s] = (hist.got[s] + b) % Modulus] \in [Sock -> Number]
  BY <1>1, <1>3
<1> QED BY <1>4 DEF Recorded, HistRec

LEMMA StreamsRecord ==
    ASSUME Stands(net), hist \in HistRec, Streams
    PROVE  Recorded
<1>1. PICK p \in Proc, s \in Sock :
         \/ \E max \in Backlogs : Listen(p, s, max)
         \/ \E dest \in Program[p].dests : Connect(p, s, dest)
         \/ Accept(p, s)
         \/ \E k \in Sizes : Send(p, s, k)
         \/ \E k \in Sizes : Recv(p, s, k)
         \/ \E read, write \in BOOLEAN : (read \/ write) /\ Shutdown(p, s, read, write)
  BY DEF Streams
<1>2. CASE \E max \in Backlogs : Listen(p, s, max)
  <2>1. \E n : Succeeds(p, n) BY <1>2 DEF Listen
  <2> QED BY <2>1, SucceedsRecords
<1>3. CASE \E dest \in Program[p].dests : Connect(p, s, dest)
  <2>1. hist' = hist \/ hist' = [hist EXCEPT !.silent = FALSE] BY <1>3 DEF Connect
  <2> QED BY <2>1, SameRecords, SpeaksUpRecords
<1>4. CASE Accept(p, s)
  <2>1. hist' = hist \/ \E n : Succeeds(p, n) BY <1>4 DEF Accept, Sleeps
  <2> QED BY <2>1, SucceedsRecords, SameRecords
<1>5. ASSUME NEW k \in Sizes, Send(p, s, k) PROVE Recorded
  <2> DEFINE taken == Fits(net.socks[s].host, net.socks[net.socks[s].far], k)
  <2>1. \/ hist' = hist \/ WaitsForRoom(p, "send", s, net.socks[s].far)
        \/ hist' = [hist EXCEPT !.silent = FALSE, !.sent = [hist.sent EXCEPT ![s] = (hist.sent[s] + taken) % Modulus]]
    BY <1>5 DEF Send, Fails
  <2>2. taken \in Int
    <3>1. net.socks[net.socks[s].far] \in SockRec
      <4>1. net.socks[s].state = "connected" BY <1>5 DEF Send
      <4> QED BY <4>1, FarIs, Standing
    <3>2. k \in Nat BY InputsAssumption
    <3> DEFINE sk == net.socks[net.socks[s].far]
               from == net.socks[s].host
    <3>3. Fits(from, sk, k) \in Int
      <4>1. sk \in SockRec BY <3>1
      <4> HIDE DEF sk, from
      <4> QED BY <3>2, <4>1, FitsIs
    <3> QED BY <3>3
  <2> HIDE DEF taken
  <2> QED BY <2>1, <2>2, SameRecords, CrowdsRecord, CountRecords
<1>6. ASSUME NEW k \in Sizes, Recv(p, s, k) PROVE Recorded
  <2> DEFINE m == Min({k, Len(net.socks[s].rx)})
  <2>1. hist' = hist \/ hist' = [hist EXCEPT !.silent = FALSE, !.got = [hist.got EXCEPT ![s] = (hist.got[s] + m) % Modulus]]
    BY <1>6 DEF Recv, Sleeps
  <2>2. m \in Int
    <3> DEFINE b == Len(net.socks[s].rx)
    <3>1. k \in Int /\ b \in Int BY Standing, LenNat, InputsAssumption
    <3>2. Min({k, b}) \in {k, b}
      <4> HIDE DEF b
      <4> QED BY <3>1, MinTwo
    <3> QED BY <3>1, <3>2
  <2> HIDE DEF m
  <2> QED BY <2>1, <2>2, SameRecords, CountRecords
<1>7. ASSUME NEW read \in BOOLEAN, NEW write \in BOOLEAN, Shutdown(p, s, read, write) PROVE Recorded
  <2> DEFINE m == Len(net.socks[s].rx)
  <2>1. hist' = [hist EXCEPT !.silent = FALSE,
                             !.got[s] = IF read THEN (hist.got[s] + m) % Modulus ELSE hist.got[s]]
    BY <1>7 DEF Shutdown
  <2>2. m \in Int BY Standing, LenNat
  <2> HIDE DEF m
  <2>3. CASE read
    <3>1. hist' = [hist EXCEPT !.silent = FALSE, !.got = [hist.got EXCEPT ![s] = (hist.got[s] + m) % Modulus]]
      BY <2>1, <2>3
    <3> QED BY <2>2, <3>1, CountRecords
  <2>4. CASE ~read
    <3>1. hist' = [hist EXCEPT !.silent = FALSE]
      <4>1. hist.got \in [Sock -> Number] BY DEF HistRec
      <4>2. [hist.got EXCEPT ![s] = hist.got[s]] = hist.got BY <4>1
      <4>3. hist' = [hist EXCEPT !.silent = FALSE, !.got = [hist.got EXCEPT ![s] = hist.got[s]]]
        BY <2>1, <2>4
      <4> QED BY <4>2, <4>3 DEF HistRec
    <3> QED BY <3>1, SpeaksUpRecords
  <2> QED BY <2>3, <2>4
<1> QED BY <1>1, <1>2, <1>3, <1>4, <1>5, <1>6, <1>7

LEMMA OthersRecord ==
    ASSUME Stands(net), Traffic(net), hist \in HistRec, Dgrams \/ Handles \/ Waits \/ Clock \/ Elsewhere
    PROVE  Recorded
<1>1. CASE Dgrams
  <2>1. PICK p \in Proc, s \in Sock :
           \/ \E dest \in Program[p].dests : ConnectDgram(p, s, dest)
           \/ \E dest \in Program[p].dests : SendDgram(p, s, dest)
           \/ RecvDgram(p, s)
    BY <1>1 DEF Dgrams
  <2>2. ASSUME NEW dest \in Program[p].dests, ConnectDgram(p, s, dest) PROVE Recorded
    <3>1. \E n : Succeeds(p, n) BY <2>2 DEF ConnectDgram
    <3> QED BY <3>1, SucceedsRecords
  <2>3. ASSUME NEW dest \in Program[p].dests, SendDgram(p, s, dest) PROVE Recorded
    <3> DEFINE k == BoundIfNew(net, s)
    <3>1. k = BoundIfNew(net, s) OBVIOUS
    <3> HIDE DEF k
    <3>2. PICK t, from, pay :
             \/ Datagram(k, net', t, from, pay) /\ Succeeds(p, net')
             \/ k = net /\ Fails(p)
             \/ DgramWaits(p, s, k, t)
      BY <2>3, <3>1, SendDgramIs
    <3>3. hist' = hist \/ Succeeds(p, net') \/ WaitsForRoom(p, "sendto", s, t) BY <3>2 DEF Fails, DgramWaits
    <3> QED BY <3>3, SucceedsRecords, SameRecords, CrowdsRecord
  <2>4. CASE RecvDgram(p, s)
    <3>1. hist' = hist \/ \E n : Succeeds(p, n) BY <2>4 DEF RecvDgram, Sleeps
    <3> QED BY <3>1, SucceedsRecords, SameRecords
  <2> QED BY <2>1, <2>2, <2>3, <2>4
<1>2. CASE Handles
  <2>1. PICK p \in Proc :
           \/ \E make \in Program[p].makes : MakeSocket(p, make[1], make[2])
           \/ \E s \in Sock : Bind(p, s) \/ Close(p, s) \/ Dup(p, s) \/ Exec(p, s) \/ Outside(p, s)
           \/ \E child \in Proc : Fork(p, child)
           \/ Die(p)
    BY <1>2 DEF Handles
  <2>2. CASE \E make \in Program[p].makes : MakeSocket(p, make[1], make[2])
    <3>1. hist' = hist BY <2>2 DEF MakeSocket
    <3> QED BY <3>1, SameRecords
  <2>3. ASSUME NEW s \in Sock, Bind(p, s) PROVE Recorded
    <3>1. \E n : Succeeds(p, n) BY <2>3 DEF Bind
    <3> QED BY <3>1, SucceedsRecords
  <2>4. ASSUME NEW s \in Sock, Close(p, s) PROVE Recorded BY <2>4, SucceedsRecords DEF Close
  <2>5. ASSUME NEW s \in Sock, Dup(p, s) PROVE Recorded BY <2>5, SameRecords DEF Dup
  <2>6. ASSUME NEW n, Silently(n) PROVE Recorded
    <3> DEFINE silent == hist.silent \/ \E s \in Sock : n.socks[s].state # net.socks[s].state
    <3>1. silent \in BOOLEAN BY DEF HistRec
    <3>2. History(n, silent) BY <2>6 DEF Silently
    <3> HIDE DEF silent
    <3> QED BY <3>1, <3>2, CountsAre
  <2>7. ASSUME NEW s \in Sock, Exec(p, s) \/ Outside(p, s) PROVE Recorded
    <3>1. \E n : Silently(n) BY <2>7 DEF Exec, Outside
    <3> QED BY <2>6, <3>1
  <2>8. CASE \E child \in Proc : Fork(p, child)
    <3>1. hist' = hist BY <2>8 DEF Fork
    <3> QED BY <3>1, SameRecords
  <2>9. CASE Die(p)
    <3>1. \E n : History(n, FALSE) BY <2>9 DEF Die
    <3> QED BY <3>1, CountsAre
  <2> QED BY <2>1, <2>2, <2>3, <2>4, <2>5, <2>7, <2>8, <2>9
<1>3. CASE Waits
  <2>1. hist' = hist BY <1>3 DEF Waits, KeventRead, KeventWrite, TimeOut, Sleeps
  <2> QED BY <2>1, SameRecords
<1>4. CASE Clock
  <2>1. \E d : ClockMoves(d) BY <1>4 DEF Clock, Jump
  <2>2. hist' = hist \/ hist' = [hist EXCEPT !.silent = FALSE] BY <2>1 DEF ClockMoves
  <2> QED BY <2>2, SameRecords, SpeaksUpRecords
<1>5. CASE Elsewhere BY <1>5, SameRecords DEF Elsewhere, vars
<1> QED BY <1>1, <1>2, <1>3, <1>4, <1>5
LEMMA TotalNothing ==
    ASSUME NEW s \in Seq(Nat), \A i \in 1..Len(s) : s[i] = 0
    PROVE  Total(s) = 0
<1>1. PICK f : Partial(f, s) /\ Total(s) = f[Len(s)] /\ \A i \in 0..Len(s) : f[i] \in Nat
  BY TotalHas
<1> DEFINE T == {i \in 0..Len(s) : f[i] = 0}
<1>2. Len(s) \in Nat BY LenProperties
<1>3. 0 \in T BY <1>1, <1>2 DEF Partial
<1>4. ASSUME NEW i \in 1..Len(s), i - 1 \in T PROVE i \in T
  <2>1. f[i] = f[i - 1] + s[i] /\ f[i - 1] = 0 /\ s[i] = 0 BY <1>1, <1>4 DEF Partial
  <2>2. f[i] = 0 BY <2>1
  <2> QED BY <1>2, <2>2
<1>5. \A i \in 0..Len(s) : i \in T
  <2> HIDE DEF T
  <2> QED BY <1>2, <1>3, <1>4, Induct
<1> QED BY <1>1, <1>2, <1>5

LEMMA InitIs == ASSUME Init PROVE Starting(net)
<1>1. net = [ socks    |-> [s \in Sock |-> Blank(AnyHost)],
              refs     |-> [p \in Proc |-> Nothing],
              inFlight |-> 0, nextDue |-> 0,
              port     |-> [h \in Host |-> 1] ]
  BY DEF Init
<1>2. [s \in Sock |-> Blank(AnyHost)] \in [Sock -> SockRec] BY AnyHostIs, BlankIs
<1>3. [p \in Proc |-> Nothing] \in [Proc -> [Sock -> Nat]] BY DEF Nothing
<1> DEFINE socks == [s \in Sock |-> Blank(AnyHost)]
           refs == [p \in Proc |-> Nothing]
<1>4. net = [ socks |-> socks, refs |-> refs, inFlight |-> 0, nextDue |-> 0, port |-> [h \in Host |-> 1] ]
  BY <1>1
<1>5. socks \in [Sock -> SockRec] /\ refs \in [Proc -> [Sock -> Nat]] BY <1>2, <1>3
<1> QED
  <2>1. net \in NetRec /\ net.socks = socks /\ net.refs = refs /\ net.inFlight = 0 /\ net.nextDue = 0
        /\ net.port = [h \in Host |-> 1]
    <3> HIDE DEF socks, refs
    <3> QED BY <1>4, <1>5 DEF NetRec
  <2> QED BY <2>1 DEF Starting

LEMMA StartStands == ASSUME NEW n, Starting(n) PROVE Stands(n)
<1>1. ASSUME NEW s \in Sock
      PROVE  /\ n.socks[s].state = "free" /\ n.socks[s].refs = 0 /\ n.socks[s].backlog = <<>>
             /\ \A p \in Proc : n.refs[p][s] = 0
  BY DEF Starting, Blank, Nothing
<1>2. Counted(n)
  <2> SUFFICES ASSUME NEW s \in Sock
               PROVE  n.socks[s].refs = Cardinality(DescriptorsIn(n.refs, s)) /\ n.socks[s].refs = 0
    BY DEF Counted
  <2>1. DescriptorsIn(n.refs, s) = {} BY <1>1 DEF DescriptorsIn
  <2>2. Cardinality({}) = 0 BY FS_EmptySet
  <2> QED BY <1>1, <2>1, <2>2
<1>3. Kept(n, NoSock) /\ Paired(n) BY <1>1 DEF Kept, Paired, IsGone, Linked
<1>4. Queues(n)
  <2>1. OnlyListenersQueue(n) BY <1>1 DEF OnlyListenersQueue
  <2>2. QueuedOnce(n)
    <3>1. \A l \in Sock : Len(n.socks[l].backlog) = 0 BY <1>1
    <3> QED BY <3>1 DEF QueuedOnce
  <2>3. QueuedIdle(n) BY <1>1 DEF QueuedIdle, IsQueued, InQueue
  <2> QED BY <2>1, <2>2, <2>3 DEF Queues
<1>5. PortsOK(n)
  <2> SUFFICES ASSUME NEW h \in Host PROVE n.port[h] \in DOMAIN Ephemeral[h]
    BY DEF PortsOK
  <2>1. Ephemeral[h] \in Seq(Port) /\ Ephemeral[h] # <<>> BY InputsAssumption
  <2>2. Len(Ephemeral[h]) \in Nat /\ DOMAIN Ephemeral[h] = 1..Len(Ephemeral[h]) /\ Len(Ephemeral[h]) # 0
    BY <2>1, LenProperties, EmptySeq
  <2> QED BY <2>2 DEF Starting
<1> QED BY <1>2, <1>3, <1>4, <1>5 DEF Stands, Hangs, Starting

LEMMA StartTraffic == ASSUME NEW n, Starting(n) PROVE Traffic(n)
<1>1. ASSUME NEW s \in Sock
      PROVE  n.socks[s] = Blank(AnyHost) /\ Blank(AnyHost) \in SockRec
  BY AnyHostIs, BlankIs DEF Starting
<1>2. Idles(Blank(AnyHost)) /\ Blank(AnyHost).kind = "stream" /\ Blank(AnyHost).state = "free"
  <2>1. Blank(AnyHost) \in SockRec BY AnyHostIs, BlankIs
  <2> QED BY <2>1 DEF Idles, Blank
<1>3. \A s \in Sock : Blameless(n.socks[s]) BY <1>1, <1>2, IdleBlameless
<1>4. \A s \in Sock : Owed(n, s) BY <1>1, <1>2 DEF Owed, Linked
<1>5. Clocked(n)
  <2>1. n \in NetRec /\ n.inFlight = 0 BY DEF Starting
  <2>2. \A s \in Sock : n.socks[s].flight = <<>> /\ Len(n.socks[s].flight) = 0
    BY <1>1, <1>2 DEF Idles
  <2>3. Lens(n) \in Seq(Nat) /\ Len(Lens(n)) = MaxSockets /\ \A s \in Sock : Lens(n)[s] = Len(n.socks[s].flight)
    BY <2>1, LensAre
  <2>4. \A s \in 1..Len(Lens(n)) : Lens(n)[s] = 0 BY <2>2, <2>3 DEF Sock
  <2>5. Total(Lens(n)) = 0
    <3> HIDE DEF Lens
    <3> QED BY <2>3, <2>4, TotalNothing
  <2> QED BY <2>1, <2>2, <2>5 DEF Clocked
<1> QED BY <1>3, <1>4, <1>5 DEF Traffic

LEMMA InitInv == Init => Inv
<1> SUFFICES ASSUME Init PROVE Inv
  OBVIOUS
<1>1. Stands(net) /\ Traffic(net) BY InitIs, StartStands, StartTraffic
<1>2. hist \in HistRec BY NumberIs DEF Init, HistRec
<1> QED BY <1>1, <1>2 DEF Inv

\* One step, call by call
LEMMA StreamsKeep ==
    ASSUME Inv, Streams
    PROVE  Keeps /\ Flows /\ Recorded
<1>1. Stands(net) /\ Traffic(net) /\ hist \in HistRec /\ Recorded BY StreamsRecord DEF Inv
<1>2. PICK p \in Proc, s \in Sock :
         \/ \E max \in Backlogs : Listen(p, s, max)
         \/ \E dest \in Program[p].dests : Connect(p, s, dest)
         \/ Accept(p, s)
         \/ \E k \in Sizes : Send(p, s, k)
         \/ \E k \in Sizes : Recv(p, s, k)
         \/ \E read, write \in BOOLEAN : (read \/ write) /\ Shutdown(p, s, read, write)
  BY DEF Streams
<1>3. CASE \E max \in Backlogs : Listen(p, s, max) BY <1>1, <1>3, ListenKeeps, ListenFlows
<1>4. CASE \E dest \in Program[p].dests : Connect(p, s, dest)
  BY <1>1, <1>4, ConnectKeeps, ConnectFlows
<1>5. CASE Accept(p, s) BY <1>1, <1>5, AcceptKeeps, AcceptFlows
<1>6. CASE \E k \in Sizes : Send(p, s, k) BY <1>1, <1>6, SendKeeps, SendFlows
<1>7. CASE \E k \in Sizes : Recv(p, s, k) BY <1>1, <1>7, RecvKeeps, RecvFlows
<1>8. CASE \E read, write \in BOOLEAN : (read \/ write) /\ Shutdown(p, s, read, write)
  BY <1>1, <1>8, ShutdownKeeps, ShutdownFlows
<1> QED BY <1>2, <1>3, <1>4, <1>5, <1>6, <1>7, <1>8

LEMMA DgramsKeep ==
    ASSUME Inv, Dgrams
    PROVE  Keeps /\ Flows /\ Recorded
<1>1. Stands(net) /\ Traffic(net) /\ hist \in HistRec /\ Recorded BY OthersRecord DEF Inv
<1>2. PICK p \in Proc, s \in Sock :
         \/ \E dest \in Program[p].dests : ConnectDgram(p, s, dest)
         \/ \E dest \in Program[p].dests : SendDgram(p, s, dest)
         \/ RecvDgram(p, s)
  BY DEF Dgrams
<1>3. CASE \E dest \in Program[p].dests : ConnectDgram(p, s, dest)
  BY <1>1, <1>3, ConnectDgramKeeps, ConnectDgramFlows
<1>4. CASE \E dest \in Program[p].dests : SendDgram(p, s, dest)
  BY <1>1, <1>4, SendDgramKeeps, SendDgramFlows
<1>5. CASE RecvDgram(p, s) BY <1>1, <1>5, RecvDgramKeeps, RecvDgramFlows
<1> QED BY <1>2, <1>3, <1>4, <1>5

LEMMA HandlesKeep ==
    ASSUME Inv, Handles
    PROVE  Keeps /\ Flows /\ Recorded
<1>1. Stands(net) /\ Traffic(net) /\ hist \in HistRec /\ Recorded BY OthersRecord DEF Inv
<1>2. PICK p \in Proc :
         \/ \E make \in Program[p].makes : MakeSocket(p, make[1], make[2])
         \/ \E s \in Sock : Bind(p, s) \/ Close(p, s) \/ Dup(p, s) \/ Exec(p, s) \/ Outside(p, s)
         \/ \E child \in Proc : Fork(p, child)
         \/ Die(p)
  BY DEF Handles
<1>3. CASE \E make \in Program[p].makes : MakeSocket(p, make[1], make[2])
  BY <1>1, <1>3, MakeSocketKeeps, MakeSocketFlows
<1>4. ASSUME NEW s \in Sock, Bind(p, s) PROVE Keeps /\ Flows BY <1>1, <1>4, BindKeeps, BindFlows
<1>5. ASSUME NEW s \in Sock, Close(p, s) \/ Outside(p, s) PROVE Keeps /\ Flows
  BY <1>1, <1>5, CloseKeeps, CloseFlows
<1>6. ASSUME NEW s \in Sock, Dup(p, s) PROVE Keeps /\ Flows BY <1>1, <1>6, DupKeeps, DupFlows
<1>7. ASSUME NEW s \in Sock, Exec(p, s) PROVE Keeps /\ Flows BY <1>1, <1>7, ExecKeeps, ExecFlows
<1>8. CASE \E child \in Proc : Fork(p, child) BY <1>1, <1>8, ForkKeeps, ForkFlows
<1>9. CASE Die(p) BY <1>1, <1>9, DieKeeps, DieFlows
<1> QED BY <1>1, <1>2, <1>3, <1>4, <1>5, <1>6, <1>7, <1>8, <1>9

LEMMA StillKeeps ==
    ASSUME Inv, net' = net
    PROVE  Keeps /\ Flows
<1>1. Keeps BY SameKeeps DEF Inv
<1>2. Traffic(net') BY DEF Inv
<1> QED BY <1>1, <1>2 DEF Flows

LEMMA ClockSteps ==
    ASSUME Stands(net), Clock
    PROVE  \E d \in Nat : ClockMoves(d)
<1>1. CASE Jump
  <2>1. ClockMoves(IF net.nextDue > 0 THEN net.nextDue ELSE 0) BY <1>1 DEF Jump
  <2>2. net.nextDue \in Nat \cup {NoTime} BY Standing DEF NetRec
  <2>3. (IF net.nextDue > 0 THEN net.nextDue ELSE 0) \in Nat BY <2>2 DEF NoTime
  <2> QED BY <2>1, <2>3
<1>2. CASE \E d \in Ticks : ClockMoves(d) BY <1>2, InputsAssumption
<1> QED BY <1>1, <1>2 DEF Clock

LEMMA RestKeeps ==
    ASSUME Inv, Waits \/ Clock \/ Elsewhere
    PROVE  Keeps /\ Flows /\ Recorded
<1>1. Stands(net) /\ Traffic(net) /\ hist \in HistRec /\ Recorded BY OthersRecord DEF Inv
<1>2. CASE Waits
  <2>1. PICK p \in Proc : (\E s \in Sock : KeventRead(p, s) \/ KeventWrite(p, s)) \/ TimeOut(p)
    BY <1>2 DEF Waits
  <2>2. ASSUME NEW s \in Sock, KeventRead(p, s) \/ KeventWrite(p, s) PROVE Keeps /\ Flows
    BY <1>1, <2>2, KeventKeeps, KeventFlows
  <2>3. CASE TimeOut(p)
    <3>1. net' = net BY <2>3 DEF TimeOut
    <3> QED BY <1>1, <3>1, StillKeeps
  <2> QED BY <1>1, <2>1, <2>2, <2>3
<1>3. CASE Clock
  <2>1. \E d \in Nat : ClockMoves(d) BY <1>1, <1>3, ClockSteps
  <2> QED BY <1>1, <2>1, ClockKeeps
<1>4. CASE Elsewhere
  <2>1. net' = net BY <1>4 DEF Elsewhere, vars
  <2> QED BY <1>1, <2>1, StillKeeps
<1> QED BY <1>2, <1>3, <1>4

LEMMA NextInv == Inv /\ [Next]_vars => Inv' /\ InOrder(net, net')
<1> SUFFICES ASSUME Inv, [Next]_vars PROVE Inv' /\ InOrder(net, net')
  OBVIOUS
<1>1. CASE Next
  <2>1. Keeps /\ Flows /\ Recorded BY <1>1, StreamsKeep, DgramsKeep, HandlesKeep, RestKeeps DEF Next
  <2> QED BY <2>1 DEF Keeps, Flows, Recorded, Inv
<1>2. CASE UNCHANGED vars
  <2>1. net' = net /\ hist' = hist BY <1>2 DEF vars
  <2>2. Keeps /\ Flows BY <2>1, StillKeeps
  <2> QED BY <2>1, <2>2 DEF Keeps, Flows, Inv
<1> QED BY <1>1, <1>2
\* What netstate.rs keeps of sockets, counts and traffic, call after call.
THEOREM Invariance == Spec => []Inv
<1>1. Inv /\ [Next]_vars => Inv' BY NextInv
<1> QED BY InitInv, <1>1, PTL DEF Spec

LEMMA InvHeld == Inv => HeldExactly
<1> SUFFICES ASSUME Inv, NEW s \in Sock
             PROVE  /\ \A p \in Proc : Holds(p, s) => ~IsGone(Socks[s])
                    /\ Socks[s].refs = Cardinality(Descriptors(s))
                    /\ IsGone(Socks[s]) \/ Socks[s].refs > 0 \/ (Connected(s) /\ Queued(s))
                    /\ Socks[s].state \in {"connected", "closed"} =>
                          /\ Socks[s].far # NoSock
                          /\ Socks[Socks[s].far].far = s
                          /\ Socks[Socks[s].far].state \in {"connected", "closed"}
                          /\ Connected(s) \/ Connected(Socks[s].far)
  BY DEF HeldExactly
<1>1. Hangs(net, NoSock) BY Standing DEF Inv
<1>2. \A p \in Proc : Holds(p, s) => ~IsGone(Socks[s]) BY <1>1, HeldIsOpen DEF Holds, Socks
<1>3. Socks[s].refs = Cardinality(Descriptors(s))
  BY <1>1 DEF Hangs, Counted, DescriptorsIn, Descriptors, Socks
<1>4. IsGone(Socks[s]) \/ Socks[s].refs > 0 \/ (Connected(s) /\ Queued(s))
  <2>1. s # NoSock BY SockIs
  <2>2. IsQueued(net, s) => Queued(s) BY DEF IsQueued, InQueue, Queued, Contains, Socks
  <2> QED BY <1>1, <2>1, <2>2 DEF Hangs, Kept, Socks, Connected
<1>5. Socks[s].state \in {"connected", "closed"} =>
         /\ Socks[s].far # NoSock
         /\ Socks[Socks[s].far].far = s
         /\ Socks[Socks[s].far].state \in {"connected", "closed"}
         /\ Connected(s) \/ Connected(Socks[s].far)
  BY <1>1, SockIs DEF Hangs, Paired, Linked, Socks, Connected
<1> QED BY <1>2, <1>3, <1>4, <1>5

\* add_ref, drop_ref, set_refs and release leave every record counted, kept by
\* somebody and paired with its far end, however descriptors are duplicated,
\* inherited, dropped by execve or lost with their process.
THEOREM HeldExactlyHolds == Spec => []HeldExactly
BY InvHeld, Invariance, PTL

LEMMA InvAccounted == Inv => FlightAccounted
<1> SUFFICES ASSUME Inv PROVE FlightAccounted
  OBVIOUS
<1>1. Traffic(net) /\ Stands(net) BY DEF Inv
<1>2. net.inFlight = Total([s \in Sock |-> Len(Socks[s].flight)])
  BY <1>1 DEF Traffic, Clocked, Lens, Socks
<1>3. ASSUME NEW s \in Sock
      PROVE  /\ Socks[s].flStream = StreamLen(Socks[s].flight)
             /\ Socks[s].flight # <<>> => (net.nextDue # NoTime /\ net.nextDue <= Socks[s].flight[1].left)
             /\ RxLen(Socks[s]) + Socks[s].flStream <= Ring
             /\ FlLen(Socks[s]) <= Ring
  BY <1>1 DEF Traffic, Clocked, Blameless, Socks
<1>4. ASSUME NEW s \in Sock, Connected(s), ~Socks[Socks[s].far].shutWr, Connected(Socks[s].far), Socks[s].flight # <<>>
      PROVE  FlLen(Socks[s]) + FlightHeader <= Ring
  BY <1>1, <1>4 DEF Traffic, Owed, Linked, Speaks, Connected, Socks
<1> QED BY <1>2, <1>3, <1>4 DEF FlightAccounted

\* in_flight, fl_stream and next_due say what is in flight, no ring is ever
\* over-full, and a FIN that is owed always finds room.
THEOREM FlightAccountedHolds == Spec => []FlightAccounted
BY InvAccounted, Invariance, PTL

\* deliver puts nothing into a ring ahead of what is already under way to it.
THEOREM NothingOvertakesHolds == Spec => NothingOvertakes
<1>1. Inv /\ [Next]_vars =>
         [\A s \in Sock : (SameLife(s) /\ Len(Socks'[s].rx) > Len(Socks[s].rx) /\ Socks[s].flight # <<>>)
                            => Len(Socks'[s].flight) < Len(Socks[s].flight)]_vars
  <2> SUFFICES ASSUME Inv, [Next]_vars, NEW s \in Sock, SameLife(s),
                      Len(Socks'[s].rx) > Len(Socks[s].rx), Socks[s].flight # <<>>
               PROVE  Len(Socks'[s].flight) < Len(Socks[s].flight)
    OBVIOUS
  <2>1. InOrder(net, net') BY NextInv
  <2>2. ~IsGone(net'.socks[s]) BY DEF SameLife, IsGone, Socks
  <2> QED BY <2>1, <2>2 DEF InOrder, Socks
<1> QED BY <1>1, Invariance, PTL DEF Spec, NothingOvertakes

----------------------------------------------------------------------------
(***************************************************************************)
(* Who waits.                                                              *)
(***************************************************************************)
LEMMA SeenReady ==
    ASSUME Stands(net), Frozen(net, net'), NEW q \in Proc, wait'[q] = wait[q],
           NEW s, s = wait[q].sock, s \in Sock, net.refs[q][s] > 0, ~Ready(q)
    PROVE  ~Ready(q)'
<1>1. ~IsGone(net.socks[s]) /\ net.socks[s].state # "free" BY HeldIsOpen DEF Stands, IsGone
<1>2. Seen(net'.socks[s], net.socks[s]) BY <1>1 DEF Frozen
<1>3. IsReadable(net', s) <=> IsReadable(net, s) BY <1>2 DEF Seen, IsReadable
<1>4. ASSUME net.socks[s].state = "connected"
      PROVE  Seen(net'.socks[net.socks[s].far], net.socks[net.socks[s].far])
  <2>1. net.socks[s].far \in Sock /\ net.socks[net.socks[s].far].state # "free"
    BY <1>4, Standing DEF Paired, Linked
  <2> QED BY <2>1 DEF Frozen
<1>5. IsWritable(net', s) <=> IsWritable(net, s)
  <2> DEFINE peer == net.socks[net.socks[s].far]
             next == net'.socks[net.socks[s].far]
  <2>1. net'.socks[s].state = net.socks[s].state /\ net'.socks[s].shutWr = net.socks[s].shutWr
        /\ net'.socks[s].far = net.socks[s].far
    BY <1>2 DEF Seen
  <2>2. CASE net.socks[s].state = "connected"
    <3>1. next.state = peer.state /\ next.shutRd = peer.shutRd /\ Window(next) = Window(peer)
      BY <1>4, <2>2 DEF Seen
    <3> QED BY <2>1, <3>1 DEF IsWritable
  <2> QED BY <2>1, <2>2 DEF IsWritable
<1>6. ASSUME NEW t \in Sock, IsFull(net.socks[t], net.socks[s].host) PROVE IsFull(net'.socks[t], net'.socks[s].host)
  <2>1. Seen(net'.socks[t], net.socks[t]) BY <1>6 DEF IsFull, Frozen
  <2> QED BY <1>2, <1>6, <2>1 DEF IsFull, Seen
<1>7. (\E t \in Sock : IsFull(net.socks[t], net.socks[s].host))
         => \E t \in Sock : IsFull(net'.socks[t], net'.socks[s].host)
  BY <1>6
<1> QED BY <1>2, <1>3, <1>5, <1>7 DEF Ready, Seen, Socks

LEMMA MindedKeeps ==
    ASSUME Inv, Minds, Minded
    PROVE  Minds'
<1>1. PICK p \in Proc : Owns(p) /\ (Woken \/ Dozes(p)) BY DEF Minded
<1>2. Unborn' BY <1>1 DEF Minds, Unborn, Owns
<1>3. CASE Woken BY <1>2, <1>3 DEF Minded, Minds, Woken, Sleeping, WaitersLookAgain
<1>4. CASE Dozes(p)
  <2>1. ASSUME NEW q \in Proc, wait'[q].asleep, q # p
        PROVE  /\ wait'[q].sock \in Sock /\ net'.refs[q][wait'[q].sock] > 0
               /\ ~hist'.silent => ~Ready(q)'
    <3>1. wait'[q] = wait[q] /\ net'.refs[q] = net.refs[q] /\ wait[q].asleep BY <1>4, <2>1 DEF Dozes
    <3>2. wait[q].sock \in Sock /\ net.refs[q][wait[q].sock] > 0 BY <3>1 DEF Minds, Sleeping
    <3>3. ASSUME ~hist'.silent PROVE ~Ready(q)'
      <4>1. ~hist.silent /\ Frozen(net, net') BY <1>4, <3>3 DEF Dozes
      <4>2. ~Ready(q) BY <3>1, <4>1 DEF Minds, WaitersLookAgain
      <4> QED BY <3>1, <3>2, <4>1, <4>2, SeenReady DEF Inv
    <3> QED BY <3>1, <3>2, <3>3
  <2>2. Sleeping' BY <1>4, <2>1 DEF Dozes, Sleeping
  <2>3. WaitersLookAgain' BY <1>4, <2>1 DEF Dozes, WaitersLookAgain
  <2> QED BY <1>2, <2>2, <2>3 DEF Minded, Minds
<1> QED BY <1>1, <1>3, <1>4

\* The same records, or only other counts of references
LEMMA SeenIs ==
    ASSUME NEW r \in SockRec, NEW sk \in SockRec,
           \/ r = sk
           \/ Recount(r, sk)
           \/ \E d \in Nat : Ages(r, sk, d)
    PROVE  Seen(r, sk)
<1>1. CASE r = sk BY <1>1 DEF Seen
<1>2. CASE Recount(r, sk) 
  BY <1>2, RecountIs DEF Seen, Alike, Window, TakesDgram, ArrivesNow, Delay, FlightRoom, FlLen, RxLen
<1>3. ASSUME NEW d \in Nat, Ages(r, sk, d) PROVE Seen(r, sk)
  <2>1. Len(r.flight) = Len(sk.flight) /\ (r.flight = <<>> <=> sk.flight = <<>>)
    <3>1. r.flight \in Seq([left: Nat, pay: Payload]) /\ sk.flight \in Seq([left: Nat, pay: Payload])
      BY DEF SockRec
    <3>2. Len(r.flight) = Len(sk.flight) BY <1>3 DEF Ages
    <3> QED BY <3>1, <3>2, EmptySeq
  <2>2. Window(r) = Window(sk) BY <1>3, <2>1 DEF Ages, Lively, Alike, Window, FlightRoom, RxLen
  <2>3. \A h : TakesDgram(h, r) <=> TakesDgram(h, sk)
    BY <1>3, <2>1 DEF Ages, Lively, Alike, TakesDgram, ArrivesNow, Delay, FlightRoom, RxLen
  <2> QED BY <1>3, <2>2, <2>3 DEF Ages, Lively, Alike, Seen
<1> QED BY <1>1, <1>2, <1>3

LEMMA FrozenIs ==
    ASSUME NEW n \in NetRec, NEW m \in NetRec,
           \A t \in Sock : n.socks[t].state # "free" =>
              \/ m.socks[t] = n.socks[t]
              \/ Recount(m.socks[t], n.socks[t])
              \/ \E d \in Nat : Ages(m.socks[t], n.socks[t], d)
    PROVE  Frozen(n, m)
<1>1. \A t \in Sock : m.socks[t] \in SockRec /\ n.socks[t] \in SockRec BY DEF NetRec
<1> QED BY <1>1, SeenIs DEF Frozen

LEMMA WakeIs ==
    ASSUME NEW w \in [Proc -> WaitRec]
    PROVE  /\ WakeIo(w) \in [Proc -> WaitRec] /\ \A q \in Proc : ~WakeIo(w)[q].asleep
           /\ NoWait \in WaitRec
           /\ \A p \in Proc : [w EXCEPT ![p] = NoWait] \in [Proc -> WaitRec]
<1>1. NoWait \in WaitRec BY DEF NoWait, WaitRec
<1>2. ASSUME NEW q \in Proc
      PROVE  [w[q] EXCEPT !.asleep = FALSE] \in WaitRec /\ ~[w[q] EXCEPT !.asleep = FALSE].asleep
  BY DEF WaitRec
<1> QED BY <1>1, <1>2 DEF WakeIo

LEMMA CallOwns ==
    ASSUME NEW p \in Proc, Places, Calls(p)
    PROVE  Owns(p) /\ proc' \in [Proc -> {"unborn", "up", "dead"}]
  BY DEF Calls, Owns, Places
LEMMA WokenMinded ==
    ASSUME Minds, NEW p \in Proc, Calls(p),
           wait' = WakeIo(wait) \/ wait' = WakeIo(Unwaiting(p))
    PROVE  Minded
<1>1. Owns(p) /\ proc' \in [Proc -> {"unborn", "up", "dead"}] BY CallOwns DEF Minds
<1>2. wait \in [Proc -> WaitRec] BY DEF Minds, Places
<1>3. Unwaiting(p) \in [Proc -> WaitRec] BY <1>2, WakeIs DEF Unwaiting
<1>4. wait' \in [Proc -> WaitRec] /\ \A q \in Proc : ~wait'[q].asleep BY <1>2, <1>3, WakeIs
<1>5. Woken /\ Places' BY <1>1, <1>4 DEF Woken, Places
<1> QED BY <1>1, <1>5 DEF Minded
LEMMA SucceedsMinded ==
    ASSUME Minds, NEW p \in Proc, proc[p] = "up", NEW n, Succeeds(p, n), \A q \in Proc : q # p => n.refs[q] = net.refs[q]
    PROVE  Minded
<1>1. Calls(p) /\ wait' = WakeIo(Unwaiting(p)) BY DEF Succeeds, Calls
<1> QED BY <1>1, WokenMinded

\* A call of p wakes nobody and shows nobody anything.
LEMMA StillMinded ==
    ASSUME Minds, NEW p \in Proc, Calls(p), ~hist'.silent => ~hist.silent /\ Frozen(net, net'),
           (wait' = wait /\ ~wait[p].asleep) \/ wait' = Unwaiting(p)
    PROVE  Minded
<1>1. Owns(p) /\ proc' \in [Proc -> {"unborn", "up", "dead"}] BY CallOwns DEF Minds
<1>2. wait \in [Proc -> WaitRec] /\ NoWait \in WaitRec BY WakeIs DEF Minds, Places
<1>5. ~NoWait.asleep BY DEF NoWait
<1>3. /\ wait' \in [Proc -> WaitRec] /\ ~wait'[p].asleep
      /\ \A q \in Proc : q # p => wait'[q] = wait[q]
  BY <1>2, <1>5 DEF Unwaiting
<1>4. Dozes(p) /\ Places' BY <1>1, <1>3 DEF Dozes, Places, Calls
<1> QED BY <1>1, <1>4 DEF Minded

\* p goes to sleep in a call that is not ready.
LEMMA SleepsMinded ==
    ASSUME Inv, Minds, NEW p \in Proc, NEW s \in Sock, NEW op \in Ops, Holds(p, s), Calls(p),
           ~hist'.silent => ~hist.silent /\ Frozen(net, net'),
           net'.refs = net.refs, wait' = [wait EXCEPT ![p] = [op |-> op, sock |-> s, asleep |-> TRUE]],
           ~hist'.silent /\ wait'[p] = [op |-> op, sock |-> s, asleep |-> TRUE] => ~Ready(p)'
    PROVE  Minded
<1>1. Owns(p) /\ proc' \in [Proc -> {"unborn", "up", "dead"}] BY CallOwns DEF Minds
<1>2. wait \in [Proc -> WaitRec] BY DEF Minds, Places
<1>3. [op |-> op, sock |-> s, asleep |-> TRUE] \in WaitRec BY DEF WaitRec
<1>4. /\ wait' \in [Proc -> WaitRec] /\ wait'[p] = [op |-> op, sock |-> s, asleep |-> TRUE]
      /\ \A q \in Proc : q # p => wait'[q] = wait[q]
  BY <1>2, <1>3
<1>5. wait'[p].sock = s /\ net'.refs[p][s] > 0 BY <1>4 DEF Holds
<1>6. Dozes(p) BY <1>4, <1>5 DEF Dozes, Calls
<1>7. Places' BY <1>1, <1>4 DEF Places
<1> QED BY <1>1, <1>6, <1>7 DEF Minded

LEMMA SameFrozen ==
    ASSUME Inv, net'.socks = net.socks
    PROVE  Frozen(net, net')
<1>1. \A t \in Sock : net.socks[t] \in SockRec BY Standing DEF Inv
<1> QED BY <1>1, SeenIs DEF Frozen

LEMMA ParksMinded ==
    ASSUME Inv, Minds, NEW p \in Proc, NEW s \in Sock, NEW op \in Ops, May(p, op, s), Sleeps(p, op, s),
           wait'[p] = [op |-> op, sock |-> s, asleep |-> TRUE] => ~Ready(p)'
    PROVE  Minded
<1>1. Calls(p) /\ Holds(p, s) BY DEF Sleeps, Calls, May, Awake
<1>2. Frozen(net, net') /\ net'.refs = net.refs /\ hist' = hist BY SameFrozen DEF Sleeps
<1>3. wait' = [wait EXCEPT ![p] = [op |-> op, sock |-> s, asleep |-> TRUE]] BY DEF Sleeps
<1> QED BY <1>1, <1>2, <1>3, SleepsMinded

\* p goes to sleep because what it sends does not fit.
LEMMA CrowdsMinded ==
    ASSUME Inv, Minds, NEW p \in Proc, NEW s \in Sock, NEW op \in Ops, May(p, op, s), NEW t \in Sock,
           WaitsForRoom(p, op, s, t),
           Sleeps(p, op, s) /\ wait'[p] = [op |-> op, sock |-> s, asleep |-> TRUE] => ~Ready(p)'
    PROVE  Minded
<1>1. CASE Sleeps(p, op, s) BY <1>1, ParksMinded
<1>2. CASE ~Sleeps(p, op, s)
  <2>1. net' = [net EXCEPT !.socks[t].rdNew = TRUE] /\ hist' = [hist EXCEPT !.silent = TRUE] /\ proc' = proc
        /\ wait' = [wait EXCEPT ![p] = [op |-> op, sock |-> s, asleep |-> TRUE]]
    BY <1>2 DEF WaitsForRoom
  <2>2. hist'.silent BY <2>1 DEF Inv, HistRec
  <2>3. net'.refs = net.refs BY <2>1, Standing DEF Inv, NetRec
  <2>4. Holds(p, s) /\ Calls(p) BY <2>1, <2>3 DEF May, Awake, Calls
  <2> QED BY <2>1, <2>2, <2>3, <2>4, SleepsMinded
<1> QED BY <1>1, <1>2

\* Nothing changes but, at most, that p gives up its wait.
LEMMA EndsMinded ==
    ASSUME Inv, Minds, NEW p \in Proc, proc[p] = "up", UNCHANGED <<net, proc, hist>>,
           (wait' = wait /\ ~wait[p].asleep) \/ wait' = Unwaiting(p)
    PROVE  Minded
<1>1. Calls(p) /\ Frozen(net, net') BY SameFrozen DEF Calls
<1> QED BY <1>1, StillMinded

\* What the parts of a call do to the references
LEMMA RefsStay ==
    ASSUME NEW n \in NetRec, NEW s \in Sock
    PROVE  /\ \A name : Bound(n, s, name).refs = n.refs
           /\ \A ip : BoundToAny(n, s, ip).refs = n.refs /\ BoundIfNew(n, s).refs = n.refs
<1>1. \A h, i : PortTaken(n, h, i).refs = n.refs /\ DOMAIN PortTaken(n, h, i) = DOMAIN n
  BY DEF PortTaken, NetRec
<1>2. \A name, h, i : Bound(n, s, name).refs = n.refs /\ Bound(PortTaken(n, h, i), s, name).refs = n.refs
  BY <1>1 DEF Bound, NetRec
<1>3. \A ip : BoundToAny(n, s, ip).refs = n.refs BY <1>2 DEF BoundToAny
<1> QED BY <1>1, <1>2, <1>3 DEF BoundIfNew

LEMMA BindMinds ==
    ASSUME Inv, Minds, NEW p \in Proc, NEW s \in Sock, Bind(p, s)
    PROVE  Minded
<1>1. net \in NetRec /\ proc[p] = "up" BY Standing DEF Inv, Bind, May, Awake
<1>2. \E n : Succeeds(p, n) /\ n.refs = net.refs BY <1>1, RefsStay DEF Bind
<1> QED BY <1>1, <1>2, SucceedsMinded

LEMMA ListenMinds ==
    ASSUME Inv, Minds, NEW p \in Proc, NEW s \in Sock, NEW max \in Backlogs, Listen(p, s, max)
    PROVE  Minded
<1>1. net \in NetRec /\ proc[p] = "up" BY Standing DEF Inv, Listen, May, Awake
<1>2. ASSUME NEW n, n.refs = net.refs, DOMAIN n = DOMAIN net
      PROVE  [n EXCEPT !.socks[s].state = "listening", !.socks[s].backlogMax = max].refs = net.refs
  BY <1>1, <1>2 DEF NetRec
<1>3. DOMAIN BoundToAny(net, s, AnyIp) = DOMAIN net BY DEF BoundToAny, Bound, PortTaken
<1>4. \E n : Succeeds(p, n) /\ n.refs = net.refs BY <1>1, <1>2, <1>3, RefsStay DEF Listen
<1> QED BY <1>1, <1>4, SucceedsMinded

LEMMA ConnectMinds ==
    ASSUME Inv, Minds, NEW p \in Proc, NEW s \in Sock, NEW dest \in Program[p].dests, Connect(p, s, dest)
    PROVE  Minded
<1>1. proc[p] = "up" /\ ~wait[p].asleep /\ Stands(net) BY DEF Inv, Connect, May, Awake
<1>2. PICK k, l, far : Connects(net, net', k, s, l, far) BY <1>1, ConnectIs
<1>3. net'.refs = net.refs /\ proc' = proc BY <1>2 DEF Connects, Joins
<1>4. Calls(p) BY <1>1, <1>3 DEF Calls
<1>5. CASE net' = k /\ UNCHANGED <<proc, wait, hist>>
  <2>1. Frozen(net, net') BY <1>2, <1>5, SameFrozen DEF Connects
  <2> QED BY <1>1, <1>4, <1>5, <2>1, StillMinded
<1>6. CASE wait' = WakeIo(wait) BY <1>4, <1>6, WokenMinded
<1> QED BY <1>2, <1>5, <1>6 DEF Connects

LEMMA AcceptMinds ==
    ASSUME Inv, Minds, NEW p \in Proc, NEW l \in Sock, Accept(p, l)
    PROVE  Minded
<1>1. net \in NetRec /\ May(p, "accept", l) /\ proc[p] = "up"
  BY Standing DEF Inv, Accept, May, Awake
<1> DEFINE x == [net EXCEPT !.socks[l].backlog = Tail(@)]
           far == Head(net.socks[l].backlog)
<1>2. CASE net.socks[l].backlog = <<>>
  <2>1. Sleeps(p, "accept", l) BY <1>2 DEF Accept
  <2>2. wait'[p] = [op |-> "accept", sock |-> l, asleep |-> TRUE] => ~Ready(p)'
    BY <1>2, <2>1 DEF Ready, Sleeps, Socks
  <2>3. "accept" \in Ops BY DEF Ops
  <2> QED BY <1>1, <2>1, <2>2, <2>3, ParksMinded
<1>3. CASE net.socks[l].backlog # <<>>
  <2>1. Succeeds(p, AddRefs(x, p, far, 1)) BY <1>3 DEF Accept
  <2>2. x.refs = net.refs /\ DOMAIN x = DOMAIN net BY <1>1 DEF NetRec
  <2> HIDE DEF x, far
  <2>3. \A q \in Proc : q # p => AddRefs(x, p, far, 1).refs[q] = net.refs[q]
    BY <1>1, <2>2 DEF AddRefs, NetRec
  <2> QED BY <1>1, <2>1, <2>3, SucceedsMinded
<1> QED BY <1>2, <1>3

LEMMA SendMinds ==
    ASSUME Inv, Minds, NEW p \in Proc, NEW s \in Sock, NEW k \in Sizes, Send(p, s, k)
    PROVE  Minded
<1>1. net \in NetRec /\ May(p, "send", s) /\ proc[p] = "up" /\ ~wait[p].asleep
  BY Standing DEF Inv, Send, May, Awake
<1> DEFINE sk == net.socks[s]
           peer == net.socks[sk.far]
           taken == Fits(sk.host, peer, k)
<1>2. sk.state = "connected" /\ sk.far \in Sock /\ peer \in SockRec BY Standing, FarIs DEF Inv, Send
<1>3. CASE Fails(p) BY <1>1, <1>3, EndsMinded DEF Fails
<1>4. CASE WaitsForRoom(p, "send", s, sk.far) /\ taken = 0 /\ ~sk.shutWr /\ peer.state = "connected" /\ ~peer.shutRd
  <2>1. Window(peer) \in Int /\ Window(peer) <= 0 BY <1>2, <1>4, FitsIs, WindowIs, InputsAssumption
  <2>2. ~IsWritable(net, s) BY <1>2, <1>4, <2>1 DEF IsWritable
  <2>3. Sleeps(p, "send", s) /\ wait'[p] = [op |-> "send", sock |-> s, asleep |-> TRUE] => ~Ready(p)'
    BY <2>2 DEF Ready, Sleeps
  <2>4. "send" \in Ops BY DEF Ops
  <2> QED BY <1>1, <1>2, <1>4, <2>3, <2>4, CrowdsMinded
<1>5. CASE net' = Deliver(net, sk.host, sk.far, Bytes(Numbered(hist.sent[s], taken)))
           /\ wait' = WakeIo(Unwaiting(p)) /\ proc' = proc
  <2>1. hist.sent[s] \in Number /\ taken \in Int BY <1>2, FitsIs, InputsAssumption DEF Inv, HistRec
  <2>2. Bytes(Numbered(hist.sent[s], taken)) \in Payload
    <3>1. Numbered(hist.sent[s], taken) \in Seq(Byte) BY <2>1, NumberedIs
    <3> QED BY <3>1 DEF Bytes, Payload
  <2>3. net'.refs = net.refs BY <1>1, <1>2, <1>5, <2>2, DeliverQuiet DEF Quiet
  <2> QED BY <1>1, <1>5, <2>3, WokenMinded DEF Calls
<1> QED
  <2>1. \/ Fails(p)
        \/ WaitsForRoom(p, "send", s, sk.far) /\ taken = 0 /\ ~sk.shutWr /\ peer.state = "connected" /\ ~peer.shutRd
        \/ net' = Deliver(net, sk.host, sk.far, Bytes(Numbered(hist.sent[s], taken)))
           /\ wait' = WakeIo(Unwaiting(p)) /\ proc' = proc
    BY DEF Send
  <2> QED BY <1>3, <1>4, <1>5, <2>1

LEMMA RecvMinds ==
    ASSUME Inv, Minds, NEW p \in Proc, NEW s \in Sock, NEW k \in Sizes, Recv(p, s, k)
    PROVE  Minded
<1>1. Stands(net) /\ May(p, "recv", s) /\ proc[p] = "up" /\ net.socks[s].state = "connected"
      /\ net.socks[s].kind = "stream"
  BY DEF Inv, Recv, May, Awake
<1> DEFINE sk == net.socks[s]
           m == Min({k, Len(sk.rx)})
<1>2. CASE sk.rx = <<>> /\ ~sk.fin /\ ~sk.shutRd
  <2>1. Sleeps(p, "recv", s) BY <1>2 DEF Recv
  <2>2. ~IsReadable(net, s) BY <1>1, <1>2 DEF IsReadable
  <2>3. wait'[p] = [op |-> "recv", sock |-> s, asleep |-> TRUE] => ~Ready(p)'
    BY <2>1, <2>2 DEF Ready, Sleeps
  <2>4. "recv" \in Ops BY DEF Ops
  <2> QED BY <1>1, <2>1, <2>3, <2>4, ParksMinded
<1>3. CASE ~(sk.rx = <<>> /\ ~sk.fin /\ ~sk.shutRd)
  <2>1. /\ net' = IF m = 0 THEN net ELSE Received(net, s, m)
        /\ wait' = WakeIo(Unwaiting(p)) /\ proc' = proc
    BY <1>3 DEF Recv
  <2>2. k \in Nat /\ Len(sk.rx) \in Nat BY <1>1, LenNat, Standing, InputsAssumption
  <2>3. m \in Nat /\ m <= Len(sk.rx)
    <3>1. \A a, b \in Nat : Min({a, b}) \in Nat /\ Min({a, b}) <= b BY MinTwo
    <3> QED BY <2>2, <3>1
  <2> HIDE DEF m
  <2>4. net'.refs = net.refs BY <1>1, <2>1, <2>3, ReceivedIs DEF Quiet
  <2> QED BY <1>1, <2>1, <2>4, WokenMinded DEF Calls
<1> QED BY <1>2, <1>3

LEMMA ShutdownMinds ==
    ASSUME Inv, Minds, NEW p \in Proc, NEW s \in Sock, NEW read \in BOOLEAN, NEW write \in BOOLEAN,
           Shutdown(p, s, read, write)
    PROVE  Minded
<1> DEFINE n == IF read THEN NoLongerReads(net, s) ELSE net
<1>1. /\ Stands(net) /\ net.socks[s].state = "connected" /\ proc[p] = "up" /\ ~IsQueued(net, s)
      /\ net' = IF write THEN NoLongerWrites(n, s) ELSE n
      /\ wait' = WakeIo(wait) /\ proc' = proc
  BY MayIs DEF Inv, Shutdown, May, Awake
<1>2. Stands(n) /\ n.refs = net.refs /\ n.socks[s].state = "connected" /\ ~IsQueued(n, s)
  <2>1. CASE read
    <3>1. Same(net, n) /\ n = Writable(ReadEnd(net, s), net.socks[s].far) BY <1>1, <2>1, ReadEndIs
    <3>2. ReadEnd(net, s) \in NetRec /\ Same(net, ReadEnd(net, s))
      BY <1>1, ReadEndIs, Standing DEF Same
    <3>3. net.socks[s].far \in Sock BY <1>1, FarIs
    <3>4. n.refs = ReadEnd(net, s).refs BY <3>1, <3>2, <3>3, WritableQuiet DEF Quiet
    <3>5. ReadEnd(net, s).refs = net.refs BY <1>1, Standing DEF ReadEnd, NetRec
    <3> QED BY <1>1, <3>1, <3>4, <3>5 DEF Same
  <2> QED BY <1>1, <2>1
<1> HIDE DEF n
<1>3. NoLongerWrites(n, s).refs = n.refs
  <2>1. CASE n.socks[s].shutWr BY <2>1 DEF NoLongerWrites
  <2>2. CASE ~n.socks[s].shutWr
    <3>1. NoLongerWrites(n, s) = Deliver(WriteEnd(n, s), n.socks[s].host, n.socks[s].far, Fin)
      BY <1>2, <2>2, WriteEndIs
    <3>2. WriteEnd(n, s) \in NetRec /\ n.socks[s].far \in Sock /\ n \in NetRec
      BY <1>2, WriteEndIs, Standing, FarIs DEF Same
    <3>3. Fin \in Payload BY DEF Fin, Payload
    <3>4. NoLongerWrites(n, s).refs = WriteEnd(n, s).refs
      BY <3>1, <3>2, <3>3, DeliverQuiet DEF Quiet
    <3>5. WriteEnd(n, s).refs = n.refs BY <3>2 DEF WriteEnd, NetRec
    <3> QED BY <3>4, <3>5
  <2> QED BY <2>1, <2>2
<1> QED BY <1>1, <1>2, <1>3, WokenMinded DEF Calls

LEMMA ConnectDgramMinds ==
    ASSUME Inv, Minds, NEW p \in Proc, NEW s \in Sock, NEW dest \in Program[p].dests, ConnectDgram(p, s, dest)
    PROVE  Minded
<1> DEFINE n == BoundIfNew(net, s)
<1>1. /\ net \in NetRec /\ proc[p] = "up" /\ Stands(net) /\ (NeedsPort(net, s) => CanBindAny(net, s))
      /\ Succeeds(p, [n EXCEPT !.socks[s].peer = dest, !.socks[s].hasPeer = TRUE])
  BY Standing DEF Inv, ConnectDgram, May, Awake
<1>2. n.refs = net.refs /\ n \in NetRec BY <1>1, RefsStay, BoundIfNewIs, Standing
<1> HIDE DEF n
<1>3. [n EXCEPT !.socks[s].peer = dest, !.socks[s].hasPeer = TRUE].refs = net.refs
  BY <1>2 DEF NetRec
<1> QED BY <1>1, <1>3, SucceedsMinded

LEMMA SendDgramMinds ==
    ASSUME Inv, Minds, NEW p \in Proc, NEW s \in Sock, NEW dest \in Program[p].dests, SendDgram(p, s, dest)
    PROVE  Minded
<1> DEFINE k == BoundIfNew(net, s)
<1>1. Stands(net) /\ May(p, "sendto", s) /\ proc[p] = "up" /\ (NeedsPort(net, s) => CanBindAny(net, s))
  BY DEF Inv, SendDgram, May, Awake
<1>2. PICK t, from, pay :
         \/ Datagram(k, net', t, from, pay) /\ Succeeds(p, net')
         \/ k = net /\ Fails(p)
         \/ DgramWaits(p, s, k, t)
  BY <1>1, SendDgramIs
<1>3. Stands(k) /\ k.refs = net.refs BY <1>1, BoundIfNewIs, RefsStay, Standing
<1> HIDE DEF k
<1>4. CASE Datagram(k, net', t, from, pay) /\ Succeeds(p, net')
  <2>1. net'.refs = k.refs BY <1>3, <1>4, DatagramStands DEF Quiet
  <2> QED BY <1>1, <1>3, <1>4, <2>1, WokenMinded DEF Succeeds, Calls
<1>5. CASE Fails(p) BY <1>1, <1>5, EndsMinded DEF Fails
<1>6. CASE DgramWaits(p, s, k, t)
  <2>1. t \in Sock /\ IsFull(net.socks[t], net.socks[s].host) /\ WaitsForRoom(p, "sendto", s, t) /\ "sendto" \in Ops
    BY <1>6 DEF DgramWaits, Ops
  <2>2. Sleeps(p, "sendto", s) /\ wait'[p] = [op |-> "sendto", sock |-> s, asleep |-> TRUE] => ~Ready(p)'
    BY <2>1 DEF Ready, Sleeps, Socks
  <2> QED BY <1>1, <2>1, <2>2, CrowdsMinded
<1> QED BY <1>2, <1>4, <1>5, <1>6

LEMMA RecvDgramMinds ==
    ASSUME Inv, Minds, NEW p \in Proc, NEW s \in Sock, RecvDgram(p, s)
    PROVE  Minded
<1>1. net \in NetRec /\ May(p, "recvfrom", s) /\ proc[p] = "up" /\ net.socks[s].kind = "dgram"
  BY Standing DEF Inv, RecvDgram, May, Awake
<1>2. CASE net.socks[s].rx = <<>>
  <2>1. Sleeps(p, "recvfrom", s) /\ ~IsReadable(net, s) BY <1>1, <1>2 DEF RecvDgram, IsReadable
  <2>2. wait'[p] = [op |-> "recvfrom", sock |-> s, asleep |-> TRUE] => ~Ready(p)'
    BY <2>1 DEF Ready, Sleeps
  <2>3. "recvfrom" \in Ops BY DEF Ops
  <2> QED BY <1>1, <2>1, <2>2, <2>3, ParksMinded
<1>3. CASE net.socks[s].rx # <<>>
  <2>1. [net EXCEPT !.socks[s].rx = Tail(@)].refs = net.refs BY <1>1 DEF NetRec
  <2> QED BY <1>1, <1>3, <2>1, SucceedsMinded DEF RecvDgram
<1> QED BY <1>2, <1>3

LEMMA MakeSocketMinds ==
    ASSUME Inv, Minds, NEW p \in Proc, NEW make \in Program[p].makes, MakeSocket(p, make[1], make[2])
    PROVE  Minded
<1> DEFINE s == First(FreeSlots(net))
           k == NewSock(net, s, HostOf[p], make[1], make[2])
<1>1. /\ net' = AddRefs(k, p, s, 1) /\ FreeSlots(net) # {}
      /\ proc[p] = "up" /\ ~wait[p].asleep /\ UNCHANGED <<proc, wait, hist>>
  BY DEF MakeSocket, Awake
<1>2. s \in Sock /\ net.socks[s].state = "free" BY <1>1, FreeSlotIs
<1> HIDE DEF s
<1>3. make[1] \in {"inet", "unix"} /\ make[2] \in {"stream", "dgram"} /\ HostOf[p] \in Host
  BY NamesAreNames, HostOfIs
<1>4. net \in NetRec /\ Hangs(net, NoSock) BY Standing DEF Inv
<1>5. Hangs(k, s) /\ ~IsGone(k.socks[s]) /\ ~IsQueued(k, s) BY <1>2, <1>3, <1>4, NewHangs
<1>6. Anew(net, k, s, Fresh(HostOf[p], make[1], make[2])) BY <1>2, <1>3, <1>4, NewIs
<1> HIDE DEF k
<1>7. /\ Recounted(k, net') /\ net'.refs = [k.refs EXCEPT ![p] = [k.refs[p] EXCEPT ![s] = @ + 1]]
      /\ \A t \in Sock : t # s => net'.socks[t] = k.socks[t]
  <2>1. 1 \in Nat /\ 1 > 0 OBVIOUS
  <2> QED BY <1>1, <1>2, <1>5, <2>1, AddHangs
<1>8. /\ \A q \in Proc : q # p => net'.refs[q] = net.refs[q]
      /\ \A t \in Sock : net.socks[t].state # "free" => net'.socks[t] = net.socks[t]
  BY <1>2, <1>4, <1>6, <1>7 DEF Anew, NetRec
<1>9. Frozen(net, net') BY <1>4, <1>7, <1>8, FrozenIs DEF Recounted
<1> QED BY <1>1, <1>8, <1>9, StillMinded DEF Calls

LEMMA RecountFrozen ==
    ASSUME NEW n \in NetRec, NEW m, Recounted(n, m)
    PROVE  Frozen(n, m)
  BY FrozenIs DEF Recounted

LEMMA CloseMinds ==
    ASSUME Inv, Minds, NEW p \in Proc, NEW s \in Sock, Close(p, s)
    PROVE  Minded
<1>1. proc[p] = "up" /\ Succeeds(p, DropRefs(net, p, s, 1)) /\ net.refs[p][s] > 0
  BY DEF Close, May, Awake, Holds
<1>2. Hangs(net, NoSock) /\ net \in NetRec BY Standing DEF Inv
<1> DEFINE m == DropRefs(net, p, s, 1)
<1>3. 1 \in Nat /\ 1 <= net.refs[p][s] BY <1>1, <1>2 DEF NetRec
<1>4. Dropped(net, m, p, s, 1) BY <1>2, <1>3, DropIs
<1> HIDE DEF m
<1>5. \A q \in Proc : q # p => m.refs[q] = net.refs[q] BY <1>2, <1>4 DEF Dropped, NetRec
<1> QED BY <1>1, <1>5, SucceedsMinded DEF m

LEMMA DupMinds ==
    ASSUME Inv, Minds, NEW p \in Proc, NEW s \in Sock, Dup(p, s)
    PROVE  Minded
<1>1. proc[p] = "up" /\ ~wait[p].asleep /\ UNCHANGED <<proc, wait, hist>> BY DEF Dup, May, Awake
<1>2. net \in NetRec /\ Recounted(net, net')
      /\ net'.refs = [net.refs EXCEPT ![p] = [net.refs[p] EXCEPT ![s] = @ + 1]]
  BY Standing, DupKeeps DEF Inv
<1>3. Frozen(net, net') /\ \A q \in Proc : q # p => net'.refs[q] = net.refs[q]
  BY <1>2, RecountFrozen DEF NetRec
<1> QED BY <1>1, <1>3, StillMinded DEF Calls

LEMMA ForkMinds ==
    ASSUME Inv, Minds, NEW p \in Proc, NEW child \in Proc, Fork(p, child)
    PROVE  Minded
<1>1. proc[child] = "unborn" /\ proc' = [proc EXCEPT ![child] = "up"] /\ wait' = wait /\ hist' = hist
  BY DEF Fork
<1>2. net.refs[child] = Nothing /\ Places BY <1>1 DEF Minds, Unborn
<1>3. net \in NetRec /\ Recounted(net, net') /\ net'.refs = [net.refs EXCEPT ![child] = net.refs[p]]
  BY <1>2, Standing, ForkKeeps DEF Inv
<1>4. Frozen(net, net') /\ \A q \in Proc : q # child => net'.refs[q] = net.refs[q]
  BY <1>3, RecountFrozen DEF NetRec
<1>5. ~wait[child].asleep
  <2>1. \A t \in Sock : ~(net.refs[child][t] > 0) BY <1>2 DEF Nothing
  <2> QED BY <2>1 DEF Minds, Sleeping
<1>6. Places' /\ Owns(child) BY <1>1, <1>2, <1>4 DEF Places, Owns
<1>7. Dozes(child) BY <1>1, <1>4, <1>5 DEF Dozes
<1> QED BY <1>6, <1>7 DEF Minded

\* What goes silently is recorded, and what does not leaves all as it was.
LEMMA SilentlyMinds ==
    ASSUME Inv, Minds, NEW p \in Proc, Silently(net'), Wanes(net, net'), proc[p] = "up", ~wait[p].asleep,
           UNCHANGED <<proc, wait>>, \A q \in Proc : q # p => net'.refs[q] = net.refs[q]
    PROVE  Minded
<1>1. ASSUME ~hist'.silent
      PROVE  ~hist.silent /\ \A t \in Sock : net'.socks[t].state = net.socks[t].state
  BY <1>1 DEF Silently, History
<1>2. ASSUME ~hist'.silent PROVE Frozen(net, net')
  <2>1. NoneGone(net, net') BY <1>1, <1>2 DEF NoneGone, IsGone
  <2>2. net \in NetRec BY Standing DEF Inv
  <2> QED BY <2>1, <2>2, RecountFrozen DEF Wanes
<1>3. Calls(p) BY DEF Calls
<1> QED BY <1>1, <1>2, <1>3, StillMinded

LEMMA ExecMinds ==
    ASSUME Inv, Minds, NEW p \in Proc, NEW s \in Sock, Exec(p, s)
    PROVE  Minded
<1>1. Silently(net') /\ proc[p] = "up" /\ ~wait[p].asleep /\ UNCHANGED <<proc, wait>>
  BY DEF Exec, Awake
<1>2. /\ Wanes(net, net') /\ net \in NetRec
      /\ net'.refs = [net.refs EXCEPT ![p] = [net.refs[p] EXCEPT ![s] = 0]]
  BY Standing, ExecKeeps DEF Inv
<1>3. \A q \in Proc : q # p => net'.refs[q] = net.refs[q] BY <1>2 DEF NetRec
<1> QED BY <1>1, <1>2, <1>3, SilentlyMinds

LEMMA OutsideMinds ==
    ASSUME Inv, Minds, NEW p \in Proc, NEW s \in Sock, Outside(p, s)
    PROVE  Minded
<1>1. /\ Silently(net') /\ proc[p] = "up" /\ ~wait[p].asleep /\ UNCHANGED <<proc, wait>>
      /\ net' = DropRefs(net, p, s, 1) /\ net.refs[p][s] > 0
  BY DEF Outside, May, Awake, Holds
<1>2. Hangs(net, NoSock) /\ net \in NetRec BY Standing DEF Inv
<1>3. 1 \in Nat /\ 1 <= net.refs[p][s] BY <1>1, <1>2 DEF NetRec
<1>4. Dropped(net, net', p, s, 1) BY <1>1, <1>2, <1>3, DropIs
<1>5. Wanes(net, net') /\ \A q \in Proc : q # p => net'.refs[q] = net.refs[q]
  BY <1>2, <1>4 DEF Dropped, NetRec
<1> QED BY <1>1, <1>5, SilentlyMinds

LEMMA DieMinds ==
    ASSUME Inv, Minds, NEW p \in Proc, Die(p)
    PROVE  Minded
<1>1. proc' = [proc EXCEPT ![p] = "dead"] /\ wait' = WakeIo(Unwaiting(p)) BY DEF Die
<1>2. net \in NetRec /\ net'.refs = [net.refs EXCEPT ![p] = Nothing] /\ Places
  BY Standing, DieKeeps DEF Inv, Minds
<1>3. Unwaiting(p) \in [Proc -> WaitRec] BY <1>2, WakeIs DEF Unwaiting, Places
<1>4. wait' \in [Proc -> WaitRec] /\ Woken BY <1>1, <1>3, WakeIs DEF Woken
<1>5. Owns(p) /\ Places' BY <1>1, <1>2, <1>4 DEF Owns, Places, NetRec
<1> QED BY <1>4, <1>5 DEF Minded

\* An event that was reported shows a waiter no more.
LEMMA ReportFrozen ==
    ASSUME net \in NetRec, NEW s \in Sock, NEW rd, NEW wr, rd => net.socks[s].rdNew, wr => net.socks[s].wrNew,
           net' = [net EXCEPT !.socks = [net.socks EXCEPT ![s] = Flagged(net.socks[s], rd, wr)]]
    PROVE  Frozen(net, net') /\ net'.refs = net.refs
<1>1. net.socks[s] \in SockRec BY DEF NetRec
<1> DEFINE r == Flagged(net.socks[s], rd, wr)
<1>2. Seen(r, net.socks[s]) 
  BY <1>1 DEF Flagged, SockRec, Seen, Window, TakesDgram, ArrivesNow, Delay, FlightRoom, FlLen, RxLen
<1> HIDE DEF r
<1>3. net'.socks[s] = r /\ net'.refs = net.refs /\ \A u \in Sock : u # s => net'.socks[u] = net.socks[u]
  BY DEF NetRec, r
<1>4. \A u \in Sock : Seen(net.socks[u], net.socks[u]) BY DEF Seen
<1> QED BY <1>2, <1>3, <1>4 DEF Frozen

LEMMA KeventMinds ==
    ASSUME Inv, Minds, NEW p \in Proc, NEW s \in Sock, KeventRead(p, s) \/ KeventWrite(p, s)
    PROVE  Minded
<1>1. net \in NetRec /\ proc[p] = "up" /\ net.socks[s] \in SockRec
  BY Standing DEF Inv, KeventRead, KeventWrite, May, Awake
<1>2. net.socks[s].rdNew \in BOOLEAN /\ net.socks[s].wrNew \in BOOLEAN BY <1>1 DEF SockRec
<1>3. ASSUME Frozen(net, net'), net'.refs = net.refs, wait' = Unwaiting(p), UNCHANGED <<proc, hist>>
      PROVE  Minded
  BY <1>1, <1>3, StillMinded DEF Calls
<1>4. CASE KeventRead(p, s)
  <2>1. CASE IsReadable(net, s) /\ net.socks[s].rdNew
    <3>1. net' = [net EXCEPT !.socks[s].rdNew = FALSE] /\ wait' = Unwaiting(p) /\ UNCHANGED <<proc, hist>>
      BY <1>4, <2>1 DEF KeventRead
    <3>2. net' = [net EXCEPT !.socks = [net.socks EXCEPT ![s] = Flagged(net.socks[s], FALSE, net.socks[s].wrNew)]]
      BY <1>1, <3>1, RdNewIs
    <3>3. Frozen(net, net') /\ net'.refs = net.refs BY <1>1, <1>2, <3>2, ReportFrozen
    <3> QED BY <1>3, <3>1, <3>3
  <2>2. CASE ~(IsReadable(net, s) /\ net.socks[s].rdNew)
    <3>1. May(p, "edgeread", s) /\ Sleeps(p, "edgeread", s) BY <1>4, <2>2 DEF KeventRead
    <3>2. wait'[p] = [op |-> "edgeread", sock |-> s, asleep |-> TRUE] => ~Ready(p)'
      BY <2>2, <3>1 DEF Ready, Sleeps, Socks
    <3>3. "edgeread" \in Ops BY DEF Ops
    <3> QED BY <3>1, <3>2, <3>3, ParksMinded
  <2> QED BY <2>1, <2>2
<1>5. CASE KeventWrite(p, s)
  <2>1. CASE IsWritable(net, s) /\ net.socks[s].wrNew
    <3>1. net' = [net EXCEPT !.socks[s].wrNew = FALSE] /\ wait' = Unwaiting(p) /\ UNCHANGED <<proc, hist>>
      BY <1>5, <2>1 DEF KeventWrite
    <3>2. net' = [net EXCEPT !.socks = [net.socks EXCEPT ![s] = Flagged(net.socks[s], net.socks[s].rdNew, FALSE)]]
      BY <1>1, <3>1, WrNewIs
    <3>3. Frozen(net, net') /\ net'.refs = net.refs BY <1>1, <1>2, <3>2, ReportFrozen
    <3> QED BY <1>3, <3>1, <3>3
  <2>2. CASE ~(IsWritable(net, s) /\ net.socks[s].wrNew)
    <3>1. May(p, "edgewrite", s) /\ Sleeps(p, "edgewrite", s) BY <1>5, <2>2 DEF KeventWrite
    <3>2. wait'[p] = [op |-> "edgewrite", sock |-> s, asleep |-> TRUE] => ~Ready(p)'
      BY <2>2, <3>1 DEF Ready, Sleeps, Socks
    <3>3. "edgewrite" \in Ops BY DEF Ops
    <3> QED BY <3>1, <3>2, <3>3, ParksMinded
  <2> QED BY <2>1, <2>2
<1> QED BY <1>4, <1>5

\* Time passes, or nothing happens.
LEMMA ElapsesKeeps ==
    ASSUME Inv, Minds, proc' = proc, net'.refs = net.refs,
           wait' = WakeIo(wait) \/ (wait' = wait /\ hist' = hist /\ Frozen(net, net'))
    PROVE  Minds'
<1>1. Unborn' BY DEF Minds, Unborn
<1>2. CASE wait' = WakeIo(wait)
  <2>1. wait' \in [Proc -> WaitRec] /\ \A q \in Proc : ~wait'[q].asleep
    BY <1>2, WakeIs DEF Minds, Places
  <2> QED BY <1>1, <2>1 DEF Minds, Places, Sleeping, WaitersLookAgain
<1>3. CASE wait' = wait /\ hist' = hist /\ Frozen(net, net')
  <2>1. Places' /\ Sleeping' BY <1>3 DEF Minds, Places, Sleeping
  <2>2. ASSUME NEW q \in Proc, wait[q].asleep, ~hist.silent PROVE ~Ready(q)'
    <3>1. wait[q].sock \in Sock /\ net.refs[q][wait[q].sock] > 0 /\ ~Ready(q)
      BY <2>2 DEF Minds, Sleeping, WaitersLookAgain
    <3> QED BY <1>3, <3>1, SeenReady DEF Inv
  <2>3. WaitersLookAgain' BY <1>3, <2>2 DEF WaitersLookAgain
  <2> QED BY <1>1, <2>1, <2>3 DEF Minds
<1> QED BY <1>2, <1>3

LEMMA ClockMinds ==
    ASSUME Inv, Minds, NEW d \in Nat, ClockMoves(d)
    PROVE  Minds'
<1>1. PICK a : Passes(a, d) /\ Stands(a) /\ Traffic(a) BY ClockIs DEF Inv
<1>2. AgesAll(net, a, d) /\ proc' = proc /\ net \in NetRec
  BY <1>1, Standing DEF Passes, ClockMoves, Inv
<1>3. a \in NetRec /\ a.refs = net.refs /\ \A t \in Sock : Ages(a.socks[t], net.socks[t], d)
  BY <1>2 DEF AgesAll, Quiet
<1>4. CASE net' = a /\ wait' = wait /\ hist' = hist
  <2>1. Frozen(net, net') BY <1>2, <1>3, <1>4, FrozenIs
  <2> QED BY <1>2, <1>3, <1>4, <2>1, ElapsesKeeps
<1>5. CASE Advances(a, net') /\ wait' = WakeIo(wait)
  <2>1. net'.refs = net.refs BY <1>1, <1>3, <1>5, AdvanceQuiet DEF Quiet
  <2> QED BY <1>2, <1>5, <2>1, ElapsesKeeps
<1> QED BY <1>1, <1>4, <1>5 DEF Passes

LEMMA StillMinds == ASSUME Inv, Minds, UNCHANGED vars PROVE Minds'
<1>1. UNCHANGED <<net, proc, wait, hist>> BY DEF vars
<1> QED BY <1>1, SameFrozen, ElapsesKeeps

LEMMA InitMinds == Init => Minds
<1> SUFFICES ASSUME Init PROVE Minds
  OBVIOUS
<1>1. \A q \in Proc : wait[q] = NoWait /\ ~wait[q].asleep BY DEF Init, NoWait
<1>2. wait \in [Proc -> WaitRec] BY DEF Init, NoWait, WaitRec
<1>3. proc \in [Proc -> {"unborn", "up", "dead"}] BY DEF Init
<1>4. Unborn BY DEF Init, Unborn
<1> QED BY <1>1, <1>2, <1>3, <1>4 DEF Minds, Places, Sleeping, WaitersLookAgain

LEMMA CallsMinds ==
    ASSUME Inv, Minds, Streams \/ Dgrams \/ Handles
    PROVE  Minded
<1>1. CASE Streams
  <2>1. PICK p \in Proc, s \in Sock :
           \/ \E max \in Backlogs : Listen(p, s, max)
           \/ \E dest \in Program[p].dests : Connect(p, s, dest)
           \/ Accept(p, s)
           \/ \E k \in Sizes : Send(p, s, k) \/ Recv(p, s, k)
           \/ \E read, write \in BOOLEAN : Shutdown(p, s, read, write)
    BY <1>1 DEF Streams
  <2> QED BY <2>1, ListenMinds, ConnectMinds, AcceptMinds, SendMinds, RecvMinds, ShutdownMinds
<1>2. CASE Dgrams
  <2>1. PICK p \in Proc, s \in Sock :
           \/ \E dest \in Program[p].dests : ConnectDgram(p, s, dest) \/ SendDgram(p, s, dest)
           \/ RecvDgram(p, s)
    BY <1>2 DEF Dgrams
  <2> QED BY <2>1, ConnectDgramMinds, SendDgramMinds, RecvDgramMinds
<1>3. CASE Handles
  <2>1. PICK p \in Proc :
           \/ \E make \in Program[p].makes : MakeSocket(p, make[1], make[2])
           \/ \E s \in Sock : Bind(p, s) \/ Close(p, s) \/ Dup(p, s) \/ Exec(p, s) \/ Outside(p, s)
           \/ \E child \in Proc : Fork(p, child)
           \/ Die(p)
    BY <1>3 DEF Handles
  <2> QED BY <2>1, MakeSocketMinds, BindMinds, CloseMinds, DupMinds, ExecMinds, OutsideMinds, ForkMinds, DieMinds
<1> QED BY <1>1, <1>2, <1>3

LEMMA NextMinds == Inv /\ Minds /\ [Next]_vars => Minds'
<1> SUFFICES ASSUME Inv, Minds, [Next]_vars PROVE Minds'
  OBVIOUS
<1>1. CASE Streams \/ Dgrams \/ Handles BY <1>1, CallsMinds, MindedKeeps
<1>2. CASE Waits
  <2>1. PICK p \in Proc : (\E s \in Sock : KeventRead(p, s) \/ KeventWrite(p, s)) \/ TimeOut(p)
    BY <1>2 DEF Waits
  <2>2. CASE TimeOut(p)
    <3>1. proc[p] = "up" /\ UNCHANGED <<net, proc, hist>> /\ wait' = Unwaiting(p)
      BY <2>2 DEF TimeOut
    <3> QED BY <3>1, EndsMinded, MindedKeeps
  <2> QED BY <2>1, <2>2, KeventMinds, MindedKeeps
<1>3. CASE Clock
  <2>1. \E d \in Nat : ClockMoves(d) BY <1>3, ClockSteps DEF Inv
  <2> QED BY <2>1, ClockMinds
<1>4. CASE Elsewhere \/ UNCHANGED vars BY <1>4, StillMinds DEF Elsewhere
<1> QED BY <1>1, <1>2, <1>3, <1>4 DEF Next

\* wake_io is called by everything that can let a call go on: nobody sleeps in
\* accept, recv, send, recvfrom or an edge-triggered kevent that could return,
\* unless references went with an execve or a descriptor given up to the world
\* outside, which do not call it.
THEOREM WaitersLookAgainHolds == Spec => []WaitersLookAgain
<1>1. Minds => WaitersLookAgain BY DEF Minds
<1> QED BY <1>1, Invariance, InitMinds, NextMinds, PTL DEF Spec

=============================================================================
