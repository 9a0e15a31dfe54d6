------------------------------ MODULE NatLemmas -----------------------------
(***************************************************************************)
(* Facts about the natural numbers that the proofs of several components   *)
(* need: induction in a form the provers can apply (over a set, not over a *)
(* predicate), what \div and % compute, and facts about sequences.         *)
(***************************************************************************)
EXTENDS Integers, WellFoundedInduction, SequenceTheorems, TLAPS

\* Every nonempty set of natural numbers has a least element.
LEMMA LeastNat ==
  ASSUME NEW T \in SUBSET Nat, T # {}
  PROVE  \E m \in T : \A k \in T : m <= k
  <1>1. IsWellFoundedOn(OpToRel(<, Nat), Nat)
    BY NatLessThanWellFounded
  <1>2. PICK m \in T : \A k \in T : ~(<<k, m>> \in OpToRel(<, Nat))
    BY <1>1, WFMin
  <1>3. \A k \in T : ~(k < m)
    BY <1>2 DEF OpToRel
  <1> QED BY <1>3

\* Induction: a set that holds 0 and the successor of each member holds every number.
LEMMA SetInduction ==
  ASSUME NEW S \in SUBSET Nat, 0 \in S, \A n \in S : n + 1 \in S
  PROVE  S = Nat
  <1>1. SUFFICES ASSUME Nat \ S # {} PROVE FALSE
    OBVIOUS
  <1>2. PICK m \in Nat \ S : \A k \in Nat \ S : m <= k
    BY <1>1, LeastNat
  <1>3. m - 1 \in S
    BY <1>2
  <1> QED BY <1>2, <1>3

\* What % does to any integer ...
LEMMA ModRange == ASSUME NEW x \in Int, NEW m \in Nat \ {0} PROVE x % m \in 0 .. m - 1
  BY SMT

\* ... to one that does not reach the modulus ...
LEMMA ModBelow == ASSUME NEW x \in Nat, NEW m \in Nat, x < m PROVE x % m = x
  BY SMT

\* ... and to the modulus.
LEMMA ModSelf == ASSUME NEW m \in Nat \ {0} PROVE m % m = 0
  BY SMT

\* The remainder is no more than the number.
LEMMA ModLeq ==
  ASSUME NEW x \in Nat, NEW m \in Nat \ {0}
  PROVE  x % m \in Nat /\ x % m <= x
  <1>1. x % m \in 0 .. m - 1 /\ (x < m => x % m = x)
    BY ModRange, ModBelow
  <1> QED BY <1>1

\* Division with remainder ...
LEMMA DivMod ==
  ASSUME NEW a \in Nat, NEW d \in Nat \ {0}
  PROVE  /\ a \div d \in Nat /\ a % d \in 0 .. d - 1
         /\ a = (a \div d) * d + (a % d)
  BY SMT

\* ... is unique.
LEMMA DivModUnique ==
  ASSUME NEW d \in Nat \ {0}, NEW q \in Nat, NEW r \in 0 .. d - 1
  PROVE  (q * d + r) % d = r /\ (q * d + r) \div d = q
  BY SMT

\* The remainder of a successor, where it is not 0.
LEMMA ModSucc ==
  ASSUME NEW a \in Nat, NEW d \in Nat \ {0}, (a + 1) % d # 0
  PROVE  (a + 1) % d = (a % d) + 1
  <1> DEFINE q == a \div d  r == a % d
  <1>1. q \in Nat /\ r \in 0 .. d - 1 /\ a = q * d + r
    BY DivMod
  <1> HIDE DEF q, r
  <1>2. CASE r + 1 < d
    BY <1>1, <1>2, DivModUnique
  <1>3. CASE r + 1 = d
    BY <1>1, <1>3, DivModUnique
  <1> QED BY <1>1, <1>2, <1>3 DEF r

\* A function can be iterated from a first value: what a definition f[n \in Nat] by
\* recursion needs in order to mean what it says.
IsIteration(g, step, first) == g[0] = first /\ \A n \in Nat : g[n + 1] = step[g[n]]

LEMMA IterationExists ==
  ASSUME NEW S, NEW step \in [S -> S], NEW first \in S
  PROVE  \E g \in [Nat -> S] : IsIteration(g, step, first)
<1> DEFINE Walk(n) == {g \in [0 .. n -> S] :
                         g[0] = first /\ \A i \in 0 .. n - 1 : g[i + 1] = step[g[i]]}
           A == {n \in Nat : Walk(n) # {}}
<1>1. 0 \in A
  <2>1. [i \in 0 .. 0 |-> first] \in Walk(0)
    OBVIOUS
  <2> QED BY <2>1
<1>2. ASSUME NEW n \in A PROVE n + 1 \in A
  <2>1. PICK g \in Walk(n) : TRUE
    OBVIOUS
  <2>2. n \in Nat /\ g \in [0 .. n -> S] /\ g[0] = first
        /\ \A i \in 0 .. n - 1 : g[i + 1] = step[g[i]]
    BY <2>1
  <2> DEFINE h == [i \in 0 .. n + 1 |-> IF i = n + 1 THEN step[g[n]] ELSE g[i]]
  <2>3. h \in [0 .. n + 1 -> S] /\ h[0] = first
    BY <2>2
  <2>4. ASSUME NEW i \in 0 .. (n + 1) - 1 PROVE h[i + 1] = step[h[i]]
    <3>1. CASE i = n
      BY <2>2, <3>1
    <3>2. CASE i # n
      <4>1. i \in 0 .. n - 1 /\ i + 1 \in 0 .. n
        BY <2>2, <3>2
      <4> QED BY <2>2, <4>1
    <3> QED BY <3>1, <3>2
  <2>5. h \in Walk(n + 1)
    BY <2>3, <2>4
  <2> QED BY <2>2, <2>5
<1>3. A = Nat
  BY <1>1, <1>2, SetInduction
<1>4. ASSUME NEW m \in Nat, NEW n \in Nat, m <= n, NEW g \in Walk(m), NEW h \in Walk(n)
      PROVE  g[m] = h[m]
  <2> DEFINE B == {i \in Nat : i <= m => g[i] = h[i]}
  <2>1. /\ g[0] = first /\ h[0] = first
        /\ \A i \in 0 .. m - 1 : g[i + 1] = step[g[i]]
        /\ \A i \in 0 .. n - 1 : h[i + 1] = step[h[i]]
    OBVIOUS
  <2>2. 0 \in B
    BY <2>1
  <2>3. ASSUME NEW i \in B PROVE i + 1 \in B
    <3>1. CASE i + 1 <= m
      <4>1. i \in 0 .. m - 1 /\ i \in 0 .. n - 1 /\ g[i] = h[i]
        BY <1>4, <3>1
      <4> QED BY <2>1, <4>1
    <3>2. CASE ~(i + 1 <= m)
      BY <3>2
    <3> QED BY <3>1, <3>2
  <2>4. B = Nat
    BY <2>2, <2>3, SetInduction
  <2> QED BY <2>4
<1> DEFINE w == [n \in Nat |-> CHOOSE g \in Walk(n) : TRUE]
           G == [n \in Nat |-> w[n][n]]
<1>5. \A n \in Nat : w[n] \in Walk(n)
  BY <1>3
<1> HIDE DEF w
<1>6. ASSUME NEW n \in Nat PROVE G[n] \in S /\ G[n + 1] = step[G[n]]
  <2>1. w[n] \in Walk(n) /\ w[n + 1] \in Walk(n + 1) /\ n + 1 \in Nat /\ n <= n + 1
    <3>1. n + 1 \in Nat /\ n <= n + 1
      OBVIOUS
    <3> HIDE DEF Walk
    <3> QED BY <1>5, <3>1
  <2>2. w[n][n] = w[n + 1][n]
    <3> HIDE DEF Walk
    <3> QED BY <1>4, <2>1
  <2>3. w[n][n] \in S /\ w[n + 1][n + 1] = step[w[n + 1][n]]
    <3>1. w[n] \in [0 .. n -> S] /\ n \in 0 .. n
      BY <2>1
    <3>2. \A i \in 0 .. (n + 1) - 1 : w[n + 1][i + 1] = step[w[n + 1][i]]
      BY <2>1
    <3>3. n \in 0 .. (n + 1) - 1
      OBVIOUS
    <3> QED BY <3>1, <3>2, <3>3
  <2> QED BY <2>1, <2>2, <2>3
<1>7. G[0] = first
  <2>1. w[0] \in Walk(0)
    BY <1>5
  <2> QED BY <2>1
<1>8. G \in [Nat -> S]
  BY <1>6
<1> QED
  BY <1>6, <1>7, <1>8 DEF IsIteration

\* Two decreasing sequences of numbers that have the same elements are equal.
Decreasing(s, k) == \A i, j \in 1 .. k : i < j => s[j] < s[i]

LEMMA DecreasingUnique ==
  ASSUME NEW k \in Nat, NEW l \in Nat, NEW s \in [1 .. k -> Int], NEW t \in [1 .. l -> Int],
         Decreasing(s, k), Decreasing(t, l),
         \A i \in 1 .. k : \E j \in 1 .. l : s[i] = t[j],
         \A j \in 1 .. l : \E i \in 1 .. k : s[i] = t[j]
  PROVE  k = l /\ s = t
<1> DEFINE D == {i \in Nat : i \in 1 .. k /\ i \in 1 .. l /\ s[i] # t[i]}
<1>1. D = {}
  <2>1. SUFFICES ASSUME D # {} PROVE FALSE
    OBVIOUS
  <2>2. PICK i \in D : \A j \in D : i <= j
    BY <2>1, LeastNat
  <2>3. i \in 1 .. k /\ i \in 1 .. l /\ s[i] # t[i] /\ s[i] \in Int /\ t[i] \in Int
    BY <2>2
  <2>4. \A j \in 1 .. i - 1 : j \in 1 .. k /\ j \in 1 .. l /\ s[j] = t[j]
    BY <2>2, <2>3
  <2> HIDE DEF D
  <2>5. PICK a \in 1 .. l : s[i] = t[a]
    BY <2>3
  <2>6. PICK b \in 1 .. k : t[i] = s[b]
    BY <2>3
  <2>7. ~(a < i)
    BY <2>3, <2>4, <2>5 DEF Decreasing
  <2>8. ~(b < i)
    BY <2>3, <2>4, <2>6 DEF Decreasing
  <2>9. t[a] < t[i]
    BY <2>3, <2>5, <2>7 DEF Decreasing
  <2>10. s[b] < s[i]
    BY <2>3, <2>6, <2>8 DEF Decreasing
  <2> QED BY <2>3, <2>5, <2>6, <2>9, <2>10
<1>2. ASSUME NEW i \in 1 .. k, i \in 1 .. l PROVE s[i] = t[i]
  <2>1. i \notin D
    BY <1>1
  <2> QED BY <1>2, <2>1
<1>3. ~(k < l)
  <2>1. SUFFICES ASSUME k < l PROVE FALSE
    OBVIOUS
  <2>2. PICK i \in 1 .. k : s[i] = t[k + 1]
    BY <2>1
  <2>3. i \in 1 .. l /\ i < k + 1 /\ k + 1 \in 1 .. l /\ t[i] = t[k + 1]
    BY <1>2, <2>1, <2>2
  <2> QED BY <2>3 DEF Decreasing
<1>4. ~(l < k)
  <2>1. SUFFICES ASSUME l < k PROVE FALSE
    OBVIOUS
  <2>2. PICK j \in 1 .. l : s[l + 1] = t[j]
    BY <2>1
  <2>3. j \in 1 .. k /\ j < l + 1 /\ l + 1 \in 1 .. k /\ s[j] = s[l + 1]
    BY <1>2, <2>1, <2>2
  <2> QED BY <2>3 DEF Decreasing
<1>5. k = l
  BY <1>3, <1>4
<1> QED BY <1>2, <1>5

\* The elements of L by decreasing size.
SortedSeq(s, L) ==
  \E k \in Nat : /\ s \in [1 .. k -> Int] /\ Decreasing(s, k)
                 /\ \A i \in 1 .. k : s[i] \in L
                 /\ \A p \in L : \E i \in 1 .. k : s[i] = p

LEMMA SortedUnique ==
  ASSUME NEW L, NEW s, NEW t, SortedSeq(s, L), SortedSeq(t, L)
  PROVE  s = t
<1>1. PICK k \in Nat : /\ s \in [1 .. k -> Int] /\ Decreasing(s, k)
                       /\ \A i \in 1 .. k : s[i] \in L
                       /\ \A p \in L : \E i \in 1 .. k : s[i] = p
  BY DEF SortedSeq
<1>2. PICK l \in Nat : /\ t \in [1 .. l -> Int] /\ Decreasing(t, l)
                       /\ \A i \in 1 .. l : t[i] \in L
                       /\ \A p \in L : \E i \in 1 .. l : t[i] = p
  BY DEF SortedSeq
<1>3. /\ \A i \in 1 .. k : \E j \in 1 .. l : s[i] = t[j]
      /\ \A j \in 1 .. l : \E i \in 1 .. k : s[i] = t[j]
  BY <1>1, <1>2
<1> QED
  BY <1>1, <1>2, <1>3, DecreasingUnique

\* Removing an element of a sequence.
LEMMA RemoveAtIs ==
  ASSUME NEW S, NEW q \in Seq(S), NEW k \in 1 .. Len(q)
  PROVE  SubSeq(q, 1, k - 1) \o SubSeq(q, k + 1, Len(q))
           = [i \in 1 .. Len(q) - 1 |-> IF i < k THEN q[i] ELSE q[i + 1]]
<1> DEFINE a == SubSeq(q, 1, k - 1)
           b == SubSeq(q, k + 1, Len(q))
           r == [i \in 1 .. Len(q) - 1 |-> IF i < k THEN q[i] ELSE q[i + 1]]
<1>1. Len(q) \in Nat /\ k \in Int /\ k <= Len(q) /\ 1 <= k /\ \A i \in 1 .. Len(q) : q[i] \in S
  BY LenProperties, ElementOfSeq
<1>2. a \in Seq(S) /\ Len(a) = k - 1 /\ \A i \in 1 .. k - 1 : a[i] = q[i]
  <2>1. \A i \in 1 .. k - 1 : q[i] \in S
    BY <1>1
  <2> QED
    BY <1>1, <2>1, SubSeqProperties
<1>3. b \in Seq(S) /\ Len(b) = Len(q) - k /\ \A i \in 1 .. Len(q) - k : b[i] = q[k + i]
  <2>1. \A i \in k + 1 .. Len(q) : q[i] \in S
    BY <1>1
  <2>2. k + 1 \in Int /\ Len(q) \in Int
    BY <1>1
  <2> QED
    BY <1>1, <2>1, <2>2, SubSeqProperties
<1> HIDE DEF a, b
<1>4. /\ a \o b \in Seq(S) /\ Len(a \o b) = Len(q) - 1
      /\ \A i \in 1 .. Len(q) - 1 : (a \o b)[i] = IF i <= k - 1 THEN a[i] ELSE b[i - (k - 1)]
  <2>1. /\ a \o b \in Seq(S) /\ Len(a \o b) = Len(a) + Len(b)
        /\ \A i \in 1 .. Len(a) + Len(b) : (a \o b)[i] = IF i <= Len(a) THEN a[i] ELSE b[i - Len(a)]
    BY <1>2, <1>3, ConcatProperties
  <2>2. Len(a) = k - 1 /\ Len(a) + Len(b) = Len(q) - 1
    BY <1>1, <1>2, <1>3
  <2> QED
    BY <2>1, <2>2
<1>5. r \in Seq(S) /\ Len(r) = Len(q) - 1
  BY <1>1
<1>6. ASSUME NEW i \in 1 .. Len(q) - 1 PROVE (a \o b)[i] = r[i]
  <2>1. r[i] = IF i < k THEN q[i] ELSE q[i + 1]
    OBVIOUS
  <2> HIDE DEF r
  <2>2. CASE i < k
    <3>1. i <= k - 1 /\ i \in 1 .. k - 1
      BY <1>1, <2>2
    <3>2. a[i] = q[i]
      BY <1>2, <3>1
    <3> QED
      BY <1>4, <2>1, <2>2, <3>1, <3>2
  <2>3. CASE ~(i < k)
    <3>1. ~(i <= k - 1) /\ i - (k - 1) \in 1 .. Len(q) - k /\ k + (i - (k - 1)) = i + 1
      BY <1>1, <2>3
    <3>2. b[i - (k - 1)] = q[i + 1]
      BY <1>3, <3>1
    <3> QED
      BY <1>4, <2>1, <2>3, <3>1, <3>2
  <2> QED
    BY <2>2, <2>3
<1> HIDE DEF r
<1>7. a \o b = r
  BY <1>4, <1>5, <1>6, SeqEqual
<1> QED
  BY <1>7 DEF a, b, r
=============================================================================
