----------------------------- MODULE ListProofs ------------------------------
(***************************************************************************)
(* The list of lib/list.c is well formed, for any number of nodes and      *)
(* calls, when its owner is careful in one of two ways: it never removes   *)
(* the last element, or it uses only the functions that do not read tail   *)
(* of an empty list.                                                       *)
(***************************************************************************)
EXTENDS List, FiniteSetTheorems, FunctionTheorems, SequenceTheorems, NatLemmas

\* list_remove_front leaves tail alone, so once it emptied the list tail names a freed node.
\* list_insert_front does not read it then; list_insert_back does.
NoTailReader ==
  {"insert_front", "remove_front", "remove_node", "remove_by_index", "destroy"}

CarefulOwners == \A u \in Uses : u.mayEmpty = {} \/ u.ops \subseteq NoTailReader

-----------------------------------------------------------------------------
(* The inductive invariant: some sequence of distinct nodes is the list.    *)

Index == 0 .. size - 1

\* c lists the nodes from front to back, as next and prev do.
Linked(c) ==
  /\ \A i, j \in Index : c[i] = c[j] => i = j
  /\ \A i \in Index : next[c[i]] = IF i = size - 1 THEN NULL ELSE c[i + 1]
  /\ \A i \in Index : prev[c[i]] = IF i = 0 THEN NULL ELSE c[i - 1]

\* The fields of the list name its two ends.
EndsOf(c) ==
  /\ size = 0 => head = NULL /\ (use.mayEmpty = {} => tail = NULL)
  /\ size # 0 => head = c[0] /\ tail = c[size - 1]

\* Its nodes and the ones list_pop gave away are what is allocated.
Holds(c) ==
  /\ live = popped \cup {c[i] : i \in Index}
  /\ \A i \in Index : c[i] \notin popped

ListOf(c) == Linked(c) /\ EndsOf(c) /\ Holds(c)

ListInv ==
  /\ TypeOK /\ size \in Nat
  /\ state # "crashed"
  /\ state = "destroyed" => live = popped
  /\ state = "ok" => \E c \in [Index -> Node] : ListOf(c)

-----------------------------------------------------------------------------
(* What a traversal from the head finds in such a list.                     *)

\* NodeAt satisfies its defining equation.
LEMMA NodeAtDef ==
  ASSUME TypeOK, size \in Nat, NEW c \in [Index -> Node], Linked(c), EndsOf(c)
  PROVE  \A i \in Nat :
           NodeAt[i] = IF i = 0 THEN head
                       ELSE IF NodeAt[i - 1] = NULL THEN NULL ELSE next[NodeAt[i - 1]]
<1> DEFINE g == [i \in Nat |-> IF i < size THEN c[i] ELSE NULL]
           Eqn(f) == f = [i \in Nat |-> IF i = 0 THEN head
                                        ELSE LET p == f[i - 1]
                                             IN IF p = NULL THEN NULL ELSE next[p]]
<1>1. ASSUME NEW i \in Nat
      PROVE  g[i] = IF i = 0 THEN head
                    ELSE LET p == g[i - 1] IN IF p = NULL THEN NULL ELSE next[p]
  <2>1. CASE i = 0
    BY <2>1 DEF EndsOf, Index
  <2>2. CASE i # 0 /\ i - 1 < size
    <3>1. i - 1 \in Index /\ g[i - 1] = c[i - 1] /\ c[i - 1] # NULL
      BY <2>2, ListAssumption DEF Index
    <3>2. next[c[i - 1]] = g[i]
      BY <2>2, <3>1 DEF Linked, Index
    <3> QED
      BY <2>2, <3>1, <3>2
  <2>3. CASE i # 0 /\ ~(i - 1 < size)
    BY <2>3
  <2> QED
    BY <2>1, <2>2, <2>3
<1>2. Eqn(g)
  BY <1>1
<1>3. NodeAt = CHOOSE f : Eqn(f)
  BY DEF NodeAt
<1> HIDE DEF g
<1>4. Eqn(NodeAt)
  BY <1>2, <1>3
<1> QED
  BY <1>4

\* It finds the nodes of the list in order, then the null pointer.
LEMMA NodeAtChain ==
  ASSUME TypeOK, size \in Nat, NEW c \in [Index -> Node], Linked(c), EndsOf(c)
  PROVE  \A i \in Nat : NodeAt[i] = IF i < size THEN c[i] ELSE NULL
<1> DEFINE S == {i \in Nat : NodeAt[i] = IF i < size THEN c[i] ELSE NULL}
<1>1. 0 \in S
  BY NodeAtDef DEF EndsOf, Index
<1>2. ASSUME NEW n \in S PROVE n + 1 \in S
  <2>1. n \in Nat /\ n + 1 \in Nat /\ (n + 1) - 1 = n /\ n + 1 # 0
    OBVIOUS
  <2>2. NodeAt[n + 1] = IF NodeAt[n] = NULL THEN NULL ELSE next[NodeAt[n]]
    BY <2>1, NodeAtDef
  <2>3. CASE n < size
    <3>1. n \in Index /\ NodeAt[n] = c[n] /\ c[n] # NULL
      BY <2>3, ListAssumption DEF Index
    <3>2. next[c[n]] = IF n + 1 < size THEN c[n + 1] ELSE NULL
      BY <2>1, <3>1 DEF Linked, Index
    <3> QED
      BY <2>1, <2>2, <3>1, <3>2
  <2>4. CASE ~(n < size)
    BY <2>1, <2>2, <2>4
  <2> QED
    BY <2>3, <2>4
<1>3. S = Nat
  BY <1>1, <1>2, SetInduction
<1> QED
  BY <1>3

\* A list has no more elements than there are nodes.
LEMMA SizeBound ==
  ASSUME size \in Nat, NEW c \in [Index -> Node], Linked(c)
  PROVE  /\ Cardinality(Node) \in Nat /\ size <= Cardinality(Node)
         /\ Cardinality({c[i] : i \in Index}) = size
<1>1. IsFiniteSet(Index) /\ Cardinality(Index) = size
  BY FS_Interval DEF Index
<1>2. IsFiniteSet(Node) /\ Cardinality(Node) \in Nat
  BY ListAssumption, FS_CardinalityType
<1>3. c \in Injection(Index, Node)
  BY Fun_IsInj DEF Linked
<1>4. size <= Cardinality(Node)
  BY <1>1, <1>2, <1>3, FS_Injection
<1> DEFINE R == {c[i] : i \in Index}
<1>5. c \in Bijection(Index, R)
  <2>1. c \in [Index -> R] /\ \A n \in R : \E i \in Index : c[i] = n
    OBVIOUS
  <2> HIDE DEF R
  <2>2. c \in Injection(Index, R) /\ c \in Surjection(Index, R)
    BY <2>1, Fun_IsInj, Fun_IsSurj DEF Linked
  <2> QED
    BY <2>2 DEF Bijection
<1>6. Cardinality(R) = size
  <2> HIDE DEF R
  <2>1. ExistsBijection(Index, R)
    BY <1>5 DEF ExistsBijection
  <2> QED
    BY <1>1, <2>1, FS_Bijection
<1> QED
  BY <1>2, <1>4, <1>6

\* Length and Chain are what their names say.
LEMMA LengthAndChain ==
  ASSUME TypeOK, size \in Nat, NEW c \in [Index -> Node], Linked(c), EndsOf(c)
  PROVE  /\ Length = size /\ Chain = {c[i] : i \in Index}
         /\ \A i \in Index : NodeAt[i] = c[i]
<1>1. \A i \in Nat : NodeAt[i] = IF i < size THEN c[i] ELSE NULL
  BY NodeAtChain
<1>2. \A i \in Index : NodeAt[i] = c[i] /\ c[i] # NULL
  BY <1>1, ListAssumption DEF Index
<1>3. Cardinality(Node) \in Nat /\ size <= Cardinality(Node)
  BY SizeBound
<1> DEFINE P(n) == /\ NodeAt[n] = NULL \/ n = Cardinality(Node) + 1
                   /\ \A i \in 0 .. n - 1 : NodeAt[i] # NULL
<1>4. size \in 0 .. Cardinality(Node) + 1 /\ P(size)
  BY <1>1, <1>2, <1>3 DEF Index
<1>5. ASSUME NEW n \in 0 .. Cardinality(Node) + 1, P(n) PROVE n = size
  <2>1. ~(n < size)
    BY <1>2, <1>3, <1>5 DEF Index
  <2>2. ~(size < n)
    BY <1>1, <1>3, <1>5
  <2> QED
    BY <1>3, <2>1, <2>2
<1>6. Length = CHOOSE n \in 0 .. Cardinality(Node) + 1 : P(n)
  BY DEF Length
<1> HIDE DEF P
<1>7. Length = size
  BY <1>4, <1>5, <1>6
<1> QED
  BY <1>2, <1>7 DEF Chain, Index

\* The invariant gives the properties.
LEMMA InvWellFormed == ASSUME ListInv PROVE WellFormed
<1> SUFFICES ASSUME state = "ok"
             PROVE  /\ Length = size /\ Cardinality(Chain) = size
                    /\ size > 0 => prev[head] = NULL /\ tail = NodeAt[size - 1]
                    /\ \A i \in 1 .. size - 1 : prev[NodeAt[i]] = NodeAt[i - 1]
  BY DEF WellFormed
<1>1. TypeOK /\ size \in Nat
  BY DEF ListInv
<1>2. PICK c \in [Index -> Node] : ListOf(c)
  BY DEF ListInv
<1>3. /\ Length = size /\ Chain = {c[i] : i \in Index}
      /\ \A i \in Index : NodeAt[i] = c[i]
  BY <1>1, <1>2, LengthAndChain DEF ListOf
<1>4. Cardinality(Chain) = size
  BY <1>1, <1>2, <1>3, SizeBound DEF ListOf
<1>5. size > 0 => prev[head] = NULL /\ tail = NodeAt[size - 1]
  BY <1>1, <1>2, <1>3 DEF ListOf, Linked, EndsOf, Index
<1>6. \A i \in 1 .. size - 1 : prev[NodeAt[i]] = NodeAt[i - 1]
  BY <1>1, <1>2, <1>3 DEF ListOf, Linked, Index
<1> QED
  BY <1>3, <1>4, <1>5, <1>6

LEMMA InvNoDangling == ASSUME ListInv PROVE NoDangling
<1>1. CASE state = "ok"
  <2>1. PICK c \in [Index -> Node] : ListOf(c)
    BY <1>1 DEF ListInv
  <2>2. Chain = {c[i] : i \in Index}
    BY <2>1, LengthAndChain DEF ListOf, ListInv
  <2> QED
    BY <1>1, <2>1, <2>2 DEF ListOf, Holds, NoDangling
<1>2. CASE state # "ok"
  BY <1>2 DEF ListInv, TypeOK, NoDangling
<1> QED
  BY <1>1, <1>2

-----------------------------------------------------------------------------
(* What each function does to the list.                                     *)

Pushed(c, t) == [i \in 0 .. size |-> IF i = 0 THEN t ELSE c[i - 1]]
Appended(c, t) == [i \in 0 .. size |-> IF i = size THEN t ELSE c[i]]
Without(c, k) == [i \in 0 .. size - 2 |-> IF i < k THEN c[i] ELSE c[i + 1]]

LEMMA InsertFrontStep ==
  ASSUME TypeOK, size \in Nat, NEW c \in [Index -> Node], ListOf(c),
         NEW t \in Node \ live, NEW v, New(t, NULL, head, v), head' = t,
         tail' = (IF head = NULL THEN t ELSE tail), size' = size + 1, popped' = popped,
         NEW d, d = Pushed(c, t)
  PROVE  d \in [Index' -> Node] /\ ListOf(d)'
<1> USE ListAssumption
<1>1. Index' = 0 .. size /\ \A i \in Index : i \in Int /\ 0 <= i /\ i < size
  BY DEF Index
<1>2. \A i \in Index : c[i] \in live /\ c[i] \in Node /\ c[i] # t /\ c[i] # NULL
  BY DEF ListOf, Holds
<1>3. d \in [Index' -> Node]
  BY <1>1 DEF Index, Pushed
<1>4. d[0] = t /\ \A i \in Index' \ {0} : i - 1 \in Index /\ d[i] = c[i - 1]
  BY <1>1 DEF Pushed, Index
<1>5. /\ next'[t] = head /\ prev'[t] = NULL
      /\ \A n \in Node \ {t} : next'[n] = next[n]
      /\ \A n \in Node \ {t} : prev'[n] = IF n = head THEN t ELSE prev[n]
      /\ live' = live \cup {t}
  <2>1. t # head
    BY <1>1, <1>2 DEF ListOf, EndsOf, Index
  <2> QED
    BY <2>1 DEF New, Store, TypeOK
<1>6. \A i, j \in Index' : d[i] = d[j] => i = j
  BY <1>1, <1>2, <1>4 DEF ListOf, Linked
<1>7. ASSUME NEW i \in Index'
      PROVE  next'[d[i]] = IF i = size' - 1 THEN NULL ELSE d[i + 1]
  <2>1. CASE i = 0
    <3>1. CASE size = 0
      BY <1>1, <1>4, <1>5, <2>1, <3>1 DEF ListOf, EndsOf
    <3>2. CASE size # 0
      <4>1. d[1] = c[0] /\ head = c[0]
        BY <1>1, <1>4, <3>2 DEF ListOf, EndsOf
      <4> QED
        BY <1>1, <1>4, <1>5, <2>1, <3>2, <4>1
    <3> QED
      BY <3>1, <3>2
  <2>2. CASE i # 0
    <3>1. i - 1 \in Index /\ d[i] = c[i - 1]
      BY <1>4, <2>2
    <3>2. next'[d[i]] = next[c[i - 1]]
      BY <1>2, <1>5, <3>1
    <3>3. next[c[i - 1]] = IF i - 1 = size - 1 THEN NULL ELSE c[i]
      BY <1>1, <3>1 DEF ListOf, Linked
    <3>4. i # size => i + 1 \in Index' \ {0} /\ d[i + 1] = c[i]
      BY <1>1, <1>4, <2>2
    <3> QED
      BY <1>1, <3>2, <3>3, <3>4
  <2> QED
    BY <2>1, <2>2
<1>8. ASSUME NEW i \in Index'
      PROVE  prev'[d[i]] = IF i = 0 THEN NULL ELSE d[i - 1]
  <2>1. CASE i = 0
    BY <1>4, <1>5, <2>1
  <2>2. CASE i # 0
    <3>1. i - 1 \in Index /\ d[i] = c[i - 1] /\ c[i - 1] # t /\ c[i - 1] \in Node
      BY <1>2, <1>4, <2>2
    <3>2. size # 0 /\ head = c[0] /\ 0 \in Index
      BY <1>1, <3>1 DEF ListOf, EndsOf, Index
    <3>3. CASE i = 1
      BY <1>4, <1>5, <3>1, <3>2, <3>3
    <3>4. CASE i # 1
      <4>1. c[i - 1] # head
        BY <1>1, <2>2, <3>1, <3>2, <3>4 DEF ListOf, Linked
      <4>2. prev[c[i - 1]] = c[i - 2]
        BY <1>1, <2>2, <3>1, <3>4 DEF ListOf, Linked
      <4>3. i - 1 \in Index' \ {0} /\ d[i - 1] = c[i - 2]
        BY <1>1, <1>4, <2>2, <3>4
      <4> QED
        BY <1>5, <2>2, <3>1, <4>1, <4>2, <4>3
    <3> QED
      BY <3>3, <3>4
  <2> QED
    BY <2>1, <2>2
<1>9. EndsOf(d)'
  <2>1. size' # 0 /\ size' - 1 = size /\ head' = d[0]
    BY <1>4
  <2>2. tail' = d[size]
    <3>1. CASE size = 0
      BY <1>4, <3>1 DEF ListOf, EndsOf
    <3>2. CASE size # 0
      <4>1. head # NULL /\ tail = c[size - 1]
        BY <1>1, <1>2, <3>2 DEF ListOf, EndsOf, Index
      <4> QED
        BY <1>1, <1>4, <3>2, <4>1
    <3> QED
      BY <3>1, <3>2
  <2> QED
    BY <2>1, <2>2 DEF EndsOf
<1>10. Holds(d)'
  <2>1. {d[i] : i \in Index'} = {c[i] : i \in Index} \cup {t}
    <3>1. \A i \in Index : i + 1 \in Index' \ {0} /\ d[i + 1] = c[i]
      BY <1>1, <1>4
    <3>2. 0 \in Index'
      BY <1>1
    <3> QED
      BY <1>4, <3>1, <3>2
  <2>2. t \notin popped /\ \A i \in Index : c[i] \notin popped
    BY DEF ListOf, Holds
  <2>3. live' = popped' \cup {d[i] : i \in Index'}
    BY <1>5, <2>1 DEF ListOf, Holds
  <2>4. \A i \in Index' : d[i] \notin popped'
    BY <1>4, <2>2
  <2> QED
    BY <2>3, <2>4 DEF Holds
<1>11. Linked(d)'
  BY <1>6, <1>7, <1>8 DEF Linked
<1> QED
  BY <1>3, <1>9, <1>10, <1>11 DEF ListOf

LEMMA InsertBackStep ==
  ASSUME TypeOK, size \in Nat, NEW c \in [Index -> Node], ListOf(c), size = 0 => tail = NULL,
         NEW t \in Node \ live, NEW v, New(t, tail, NULL, v), tail' = t,
         head' = (IF head = NULL THEN t ELSE head), size' = size + 1, popped' = popped,
         NEW d, d = Appended(c, t)
  PROVE  d \in [Index' -> Node] /\ ListOf(d)'
<1> USE ListAssumption
<1>1. Index' = 0 .. size /\ \A i \in Index : i \in Int /\ 0 <= i /\ i < size
  BY DEF Index
<1>2. \A i \in Index : c[i] \in live /\ c[i] \in Node /\ c[i] # t /\ c[i] # NULL
  BY DEF ListOf, Holds
<1>3. d \in [Index' -> Node]
  BY <1>1 DEF Index, Appended
<1>4. d[size] = t /\ \A i \in Index' \ {size} : i \in Index /\ d[i] = c[i]
  BY <1>1 DEF Appended, Index
<1>5. /\ next'[t] = NULL /\ prev'[t] = tail
      /\ \A n \in Node \ {t} : prev'[n] = prev[n]
      /\ \A n \in Node \ {t} : next'[n] = IF n = tail THEN t ELSE next[n]
      /\ live' = live \cup {t}
  <2>1. t # tail
    BY <1>1, <1>2 DEF ListOf, EndsOf, Index
  <2> QED
    BY <2>1 DEF New, Store, TypeOK
<1>6. \A i, j \in Index' : d[i] = d[j] => i = j
  BY <1>1, <1>2, <1>4 DEF ListOf, Linked
<1>7. ASSUME NEW i \in Index'
      PROVE  next'[d[i]] = IF i = size' - 1 THEN NULL ELSE d[i + 1]
  <2>1. CASE i = size
    BY <1>4, <1>5, <2>1
  <2>2. CASE i # size
    <3>1. i \in Index /\ d[i] = c[i] /\ c[i] # t /\ c[i] \in Node /\ size # 0
      BY <1>1, <1>2, <1>4, <2>2
    <3>2. tail = c[size - 1] /\ size - 1 \in Index
      BY <3>1 DEF ListOf, EndsOf, Index
    <3>3. CASE i = size - 1
      BY <1>4, <1>5, <3>1, <3>2, <3>3
    <3>4. CASE i # size - 1
      <4>1. c[i] # tail /\ next[c[i]] = c[i + 1]
        BY <3>1, <3>2, <3>4 DEF ListOf, Linked
      <4>2. i + 1 \in Index' \ {size} /\ d[i + 1] = c[i + 1]
        BY <1>1, <1>4, <2>2, <3>4
      <4> QED
        BY <1>1, <1>5, <2>2, <3>1, <4>1, <4>2
    <3> QED
      BY <3>3, <3>4
  <2> QED
    BY <2>1, <2>2
<1>8. ASSUME NEW i \in Index'
      PROVE  prev'[d[i]] = IF i = 0 THEN NULL ELSE d[i - 1]
  <2>1. CASE i = size
    <3>1. CASE size = 0
      BY <1>4, <1>5, <2>1, <3>1
    <3>2. CASE size # 0
      <4>1. tail = c[size - 1] /\ d[size - 1] = c[size - 1]
        BY <1>1, <1>4, <3>2 DEF ListOf, EndsOf
      <4> QED
        BY <1>4, <1>5, <2>1, <3>2, <4>1
    <3> QED
      BY <3>1, <3>2
  <2>2. CASE i # size
    <3>1. i \in Index /\ d[i] = c[i] /\ c[i] # t /\ c[i] \in Node
      BY <1>2, <1>4, <2>2
    <3>2. prev'[d[i]] = IF i = 0 THEN NULL ELSE c[i - 1]
      BY <1>5, <3>1 DEF ListOf, Linked
    <3>3. i # 0 => d[i - 1] = c[i - 1]
      BY <1>1, <1>4, <2>2
    <3> QED
      BY <3>2, <3>3
  <2> QED
    BY <2>1, <2>2
<1>9. EndsOf(d)'
  <2>1. size' # 0 /\ size' - 1 = size /\ tail' = d[size]
    BY <1>4
  <2>2. head' = d[0]
    <3>1. CASE size = 0
      BY <1>4, <3>1 DEF ListOf, EndsOf
    <3>2. CASE size # 0
      <4>1. head # NULL /\ head = c[0] /\ d[0] = c[0]
        BY <1>1, <1>2, <1>4, <3>2 DEF ListOf, EndsOf, Index
      <4> QED
        BY <4>1
    <3> QED
      BY <3>1, <3>2
  <2> QED
    BY <2>1, <2>2 DEF EndsOf
<1>10. Holds(d)'
  <2>1. {d[i] : i \in Index'} = {c[i] : i \in Index} \cup {t}
    <3>1. \A i \in Index : i \in Index' \ {size} /\ d[i] = c[i]
      BY <1>1, <1>4
    <3>2. size \in Index'
      BY <1>1
    <3> QED
      BY <1>4, <3>1, <3>2
  <2>2. t \notin popped /\ \A i \in Index : c[i] \notin popped
    BY DEF ListOf, Holds
  <2>3. live' = popped' \cup {d[i] : i \in Index'}
    BY <1>5, <2>1 DEF ListOf, Holds
  <2>4. \A i \in Index' : d[i] \notin popped'
    BY <1>4, <2>2
  <2> QED
    BY <2>3, <2>4 DEF Holds
<1>11. Linked(d)'
  BY <1>6, <1>7, <1>8 DEF Linked
<1> QED
  BY <1>3, <1>9, <1>10, <1>11 DEF ListOf

\* Unlinking the node at position k, which is freed or given to the caller of list_pop.
LEMMA UnlinkStep ==
  ASSUME size \in Nat, NEW c \in [Index -> Node], ListOf(c), NEW k \in Index,
         \A i \in Index \ {k} :
           /\ next'[c[i]] = IF i = k - 1 THEN next[c[k]] ELSE next[c[i]]
           /\ prev'[c[i]] = IF i = k + 1 THEN prev[c[k]] ELSE prev[c[i]],
         head' = (IF k = 0 THEN next[c[k]] ELSE head),
         tail' = (IF k # 0 /\ k = size - 1 THEN prev[c[k]] ELSE tail),
         size' = size - 1, use' = use, size = 1 => use.mayEmpty # {},
         \/ live' = live \ {c[k]} /\ popped' = popped
         \/ live' = live /\ popped' = popped \cup {c[k]},
         NEW d, d = Without(c, k)
  PROVE  d \in [Index' -> Node] /\ ListOf(d)'
<1>1. /\ Index' = 0 .. size - 2 /\ \A i \in Index : i \in Int /\ 0 <= i /\ i < size
      /\ k \in Int /\ 0 <= k /\ k < size /\ size # 0
  BY DEF Index
<1>2. \A i \in Index' : /\ i < k => i \in Index \ {k} /\ d[i] = c[i]
                        /\ i >= k => i + 1 \in Index \ {k} /\ d[i] = c[i + 1]
  BY <1>1 DEF Without, Index
<1>3. d \in [Index' -> Node]
  BY <1>1 DEF Without, Index
<1>4. /\ \A i, j \in Index : c[i] = c[j] => i = j
      /\ \A i \in Index : next[c[i]] = IF i = size - 1 THEN NULL ELSE c[i + 1]
      /\ \A i \in Index : prev[c[i]] = IF i = 0 THEN NULL ELSE c[i - 1]
      /\ head = c[0] /\ tail = c[size - 1]
  BY <1>1 DEF ListOf, Linked, EndsOf
<1>5. \A i, j \in Index' : d[i] = d[j] => i = j
  BY <1>1, <1>2, <1>4
<1>6. ASSUME NEW i \in Index'
      PROVE  next'[d[i]] = IF i = size' - 1 THEN NULL ELSE d[i + 1]
  <2>1. CASE i < k - 1
    <3>1. i \in Index \ {k} /\ d[i] = c[i] /\ i + 1 \in Index' /\ d[i + 1] = c[i + 1]
      BY <1>1, <1>2, <2>1
    <3>2. next'[c[i]] = c[i + 1]
      BY <1>1, <1>4, <2>1, <3>1
    <3> QED
      BY <1>1, <2>1, <3>1, <3>2
  <2>2. CASE i = k - 1
    <3>1. i \in Index \ {k} /\ d[i] = c[i]
      BY <1>1, <1>2, <2>2
    <3>2. next'[c[i]] = IF k = size - 1 THEN NULL ELSE c[k + 1]
      BY <1>1, <1>4, <2>2, <3>1
    <3>3. k # size - 1 => i + 1 \in Index' /\ d[i + 1] = c[k + 1]
      BY <1>1, <1>2, <2>2
    <3> QED
      BY <1>1, <2>2, <3>1, <3>2, <3>3
  <2>3. CASE i >= k
    <3>1. i + 1 \in Index \ {k} /\ d[i] = c[i + 1]
      BY <1>1, <1>2, <2>3
    <3>2. next'[c[i + 1]] = IF i + 1 = size - 1 THEN NULL ELSE c[i + 2]
      BY <1>1, <1>4, <2>3, <3>1
    <3>3. i + 1 # size - 1 => i + 1 \in Index' /\ d[i + 1] = c[i + 2]
      BY <1>1, <1>2, <2>3
    <3> QED
      BY <1>1, <3>1, <3>2, <3>3
  <2> QED
    BY <1>1, <2>1, <2>2, <2>3
<1>7. ASSUME NEW i \in Index'
      PROVE  prev'[d[i]] = IF i = 0 THEN NULL ELSE d[i - 1]
  <2>1. CASE i < k
    <3>1. i \in Index \ {k} /\ d[i] = c[i] /\ (i # 0 => d[i - 1] = c[i - 1])
      BY <1>1, <1>2, <2>1
    <3>2. prev'[c[i]] = prev[c[i]]
      BY <1>1, <2>1, <3>1
    <3> QED
      BY <1>4, <3>1, <3>2
  <2>2. CASE i = k
    <3>1. i + 1 \in Index \ {k} /\ d[i] = c[i + 1] /\ (i # 0 => d[i - 1] = c[i - 1])
      BY <1>1, <1>2, <2>2
    <3>2. prev'[c[i + 1]] = prev[c[k]]
      BY <2>2, <3>1
    <3> QED
      BY <1>4, <2>2, <3>1, <3>2
  <2>3. CASE i > k
    <3>1. i + 1 \in Index \ {k} /\ d[i] = c[i + 1] /\ d[i - 1] = c[i] /\ i # 0
      BY <1>1, <1>2, <2>3
    <3>2. prev'[c[i + 1]] = prev[c[i + 1]]
      BY <1>1, <2>3, <3>1
    <3>3. prev[c[i + 1]] = c[i]
      BY <1>1, <1>4, <2>3, <3>1
    <3> QED
      BY <3>1, <3>2, <3>3
  <2> QED
    BY <1>1, <2>1, <2>2, <2>3
<1>8. EndsOf(d)'
  <2>1. CASE size = 1
    <3>1. k = 0 /\ size' = 0 /\ head' = NULL
      BY <1>1, <1>4, <2>1
    <3> QED
      BY <2>1, <3>1 DEF EndsOf
  <2>2. CASE size # 1
    <3>1. size' # 0 /\ size' - 1 = size - 2 /\ 0 \in Index' /\ size - 2 \in Index'
      BY <1>1, <2>2
    <3>2. head' = d[0]
      BY <1>1, <1>2, <1>4, <2>2, <3>1
    <3>3. tail' = d[size - 2]
      BY <1>1, <1>2, <1>4, <2>2, <3>1
    <3> QED
      BY <3>1, <3>2, <3>3 DEF EndsOf
  <2> QED
    BY <2>1, <2>2
<1>9. Holds(d)'
  <2>1. {d[i] : i \in Index'} = {c[i] : i \in Index} \ {c[k]}
    <3>1. ASSUME NEW i \in Index \ {k} PROVE \E j \in Index' : d[j] = c[i]
      <4>1. CASE i < k
        BY <1>1, <1>2, <3>1, <4>1
      <4>2. CASE i > k
        <5>1. i - 1 \in Index' /\ d[i - 1] = c[i]
          BY <1>1, <1>2, <3>1, <4>2
        <5> QED
          BY <5>1
      <4> QED
        BY <1>1, <4>1, <4>2
    <3>2. \A i \in Index' : \E j \in Index \ {k} : d[i] = c[j]
      BY <1>1, <1>2
    <3> QED
      BY <1>4, <3>1, <3>2
  <2>2. live = popped \cup {c[i] : i \in Index} /\ \A i \in Index : c[i] \notin popped
    BY DEF ListOf, Holds
  <2>3. live' = popped' \cup {d[i] : i \in Index'}
    BY <2>1, <2>2
  <2>4. \A i \in Index' : d[i] \notin popped'
    <3>1. \A i \in Index' : \E j \in Index \ {k} : d[i] = c[j]
      BY <1>1, <1>2
    <3> QED
      BY <1>4, <2>2, <3>1
  <2> QED
    BY <2>3, <2>4 DEF Holds
<1>10. Linked(d)'
  BY <1>5, <1>6, <1>7 DEF Linked
<1> QED
  BY <1>3, <1>8, <1>9, <1>10 DEF ListOf

\* The call, and the position its name and argument choose.
Did(op, at) == did' = [op |-> op, at |-> at]

Chosen(k) ==
  \/ k = 0 /\ Did("remove_front", 0)
  \/ k = size - 1 /\ (Did("remove_back", 0) \/ Did("pop", 0))
  \/ Did("remove_node", k) \/ Did("remove_by_index", k)

\* The four things a call can do to an intact list whose nodes are c.
InsertsFront(c) ==
  \E t \in Node \ live, v \in Val, d \in [Index' -> Node] :
    /\ d = Pushed(c, t) /\ ListOf(d)' /\ size' = size + 1
    /\ val' = [val EXCEPT ![t] = v] /\ out' = NoVal /\ Did("insert_front", 0)

InsertsBack(c) ==
  \E t \in Node \ live, v \in Val, d \in [Index' -> Node] :
    /\ d = Appended(c, t) /\ ListOf(d)' /\ size' = size + 1
    /\ val' = [val EXCEPT ![t] = v] /\ out' = NoVal /\ Did("insert_back", 0)

TakesAt(c, k) ==
  \E d \in [Index' -> Node] :
    /\ d = Without(c, k) /\ ListOf(d)' /\ size' = size - 1
    /\ val' = val /\ out' = val[c[k]]

Takes(c) == \E k \in Index : TakesAt(c, k) /\ Chosen(k)

Keeps(c) ==
  /\ c \in [Index' -> Node] /\ ListOf(c)' /\ size' = size /\ val' = val
  /\ \/ out' = out /\ did' = did
     \/ size = 0 /\ out' = NoVal /\ Did("remove_front", 0)

Changes(c) == InsertsFront(c) \/ InsertsBack(c) \/ Takes(c) \/ Keeps(c)

\* In an empty list that something may be removed from, no function reads tail.
LEMMA OwnerIsCareful ==
  ASSUME CarefulOwners, use \in Uses
  PROVE  /\ use.mayEmpty = {} \/ use.ops \subseteq NoTailReader
         /\ {"insert_back", "remove_back", "pop"} \cap NoTailReader = {}
BY DEF CarefulOwners, NoTailReader

\* Every call that is made is a call.
LEMMA DidCalls ==
  ASSUME NEW at \in Nat
  PROVE  /\ \A op \in {"insert_front", "insert_back", "remove_front", "remove_back", "pop",
                       "remove_node", "remove_by_index", "destroy"} :
              Did(op, at) => did' \in Calls
BY DEF Did, Calls

LEMMA TakeFrontStep ==
  ASSUME TypeOK, size \in Nat \ {0}, NEW c \in [Index -> Node], ListOf(c),
         TakeFront, use' = use, size = 1 => use.mayEmpty # {}, did' \in Calls
  PROVE  TypeOK' /\ TakesAt(c, 0)
<1> USE ListAssumption
<1>1. 0 \in Index /\ head = c[0] /\ head \in Node /\ head # NULL
  BY DEF ListOf, EndsOf, Index
<1>2. TypeOK'
  BY <1>1 DEF TakeFront, TypeOK, Store, Ptr
<1>3. /\ next' = next /\ tail' = tail /\ head' = next[c[0]] /\ popped' = popped
      /\ live' = live \ {c[0]} /\ size' = size - 1 /\ val' = val /\ out' = val[c[0]]
      /\ prev' = Store(prev, next[c[0]], NULL)
  BY <1>1 DEF TakeFront
<1>4. \A i, j \in Index : c[i] = c[j] => i = j
  BY DEF ListOf, Linked
<1>5. ASSUME NEW i \in Index \ {0}
      PROVE  /\ next'[c[i]] = IF i = 0 - 1 THEN next[c[0]] ELSE next[c[i]]
             /\ prev'[c[i]] = IF i = 0 + 1 THEN prev[c[0]] ELSE prev[c[i]]
  <2>1. i \in Int /\ i > 0 /\ c[i] \in Node /\ 0 # size - 1
    BY <1>1 DEF Index
  <2>2. next[c[0]] = c[1] /\ 1 \in Index /\ prev[c[0]] = NULL
    BY <1>1, <2>1 DEF ListOf, Linked, Index
  <2>3. c[i] = c[1] <=> i = 1
    BY <1>4, <2>2
  <2> QED
    BY <1>3, <2>1, <2>2, <2>3 DEF Store, TypeOK
<1>6. \E d : d = Without(c, 0)
  OBVIOUS
<1>7. PICK d : d = Without(c, 0)
  BY <1>6
<1>8. d \in [Index' -> Node] /\ ListOf(d)'
  BY <1>1, <1>3, <1>5, <1>7, UnlinkStep
<1> QED
  BY <1>1, <1>2, <1>3, <1>7, <1>8 DEF TakesAt

LEMMA DetachStep ==
  ASSUME TypeOK, size \in Nat \ {0}, NEW c \in [Index -> Node], ListOf(c),
         TakeBack \/ Pop, use' = use, size > 1, did' \in Calls
  PROVE  TypeOK' /\ TakesAt(c, size - 1)
<1> USE ListAssumption
<1> DEFINE k == size - 1
<1>1. k \in Index /\ tail = c[k] /\ tail \in Node /\ tail # NULL /\ Detach
  BY DEF ListOf, EndsOf, Index, TakeBack, Pop
<1>2. TypeOK'
  BY <1>1 DEF TakeBack, Pop, Detach, TypeOK, Store, Ptr
<1>3. /\ prev' = prev /\ head' = head /\ tail' = prev[c[k]]
      /\ size' = size - 1 /\ val' = val /\ out' = val[c[k]]
      /\ next' = Store(next, prev[c[k]], NULL)
      /\ \/ live' = live \ {c[k]} /\ popped' = popped
         \/ live' = live /\ popped' = popped \cup {c[k]}
  BY <1>1 DEF TakeBack, Pop, Detach
<1>4. \A i, j \in Index : c[i] = c[j] => i = j
  BY DEF ListOf, Linked
<1>5. ASSUME NEW i \in Index \ {k}
      PROVE  /\ next'[c[i]] = IF i = k - 1 THEN next[c[k]] ELSE next[c[i]]
             /\ prev'[c[i]] = IF i = k + 1 THEN prev[c[k]] ELSE prev[c[i]]
  <2>1. i \in Int /\ i # k + 1 /\ c[i] \in Node /\ k # 0
    BY <1>1 DEF Index
  <2>2. prev[c[k]] = c[k - 1] /\ k - 1 \in Index /\ next[c[k]] = NULL
    BY <1>1, <2>1 DEF ListOf, Linked, Index
  <2>3. c[i] = c[k - 1] <=> i = k - 1
    BY <1>4, <2>2
  <2> QED
    BY <1>3, <2>1, <2>2, <2>3 DEF Store, TypeOK
<1>6. k # 0 /\ k = size - 1
  OBVIOUS
<1>7. \E m, d : m = k /\ d = Without(c, k)
  OBVIOUS
<1>8. PICK m, d : m = k /\ d = Without(c, k)
  BY <1>7
<1>9. d \in [Index' -> Node] /\ ListOf(d)'
  <2> HIDE DEF k
  <2>1. /\ m \in Index /\ head' = (IF m = 0 THEN next[c[m]] ELSE head)
        /\ tail' = (IF m # 0 /\ m = size - 1 THEN prev[c[m]] ELSE tail)
        /\ d = Without(c, m) /\ (size = 1 => use.mayEmpty # {})
        /\ size' = size - 1
    BY <1>1, <1>3, <1>6, <1>8
  <2>2. \A i \in Index \ {m} :
           /\ next'[c[i]] = IF i = m - 1 THEN next[c[m]] ELSE next[c[i]]
           /\ prev'[c[i]] = IF i = m + 1 THEN prev[c[m]] ELSE prev[c[i]]
    BY <1>5, <1>8
  <2>3. \/ live' = live \ {c[m]} /\ popped' = popped
        \/ live' = live /\ popped' = popped \cup {c[m]}
    BY <1>3, <1>8
  <2> QED
    BY <2>1, <2>2, <2>3, UnlinkStep
<1> QED
  BY <1>1, <1>2, <1>3, <1>8, <1>9 DEF TakesAt

LEMMA TakeMiddleStep ==
  ASSUME TypeOK, size \in Nat \ {0}, NEW c \in [Index -> Node], ListOf(c),
         NEW k \in Index, k # 0, k # size - 1, TakeMiddle(c[k]), use' = use,
         did' \in Calls
  PROVE  TypeOK' /\ TakesAt(c, k)
<1> USE ListAssumption
<1>1. /\ k \in Int /\ 0 < k /\ k < size - 1 /\ c[k] \in Node
      /\ k - 1 \in Index /\ k + 1 \in Index
  BY DEF Index
<1>2. TypeOK'
  BY <1>1 DEF TakeMiddle, TypeOK, Store, Ptr
<1>3. /\ next[c[k]] = c[k + 1] /\ prev[c[k]] = c[k - 1]
      /\ \A i, j \in Index : c[i] = c[j] => i = j
  BY <1>1 DEF ListOf, Linked
<1>4. /\ prev' = Store(prev, c[k + 1], prev[c[k]]) /\ next' = Store(next, c[k - 1], next[c[k]])
      /\ head' = head /\ tail' = tail /\ popped' = popped /\ live' = live \ {c[k]}
      /\ size' = size - 1 /\ val' = val /\ out' = val[c[k]]
  BY <1>3 DEF TakeMiddle
<1>5. ASSUME NEW i \in Index \ {k}
      PROVE  /\ next'[c[i]] = IF i = k - 1 THEN next[c[k]] ELSE next[c[i]]
             /\ prev'[c[i]] = IF i = k + 1 THEN prev[c[k]] ELSE prev[c[i]]
  <2>1. c[i] \in Node
    OBVIOUS
  <2>2. (c[i] = c[k - 1] <=> i = k - 1) /\ (c[i] = c[k + 1] <=> i = k + 1)
    BY <1>1, <1>3
  <2> QED
    BY <1>4, <2>1, <2>2 DEF Store
<1>6. \E d : d = Without(c, k)
  OBVIOUS
<1>7. PICK d : d = Without(c, k)
  BY <1>6
<1>8. d \in [Index' -> Node] /\ ListOf(d)'
  BY <1>1, <1>4, <1>5, <1>7, UnlinkStep
<1> QED
  BY <1>1, <1>2, <1>4, <1>7, <1>8 DEF TakesAt

\* RemoveNode unlinks the node it is given, whichever of its three cases applies.
LEMMA RemoveNodeStep ==
  ASSUME TypeOK, size \in Nat, NEW c \in [Index -> Node], ListOf(c),
         NEW k \in Index, RemoveNode(c[k]), use' = use, size = 1 => use.mayEmpty # {},
         did' \in Calls
  PROVE  TypeOK' /\ TakesAt(c, k) /\ state' = state
<1> USE ListAssumption
<1>1. /\ size \in Nat \ {0} /\ k \in Int /\ 0 <= k /\ k < size /\ c[k] \in Node /\ c[k] # NULL
      /\ 0 \in Index /\ size - 1 \in Index
  BY DEF Index
<1>2. head = c[0] /\ tail = c[size - 1] /\ \A i, j \in Index : c[i] = c[j] => i = j
  BY <1>1 DEF ListOf, EndsOf, Linked
<1>3. (head = c[k] <=> k = 0) /\ (tail = c[k] <=> k = size - 1)
  BY <1>1, <1>2
<1>4. CASE k = 0
  <2>1. TakeFront
    BY <1>1, <1>3, <1>4 DEF RemoveNode
  <2> QED
    BY <1>1, <1>4, <2>1, TakeFrontStep DEF TakeFront
<1>5. CASE k # 0 /\ k = size - 1
  <2>1. TakeBack
    BY <1>1, <1>3, <1>5 DEF RemoveNode
  <2> QED
    BY <1>1, <1>5, <2>1, DetachStep DEF TakeBack, Detach
<1>6. CASE k # 0 /\ k # size - 1
  <2>1. TakeMiddle(c[k])
    BY <1>1, <1>3, <1>6 DEF RemoveNode
  <2> QED
    BY <1>1, <1>6, <2>1, TakeMiddleStep DEF TakeMiddle
<1> QED
  BY <1>4, <1>5, <1>6

\* Every call on an intact list changes it in one of the four ways, or destroys it.
LEMMA ListStep ==
  ASSUME CarefulOwners, ListInv, state = "ok", NEW c \in [Index -> Node], ListOf(c), Next
  PROVE  /\ TypeOK'
         /\ \/ state' = "ok" /\ Changes(c)
            \/ /\ state' = "destroyed" /\ live' = popped' /\ size' = size /\ out' = NoVal
               /\ Did("destroy", 0)
<1> USE ListAssumption
<1>1. TypeOK /\ size \in Nat /\ use' = use /\ use \in Uses
  BY DEF ListInv, TypeOK, Next
<1>2. /\ \A i \in Index : NodeAt[i] = c[i] /\ c[i] \in Node /\ c[i] # NULL
      /\ \A i \in Nat : NodeAt[i] = IF i < size THEN c[i] ELSE NULL
  BY <1>1, LengthAndChain, NodeAtChain DEF ListOf
<1>3. size = 0 <=> head = NULL
  BY <1>1, <1>2 DEF ListOf, EndsOf, Index
<1>4. ASSUME Nothing, size = 0, Did("remove_front", 0) PROVE TypeOK' /\ state' = "ok" /\ Keeps(c)
  <2>1. TypeOK' /\ state' = "ok"
    BY <1>1, <1>4, DidCalls DEF Nothing, fields, ends, TypeOK
  <2>2. c \in [Index' -> Node] /\ ListOf(c)'
    BY <1>1, <1>4 DEF Nothing, fields, ends, ListOf, Linked, EndsOf, Holds, Index
  <2> QED
    BY <1>4, <2>1, <2>2 DEF Keeps, Nothing, fields, ends
<1>5. ASSUME NEW v \in Val, list_insert_front(v)
      PROVE  TypeOK' /\ state' = "ok" /\ InsertsFront(c)
  <2>1. PICK t \in Node \ live :
          /\ New(t, NULL, head, v) /\ tail' = (IF head = NULL THEN t ELSE tail) /\ head' = t
    BY <1>5 DEF list_insert_front
  <2>2. /\ size' = size + 1 /\ out' = NoVal /\ popped' = popped /\ state' = state
        /\ Did("insert_front", 0)
    BY <1>5 DEF list_insert_front, Call, Did
  <2>3. TypeOK'
    BY <1>1, <2>1, <2>2, DidCalls DEF TypeOK, New, Store, Ptr
  <2>4. \E d : d = Pushed(c, t)
    OBVIOUS
  <2>5. PICK d : d = Pushed(c, t)
    BY <2>4
  <2>6. d \in [Index' -> Node] /\ ListOf(d)'
    BY <1>1, <2>1, <2>2, <2>5, InsertFrontStep
  <2> QED
    BY <2>1, <2>2, <2>3, <2>5, <2>6 DEF InsertsFront, New
<1>6. ASSUME NEW v \in Val, list_insert_back(v)
      PROVE  TypeOK' /\ state' = "ok" /\ InsertsBack(c)
  <2>1. PICK t \in Node \ live :
          /\ New(t, tail, NULL, v) /\ head' = (IF head = NULL THEN t ELSE head) /\ tail' = t
    BY <1>6 DEF list_insert_back
  <2>2. /\ size' = size + 1 /\ out' = NoVal /\ popped' = popped /\ state' = state
        /\ Did("insert_back", 0)
    BY <1>6 DEF list_insert_back, Call, Did
  <2>3. TypeOK'
    BY <1>1, <2>1, <2>2, DidCalls DEF TypeOK, New, Store, Ptr
  <2>4. size = 0 => tail = NULL
    BY <1>1, <1>6, OwnerIsCareful DEF list_insert_back, Call, ListOf, EndsOf
  <2>5. \E d : d = Appended(c, t)
    OBVIOUS
  <2>6. PICK d : d = Appended(c, t)
    BY <2>5
  <2>7. d \in [Index' -> Node] /\ ListOf(d)'
    BY <1>1, <2>1, <2>2, <2>4, <2>6, InsertBackStep
  <2> QED
    BY <2>1, <2>2, <2>3, <2>6, <2>7 DEF InsertsBack, New
<1>7. ASSUME list_remove_front PROVE TypeOK' /\ state' = "ok" /\ (Takes(c) \/ Keeps(c))
  <2>1. Did("remove_front", 0) /\ did' \in Calls
    BY <1>7, DidCalls DEF list_remove_front, Call, Did
  <2>2. CASE size = 0
    BY <1>3, <1>4, <1>7, <2>1, <2>2 DEF list_remove_front
  <2>3. CASE size # 0
    <3>1. TakeFront /\ size \in Nat \ {0} /\ (size = 1 => use.mayEmpty # {})
      BY <1>1, <1>3, <1>7, <2>3 DEF list_remove_front, Emptying
    <3>2. TypeOK' /\ TakesAt(c, 0) /\ state' = state
      BY <1>1, <2>1, <3>1, TakeFrontStep DEF TakeFront
    <3>3. Chosen(0) /\ 0 \in Index
      BY <2>1, <3>1 DEF Chosen, Index
    <3> QED
      BY <3>2, <3>3 DEF Takes
  <2> QED
    BY <2>2, <2>3
<1>8. ASSUME list_remove_back \/ list_pop PROVE TypeOK' /\ state' = "ok" /\ Takes(c)
  <2>1. size > 1
    BY <1>1, <1>8, OwnerIsCareful DEF list_remove_back, list_pop, Call, Emptying
  <2>2. head # NULL /\ tail # NULL /\ size \in Nat \ {0}
    BY <1>1, <1>2, <1>3, <2>1 DEF ListOf, EndsOf, Index
  <2>3. TakeBack \/ Pop
    BY <1>8, <2>2 DEF list_remove_back, list_pop, FromTail
  <2>4. (Did("remove_back", 0) \/ Did("pop", 0)) /\ did' \in Calls
    BY <1>8, DidCalls DEF list_remove_back, list_pop, Call, Did
  <2>5. TypeOK' /\ TakesAt(c, size - 1) /\ state' = state
    BY <1>1, <2>1, <2>2, <2>3, <2>4, DetachStep DEF TakeBack, Pop, Detach
  <2>6. Chosen(size - 1) /\ size - 1 \in Index
    BY <2>1, <2>2, <2>4 DEF Chosen, Index
  <2> QED
    BY <2>5, <2>6 DEF Takes
<1>9. ASSUME list_remove_node \/ list_remove_by_index
      PROVE  TypeOK' /\ state' = "ok" /\ Takes(c)
  <2>1. PICK k \in Index : RemoveNode(c[k]) /\ (Did("remove_node", k) \/ Did("remove_by_index", k))
    <3>1. CASE list_remove_node
      BY <1>2, <3>1 DEF list_remove_node, Call, Did, Index
    <3>2. CASE list_remove_by_index
      <4>1. PICK i \in Index : RemoveNode(list_get_node_by_index(i)) /\ Did("remove_by_index", i)
        BY <3>2 DEF list_remove_by_index, Call, Did, Index
      <4>2. list_get_node_by_index(i) = c[i]
        BY <1>1, <1>2 DEF list_get_node_by_index, Index
      <4> QED
        BY <4>1, <4>2
    <3> QED
      BY <1>9, <3>1, <3>2
  <2>2. size = 1 => use.mayEmpty # {}
    BY <1>9 DEF list_remove_node, list_remove_by_index, Emptying
  <2>3. did' \in Calls /\ Chosen(k)
    BY <1>1, <2>1, DidCalls DEF Chosen, Index
  <2>4. TypeOK' /\ TakesAt(c, k) /\ state' = state
    BY <1>1, <2>1, <2>2, <2>3, RemoveNodeStep
  <2> QED
    BY <2>3, <2>4 DEF Takes
<1>10. ASSUME list_destroy
       PROVE  /\ TypeOK' /\ state' = "destroyed" /\ live' = popped' /\ size' = size /\ out' = NoVal
              /\ Did("destroy", 0)
  <2>1. /\ TypeOK' /\ state' = "destroyed" /\ popped' = popped /\ size' = size /\ out' = NoVal
        /\ Did("destroy", 0)
    BY <1>1, <1>10, DidCalls DEF list_destroy, fields, ends, TypeOK, Call, Did
  <2>2. Cardinality(Node) \in Nat /\ size <= Cardinality(Node)
    BY <1>1, SizeBound DEF ListOf
  <2> DEFINE R == {NodeAt[i] : i \in 0 .. Cardinality(Node)}
  <2>3. ASSUME NEW n \in Node PROVE n \in R <=> \E i \in Index : n = c[i]
    <3>1. ASSUME NEW i \in Index PROVE i \in 0 .. Cardinality(Node) /\ NodeAt[i] = c[i]
      BY <1>1, <1>2, <2>2 DEF Index
    <3>2. ASSUME NEW i \in 0 .. Cardinality(Node), n = NodeAt[i]
          PROVE  i \in Index /\ n = c[i]
      BY <1>1, <1>2, <2>2, <3>2 DEF Index
    <3> QED
      BY <3>1, <3>2
  <2>4. live' = live \ R
    BY <1>10 DEF list_destroy
  <2>5. live = popped \cup {c[i] : i \in Index} /\ \A i \in Index : c[i] \notin popped
    BY DEF ListOf, Holds
  <2>6. popped \subseteq Node
    BY <1>1 DEF TypeOK
  <2> HIDE DEF R
  <2>7. live' = popped
    BY <1>2, <2>3, <2>4, <2>5, <2>6
  <2> QED
    BY <2>1, <2>7
<1>11. ASSUME NEW n \in Node, listnode_destroy(n) PROVE TypeOK' /\ state' = "ok" /\ Keeps(c)
  <2>1. TypeOK' /\ state' = "ok" /\ Linked(c)' /\ EndsOf(c)' /\ c \in [Index' -> Node]
    BY <1>1, <1>11 DEF listnode_destroy, fields, ends, TypeOK, ListOf, Linked, EndsOf, Index
  <2>2. Holds(c)'
    <3>1. Index' = Index /\ n \in popped /\ popped' = popped \ {n} /\ live' = live \ {n}
      BY <1>11 DEF listnode_destroy, Index, ends
    <3> QED
      BY <3>1 DEF ListOf, Holds
  <2> QED
    BY <1>11, <2>1, <2>2 DEF Keeps, ListOf, listnode_destroy, fields, ends
<1> QED
  BY <1>5, <1>6, <1>7, <1>8, <1>9, <1>10, <1>11 DEF Next, Changes

-----------------------------------------------------------------------------
(* The theorems.                                                            *)

LEMMA ListInvInit == Init => ListInv
<1> SUFFICES ASSUME Init PROVE ListInv
  OBVIOUS
<1>1. TypeOK /\ size = 0 /\ state = "ok"
  BY DEF Init, TypeOK, Ptr, Calls
<1>2. Index = {}
  BY <1>1 DEF Index
<1>3. PICK c \in [Index -> Node] : TRUE
  <2>1. [i \in Index |-> i] \in [Index -> Node]
    BY <1>2
  <2> QED
    BY <2>1
<1>4. ListOf(c)
  BY <1>1, <1>2 DEF Init, ListOf, Linked, EndsOf, Holds
<1> QED
  BY <1>1, <1>4 DEF ListInv

LEMMA ListInvStep == CarefulOwners /\ ListInv /\ [Next]_vars => ListInv'
<1> SUFFICES ASSUME CarefulOwners, ListInv, [Next]_vars PROVE ListInv'
  OBVIOUS
<1>1. CASE UNCHANGED vars
  BY <1>1 DEF vars, fields, ends, ListInv, TypeOK, ListOf, Linked, EndsOf, Holds, Index
<1>2. CASE Next /\ state = "ok"
  <2>1. PICK c \in [Index -> Node] : ListOf(c)
    BY <1>2 DEF ListInv
  <2>2. /\ TypeOK'
        /\ \/ state' = "ok" /\ Changes(c)
           \/ state' = "destroyed" /\ live' = popped' /\ size' = size
    BY <1>2, <2>1, ListStep
  <2>3. size \in Nat /\ \A i \in Index : size > 0
    BY DEF ListInv, Index
  <2>4. ASSUME Changes(c) PROVE size' \in Nat /\ \E d \in [Index' -> Node] : ListOf(d)'
    BY <2>3, <2>4 DEF Changes, InsertsFront, InsertsBack, Takes, TakesAt, Keeps
  <2> QED
    BY <2>2, <2>3, <2>4 DEF ListInv
<1>3. CASE Next /\ state # "ok"
  <2>1. PICK n \in Node : listnode_destroy(n) /\ use' = use
    BY <1>3 DEF Next, list_insert_front, list_insert_back, list_remove_front,
         list_remove_back, list_pop, list_remove_node, list_remove_by_index, list_destroy, Call
  <2>2. TypeOK'
    BY <2>1 DEF ListInv, listnode_destroy, fields, ends, TypeOK
  <2> QED
    BY <1>3, <2>1, <2>2 DEF ListInv, TypeOK, listnode_destroy, ends
<1> QED
  BY <1>1, <1>2, <1>3

\* The list is intact after any sequence of calls by a careful owner.
THEOREM ListInvariant ==
  ASSUME CarefulOwners
  PROVE  Spec => []ListInv
<1>1. ListInv /\ [Next]_vars => ListInv'
  BY ListInvStep
<1> QED
  BY <1>1, ListInvInit, PTL DEF Spec

\* The traversal from the head visits size distinct nodes, linked both ways, up to the tail.
THEOREM WellFormedHolds ==
  ASSUME CarefulOwners
  PROVE  Spec => []WellFormed
<1>1. ListInv => WellFormed
  BY InvWellFormed
<1> QED
  BY <1>1, ListInvariant, PTL

\* What is allocated is what the list and the callers of list_pop hold.
THEOREM NoDanglingHolds ==
  ASSUME CarefulOwners
  PROVE  Spec => []NoDangling
<1>1. ListInv => NoDangling
  BY InvNoDangling
<1> QED
  BY <1>1, ListInvariant, PTL

\* The values in the list, when it is intact.
ValuesAre(c) ==
  /\ Values = [i \in 1 .. size |-> val[c[i - 1]]]
  /\ Values \in Seq(Val \cup {NoVal}) /\ Len(Values) = size
  /\ \A i \in 1 .. size : Values[i] = val[c[i - 1]]

ListValues == \A c \in [Index -> Node] : ListOf(c) => ValuesAre(c)

LEMMA ValuesOf == TypeOK /\ size \in Nat /\ state = "ok" => ListValues
<1> SUFFICES ASSUME TypeOK, size \in Nat, state = "ok", NEW c \in [Index -> Node], ListOf(c)
             PROVE  ValuesAre(c)
  BY DEF ListValues
<1>1. Length = size /\ \A i \in Index : NodeAt[i] = c[i]
  BY LengthAndChain DEF ListOf
<1>2. \A i \in 1 .. size : i - 1 \in Index
  BY DEF Index
<1>3. Values = [i \in 1 .. size |-> val[c[i - 1]]]
  BY <1>1, <1>2 DEF Values
<1>4. \A i \in 1 .. size : val[c[i - 1]] \in Val \cup {NoVal}
  BY <1>2 DEF TypeOK
<1> QED
  BY <1>3, <1>4 DEF ValuesAre

\* Each step of the list is a step of the deque, or changes nothing of it.
LEMMA DequeStep ==
  ASSUME CarefulOwners, ListInv, ListInv', [Next]_vars
  PROVE  [Abstract!Next]_<<Values, out, did>>
<1> USE ListAssumption
<1> DEFINE V == Val \cup {NoVal}
<1>1. CASE UNCHANGED vars
  <2>1. Values' = Values
    BY <1>1 DEF Values, Length, NodeAt, vars, fields, ends
  <2> QED
    BY <1>1, <2>1 DEF vars
<1>2. CASE Next /\ state = "ok"
  <2>1. PICK c \in [Index -> Node] : ListOf(c)
    BY <1>2 DEF ListInv
  <2>2. /\ TypeOK /\ size \in Nat /\ TypeOK' /\ size' \in Nat
        /\ Index = 0 .. size - 1 /\ Index' = 0 .. size' - 1
    BY DEF ListInv, Index
  <2>3. /\ Values = [i \in 1 .. size |-> val[c[i - 1]]]
        /\ Values \in Seq(V) /\ Len(Values) = size
        /\ \A i \in 1 .. size : Values[i] = val[c[i - 1]]
    BY <1>2, <2>1, <2>2, ValuesOf DEF ListValues, ValuesAre
  <2>4. ASSUME NEW d \in [Index' -> Node], ListOf(d)', state' = "ok"
        PROVE  /\ Values' = [i \in 1 .. size' |-> val'[d[i - 1]]]
               /\ Values' \in Seq(V) /\ Len(Values') = size'
               /\ \A i \in 1 .. size' : Values'[i] = val'[d[i - 1]]
    <3>1. (TypeOK /\ size \in Nat /\ state = "ok" => ListValues)'
      BY ValuesOf, PTL
    <3> QED
      BY <2>2, <2>4, <3>1 DEF ListValues, ValuesAre
  <2>5. \A i \in Index : c[i] \in live /\ c[i] \in Node
    BY <2>1 DEF ListOf, Holds
  <2>6. CASE state' = "ok" /\ InsertsFront(c)
    <3>1. PICK t \in Node \ live, v \in Val, d \in [Index' -> Node] :
            /\ d = Pushed(c, t) /\ ListOf(d)' /\ size' = size + 1
            /\ val' = [val EXCEPT ![t] = v] /\ out' = NoVal /\ Did("insert_front", 0)
      BY <2>6 DEF InsertsFront
    <3>2. /\ val'[t] = v /\ d[0] = t
          /\ \A i \in 1 .. size : val'[d[i]] = val[c[i - 1]]
      <4>1. val'[t] = v /\ \A n \in Node \ {t} : val'[n] = val[n]
        BY <2>2, <3>1 DEF TypeOK
      <4>2. d[0] = t /\ \A i \in 1 .. size : d[i] = c[i - 1] /\ i - 1 \in Index
        BY <2>2, <3>1 DEF Pushed
      <4>3. \A i \in Index : c[i] \in Node \ {t}
        BY <2>5, <3>1
      <4> QED
        BY <4>1, <4>2, <4>3
    <3>3. /\ <<v>> \o Values \in Seq(V) /\ Len(<<v>> \o Values) = size + 1
          /\ \A i \in 1 .. size + 1 : (<<v>> \o Values)[i] = IF i = 1 THEN v ELSE Values[i - 1]
      <4>1. <<v>> \in Seq(V) /\ Len(<<v>>) = 1 /\ <<v>>[1] = v
        OBVIOUS
      <4> QED
        BY <2>2, <2>3, <4>1, ConcatProperties
    <3>4. /\ Values' \in Seq(V) /\ Len(Values') = size + 1
          /\ \A i \in 1 .. size + 1 : Values'[i] = val'[d[i - 1]]
      BY <2>4, <2>6, <3>1
    <3>5. ASSUME NEW i \in 1 .. size + 1 PROVE Values'[i] = (<<v>> \o Values)[i]
      <4>1. CASE i = 1
        BY <3>2, <3>3, <3>4, <4>1
      <4>2. CASE i # 1
        <5>1. i - 1 \in 1 .. size
          BY <2>2, <4>2
        <5> QED
          BY <2>3, <3>2, <3>3, <3>4, <4>2, <5>1
      <4> QED
        BY <4>1, <4>2
    <3>6. Values' = <<v>> \o Values
      BY <3>3, <3>4, <3>5, SeqEqual
    <3> QED
      BY <3>1, <3>6 DEF Abstract!Next, Abstract!InsertFront, Abstract!Called, Did
  <2>7. CASE state' = "ok" /\ InsertsBack(c)
    <3>1. PICK t \in Node \ live, v \in Val, d \in [Index' -> Node] :
            /\ d = Appended(c, t) /\ ListOf(d)' /\ size' = size + 1
            /\ val' = [val EXCEPT ![t] = v] /\ out' = NoVal /\ Did("insert_back", 0)
      BY <2>7 DEF InsertsBack
    <3>2. /\ val'[t] = v /\ d[size] = t
          /\ \A i \in 0 .. size - 1 : val'[d[i]] = val[c[i]]
      BY <2>2, <2>5, <3>1 DEF TypeOK, Appended
    <3>3. /\ Append(Values, v) \in Seq(V) /\ Len(Append(Values, v)) = size + 1
          /\ \A i \in 1 .. size : Append(Values, v)[i] = Values[i]
          /\ Append(Values, v)[size + 1] = v
      <4>1. v \in V
        OBVIOUS
      <4> HIDE DEF V
      <4>2. \A q \in Seq(V) : /\ Append(q, v) \in Seq(V) /\ Len(Append(q, v)) = Len(q) + 1
                              /\ \A i \in 1 .. Len(q) : Append(q, v)[i] = q[i]
                              /\ Append(q, v)[Len(q) + 1] = v
        BY <4>1, AppendProperties
      <4> QED
        BY <2>3, <4>2
    <3>4. /\ Values' \in Seq(V) /\ Len(Values') = size + 1
          /\ \A i \in 1 .. size + 1 : Values'[i] = val'[d[i - 1]]
      BY <2>4, <2>7, <3>1
    <3>5. ASSUME NEW i \in 1 .. size + 1 PROVE Values'[i] = Append(Values, v)[i]
      <4>1. CASE i = size + 1
        <5>1. Values'[i] = val'[d[i - 1]]
          BY <3>4
        <5>2. i - 1 = size
          BY <2>2, <4>1
        <5>3. val'[d[size]] = v /\ Append(Values, v)[i] = v
          BY <3>2, <3>3, <4>1
        <5> QED
          BY <5>1, <5>2, <5>3
      <4>2. CASE i # size + 1
        <5>1. i \in 1 .. size /\ i - 1 \in 0 .. size - 1
          BY <2>2, <4>2
        <5>2. Append(Values, v)[i] = val[c[i - 1]]
          BY <2>3, <3>3, <5>1
        <5>3. Values'[i] = val'[d[i - 1]]
          BY <3>4
        <5>4. val'[d[i - 1]] = val[c[i - 1]]
          BY <3>2, <5>1
        <5> QED
          BY <5>2, <5>3, <5>4
      <4> QED
        BY <4>1, <4>2
    <3>6. Values' = Append(Values, v)
      BY <3>3, <3>4, <3>5, SeqEqual
    <3> QED
      BY <3>1, <3>6 DEF Abstract!Next, Abstract!InsertBack, Abstract!Called, Did
  <2>8. CASE state' = "ok" /\ Takes(c)
    <3>1. PICK k \in Index, d \in [Index' -> Node] :
            /\ d = Without(c, k) /\ ListOf(d)' /\ size' = size - 1
            /\ val' = val /\ out' = val[c[k]] /\ Chosen(k)
      BY <2>8 DEF Takes, TakesAt
    <3>2. k + 1 \in 1 .. Len(Values) /\ out' = Values[k + 1]
      BY <2>2, <2>3, <3>1
    <3>3. SubSeq(Values, 1, (k + 1) - 1) \o SubSeq(Values, (k + 1) + 1, Len(Values))
            = [i \in 1 .. size - 1 |-> IF i < k + 1 THEN Values[i] ELSE Values[i + 1]]
      <4> HIDE DEF V
      <4>1. \A q \in Seq(V) : \A j \in 1 .. Len(q) :
              SubSeq(q, 1, j - 1) \o SubSeq(q, j + 1, Len(q))
                = [i \in 1 .. Len(q) - 1 |-> IF i < j THEN q[i] ELSE q[i + 1]]
        BY RemoveAtIs
      <4>2. Values \in Seq(V) /\ Len(Values) = size
        BY <2>3
      <4>3. SubSeq(Values, 1, (k + 1) - 1) \o SubSeq(Values, (k + 1) + 1, Len(Values))
              = [i \in 1 .. Len(Values) - 1 |-> IF i < k + 1 THEN Values[i] ELSE Values[i + 1]]
        BY <3>2, <4>1, <4>2, Zenon
      <4> QED
        BY <4>2, <4>3, Zenon
    <3>4. Values' = [i \in 1 .. size - 1 |-> val[d[i - 1]]]
      BY <2>4, <2>8, <3>1
    <3>5. ASSUME NEW i \in 1 .. size - 1
          PROVE  val[d[i - 1]] = IF i < k + 1 THEN Values[i] ELSE Values[i + 1]
      <4>1. i - 1 \in 0 .. size - 2 /\ i \in 1 .. size /\ i + 1 \in 1 .. size /\ k \in Int
        BY <2>2
      <4>2. d[i - 1] = IF i - 1 < k THEN c[i - 1] ELSE c[i]
        BY <3>1, <4>1 DEF Without
      <4>3. Values[i] = val[c[i - 1]] /\ Values[i + 1] = val[c[i]]
        BY <2>3, <4>1
      <4> QED
        BY <4>1, <4>2, <4>3
    <3>6. Values' = [i \in 1 .. size - 1 |-> IF i < k + 1 THEN Values[i] ELSE Values[i + 1]]
      BY <3>4, <3>5
    <3>7. Values' = SubSeq(Values, 1, (k + 1) - 1) \o SubSeq(Values, (k + 1) + 1, Len(Values))
      BY <3>3, <3>6
    <3>8. Abstract!Take(k + 1)
      BY <3>2, <3>7 DEF Abstract!Take, Abstract!RemoveAt
    <3>9. CASE k = 0 /\ Did("remove_front", 0)
      BY <3>8, <3>9 DEF Abstract!Next, Abstract!TakeFront, Abstract!Called, Did
    <3>10. CASE k = size - 1 /\ (Did("remove_back", 0) \/ Did("pop", 0))
      <4>1. k + 1 = Len(Values)
        BY <2>2, <2>3, <3>10
      <4> QED
        BY <3>8, <3>10, <4>1 DEF Abstract!Next, Abstract!TakeBack, Abstract!Called, Did
    <3>11. CASE Did("remove_node", k) \/ Did("remove_by_index", k)
      <4>1. k \in 0 .. Len(Values) - 1
        BY <2>2, <2>3, <3>1
      <4>2. Abstract!TakeAt(k)
        BY <3>8, <3>11 DEF Abstract!TakeAt, Abstract!Called, Did
      <4> QED
        BY <4>1, <4>2 DEF Abstract!Next
    <3> QED
      BY <3>1, <3>9, <3>10, <3>11 DEF Chosen
  <2>9. CASE state' = "ok" /\ Keeps(c)
    <3>1. Values' = Values
      BY <2>3, <2>4, <2>9 DEF Keeps
    <3>2. CASE out' = out /\ did' = did
      BY <3>1, <3>2
    <3>3. CASE size = 0 /\ out' = NoVal /\ Did("remove_front", 0)
      <4>1. Values = <<>>
        BY <2>3, <3>3, EmptySeq
      <4> QED
        BY <3>1, <3>3, <4>1 DEF Abstract!Next, Abstract!NothingToTake, Abstract!Called, Did
    <3> QED
      BY <2>9, <3>2, <3>3 DEF Keeps
  <2>10. CASE state' = "destroyed" /\ out' = NoVal /\ Did("destroy", 0)
    BY <2>10 DEF Values, Abstract!Next, Abstract!Destroy, Abstract!Called, Did
  <2> QED
    BY <1>2, <2>1, <2>6, <2>7, <2>8, <2>9, <2>10, ListStep DEF Changes
<1>3. CASE Next /\ state # "ok"
  <2>1. PICK n \in Node : listnode_destroy(n)
    BY <1>3 DEF Next, list_insert_front, list_insert_back, list_remove_front,
         list_remove_back, list_pop, list_remove_node, list_remove_by_index, list_destroy, Call
  <2> QED
    BY <1>3, <2>1 DEF ListInv, TypeOK, listnode_destroy, Values
<1> QED
  BY <1>1, <1>2, <1>3

\* Seen through the values from front to back, the list is a deque.
THEOREM ImplementsDequeHolds ==
  ASSUME CarefulOwners
  PROVE  Spec => ImplementsDeque
<1>1. Init => Abstract!Init
  <2> SUFFICES ASSUME Init PROVE Abstract!Init
    OBVIOUS
  <2>1. ListInv /\ state = "ok" /\ size = 0 /\ out = NoVal /\ did = [op |-> "create", at |-> 0]
    BY ListInvInit DEF Init
  <2>2. PICK c \in [Index -> Node] : ListOf(c)
    BY <2>1 DEF ListInv
  <2>3. Values \in Seq(Val \cup {NoVal}) /\ Len(Values) = 0
    BY <2>1, <2>2, ValuesOf DEF ListInv, ListValues, ValuesAre
  <2>4. Values = <<>>
    BY <2>3, EmptySeq
  <2> QED
    BY <2>1, <2>4 DEF Abstract!Init
<1>2. ListInv /\ ListInv' /\ [Next]_vars => [Abstract!Next]_<<Values, out, did>>
  BY DequeStep
<1> QED
  BY <1>1, <1>2, ListInvariant, PTL DEF Spec, ImplementsDeque, Abstract!Spec
=============================================================================
