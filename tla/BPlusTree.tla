------------------------------ MODULE BPlusTree -----------------------------
(***************************************************************************)
(* The B+ tree of sample/data_structure/bplus_tree.c.  The heap of nodes is*)
(* a function from the addresses in use to records; arrays are sequences   *)
(* as long as num_keys says, and pointers[order - 1] of a leaf, the next   *)
(* leaf, is the field last.  A record is named by the key it was made for. *)
(* malloc hands out the lowest free address, so that a freed node is reused*)
(* at once and a stale pointer to it would be seen.                        *)
(***************************************************************************)
EXTENDS Integers, Sequences, FiniteSets, SequencesExt, TLC

CONSTANTS
  order,       \* DEFAULT_ORDER
  Keys, Values,
  MaxNodes     \* bound: addresses 1 .. MaxNodes

VARIABLES root, node, rec    \* the tree, the nodes in use, the records in use

vars == <<root, node, rec>>
NIL == 0
Tree == [root |-> root, node |-> node]

Init == root = NIL /\ node = [a \in {} |-> a] /\ rec = [k \in {} |-> k]

make_node(T) == CHOOSE a \in 1 .. MaxNodes : a \notin DOMAIN T.node
free(T, a) == [T EXCEPT !.node = [b \in DOMAIN @ \ {a} |-> @[b]]]
Put(T, a, n) == [T EXCEPT !.node = (a :> n) @@ @]
SetParent(T, S, p) == [T EXCEPT !.node = [a \in DOMAIN @ |-> IF a \in S THEN [@[a] EXCEPT !.parent = p] ELSE @[a]]]

cut(length) == IF length % 2 = 0 THEN length \div 2 ELSE length \div 2 + 1

\* The place of the first element that passes, the end if none does.
First(s, Test(_)) == LET i == SelectInSeq(s, Test) IN IF i = 0 THEN Len(s) + 1 ELSE i

\* Down from the root, to the child before the first key that is above the key sought.
find_leaf(T, key) ==
  LET RECURSIVE Down(_)
      Down(c) == IF T.node[c].is_leaf THEN c
                 ELSE Down(T.node[c].pointers[First(T.node[c].keys, LAMBDA k : key < k)])
  IN IF T.root = NIL THEN NIL ELSE Down(T.root)

\* The record found under a key, NIL if there is none.
find(T, key) ==
  LET leaf == find_leaf(T, key)
      i == First(T.node[leaf].keys, LAMBDA k : k = key)
  IN IF leaf = NIL THEN NIL
     ELSE IF i > Len(T.node[leaf].keys) THEN NIL ELSE T.node[leaf].pointers[i]

-----------------------------------------------------------------------------
(* Insertion.                                                               *)

RECURSIVE insert_into_parent(_, _, _, _)

insert_into_new_root(T, left, key, right) ==
  LET r == make_node(T)
      new == [is_leaf |-> FALSE, keys |-> <<key>>, pointers |-> <<left, right>>, parent |-> NIL, last |-> NIL]
  IN [SetParent(Put(T, r, new), {left, right}, r) EXCEPT !.root = r]

insert_into_node(T, n, left_index, key, right) ==
  [T EXCEPT !.node[n].keys = InsertAt(@, left_index, key),
            !.node[n].pointers = InsertAt(@, left_index + 1, right)]

\* Mutant: the copy to the new node starts one entry late.
Upper_Late(s, split) == SubSeq(s, split + 2, Len(s))

\* What a split moves to the new node.
Upper(s, split) == SubSeq(s, split + 1, Len(s))

\* The middle key goes up; the children of the new node get it as their parent.
insert_into_node_after_splitting(T, old, left_index, key, right) ==
  LET keys == InsertAt(T.node[old].keys, left_index, key)
      pointers == InsertAt(T.node[old].pointers, left_index + 1, right)
      split == cut(order)
      new == make_node(T)
      moved == [T.node[old] EXCEPT !.keys = Upper(keys, split),
                                   !.pointers = Upper(pointers, split)]
      T1 == [T EXCEPT !.node[old].keys = SubSeq(keys, 1, split - 1),
                      !.node[old].pointers = SubSeq(pointers, 1, split)]
  IN insert_into_parent(SetParent(Put(T1, new, moved), ToSet(moved.pointers), new), old, keys[split], new)

get_left_index(T, parent, left) == First(T.node[parent].pointers, LAMBDA p : p = left)

insert_into_parent(T, left, key, right) ==
  LET parent == T.node[left].parent
      left_index == get_left_index(T, parent, left)
  IN IF parent = NIL THEN insert_into_new_root(T, left, key, right)
     ELSE IF Len(T.node[parent].keys) < order - 1 THEN insert_into_node(T, parent, left_index, key, right)
     ELSE insert_into_node_after_splitting(T, parent, left_index, key, right)

\* The leaf with the new key and its record in their place.
insert_into_leaf(leaf, key) ==
  LET i == First(leaf.keys, LAMBDA k : k >= key)
  IN [leaf EXCEPT !.keys = InsertAt(@, i, key), !.pointers = InsertAt(@, i, key)]

insert_into_leaf_after_splitting(T, leaf, key) ==
  LET full == insert_into_leaf(T.node[leaf], key)
      split == cut(order - 1)
      new == make_node(T)
      moved == [full EXCEPT !.keys = Upper(@, split), !.pointers = Upper(@, split)]
      T1 == [T EXCEPT !.node[leaf] = [full EXCEPT !.keys = SubSeq(@, 1, split), !.pointers = SubSeq(@, 1, split),
                                                  !.last = new]]
  IN insert_into_parent(Put(T1, new, moved), leaf, full.keys[split + 1], new)

start_new_tree(T, key) ==
  LET r == make_node(T)
  IN [Put(T, r, [is_leaf |-> TRUE, keys |-> <<key>>, pointers |-> <<key>>, parent |-> NIL, last |-> NIL])
       EXCEPT !.root = r]

Inserted(T, key) ==
  LET leaf == find_leaf(T, key)
  IN IF T.root = NIL THEN start_new_tree(T, key)
     ELSE IF Len(T.node[leaf].keys) < order - 1 THEN Put(T, leaf, insert_into_leaf(T.node[leaf], key))
     ELSE insert_into_leaf_after_splitting(T, leaf, key)

Becomes(T) == root' = T.root /\ node' = T.node

\* An existing record is overwritten; else a record is made and its key goes into the tree.
insert(key, value) ==
  LET r == find(Tree, key)
  IN IF r # NIL THEN rec' = [rec EXCEPT ![r] = value] /\ UNCHANGED <<root, node>>
     ELSE Becomes(Inserted(Tree, key)) /\ rec' = (key :> value) @@ rec

-----------------------------------------------------------------------------
(* Deletion.                                                                *)

RECURSIVE delete_entry(_, _, _, _)

\* The index of n among its parent's children: get_neighbor_index returns it less one.
get_neighbor_index(T, n) == First(T.node[T.node[n].parent].pointers, LAMBDA p : p = n) - 1

remove_entry_from_node(T, n, key, pointer) ==
  [T EXCEPT !.node[n].keys = RemoveAt(@, First(@, LAMBDA k : k = key)),
            !.node[n].pointers = RemoveAt(@, First(@, LAMBDA p : p = pointer))]

adjust_root(T) ==
  LET r == T.node[T.root]
  IN IF Len(r.keys) > 0 THEN T
     ELSE IF r.is_leaf THEN free([T EXCEPT !.root = NIL], T.root)
     ELSE free(SetParent([T EXCEPT !.root = r.pointers[1]], {r.pointers[1]}, NIL), T.root)

\* Mutant: the merged leaf ends the chain.
NextAfterMerge_End(L, R) == NIL
NextAfterMerge(L, R) == R.last

\* The right one of the two nodes is merged into the left one, taken from the parent and freed.
coalesce_nodes(T, left, right, k_prime) ==
  LET L == T.node[left]  R == T.node[right]
      merged == [L EXCEPT !.keys = IF L.is_leaf THEN @ \o R.keys ELSE @ \o <<k_prime>> \o R.keys,
                          !.pointers = @ \o R.pointers, !.last = NextAfterMerge(L, R)]
      T1 == Put(T, left, merged)
      T2 == IF L.is_leaf THEN T1 ELSE SetParent(T1, ToSet(merged.pointers), left)
  IN free(delete_entry(T2, R.parent, k_prime, right), right)

\* One entry is borrowed, from the left neighbour if there is one (neighbor_index # 0).  A
\* leaf takes the key itself; an inner node takes the separator and gives the parent the key.
redistribute_nodes(T, n, nb, neighbor_index, k_prime_index, k_prime) ==
  LET N == T.node[n]  B == T.node[nb]
      moved == IF neighbor_index # 0 THEN Last(B.pointers) ELSE Head(B.pointers)
      k == IF ~N.is_leaf THEN k_prime ELSE IF neighbor_index # 0 THEN Last(B.keys) ELSE Head(B.keys)
      T1 == IF neighbor_index # 0
            THEN [T EXCEPT !.node[n].keys = <<k>> \o @, !.node[n].pointers = <<moved>> \o @,
                           !.node[nb].keys = Front(@), !.node[nb].pointers = Front(@),
                           !.node[N.parent].keys[k_prime_index] = Last(B.keys)]
            ELSE [T EXCEPT !.node[n].keys = @ \o <<k>>, !.node[n].pointers = @ \o <<moved>>,
                           !.node[nb].keys = Tail(@), !.node[nb].pointers = Tail(@),
                           !.node[N.parent].keys[k_prime_index] = IF N.is_leaf THEN B.keys[2] ELSE Head(B.keys)]
  IN IF N.is_leaf THEN T1 ELSE SetParent(T1, {moved}, n)

MinKeys(is_leaf) == IF is_leaf THEN cut(order - 1) ELSE cut(order) - 1

\* Mutant: the separator that an inner node takes in is not counted.
Fits_NoSeparator(N, B) == Len(B.keys) + Len(N.keys) < order

\* Whether two neighbours go into one node.
Fits(N, B) == Len(B.keys) + Len(N.keys) < IF N.is_leaf THEN order ELSE order - 1

delete_entry(T0, n, key, pointer) ==
  LET T == remove_entry_from_node(T0, n, key, pointer)
      N == T.node[n]
      P == T.node[N.parent]
      neighbor_index == get_neighbor_index(T, n)
      k_prime_index == IF neighbor_index = 0 THEN 1 ELSE neighbor_index
      k_prime == P.keys[k_prime_index]
      nb == IF neighbor_index = 0 THEN P.pointers[2] ELSE P.pointers[neighbor_index]
  IN IF n = T.root THEN adjust_root(T)
     ELSE IF Len(N.keys) >= MinKeys(N.is_leaf) THEN T
     ELSE IF ~Fits(N, T.node[nb])
          THEN redistribute_nodes(T, n, nb, neighbor_index, k_prime_index, k_prime)
     ELSE IF neighbor_index = 0 THEN coalesce_nodes(T, n, nb, k_prime)
     ELSE coalesce_nodes(T, nb, n, k_prime)

\* The entry goes, then its record; an absent key changes nothing.
delete(key) ==
  LET r == find(Tree, key)
  IN IF r = NIL THEN UNCHANGED vars
     ELSE /\ Becomes(delete_entry(Tree, find_leaf(Tree, key), key, r))
          /\ rec' = [k \in DOMAIN rec \ {r} |-> rec[k]]

\* The nodes under a node, itself included.
destroy_tree_nodes(T, a) ==
  LET RECURSIVE Under(_)
      Under(c) == {c} \cup IF T.node[c].is_leaf THEN {} ELSE UNION {Under(p) : p \in ToSet(T.node[c].pointers)}
  IN Under(a)

\* Every node and every record that the tree leads to is freed.
destroy_tree ==
  LET gone == destroy_tree_nodes(Tree, root)
      records == UNION {ToSet(node[a].pointers) : a \in {b \in gone : node[b].is_leaf}}
  IN /\ root # NIL
     /\ root' = NIL
     /\ node' = [a \in DOMAIN node \ gone |-> node[a]]
     /\ rec' = [k \in DOMAIN rec \ records |-> rec[k]]

Next == destroy_tree \/ \E key \in Keys : delete(key) \/ \E value \in Values : insert(key, value)

Spec == Init /\ [][Next]_vars

-----------------------------------------------------------------------------
(* What the program prints.                                                 *)

height(T) ==
  LET RECURSIVE Down(_)
      Down(c) == IF T.node[c].is_leaf THEN 0 ELSE 1 + Down(T.node[c].pointers[1])
  IN Down(T.root)

path_to_root(T, child) ==
  LET RECURSIVE Up(_)
      Up(c) == IF c = T.root THEN 0 ELSE 1 + Up(T.node[c].parent)
  IN Up(child)

\* The leaves in the order of the chain, from the leftmost one.
Chain(T, c) ==
  LET RECURSIVE Follow(_)
      Follow(a) == IF a = NIL THEN <<>> ELSE <<a>> \o Follow(T.node[a].last)
  IN Follow(c)

print_leaves(T) ==
  LET RECURSIVE Leftmost(_)
      Leftmost(c) == IF T.node[c].is_leaf THEN c ELSE Leftmost(T.node[c].pointers[1])
  IN IF T.root = NIL THEN <<>> ELSE FlattenSeq([i \in DOMAIN Chain(T, Leftmost(T.root)) |->
                                                  T.node[Chain(T, Leftmost(T.root))[i]].keys])

\* The lines of nodes that print_tree prints: the queue is served from the front, the children
\* go to its end, and a first child whose distance to the root has changed starts a new line.
print_tree(T) ==
  LET RECURSIVE Serve(_, _, _)
      Serve(queue, rank, lines) ==
        IF queue = <<>> THEN lines
        ELSE LET n == Head(queue)  N == T.node[n]
                 new_rank == IF N.parent # NIL /\ n = T.node[N.parent].pointers[1] THEN path_to_root(T, n) ELSE rank
                 out == IF new_rank # rank THEN Append(lines, <<n>>)
                        ELSE [lines EXCEPT ![Len(lines)] = Append(@, n)]
             IN Serve(Tail(queue) \o (IF N.is_leaf THEN <<>> ELSE N.pointers), new_rank, out)
  IN IF T.root = NIL THEN <<>> ELSE Serve(<<T.root>>, 0, <<<<>>>>)

\* The keys of find_range and find_and_print_range: from the leaf where key_start would be,
\* nothing at all if that leaf has no key from key_start on.
find_range(T, key_start, key_end) ==
  LET leaf == find_leaf(T, key_start)
      i == First(T.node[leaf].keys, LAMBDA k : k >= key_start)
      chain == Chain(T, leaf)
      Taken(j) == LET s == IF j = 1 THEN SubSeq(T.node[leaf].keys, i, Len(T.node[leaf].keys)) ELSE T.node[chain[j]].keys
                  IN SubSeq(s, 1, First(s, LAMBDA k : k > key_end) - 1)
  IN IF leaf = NIL THEN <<>>
     ELSE IF i > Len(T.node[leaf].keys) THEN <<>> ELSE FlattenSeq([j \in DOMAIN chain |-> Taken(j)])

-----------------------------------------------------------------------------
(* Properties.                                                              *)

\* The type of every variable.
TypeOK ==
  /\ root \in DOMAIN node \cup {NIL}
  /\ DOMAIN node \subseteq 1 .. MaxNodes
  /\ DOMAIN rec \subseteq Keys /\ \A k \in DOMAIN rec : rec[k] \in Values

Leaves == {a \in DOMAIN node : node[a].is_leaf}
Inner == DOMAIN node \ Leaves
Children(a) == IF a \in Leaves THEN {} ELSE ToSet(node[a].pointers)

\* The tree owns its memory: every node in use is the root or the child of exactly one node,
\* the one it names as its parent, and every record in use hangs from exactly one leaf.  So
\* no sequence of splits and merges leaks a node or leaves a pointer to a freed one.
OwnsItsMemory ==
  /\ root # NIL => node[root].parent = NIL
  /\ (root = NIL) = (DOMAIN node = {})
  /\ UNION {Children(a) : a \in Inner} = DOMAIN node \ {root}
  /\ \A a \in Inner : Cardinality(Children(a)) = Len(node[a].pointers) /\ \A c \in Children(a) : node[c].parent = a
  /\ UNION {ToSet(node[a].pointers) : a \in Leaves} = DOMAIN rec

\* bplus_tree.c:3-5: every node has at most order - 1 keys, every node but the root at least
\* the minimum, and an inner node one child more than keys.
Occupancy ==
  \A a \in DOMAIN node :
    LET n == node[a] IN
    /\ Len(n.keys) \in (IF a = root THEN 1 ELSE MinKeys(n.is_leaf)) .. order - 1
    /\ Len(n.pointers) = Len(n.keys) + (IF n.is_leaf THEN 0 ELSE 1)

\* All leaves are at the same depth, which is the height.
Balanced == \A a \in Leaves : path_to_root(Tree, a) = height(Tree)

\* s lists S in ascending order.
Lists(s, S) == ToSet(s) = S /\ \A i \in 1 .. Len(s) - 1 : s[i] < s[i + 1]

\* The leaf chain, the separators and the records agree: the chain from the leftmost leaf
\* yields every stored key once, in ascending order, and a search for it ends at its record.
SearchAndChainAgree ==
  /\ Lists(print_leaves(Tree), DOMAIN rec)
  /\ \A k \in Keys : find(Tree, k) = IF k \in DOMAIN rec THEN k ELSE NIL

\* The leaf of a key ends before it: the key falls between that leaf and the next.
EndsBefore(leaf, key) ==
  /\ leaf # NIL
  /\ \A k \in ToSet(node[leaf].keys) : k < key
  /\ \A k \in DOMAIN rec \ ToSet(node[leaf].keys) : k < Head(node[leaf].keys) \/ k > key

\* find_range answers completely and in order, except where the leaf of key_start ends before
\* it: there it answers nothing, whatever the next leaf holds (bplus_tree.c:270).  That never
\* happens at a stored key.
RangeAnswers ==
  \A lo, hi \in Keys :
    IF EndsBefore(find_leaf(Tree, lo), lo)
    THEN lo \notin DOMAIN rec /\ find_range(Tree, lo, hi) = <<>>
    ELSE Lists(find_range(Tree, lo, hi), DOMAIN rec \cap lo .. hi)

\* print_tree prints every node once, one line per depth and each line from left to right,
\* although it only looks at first children to see where a depth begins.
PrintsByLevel ==
  LET lines == print_tree(Tree) IN
  /\ Len(FlattenSeq(lines)) = Cardinality(DOMAIN node)
  /\ \A d \in DOMAIN lines :
       /\ ToSet(lines[d]) = {a \in DOMAIN node : path_to_root(Tree, a) = d - 1}
       /\ \A i, j \in DOMAIN lines[d] : i < j => Head(node[lines[d][i]].keys) < Head(node[lines[d][j]].keys)

\* The structure the header of bplus_tree.c promises survives every sequence of operations.
\* (That the chain of leaves is right is TraversalsAgree.)
TreeWellFormed == TypeOK /\ OwnsItsMemory /\ Occupancy /\ Balanced

\* Search, chain and levels give the same contents, and so does a range, up to the one it does
\* not answer.
TraversalsAgree == SearchAndChainAgree /\ RangeAnswers /\ PrintsByLevel

\* The pairs that the leaves hold.
Contents ==
  LET pairs == UNION {{<<node[a].keys[i], rec[node[a].pointers[i]]>> : i \in DOMAIN node[a].keys} : a \in Leaves}
  IN [k \in {p[1] : p \in pairs} |-> (CHOOSE p \in pairs : p[1] = k)[2]]

D == INSTANCE Dict WITH dict <- Contents

\* Whatever splits, merges and rotations an operation takes, it changes what the leaves hold
\* as the same operation changes a map: insert and delete touch their own key only.
ImplementsDict == D!Spec
=============================================================================
