-------------------------------- MODULE List --------------------------------
(***************************************************************************)
(* The doubly linked list of lib/list.c, pointer by pointer.  Nodes live in*)
(* the kernel heap: kcalloc returns a zeroed node that is not in use,      *)
(* possibly one that was freed before; kfree leaves the contents in place. *)
(*                                                                         *)
(* A use is an owner's habit: the functions it calls (ops), and those among*)
(* them that it also calls on a list of one element (mayEmpty).            *)
(***************************************************************************)
EXTENDS Integers, FiniteSets, Sequences

CONSTANTS Node, NULL, Val, NoVal, Uses

ASSUME ListAssumption ==
  /\ IsFiniteSet(Node) /\ NULL \notin Node /\ NoVal \notin Val
  /\ \A u \in Uses : u.mayEmpty \subseteq u.ops

VARIABLES
  prev, next, val,      \* the fields of the nodes, freed ones too
  live,                 \* nodes that are allocated
  head, tail, size,     \* the list
  popped,               \* nodes list_pop gave to its caller
  out,                  \* what the last call returned
  did,                  \* history: the last call, and the position of the node it was given
  use,                  \* the owner's use of the list, which does not change
  state                 \* "ok", "destroyed", or "crashed" after a null pointer is followed

fields == <<prev, next, val>>
ends == <<head, tail, size>>
vars == <<fields, live, ends, popped, out, did, use, state>>

Ptr == Node \cup {NULL}

\* list_create.
Init ==
  /\ prev = [n \in Node |-> NULL] /\ next = [n \in Node |-> NULL] /\ val = [n \in Node |-> NoVal]
  /\ live = {} /\ head = NULL /\ tail = NULL /\ size = 0
  /\ popped = {} /\ out = NoVal /\ state = "ok" /\ use \in Uses
  /\ did = [op |-> "create", at |-> 0]

\* A call of a function, on the node at a position where the function needs one.
Calls == [op : {"create", "insert_front", "insert_back", "remove_front", "remove_back", "pop",
                "remove_node", "remove_by_index", "destroy"},
          at : Nat]

Call(op, at) == state = "ok" /\ op \in use.ops /\ did' = [op |-> op, at |-> at]

\* A removal that leaves the list without elements is one its owner may ask for.
Emptying(op) == size <= 1 => op \in use.mayEmpty

\* A store through a pointer; through the null pointer it changes no node.
Store(f, p, x) == [n \in Node |-> IF n = p THEN x ELSE f[n]]

\* A zeroed node at t with the given links and value.
New(t, p, n, v) ==
  /\ live' = live \cup {t}
  /\ prev' = Store(Store(prev, t, p), n, t)
  /\ next' = Store(Store(next, t, n), p, t)
  /\ val' = [val EXCEPT ![t] = v]

\* Mutant of list_insert_front: the old head is not linked back.
list_insert_front_OneWay(v) ==
  /\ Call("insert_front", 0)
  /\ \E t \in Node \ live :
       /\ live' = live \cup {t}
       /\ prev' = [prev EXCEPT ![t] = NULL]
       /\ next' = [next EXCEPT ![t] = head]
       /\ val' = [val EXCEPT ![t] = v]
       /\ tail' = IF head = NULL THEN t ELSE tail
       /\ head' = t
  /\ size' = size + 1
  /\ out' = NoVal
  /\ UNCHANGED <<popped, state>>

\* With no head, the store to head->prev goes to address 0, where no node is.
list_insert_front(v) ==
  /\ Call("insert_front", 0)
  /\ \E t \in Node \ live :
       /\ New(t, NULL, head, v)
       /\ tail' = IF head = NULL THEN t ELSE tail
       /\ head' = t
  /\ size' = size + 1
  /\ out' = NoVal
  /\ UNCHANGED <<popped, state>>

list_insert_back(v) ==
  /\ Call("insert_back", 0)
  /\ \E t \in Node \ live :
       /\ New(t, tail, NULL, v)
       /\ head' = IF head = NULL THEN t ELSE head
       /\ tail' = t
  /\ size' = size + 1
  /\ out' = NoVal
  /\ UNCHANGED <<popped, state>>

\* A null pointer is followed: what it reads at address 0 is undetermined.
Crash == state' = "crashed" /\ UNCHANGED <<fields, live, ends, popped, out>>

Nothing == out' = NoVal /\ UNCHANGED <<fields, live, ends, popped, state>>

TakeFront ==
  /\ head' = next[head]
  /\ prev' = Store(prev, head', NULL)
  /\ live' = live \ {head}
  /\ size' = size - 1
  /\ out' = val[head]
  /\ UNCHANGED <<next, val, tail, popped, state>>

\* Mutant: the new tail keeps its link to the freed node.
TakeBack_NoUnlink ==
  /\ tail' = prev[tail]
  /\ live' = live \ {tail}
  /\ size' = size - 1
  /\ out' = val[tail]
  /\ UNCHANGED <<prev, next, val, head, popped, state>>

\* The tail is detached; it is freed, or given to the caller.
Detach ==
  /\ tail' = prev[tail]
  /\ next' = Store(next, tail', NULL)
  /\ size' = size - 1
  /\ out' = val[tail]
  /\ UNCHANGED <<prev, val, head, state>>

TakeBack == Detach /\ live' = live \ {tail} /\ UNCHANGED popped

\* Mutant: list_pop takes the other end.
Pop_Front ==
  /\ head' = next[head]
  /\ prev' = Store(prev, head', NULL)
  /\ size' = size - 1
  /\ out' = val[head]
  /\ popped' = popped \cup {head}
  /\ UNCHANGED <<next, val, tail, live, state>>

Pop == Detach /\ popped' = popped \cup {tail} /\ UNCHANGED live

TakeMiddle(node) ==
  /\ prev' = Store(prev, next[node], prev[node])
  /\ next' = Store(next, prev[node], next[node])
  /\ live' = live \ {node}
  /\ size' = size - 1
  /\ out' = val[node]
  /\ UNCHANGED <<val, head, tail, popped, state>>

list_remove_front == Call("remove_front", 0) /\ Emptying("remove_front") /\ (IF head = NULL THEN Nothing ELSE TakeFront)

\* Remove by the tail: nothing without a head, a null pointer without a tail.
FromTail(take) == IF head = NULL THEN Nothing ELSE IF tail = NULL THEN Crash ELSE take

list_remove_back == Call("remove_back", 0) /\ Emptying("remove_back") /\ FromTail(TakeBack)

\* list_pop and list_dequeue.
list_pop == Call("pop", 0) /\ Emptying("pop") /\ FromTail(Pop)

\* The caller of list_pop is done with the node.
listnode_destroy(n) ==
  /\ n \in popped
  /\ popped' = popped \ {n} /\ live' = live \ {n}
  /\ UNCHANGED <<fields, ends, out, did, state>>

\* The node a traversal from the head meets after i steps.
NodeAt[i \in Nat] ==
  IF i = 0 THEN head ELSE LET p == NodeAt[i - 1] IN IF p = NULL THEN NULL ELSE next[p]

RemoveNode(node) ==
  IF head = node THEN (IF head = NULL THEN Nothing ELSE TakeFront)
  ELSE IF node = NULL THEN Crash
  ELSE IF tail = node THEN TakeBack
  ELSE TakeMiddle(node)

\* The owner removes a node that is in the list (process_list: current_process->self).
list_remove_node ==
  /\ Emptying("remove_node")
  /\ \E i \in 0 .. size - 1 : Call("remove_node", i) /\ NodeAt[i] # NULL /\ RemoveNode(NodeAt[i])

list_get_node_by_index(i) == IF i >= size THEN NULL ELSE NodeAt[i]

\* The owner removes by an index below the length.
list_remove_by_index ==
  /\ Emptying("remove_by_index")
  /\ \E i \in 0 .. size - 1 : Call("remove_by_index", i) /\ RemoveNode(list_get_node_by_index(i))

\* The nodes, then the list: a traversal that saves each node before it reads its next.
list_destroy ==
  /\ Call("destroy", 0)
  /\ live' = live \ {NodeAt[i] : i \in 0 .. Cardinality(Node)}
  /\ state' = "destroyed" /\ out' = NoVal
  /\ UNCHANGED <<fields, ends, popped>>

Next ==
  /\ \/ \E v \in Val : list_insert_front(v) \/ list_insert_back(v)
     \/ list_remove_front \/ list_remove_back \/ list_pop
     \/ list_remove_node \/ list_remove_by_index \/ list_destroy
     \/ \E n \in Node : listnode_destroy(n)
  /\ UNCHANGED use

Spec == Init /\ [][Next]_vars

-----------------------------------------------------------------------------
(* Properties.                                                              *)

\* The type of every variable.
TypeOK ==
  /\ prev \in [Node -> Ptr] /\ next \in [Node -> Ptr] /\ val \in [Node -> Val \cup {NoVal}]
  /\ live \subseteq Node /\ popped \subseteq Node
  /\ head \in Ptr /\ tail \in Ptr /\ size \in Int
  /\ out \in Val \cup {NoVal} /\ did \in Calls
  /\ state \in {"ok", "destroyed", "crashed"} /\ use \in Uses

\* The number of nodes from the head to the null pointer.
Length == CHOOSE n \in 0 .. Cardinality(Node) + 1 :
            /\ NodeAt[n] = NULL \/ n = Cardinality(Node) + 1
            /\ \A i \in 0 .. n - 1 : NodeAt[i] # NULL

Chain == {NodeAt[i] : i \in 0 .. Length - 1}

\* Whatever functions the owner calls in whatever order, the traversal from the head visits
\* size distinct nodes, each linked back to the one before, and ends at the tail.
WellFormed ==
  state = "ok" =>
    /\ Length = size /\ Cardinality(Chain) = size
    /\ size > 0 => prev[head] = NULL /\ tail = NodeAt[size - 1]
    /\ \A i \in 1 .. size - 1 : prev[NodeAt[i]] = NodeAt[i - 1]

\* No node is used after it was freed and none is lost: what is allocated is what the list
\* and the callers of list_pop hold.
NoDangling == live = popped \cup (IF state = "ok" THEN Chain ELSE {})

\* The values in the list, from the front.
Values == IF state = "destroyed" THEN <<>> ELSE [i \in 1 .. Length |-> val[NodeAt[i - 1]]]

Abstract == INSTANCE Deque WITH q <- Values

\* The functions do what their comments say (list.c:24-138, 183-186): seen through the values
\* in order from the front, each inserts at its end, or takes and returns the element at its
\* end or at the position it was given.
ImplementsDeque == Abstract!Spec
=============================================================================
