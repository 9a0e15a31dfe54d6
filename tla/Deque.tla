-------------------------------- MODULE Deque -------------------------------
(***************************************************************************)
(* What the comments of lib/list.c promise: a sequence of values; which    *)
(* function grows it at which end, and which element a function takes away *)
(* and returns.                                                            *)
(***************************************************************************)
EXTENDS Sequences, Integers, SequencesExt

CONSTANTS Val, NoVal

VARIABLES q,     \* the values from front to back
          out,   \* what the last call returned
          did    \* the last call: the function, and the position it was given (from 0)

Init == q = <<>> /\ out = NoVal /\ did = [op |-> "create", at |-> 0]

Called(op, at) == did' = [op |-> op, at |-> at]

InsertFront(v) == Called("insert_front", 0) /\ q' = <<v>> \o q /\ out' = NoVal
InsertBack(v) == Called("insert_back", 0) /\ q' = Append(q, v) /\ out' = NoVal

\* The i-th element goes, and its value is returned.
Take(i) == i \in 1 .. Len(q) /\ q' = RemoveAt(q, i) /\ out' = q[i]

TakeFront == Called("remove_front", 0) /\ Take(1)
TakeBack == (Called("remove_back", 0) \/ Called("pop", 0)) /\ Take(Len(q))
TakeAt(i) == (Called("remove_node", i) \/ Called("remove_by_index", i)) /\ Take(i + 1)

\* At either end of an empty sequence.
NothingToTake ==
  /\ q = <<>> /\ UNCHANGED q /\ out' = NoVal
  /\ Called("remove_front", 0) \/ Called("remove_back", 0) \/ Called("pop", 0)

Destroy == Called("destroy", 0) /\ q' = <<>> /\ out' = NoVal

Next ==
  \/ \E v \in Val : InsertFront(v) \/ InsertBack(v)
  \/ TakeFront \/ TakeBack \/ \E i \in 0 .. Len(q) - 1 : TakeAt(i)
  \/ NothingToTake
  \/ Destroy

Spec == Init /\ [][Next]_<<q, out, did>>
=============================================================================
