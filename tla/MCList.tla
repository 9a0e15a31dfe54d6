------------------------------- MODULE MCList -------------------------------
(* Instances of List for TLC.                                               *)
EXTENDS List, TLC

\* Every function, by an owner that keeps an element in the list; and the functions of the
\* scheduler, which may remove the last process.
KeepOne == [ops |-> {"insert_front", "insert_back", "remove_front", "remove_back", "pop",
                     "remove_node", "remove_by_index", "destroy"},
            mayEmpty |-> {}]
SchedulerUse == [ops |-> {"insert_front", "remove_front", "remove_node", "destroy"},
                 mayEmpty |-> {"remove_front", "remove_node"}]
OwnerUses == {KeepOne, SchedulerUse}

\* Nodes are interchangeable.
NodeSymmetry == Permutations(Node)
=============================================================================
