-------------------------------- MODULE Dict --------------------------------
(***************************************************************************)
(* What the B+ tree of sample/data_structure promises: a finite map with   *)
(* upsert, removal of a key that may be absent, and removal of everything. *)
(***************************************************************************)
CONSTANTS Keys, Values
VARIABLE dict

Init == dict = [k \in {} |-> k]

insert(k, v) == dict' = [j \in DOMAIN dict \cup {k} |-> IF j = k THEN v ELSE dict[j]]
delete(k) == dict' = [j \in DOMAIN dict \ {k} |-> dict[j]]
destroy == dict' = [k \in {} |-> k]

Next == destroy \/ \E k \in Keys : delete(k) \/ \E v \in Values : insert(k, v)

Spec == Init /\ [][Next]_dict
=============================================================================
