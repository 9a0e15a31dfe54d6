------------------------ MODULE SchedulerRefinement ------------------------
(***************************************************************************)
(* Scheduler implements RoundRobin: the ring is what a walk along next     *)
(* finds from head.                                                        *)
(***************************************************************************)
EXTENDS Scheduler

\* The i-th node of the list, NULL past its end.  A walk longer than the number
\* of nodes is a cycle.
NodeAt[i \in Nat] ==
  IF i <= 1 THEN head ELSE IF NodeAt[i - 1] = NULL THEN NULL ELSE next[NodeAt[i - 1]]

ListLength ==
  Cardinality({i \in 1 .. Cardinality(Node) + 1 : NodeAt[i] # NULL})

\* The processes in list order.
Ring == [i \in 1 .. ListLength |-> val[NodeAt[i]]]

\* Instance of the abstract specification under the refinement mapping.
RR == INSTANCE RoundRobin WITH
        Proc <- Pcb, Nobody <- NULL,
        ring <- Ring,
        running <- IF cpu.own = Boot THEN NULL ELSE cpu.own,
        gone <- {p \in Pcb : state[p] = "zombie"},
        down <- ~Running

\* Every step of the pointer-level scheduler is a step of the ring: schedule()
\* dispatches the successor in list order, creation inserts at the front once,
\* exit removes exactly the exiting process.
ImplementsRoundRobin == RR!Spec

\* The size field, which schedule() asks before it looks at the list, counts the nodes a
\* walk from head meets, whichever end or middle a node was removed from; it lags by one
\* for an insertion that is, or was left, between list.c:54 and list.c:55.
SizeMatchesList ==
  Running => size = ListLength - Cardinality({c \in Contexts : c.eip = "size"})

\* list.c:41-43 says of list_insert_front "Insert a value at the front of list": a live
\* process whose insertion has returned is found by walking the list.
InsertedIsListed ==
  Running => \A p \in Live : self[p] # NULL => \E i \in 1 .. ListLength : Ring[i] = p
=============================================================================
