----------------------------- MODULE RoundRobin -----------------------------
(***************************************************************************)
(* What the scheduler promises, without pointers, contexts or interrupts:  *)
(* the live processes form a ring; the processor is passed from each one   *)
(* to its successor; a new process enters at the front; one that exits     *)
(* leaves the ring and its successor runs.                                 *)
(***************************************************************************)
EXTENDS SequencesExt

CONSTANTS Proc, Nobody

VARIABLES
  ring,     \* the live processes, in list order
  running,  \* the one on the processor, Nobody before the first dispatch
  gone,     \* those that exited
  down      \* the machine stopped

vars == <<ring, running, gone, down>>

Init == ring = <<>> /\ running = Nobody /\ gone = {} /\ down = FALSE

Position(p) == CHOOSE i \in 1 .. Len(ring) : ring[i] = p
Successor(p) == IF Position(p) = Len(ring) THEN ring[1] ELSE ring[Position(p) + 1]

\* A process that was never in the ring enters at the front.
Admit(p) ==
  /\ ~down
  /\ p \notin Range(ring) \cup gone
  /\ ring' = <<p>> \o ring
  /\ UNCHANGED <<running, gone, down>>

\* The first dispatch.
Start ==
  /\ ~down /\ running = Nobody /\ ring # <<>>
  /\ running' = ring[1]
  /\ UNCHANGED <<ring, gone, down>>

Rotate ==
  /\ ~down /\ running # Nobody
  /\ running' = Successor(running)
  /\ UNCHANGED <<ring, gone, down>>

\* The running process exits; the processor stops with the last one.
Exit ==
  /\ ~down /\ running # Nobody
  /\ ring' = RemoveAt(ring, Position(running))
  /\ gone' = gone \cup {running}
  /\ IF Len(ring) = 1
       THEN down' = TRUE /\ UNCHANGED running
       ELSE running' = Successor(running) /\ UNCHANGED down

\* The machine stops on an error of the kernel or of a program, perhaps in an exit.
Fail ==
  /\ ~down
  /\ down' = TRUE
  /\ gone' = gone \/ (running # Nobody /\ gone' = gone \cup {running})
  /\ UNCHANGED <<ring, running>>

Next == (\E p \in Proc : Admit(p)) \/ Start \/ Rotate \/ Exit \/ Fail

Spec == Init /\ [][Next]_vars
=============================================================================
