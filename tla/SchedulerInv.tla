---------------------------- MODULE SchedulerInv ----------------------------
(***************************************************************************)
(* The inductive invariant of Scheduler for programs that enter the kernel *)
(* through system calls only (DirectCallers = {}).  The boot code still    *)
(* creates the first process by an interruptible call.                     *)
(*                                                                         *)
(* The links alone do not say that the nodes form one chain: a separate    *)
(* cycle would satisfy them.  What excludes it, without an induction along *)
(* the chain, is the order: list_insert_front puts ever larger pids in     *)
(* front, so the list is sorted and next leads to the largest smaller pid. *)
(***************************************************************************)
EXTENDS Scheduler

SyscallsOnly == DirectCallers = {}

UserContext(p, c) == c.own = p /\ c.eip = "user" /\ c.p1 = NULL /\ c.t = NULL

PidInv == \A p \in Pcb : state[p] = "none" <=> curr_pid <= p

SuspendedInv ==
  \A p \in Pcb : suspended[p] = ZeroContext \/ UserContext(p, suspended[p])

\* A pcb that does not exist yet has no history.
FreshInv == \A p \in Pcb : state[p] = "none" => suspended[p] = ZeroContext

\* Each allocated node is the node of one live process, and conversely.
NodesAreProcesses ==
  /\ \A n \in alloc : val[n] \in Live /\ self[val[n]] = n
  /\ \A p \in Live : self[p] \in alloc /\ val[self[p]] = p

\* The list is in decreasing order of pid, from head to tail: next leads to the live
\* process with the largest smaller pid, and wraps only from the smallest one.
NextInPidOrder ==
  \A n \in alloc :
    IF next[n] = NULL THEN \A m \in alloc : val[n] <= val[m]
    ELSE /\ next[n] \in alloc /\ val[next[n]] < val[n]
         /\ \A m \in alloc : val[m] < val[n] => val[m] <= val[next[n]]

HeadIsLargest == head \in alloc /\ \A m \in alloc : val[m] <= val[head]

LinkedBack ==
  /\ \A n \in alloc : next[n] # NULL => prev[next[n]] = n
  /\ \A n \in alloc : IF prev[n] = NULL THEN n = head
                      ELSE prev[n] \in alloc /\ next[prev[n]] = n
  /\ prev[head] = NULL
  /\ tail \in alloc /\ next[tail] = NULL

SizeInv == IsFiniteSet(alloc) /\ size = Cardinality(alloc)

ListInv == NodesAreProcesses /\ NextInPidOrder /\ HeadIsLargest /\ LinkedBack /\ SizeInv

\* kmain before the first process is completely created: nobody else runs.
BootInv ==
  /\ cpu.own = Boot
  /\ cpu.eip # "user" /\ last = NULL
  /\ \A p \in Pcb : suspended[p] = ZeroContext
  /\ \A p \in Live : regs[p] = EntryContext(p)
  /\ cpu.eip = "start" => curr_pid = 0
  /\ cpu.eip # "start" => Live = {0}
  /\ cpu.eip \in {"start", "current"} => current = NULL
  /\ cpu.eip \notin {"start", "current"} => current = 0
  /\ cpu.eip \notin {"start", "loop"} => cpu.p1 = 0
  /\ cpu.eip # "loop" => self[0] = NULL
  /\ cpu.eip \in {"start", "current", "kcalloc"} => alloc = {}
  /\ cpu.eip \in {"prev", "next", "tail", "head", "size", "self"} =>
       alloc = {cpu.t} /\ cpu.t \in Node /\ prev[cpu.t] = NULL
  /\ cpu.eip \in {"tail", "head", "size", "self"} =>
       next[cpu.t] = NULL /\ val[cpu.t] = 0
  /\ cpu.eip \in {"head", "size", "self"} => tail = cpu.t
  /\ cpu.eip \in {"size", "self"} => head = cpu.t
  /\ cpu.eip \notin {"size", "self", "loop"} => head = NULL
  /\ cpu.eip \notin {"self", "loop"} => size = 0
  /\ cpu.eip = "self" => size = 1
  /\ cpu.eip = "loop" => ListInv

\* A process is on the processor.
UserInv ==
  /\ UserContext(cpu.own, cpu)
  /\ cpu.own = current /\ last = current /\ current \in Live
  /\ \A p \in Live \ {current} :
       regs[p] = IF suspended[p].own = NULL THEN EntryContext(p) ELSE suspended[p]
  /\ ListInv

HaltInv ==
  /\ halted = "panic" => Live = {}
  /\ halted = "null" => cpu.own = Boot /\ cpu.eip = "self" /\ cpu.p1 = 0 /\ current = 0

IInv ==
  /\ TypeOK /\ PidInv /\ SuspendedInv /\ FreshInv /\ HaltInv
  /\ Running => BootInv \/ UserInv

=============================================================================
