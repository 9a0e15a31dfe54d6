-------------------------- MODULE SchedulerProofs --------------------------
(***************************************************************************)
(* Proofs about Scheduler, for every number of processes and nodes, every  *)
(* period of the timer and every width of jiffies.                         *)
(***************************************************************************)
EXTENDS SchedulerInv, SchedulerRefinement, FiniteSetTheorems, SequenceTheorems, FunctionTheorems,
        NatLemmas, TLAPS

-----------------------------------------------------------------------------
(* Type correctness.                                                        *)

\* schedule() keeps the types, whatever pcb states st it runs with.
LEMMA ScheduleType ==
  ASSUME TypeOK, NEW st, saved' \in Context, schedule(st)
  PROVE  /\ cpu' \in Context /\ inService' \in BOOLEAN
         /\ current' \in Pcb \cup {NULL} /\ last' \in Pcb \cup {NULL}
         /\ regs' \in [Pcb -> Context]
         /\ head' \in Node \cup {NULL} /\ tail' \in Node \cup {NULL} /\ size' \in Int
         /\ next' \in [Node -> Node \cup {NULL}] /\ prev' \in [Node -> Node \cup {NULL}]
         /\ val' \in [Node -> Pcb \cup {NULL}]
         /\ alloc' \subseteq Node
         /\ halted' \in {"no", "panic", "null", "call0", "stack"}
<1> USE SchedulerAssumption
<1>1. CASE size = 0 \/ (current # NULL /\ self[current] = NULL)
  BY <1>1 DEF TypeOK, schedule, listVars, ack_irq, context_switch
<1>2. CASE size # 0 /\ (current # NULL => self[current] # NULL)
  <2>1. /\ head' \in Node \cup {NULL} /\ tail' \in Node \cup {NULL} /\ size' \in Int
        /\ next' \in [Node -> Node \cup {NULL}] /\ prev' \in [Node -> Node \cup {NULL}]
        /\ val' \in [Node -> Pcb \cup {NULL}]
        /\ alloc' \subseteq Node
    BY <1>2 DEF TypeOK, schedule, listVars, list_remove_node, list_remove_front,
                list_remove_back, list_remove_middle
  <2>2. current' = Choice(head')
    BY <1>2 DEF schedule
  <2>3. current' \in Pcb \cup {NULL}
    BY <1>2, <2>1, <2>2 DEF TypeOK, Choice, list_peek_front
  <2>4. LastToSave(st) \in Pcb \cup {NULL}
    BY DEF TypeOK, LastToSave
  <2>5. SavedRegs(LastToSave(st), saved') \in [Pcb -> Context]
    BY <2>4 DEF TypeOK, SavedRegs
  <2>6. CASE current' = NULL
    <3>1. /\ halted' = "panic" /\ last' = LastToSave(st) /\ inService' = ack_irq(inService)
          /\ cpu' = cpu /\ regs' = regs
      BY <1>2, <2>6 DEF schedule
    <3> QED
      BY <2>1, <2>4, <2>6, <3>1 DEF TypeOK, ack_irq
  <2>7. CASE current' # NULL
    <3>1. context_switch(LastToSave(st), current') /\ halted' = halted
      BY <1>2, <2>7 DEF schedule
    <3> QED
      BY <2>1, <2>3, <2>5, <2>7, <3>1 DEF TypeOK, ack_irq, context_switch
  <2> QED
    BY <2>6, <2>7
<1> QED
  BY <1>1, <1>2 DEF schedule

\* A handler stores a context and nothing else.
LEMMA EnterHandlerType ==
  ASSUME TypeOK, EnterHandler
  PROVE  saved' \in Context /\ suspended' \in [Pcb -> Context]
<1>1. Interrupted(cpu) \in Context
  BY DEF TypeOK, Interrupted, Context
<1> QED
  BY <1>1 DEF TypeOK, EnterHandler

\* A handler costs neither kmain nor a process in user code anything.
LEMMA NothingLost ==
  ASSUME NEW c \in Context, c.own \in Pcb => UserContext(c.own, c)
  PROVE  Interrupted(c) = c
BY DEF Interrupted, UserContext, Context

\* So saved_context is the interrupted context.
LEMMA HandlerSaves ==
  ASSUME TypeOK, BootInv \/ UserInv, EnterHandler
  PROVE  saved' = cpu
<1>1. cpu \in Context /\ (cpu.own \in Pcb => UserContext(cpu.own, cpu))
  BY SchedulerAssumption DEF TypeOK, BootInv, UserInv
<1> QED
  BY <1>1, NothingLost DEF EnterHandler

\* Contexts that the actions build.
LEMMA ContextType ==
  /\ \A p \in Pcb \cup {Boot, NULL} : EntryContext(p) \in Context
  /\ \A c \in Context : Advance(c) \in Context
  /\ BootContext \in Context
BY SchedulerAssumption DEF Context, EntryContext, Advance, BootContext, Eip

\* The type invariant is inductive on its own.
LEMMA TypeStep == TypeOK /\ [Next]_vars => TypeOK'
<1> SUFFICES ASSUME TypeOK, [Next]_vars PROVE TypeOK'
  OBVIOUS
<1> USE SchedulerAssumption
<1>1. CASE Tick
  <2>1. saved' \in Context /\ suspended' \in [Pcb -> Context]
    BY <1>1, EnterHandlerType DEF Tick
  <2>2. jiffies' \in 0 .. JiffyModulus - 1
    BY <1>1 DEF Tick, TypeOK
  <2>3. CASE ScheduleDue
    <3>1. schedule(state)
      BY <1>1, <2>3 DEF Tick
    <3> QED
      BY <1>1, <2>1, <2>2, <3>1, ScheduleType DEF Tick, TypeOK
  <2>4. CASE ~ScheduleDue
    BY <1>1, <2>1, <2>2, <2>4 DEF Tick, TypeOK, ack_irq, listVars
  <2> QED
    BY <2>3, <2>4
<1>2. ASSUME NEW eax \in SysNums, Syscall(eax) PROVE TypeOK'
  <2>1. CASE SyscallUnknown(eax)
    BY <2>1 DEF SyscallUnknown, TypeOK, vars
  <2>2. CASE SyscallNull(eax)
    BY <2>2, EnterHandlerType DEF SyscallNull, TypeOK, pcbVars, listVars
  <2>3. CASE SyscallSchedule(eax)
    BY <2>3, EnterHandlerType, ScheduleType DEF SyscallSchedule, TypeOK
  <2>4. CASE SyscallPrintf(eax)
    BY <2>4, EnterHandlerType, ContextType DEF SyscallPrintf, TypeOK, pcbVars, listVars
  <2>5. CASE SyscallCreate(eax)
    <3>1. curr_pid \in Pcb /\ curr_pid' \in 0 .. MaxProcs
      BY <2>5 DEF SyscallCreate, TypeOK, allocate_pid, Pcb
    <3>2. PICK t \in Node \ alloc : list_insert_front(t, curr_pid)
                                    /\ self' = [self EXCEPT ![curr_pid] = t]
      BY <2>5 DEF SyscallCreate
    <3>3. /\ head' \in Node \cup {NULL} /\ tail' \in Node \cup {NULL} /\ size' \in Int
          /\ next' \in [Node -> Node \cup {NULL}] /\ prev' \in [Node -> Node \cup {NULL}]
          /\ val' \in [Node -> Pcb \cup {NULL}] /\ alloc' \subseteq Node
          /\ self' \in [Pcb -> Node \cup {NULL}]
      BY <3>1, <3>2 DEF list_insert_front, TypeOK
    <3> QED
      BY <2>5, <3>1, <3>3, EnterHandlerType, ContextType DEF SyscallCreate, TypeOK
  <2>6. CASE SyscallExit(eax)
    <3>1. state' \in [Pcb -> {"none", "created", "zombie"}]
      BY <2>6 DEF SyscallExit, TypeOK
    <3> QED
      BY <2>6, <3>1, EnterHandlerType, ScheduleType DEF SyscallExit, TypeOK
  <2> QED
    BY <1>2, <2>1, <2>2, <2>3, <2>4, <2>5, <2>6 DEF Syscall
<1>3. CASE CreatePcb
  <2>1. curr_pid \in Pcb /\ curr_pid' \in 0 .. MaxProcs
    BY <1>3 DEF CreatePcb, TypeOK, allocate_pid, Pcb
  <2>2. cpu' \in Context
    BY <1>3, <2>1 DEF CreatePcb, TypeOK, Context, Eip, CreateStages
  <2> QED
    BY <1>3, <2>1, <2>2, ContextType DEF CreatePcb, TypeOK, InterruptState, listVars
<1>4. CASE CreateCurrent
  BY <1>4 DEF CreateCurrent, GoTo, TypeOK, Context, Eip, CreateStages, InterruptState,
              pcbVars, listVars
<1>5. CASE InsertKcalloc
  <2>1. PICK t \in Node \ alloc :
          /\ alloc' = alloc \cup {t}
          /\ next' = [next EXCEPT ![t] = NULL]
          /\ prev' = [prev EXCEPT ![t] = NULL]
          /\ val' = [val EXCEPT ![t] = NULL]
          /\ cpu' = [cpu EXCEPT !.eip = "prev", !.t = t]
    BY <1>5 DEF InsertKcalloc
  <2>2. cpu' \in Context
    BY <2>1 DEF TypeOK, Context, Eip, CreateStages
  <2> QED
    BY <1>5, <2>1, <2>2 DEF InsertKcalloc, TypeOK, InterruptState, pcbVars
<1>6. CASE InsertPrev \/ InsertNext \/ InsertTail \/ InsertHead \/ InsertSize
  <2>1. cpu.t \in Node \cup {NULL} /\ cpu.p1 \in Pcb \cup {NULL}
    BY DEF TypeOK, Context
  <2>2. cpu' \in Context
    BY <1>6 DEF InsertPrev, InsertNext, InsertTail, InsertHead, InsertSize, GoTo, TypeOK,
                Context, Eip, CreateStages
  <2> QED
    BY <1>6, <2>1, <2>2 DEF InsertPrev, InsertNext, InsertTail, InsertHead, InsertSize,
         TypeOK, InterruptState, pcbVars
<1>7. CASE CreateSelf
  <2>1. cpu.t \in Node \cup {NULL} /\ cpu.p1 \in Pcb \cup {NULL}
    BY DEF TypeOK, Context
  <2>2. cpu' \in Context
    BY <1>7 DEF CreateSelf, TypeOK, Context, Eip
  <2> QED
    BY <1>7, <2>1, <2>2 DEF CreateSelf, TypeOK, InterruptState, listVars
<1>8. CASE Work
  BY <1>8, ContextType DEF Work, TypeOK, InterruptState, pcbVars, listVars
<1>9. CASE UNCHANGED vars
  BY <1>9 DEF vars, TypeOK
<1>10. CASE StackLost
  BY <1>10 DEF StackLost, TypeOK, pcbVars, listVars
<1> QED
  BY <1>1, <1>2, <1>3, <1>4, <1>5, <1>6, <1>7, <1>8, <1>9, <1>10 DEF Next, CreateStep

\* The initial state has the right types.
LEMMA InitType == Init => TypeOK
<1>1. ZeroContext \in Context
  BY ContextType DEF ZeroContext
<1>2. 0 \in 0 .. JiffyModulus - 1 /\ 0 \in 0 .. MaxProcs
  BY SchedulerAssumption
<1>3. BootContext \in Context
  BY ContextType
<1> SUFFICES ASSUME Init PROVE TypeOK
  OBVIOUS
<1>4. /\ regs \in [Pcb -> Context] /\ suspended \in [Pcb -> Context]
      /\ state \in [Pcb -> {"none", "created", "zombie"}]
      /\ self \in [Pcb -> Node \cup {NULL}]
      /\ next \in [Node -> Node \cup {NULL}] /\ prev \in [Node -> Node \cup {NULL}]
      /\ val \in [Node -> Pcb \cup {NULL}]
  BY <1>1 DEF Init
<1>5. inService \in BOOLEAN
  BY DEF Init
<1>6. /\ cpu \in Context /\ saved \in Context
      /\ jiffies \in 0 .. JiffyModulus - 1 /\ curr_pid \in 0 .. MaxProcs
      /\ size \in Int
  BY <1>1, <1>2, <1>3 DEF Init
<1> QED
  BY <1>4, <1>5, <1>6 DEF Init, TypeOK

\* Every variable keeps its type in every behaviour of the scheduler.
THEOREM TypeCorrect == Spec => []TypeOK
BY InitType, TypeStep, PTL DEF Spec

-----------------------------------------------------------------------------
(* The list.                                                                *)

\* Two nodes of the same process are the same node.
LEMMA NodeOfProcess ==
  ASSUME NodesAreProcesses, NEW m \in alloc, NEW n \in alloc, val[m] = val[n]
  PROVE  m = n
BY DEF NodesAreProcesses

\* The node with no successor is the tail.
LEMMA LastIsTail ==
  ASSUME TypeOK, ListInv, NEW n \in alloc, next[n] = NULL
  PROVE  n = tail
<1>1. tail \in alloc /\ next[tail] = NULL
  BY DEF ListInv, LinkedBack
<1>2. val[n] <= val[tail] /\ val[tail] <= val[n]
  BY <1>1 DEF ListInv, NextInPidOrder
<1>3. val[n] \in Int /\ val[tail] \in Int
  BY <1>1, SchedulerAssumption DEF ListInv, NodesAreProcesses, Live, Pcb
<1>4. val[n] = val[tail]
  BY <1>2, <1>3
<1> QED
  BY <1>1, <1>4, NodeOfProcess DEF ListInv

\* list_insert_front of the process just created keeps the list.
LEMMA InsertKeepsList ==
  ASSUME TypeOK, PidInv, ListInv, curr_pid \in Pcb,
         NEW t \in Node \ alloc,
         list_insert_front(t, curr_pid),
         self' = [self EXCEPT ![curr_pid] = t],
         state' = [state EXCEPT ![curr_pid] = "created"]
  PROVE  ListInv'
<1> USE SchedulerAssumption
<1>1. Live' = Live \cup {curr_pid} /\ curr_pid \notin Live
  BY DEF Live, TypeOK, PidInv
<1>2. \A p \in Live : p \in Int /\ p < curr_pid
  BY DEF Live, TypeOK, PidInv, Pcb
<1>3. alloc' = alloc \cup {t} /\ head' = t /\ head \in alloc /\ head # NULL /\ t # head /\ tail' = tail
  BY DEF list_insert_front, ListInv, HeadIsLargest, TypeOK
<1>4. /\ \A n \in alloc : val'[n] = val[n] /\ next'[n] = next[n]
      /\ val'[t] = curr_pid /\ next'[t] = head /\ prev'[t] = NULL /\ prev'[head] = t
      /\ \A n \in alloc \ {head} : prev'[n] = prev[n]
  BY <1>3 DEF list_insert_front, TypeOK
<1>5. NodesAreProcesses'
  BY <1>1, <1>2, <1>3, <1>4 DEF ListInv, NodesAreProcesses, TypeOK, Live
<1>6. \A n \in alloc : val[n] \in Int /\ val[n] < curr_pid
  BY <1>2 DEF ListInv, NodesAreProcesses
<1>7. NextInPidOrder'
  <2>1. \A n \in alloc : next[n] # NULL => next[n] \in alloc
    BY DEF ListInv, NextInPidOrder
  <2>2. curr_pid \in Int
    BY DEF Pcb
  <2>3. ASSUME NEW n \in alloc
        PROVE  IF next'[n] = NULL THEN \A m \in alloc' : val'[n] <= val'[m]
               ELSE /\ next'[n] \in alloc' /\ val'[next'[n]] < val'[n]
                    /\ \A m \in alloc' : val'[m] < val'[n] => val'[m] <= val'[next'[n]]
    BY <1>3, <1>4, <1>6, <2>1, <2>2 DEF ListInv, NextInPidOrder
  <2>4. /\ head \in alloc' /\ val'[head] < val'[t]
        /\ \A m \in alloc' : val'[m] < val'[t] => val'[m] <= val'[head]
    BY <1>3, <1>4, <1>6, <2>2 DEF ListInv, HeadIsLargest
  <2> QED
    BY <1>3, <1>4, <2>3, <2>4 DEF NextInPidOrder
<1>8. HeadIsLargest'
  BY <1>3, <1>4, <1>6 DEF ListInv, HeadIsLargest, Pcb
<1>9. LinkedBack'
  <2>1. \A n \in alloc : next[n] # NULL => next[n] \in alloc /\ prev[next[n]] = n
    BY DEF ListInv, NextInPidOrder, LinkedBack
  <2>2. prev[head] = NULL
    BY DEF ListInv, LinkedBack
  <2>3. NULL \notin alloc
    BY DEF TypeOK
  <2>4. \A n \in alloc' : next'[n] # NULL => prev'[next'[n]] = n
    BY <1>3, <1>4, <2>1, <2>2, <2>3
  <2>5. \A n \in alloc' : IF prev'[n] = NULL THEN n = head'
                          ELSE prev'[n] \in alloc' /\ next'[prev'[n]] = n
    BY <1>3, <1>4, <2>3 DEF ListInv, LinkedBack
  <2>6. tail' \in alloc' /\ next'[tail'] = NULL
    BY <1>3, <1>4 DEF ListInv, LinkedBack
  <2> QED
    BY <1>3, <1>4, <2>4, <2>5, <2>6 DEF LinkedBack
<1>10. SizeInv'
  <2>1. size' = size + 1 /\ t \notin alloc
    BY DEF list_insert_front
  <2> QED
    BY <1>3, <2>1, FS_AddElement DEF ListInv, SizeInv
<1> QED
  BY <1>5, <1>7, <1>8, <1>9, <1>10 DEF ListInv

\* Unlinking the node of the exiting process keeps the list, or empties it.
LEMMA RemoveKeepsList ==
  ASSUME TypeOK, ListInv, NEW p \in Live,
         list_remove_node(self[p]), self' = self,
         state' = [state EXCEPT ![p] = "zombie"]
  PROVE  /\ Live' = Live \ {p}
         /\ alloc' = alloc \ {self[p]}
         /\ alloc' = {} => head' = NULL /\ next[self[p]] = NULL
         /\ alloc' # {} => ListInv'
<1> USE SchedulerAssumption
<1> DEFINE n == self[p]
<1>1. n \in alloc /\ n \in Node /\ val[n] = p
  BY DEF ListInv, NodesAreProcesses, TypeOK
<1>2. Live' = Live \ {p}
  BY DEF Live, TypeOK
<1>3. alloc' = alloc \ {n} /\ val' = val /\ size' = size - 1
  BY DEF list_remove_node
<1>4. NULL \notin alloc /\ alloc \subseteq Node
  BY DEF TypeOK
<1>5. \A m \in alloc : val[m] \in Int
  BY DEF ListInv, NodesAreProcesses, Live, Pcb
<1>6. \A m \in alloc' : m \in alloc /\ m # n /\ val[m] # val[n]
  BY <1>1, <1>3, NodeOfProcess DEF ListInv
<1>7. NodesAreProcesses'
  BY <1>1, <1>2, <1>3, <1>6 DEF ListInv, NodesAreProcesses
<1>8. \A m \in alloc : next[m] # NULL =>
        /\ next[m] \in alloc /\ next[m] # m /\ prev[next[m]] = m /\ val[next[m]] < val[m]
        /\ \A k \in alloc : val[k] < val[m] => val[k] <= val[next[m]]
  BY <1>5 DEF ListInv, NextInPidOrder, LinkedBack
<1>9. \A m \in alloc : next[m] = NULL => \A k \in alloc : val[m] <= val[k]
  BY DEF ListInv, NextInPidOrder
<1>10. /\ head \in alloc /\ prev[head] = NULL /\ tail \in alloc /\ next[tail] = NULL
       /\ \A m \in alloc : val[m] <= val[head]
  BY DEF ListInv, HeadIsLargest, LinkedBack
<1>11. \A m \in alloc : IF prev[m] = NULL THEN m = head
                        ELSE prev[m] \in alloc /\ next[prev[m]] = m
  BY DEF ListInv, LinkedBack
<1>12. SizeInv'
  BY <1>1, <1>3, FS_RemoveElement DEF ListInv, SizeInv
<1>13. CASE list_remove_front(n)
  <2>1. head = n /\ head' = next[n] /\ tail' = tail /\ next' = next
    BY <1>13 DEF list_remove_front
  <2>2. CASE next[n] = NULL
    <3>1. \A m \in alloc : m = n
      <4> SUFFICES ASSUME NEW m \in alloc PROVE m = n
        OBVIOUS
      <4>1. val[m] = val[n]
        BY <1>1, <1>5, <1>9, <1>10, <2>1, <2>2
      <4> QED
        BY <1>1, <4>1, NodeOfProcess DEF ListInv
    <3>2. alloc' = {} /\ head' = NULL
      BY <1>3, <2>1, <2>2, <3>1
    <3> QED
      BY <1>2, <1>3, <2>2, <3>2
  <2>3. CASE next[n] # NULL
    <3>1. head' \in alloc' /\ prev' = [prev EXCEPT ![head'] = NULL]
      BY <1>1, <1>3, <1>8, <1>13, <2>1, <2>3 DEF list_remove_front
    <3>2. HeadIsLargest'
      <4>1. \A m \in alloc' : val[m] < val[n]
        BY <1>1, <1>5, <1>6, <1>10, <2>1
      <4> QED
        BY <1>1, <1>3, <1>6, <1>8, <2>1, <2>3, <3>1, <4>1 DEF HeadIsLargest
    <3>3. \A m \in alloc' : next[m] # n
      BY <1>1, <1>4, <1>6, <1>8, <1>10, <2>1
    <3>4. NextInPidOrder'
      BY <1>3, <1>4, <1>6, <1>8, <1>9, <2>1, <3>3 DEF NextInPidOrder
    <3>5. \A m \in alloc : m # head' => prev'[m] = prev[m]
      BY <1>4, <3>1 DEF TypeOK
    <3>6. prev'[head'] = NULL
      BY <1>3, <1>4, <3>1 DEF TypeOK
    <3>7. \A m \in alloc' : next'[m] # NULL => prev'[next'[m]] = m
      BY <1>1, <1>6, <1>8, <2>1, <2>3, <3>5
    <3>8. \A m \in alloc' : IF prev'[m] = NULL THEN m = head'
                            ELSE prev'[m] \in alloc' /\ next'[prev'[m]] = m
      <4> SUFFICES ASSUME NEW m \in alloc', m # head'
                   PROVE  prev'[m] # NULL /\ prev'[m] \in alloc' /\ next'[prev'[m]] = m
        BY <3>6
      <4> QED
        BY <1>1, <1>3, <1>4, <1>6, <1>11, <2>1, <3>5
    <3>9. tail' \in alloc' /\ next'[tail'] = NULL
      BY <1>3, <1>10, <2>1, <2>3
    <3>10. LinkedBack'
      BY <3>6, <3>7, <3>8, <3>9 DEF LinkedBack
    <3> QED
      BY <1>2, <1>3, <1>7, <1>12, <3>1, <3>2, <3>4, <3>10 DEF ListInv
  <2> QED
    BY <2>2, <2>3
<1>14. CASE list_remove_back(n)
  <2>1. head # n /\ tail = n /\ tail' = prev[n] /\ head' = head /\ prev' = prev
    BY <1>14 DEF list_remove_back
  <2>2. prev[n] # NULL /\ prev[n] \in alloc' /\ next[prev[n]] = n
    BY <1>1, <1>3, <1>4, <1>10, <1>11, <2>1
  <2>3. next' = [next EXCEPT ![prev[n]] = NULL]
    BY <1>14, <2>2 DEF list_remove_back
  <2>4. next'[tail'] = NULL /\ \A m \in alloc : m # tail' => next'[m] = next[m]
    BY <1>4, <1>6, <2>1, <2>2, <2>3 DEF TypeOK
  <2>5. HeadIsLargest'
    BY <1>3, <1>6, <1>10, <2>1 DEF HeadIsLargest
  <2>6. \A m \in alloc' : m # tail' => next[m] # n
    BY <1>1, <1>4, <1>6, <1>8, <2>1, <2>2
  <2>7. \A m \in alloc' : val[tail'] <= val[m]
    <3>1. \A m \in alloc : val[m] < val[tail'] => val[m] <= val[n]
      BY <1>1, <1>4, <1>6, <1>8, <2>1, <2>2
    <3>2. \A m \in alloc' : val[n] < val[m]
      BY <1>1, <1>5, <1>6, <1>9, <1>10, <2>1
    <3> QED
      BY <1>1, <1>5, <1>6, <2>1, <2>2, <3>1, <3>2
  <2>8. NextInPidOrder'
    BY <1>3, <1>4, <1>6, <1>8, <1>9, <2>4, <2>6, <2>7 DEF NextInPidOrder
  <2>9. \A m \in alloc' : next'[m] # NULL => prev'[next'[m]] = m
    BY <1>6, <1>8, <2>1, <2>4
  <2>10. \A m \in alloc' : IF prev'[m] = NULL THEN m = head'
                           ELSE prev'[m] \in alloc' /\ next'[prev'[m]] = m
    <3> SUFFICES ASSUME NEW m \in alloc', prev[m] # NULL
                 PROVE  prev[m] \in alloc' /\ next'[prev[m]] = m
      BY <1>6, <1>11, <2>1
    <3>1. prev[m] \in alloc /\ next[prev[m]] = m
      BY <1>6, <1>11
    <3>2. prev[m] # n
      BY <1>4, <1>6, <1>10, <2>1, <3>1
    <3>3. prev[m] # tail'
      BY <1>6, <2>1, <2>2, <3>1
    <3> QED
      BY <1>3, <2>4, <3>1, <3>2, <3>3
  <2>11. LinkedBack'
    BY <1>10, <2>1, <2>2, <2>4, <2>9, <2>10 DEF LinkedBack
  <2> QED
    BY <1>2, <1>3, <1>7, <1>12, <2>2, <2>5, <2>8, <2>11 DEF ListInv
<1>15. CASE list_remove_middle(n)
  <2>1. head # n /\ tail # n /\ head' = head /\ tail' = tail
    BY <1>15 DEF list_remove_middle
  <2>2. prev[n] # NULL /\ prev[n] \in alloc' /\ next[prev[n]] = n
    BY <1>1, <1>3, <1>8, <1>11, <2>1
  <2>3. next[n] # NULL /\ next[n] \in alloc' /\ prev[next[n]] = n
    BY <1>1, <1>3, <1>8, <2>1, LastIsTail
  <2>4. /\ prev' = [prev EXCEPT ![next[n]] = prev[n]]
        /\ next' = [next EXCEPT ![prev[n]] = next[n]]
    BY <1>15 DEF list_remove_middle
  <2>5. /\ next'[prev[n]] = next[n] /\ prev'[next[n]] = prev[n]
        /\ \A m \in alloc : m # prev[n] => next'[m] = next[m]
        /\ \A m \in alloc : m # next[n] => prev'[m] = prev[m]
    BY <1>4, <1>6, <2>2, <2>3, <2>4 DEF TypeOK
  <2>6. HeadIsLargest'
    BY <1>3, <1>10, <2>1 DEF HeadIsLargest
  <2>7. \A m \in alloc' : m # prev[n] => next[m] # n
    BY <1>1, <1>4, <1>6, <1>8, <2>2
  <2>8. NextInPidOrder'
    <3>1. /\ val[next[n]] < val[prev[n]]
          /\ \A m \in alloc' : val[m] < val[prev[n]] => val[m] <= val[next[n]]
      <4>1. val[n] < val[prev[n]] /\ val[next[n]] < val[n]
        BY <1>1, <1>4, <1>6, <1>8, <2>2, <2>3
      <4>2. \A m \in alloc' : val[m] < val[prev[n]] => val[m] < val[n]
        BY <1>1, <1>4, <1>5, <1>6, <1>8, <2>2
      <4> QED
        BY <1>1, <1>5, <1>6, <1>8, <2>2, <2>3, <4>1, <4>2
    <3> QED
      BY <1>3, <1>4, <1>6, <1>8, <1>9, <2>2, <2>3, <2>5, <2>7, <3>1 DEF NextInPidOrder
  <2>9. \A m \in alloc' : next'[m] # NULL => prev'[next'[m]] = m
    BY <1>1, <1>6, <1>8, <2>2, <2>3, <2>5, <2>7
  <2>10. \A m \in alloc' : IF prev'[m] = NULL THEN m = head'
                           ELSE prev'[m] \in alloc' /\ next'[prev'[m]] = m
    <3> SUFFICES ASSUME NEW m \in alloc', m # next[n]
                 PROVE  IF prev[m] = NULL THEN m = head
                        ELSE prev[m] \in alloc' /\ next'[prev[m]] = m
      BY <1>6, <2>1, <2>2, <2>3, <2>5
    <3> QED
      BY <1>1, <1>3, <1>6, <1>11, <2>2, <2>5
  <2>11. prev'[head'] = NULL /\ tail' \in alloc' /\ next'[tail'] = NULL
    BY <1>1, <1>3, <1>4, <1>8, <1>10, <2>1, <2>2, <2>3, <2>5
  <2>12. LinkedBack'
    BY <2>9, <2>10, <2>11 DEF LinkedBack
  <2> QED
    BY <1>2, <1>3, <1>7, <1>12, <2>2, <2>6, <2>8, <2>12 DEF ListInv
<1> QED
  BY <1>13, <1>14, <1>15 DEF list_remove_node

-----------------------------------------------------------------------------
(* The inductive invariant.                                                 *)

\* What a handler does to the histories.
LEMMA EnterHandlerSuspended ==
  ASSUME TypeOK, SuspendedInv, EnterHandler, cpu.own \in Pcb => UserContext(cpu.own, cpu)
  PROVE  /\ SuspendedInv'
         /\ \A p \in Pcb : p # cpu.own => suspended'[p] = suspended[p]
         /\ cpu.own \in Pcb => suspended'[cpu.own] = cpu
BY DEF TypeOK, SuspendedInv, EnterHandler, UserContext

\* What SuspendedInv says of a history's owner.
LEMMA SuspendedOwner ==
  ASSUME SuspendedInv, NEW p \in Pcb
  PROVE  /\ suspended[p].own = NULL <=> suspended[p] = ZeroContext
         /\ suspended[p].own # NULL => UserContext(p, suspended[p])
<1>1. ZeroContext.own = NULL
  BY DEF ZeroContext, EntryContext
<1>2. NULL \notin Pcb
  BY SchedulerAssumption
<1> QED
  BY <1>1, <1>2 DEF SuspendedInv, UserContext

\* A process is entered in user code.
LEMMA EntryIsUser == \A p \in Pcb : UserContext(p, EntryContext(p))
BY DEF UserContext, EntryContext

\* A computation leaves a process in user code.
LEMMA AdvanceIsUser ==
  ASSUME NEW c \in Context, NEW p, UserContext(p, c)
  PROVE  UserContext(p, Advance(c)) /\ Advance(c).own = c.own
BY DEF UserContext, Advance, Context

\* The context a handler returns to is the one its process was last interrupted in, or
\* its entry.
Resumed ==
  cpu' = IF suspended'[cpu'.own].own = NULL THEN EntryContext(cpu'.own)
         ELSE suspended'[cpu'.own]

\* The part of schedule() that switches, from a process on the processor.  st is the
\* state of the pcbs it runs with, Live' the processes that are live afterwards.
LEMMA SwitchFromUser ==
  ASSUME TypeOK, TypeOK', SuspendedInv, UserInv, EnterHandler,
         ListInv', current' \in Live', Live' \subseteq Live,
         context_switch(IF current \in Live' THEN last ELSE NULL, current')
  PROVE  UserInv' /\ Resumed
<1> USE SchedulerAssumption
<1>1. UserContext(current, cpu) /\ last = current /\ current \in Pcb /\ cpu.own = current
  BY DEF UserInv, Live
<1>2. Live \subseteq Pcb /\ current # NULL /\ NULL \notin Pcb
  BY <1>1 DEF Live
<1>3. /\ SuspendedInv'
      /\ \A p \in Pcb : p # current => suspended'[p] = suspended[p]
      /\ suspended'[current] = cpu
  BY <1>1, EnterHandlerSuspended
<1>4. saved' = cpu
  BY HandlerSaves
<1>5. /\ \A p \in Pcb : p # current => regs'[p] = regs[p]
      /\ current \in Live' => regs'[current] = cpu
      /\ cpu' = regs'[current'] /\ last' = current'
  BY <1>1, <1>2, <1>4 DEF context_switch, SavedRegs, TypeOK
<1>6. ASSUME NEW p \in Live'
      PROVE  regs'[p] = IF suspended'[p].own = NULL THEN EntryContext(p) ELSE suspended'[p]
  <2>1. p \in Pcb /\ p \in Live
    BY <1>2
  <2>2. CASE p = current
    <3>1. suspended'[p].own # NULL
      BY <1>1, <1>2, <1>3, <2>2
    <3> QED
      BY <1>3, <1>5, <2>2, <3>1
  <2>3. CASE p # current
    <3>1. regs[p] = IF suspended[p].own = NULL THEN EntryContext(p) ELSE suspended[p]
      BY <2>1, <2>3 DEF UserInv
    <3> QED
      BY <1>3, <1>5, <2>1, <2>3, <3>1
  <2> QED
    BY <2>2, <2>3
<1>7. UserContext(current', cpu')
  <2>1. current' \in Pcb
    BY <1>2
  <2>2. suspended'[current'].own # NULL => UserContext(current', suspended'[current'])
    BY <1>3, <2>1, <1>2 DEF SuspendedInv, UserContext, ZeroContext, EntryContext
  <2> QED
    BY <1>5, <1>6, <2>1, <2>2, EntryIsUser
<1>8. cpu'.own = current'
  BY <1>7 DEF UserContext
<1>9. Resumed
  BY <1>5, <1>6, <1>8 DEF Resumed
<1> QED
  BY <1>5, <1>6, <1>7, <1>8, <1>9 DEF UserInv

\* The choice of the next process, when nothing was unlinked.
LEMMA ChoiceIsLive ==
  ASSUME TypeOK, ListInv, current \in Live
  PROVE  Choice(head) \in Live
<1>1. current # NULL /\ self[current] \in alloc /\ head \in alloc /\ head # NULL
  BY SchedulerAssumption DEF Live, ListInv, NodesAreProcesses, HeadIsLargest, TypeOK
<1>2. next[self[current]] # NULL => next[self[current]] \in alloc
  BY <1>1 DEF ListInv, NextInPidOrder
<1> QED
  BY <1>1, <1>2 DEF Choice, list_peek_front, ListInv, NodesAreProcesses

\* The list of a running system is not empty, and its size says so.
LEMMA ListNotEmpty ==
  ASSUME ListInv PROVE size # 0
<1>1. head \in alloc
  BY DEF ListInv, HeadIsLargest
<1>2. alloc # {}
  BY <1>1
<1> QED
  BY <1>2, FS_EmptySet DEF ListInv, SizeInv

\* schedule() called with nobody exiting, from a tick or by system call 1.
LEMMA ScheduleFromUser ==
  ASSUME TypeOK, TypeOK', SuspendedInv, UserInv, Running, EnterHandler,
         state' = state, self' = self, schedule(state)
  PROVE  UserInv' /\ Running' /\ Resumed
<1> USE SchedulerAssumption
<1>1. current \in Live /\ ListInv /\ current # NULL /\ self[current] # NULL /\ size # 0
  BY ListNotEmpty DEF UserInv, Live, ListInv, NodesAreProcesses, TypeOK
<1>2. state[current] # "zombie"
  BY <1>1 DEF Live
<1>3. listVars' = listVars /\ current' = Choice(head')
  BY <1>1, <1>2 DEF schedule
<1>4. current' \in Live
  BY <1>1, <1>3, ChoiceIsLive DEF listVars
<1>5. current' # NULL
  BY <1>4 DEF Live
<1>6. context_switch(last, current') /\ halted' = halted
  BY <1>1, <1>2, <1>5 DEF schedule, LastToSave
<1>7. Live' = Live
  BY DEF Live
<1>8. ListInv'
  BY <1>1, <1>3, <1>7 DEF listVars, ListInv, NodesAreProcesses, NextInPidOrder,
        HeadIsLargest, LinkedBack, SizeInv
<1>9. UserInv' /\ Resumed
  BY <1>1, <1>4, <1>6, <1>7, <1>8, SwitchFromUser
<1> QED
  BY <1>6, <1>9 DEF Running

\* schedule() called by _exit.
LEMMA ExitFromUser ==
  ASSUME TypeOK, TypeOK', SuspendedInv, UserInv, Running, EnterHandler, self' = self,
         state' = [state EXCEPT ![current] = "zombie"], schedule(state')
  PROVE  \/ UserInv' /\ Running' /\ Resumed
         \/ halted' = "panic" /\ Live' = {}
<1> USE SchedulerAssumption
<1>1. /\ current \in Live /\ ListInv /\ current # NULL /\ current \in Pcb
      /\ self[current] \in alloc /\ self[current] # NULL /\ size # 0
  BY ListNotEmpty DEF UserInv, Live, ListInv, NodesAreProcesses, TypeOK
<1>2. state'[current] = "zombie"
  BY <1>1 DEF TypeOK
<1>3. list_remove_node(self[current]) /\ current' = Choice(head')
  BY <1>1, <1>2 DEF schedule
<1>4. /\ Live' = Live \ {current}
      /\ alloc' = alloc \ {self[current]} /\ val' = val
      /\ alloc' = {} => head' = NULL /\ next[self[current]] = NULL
      /\ alloc' # {} => ListInv'
  BY <1>1, <1>3, RemoveKeepsList DEF list_remove_node
<1>5. CASE alloc' = {}
  <2>1. current' = NULL
    BY <1>1, <1>3, <1>4, <1>5 DEF Choice, list_peek_front
  <2>2. halted' = "panic"
    BY <1>1, <2>1 DEF schedule
  <2>3. Live' = {}
    BY <1>1, <1>4, <1>5 DEF ListInv, NodesAreProcesses
  <2> QED
    BY <2>2, <2>3
<1>6. CASE alloc' # {}
  <2>1. ListInv'
    BY <1>4, <1>6
  <2>2. head' \in alloc' /\ head' # NULL
    BY <2>1 DEF ListInv, HeadIsLargest, TypeOK
  <2>3. next[self[current]] # NULL => next[self[current]] \in alloc'
    <3>1. ASSUME next[self[current]] # NULL
          PROVE  next[self[current]] \in alloc /\ val[next[self[current]]] < val[self[current]]
      BY <1>1, <3>1 DEF ListInv, NextInPidOrder
    <3>2. val[self[current]] \in Int
      BY <1>1 DEF ListInv, NodesAreProcesses, Pcb
    <3> QED
      BY <1>4, <3>1, <3>2
  <2>4. \A m \in alloc' : val[m] \in Live'
    BY <1>4, <2>1 DEF ListInv, NodesAreProcesses
  <2>5. current' \in Live'
    BY <1>1, <1>3, <1>4, <2>2, <2>3, <2>4 DEF Choice, list_peek_front
  <2>6. current' # NULL
    BY <2>5 DEF Live
  <2>7. context_switch(NULL, current') /\ halted' = halted
    BY <1>1, <1>2, <2>6 DEF schedule, LastToSave
  <2>8. current \notin Live'
    BY <1>4
  <2>9. UserInv' /\ Resumed
    BY <1>4, <2>1, <2>5, <2>7, <2>8, SwitchFromUser
  <2> QED
    BY <2>7, <2>9 DEF Running
<1> QED
  BY <1>5, <1>6

\* A tick that runs schedule() while kmain is on the processor: it returns before the
\* first process is in the list, finds no self just after, and dispatches it at last.
LEMMA ScheduleFromBoot ==
  ASSUME TypeOK, TypeOK', SuspendedInv, BootInv, Running, EnterHandler,
         state' = state, self' = self, curr_pid' = curr_pid, schedule(state)
  PROVE  \/ BootInv' /\ Running'
         \/ UserInv' /\ Running' /\ Resumed
         \/ /\ halted' = "null"
            /\ cpu'.own = Boot /\ cpu'.eip = "self" /\ cpu'.p1 = 0 /\ current' = 0
<1> USE SchedulerAssumption
<1>1. cpu.own = Boot /\ cpu.own \notin Pcb /\ suspended' = suspended /\ saved' = cpu
  BY HandlerSaves DEF BootInv, EnterHandler
<1>2. Live' = Live
  BY DEF Live
<1>3. CASE cpu.eip \notin {"self", "loop"}
  <2>1. size = 0
    BY <1>3 DEF BootInv
  <2>2. /\ cpu' = cpu /\ current' = current /\ last' = last /\ regs' = regs /\ halted' = halted
        /\ head' = head /\ tail' = tail /\ size' = size /\ next' = next /\ prev' = prev
        /\ val' = val /\ alloc' = alloc
    BY <1>1, <2>1 DEF schedule, listVars
  <2> QED
    BY <1>1, <1>2, <1>3, <2>2 DEF BootInv, Running
<1>4. CASE cpu.eip = "self"
  <2>1. size # 0 /\ current = 0 /\ self[0] = NULL /\ cpu.p1 = 0 /\ 0 # NULL
    BY <1>4 DEF BootInv, Pcb
  <2>2. halted' = "null" /\ cpu' = cpu /\ current' = current
    BY <2>1 DEF schedule
  <2> QED
    BY <1>1, <1>4, <2>1, <2>2
<1>5. CASE cpu.eip = "loop"
  <2>1. ListInv /\ current = 0 /\ Live = {0} /\ last = NULL
    BY <1>5 DEF BootInv
  <2>2. /\ current # NULL /\ current \in Live /\ current \in Pcb
        /\ self[current] # NULL /\ size # 0 /\ state[current] # "zombie"
    BY <2>1, ListNotEmpty DEF ListInv, NodesAreProcesses, Live, TypeOK
  <2>3. listVars' = listVars /\ current' = Choice(head')
    BY <2>2 DEF schedule
  <2>4. current' \in Live /\ current' # NULL
    BY <2>1, <2>2, <2>3, ChoiceIsLive DEF listVars, Live
  <2>5. context_switch(NULL, current') /\ halted' = halted
    BY <2>1, <2>2, <2>4 DEF schedule, LastToSave
  <2>6. ListInv'
    BY <1>2, <2>1, <2>3 DEF listVars, ListInv, NodesAreProcesses, NextInPidOrder,
          HeadIsLargest, LinkedBack, SizeInv
  <2>7. regs' = regs /\ cpu' = regs[current'] /\ last' = current'
    BY <2>5 DEF context_switch, SavedRegs
  <2>8. \A p \in Live : regs[p] = EntryContext(p) /\ p \in Pcb /\ suspended[p].own = NULL
    BY DEF BootInv, Live, ZeroContext, EntryContext
  <2>9. UserContext(current', cpu') /\ cpu'.own = current'
    BY <2>4, <2>7, <2>8, EntryIsUser DEF UserContext
  <2>10. UserInv'
    BY <1>1, <1>2, <2>4, <2>6, <2>7, <2>8, <2>9 DEF UserInv
  <2>11. Resumed
    BY <1>1, <2>4, <2>7, <2>8, <2>9 DEF Resumed
  <2> QED
    BY <2>5, <2>10, <2>11 DEF Running
<1> QED
  BY <1>3, <1>4, <1>5

\* The steps of kmain's creation.
LEMMA BootStep ==
  ASSUME TypeOK, TypeOK', PidInv, SuspendedInv, BootInv, Running, CreatePcb \/ CreateStep,
         SyscallsOnly
  PROVE  BootInv' /\ Running' /\ PidInv' /\ suspended' = suspended
<1> USE SchedulerAssumption
<1>0. cpu.own = Boot /\ Boot \notin Pcb /\ 0 \in Pcb /\ cpu \in Context
  BY DEF BootInv, Pcb, TypeOK
<1>1. CASE CreatePcb
  <2>1. cpu.eip = "start" /\ curr_pid = 0 /\ curr_pid' = 1
    BY <1>0, <1>1 DEF CreatePcb, InUserCode, At, BootInv, allocate_pid, SyscallsOnly
  <2>2. Live = {}
    BY <2>1 DEF PidInv, Live, Pcb
  <2>3. PidInv'
    BY <1>1, <2>1 DEF CreatePcb, PidInv, Pcb, TypeOK
  <2>4. Live' = {0} /\ regs'[0] = EntryContext(0)
    BY <1>0, <1>1, <2>1, <2>2 DEF CreatePcb, Live, TypeOK
  <2>5. cpu'.own = Boot /\ cpu'.eip = "current" /\ cpu'.p1 = 0
    BY <1>0, <1>1, <2>1 DEF CreatePcb, Context
  <2>6. self[0] = NULL
    BY <2>1 DEF BootInv
  <2> QED
    BY <1>0, <1>1, <2>1, <2>3, <2>4, <2>5, <2>6 DEF CreatePcb, BootInv, InterruptState,
         listVars, Running
<1>2. CASE CreateCurrent
  BY <1>0, <1>2 DEF CreateCurrent, At, GoTo, BootInv, PidInv, Live, Context, InterruptState,
       pcbVars, listVars, Running
<1>3. CASE InsertKcalloc
  <2>1. PICK t \in Node \ alloc :
          /\ alloc' = alloc \cup {t}
          /\ prev' = [prev EXCEPT ![t] = NULL]
          /\ cpu' = [cpu EXCEPT !.eip = "prev", !.t = t]
    BY <1>3 DEF InsertKcalloc
  <2>2. cpu'.own = Boot /\ cpu'.eip = "prev" /\ cpu'.p1 = cpu.p1 /\ cpu'.t = t
    BY <1>0, <2>1 DEF Context
  <2>3. cpu.eip = "kcalloc" /\ alloc' = {t} /\ prev'[t] = NULL
    BY <1>3, <2>1 DEF InsertKcalloc, At, BootInv, TypeOK
  <2>4. Live' = Live /\ PidInv'
    BY <1>3 DEF InsertKcalloc, Live, PidInv, pcbVars, InterruptState
  <2> QED
    BY <1>3, <2>2, <2>3, <2>4 DEF InsertKcalloc, BootInv, InterruptState, pcbVars, Running
<1>4. CASE InsertPrev \/ InsertNext \/ InsertTail \/ InsertHead \/ InsertSize
  <2>1. Live' = Live /\ PidInv' /\ Running' /\ suspended' = suspended
    BY <1>4 DEF InsertPrev, InsertNext, InsertTail, InsertHead, InsertSize, Live, PidInv,
         pcbVars, InterruptState, Running
  <2>2. cpu'.own = Boot /\ cpu'.p1 = cpu.p1 /\ cpu'.t = cpu.t
    BY <1>0, <1>4 DEF InsertPrev, InsertNext, InsertTail, InsertHead, InsertSize, GoTo, Context
  <2>3. CASE InsertPrev
    <3>1. cpu.eip = "prev" /\ cpu'.eip = "next"
      BY <1>0, <2>3 DEF InsertPrev, At, GoTo, Context
    <3>2. prev' = prev
      BY <2>3, <3>1 DEF InsertPrev, BootInv
    <3> QED
      BY <2>1, <2>2, <2>3, <3>1, <3>2 DEF InsertPrev, BootInv, InterruptState, pcbVars
  <2>4. CASE InsertNext
    <3>1. cpu.eip = "next" /\ cpu'.eip = "tail"
      BY <1>0, <2>4 DEF InsertNext, At, GoTo, Context
    <3>2. cpu.t \in Node /\ head = NULL /\ cpu.p1 = 0
      BY <3>1 DEF BootInv
    <3>3. next'[cpu.t] = NULL /\ val'[cpu.t] = 0
      BY <2>4, <3>2 DEF InsertNext, TypeOK
    <3> QED
      BY <2>1, <2>2, <2>4, <3>1, <3>2, <3>3 DEF InsertNext, BootInv, InterruptState, pcbVars
  <2>5. CASE InsertTail
    <3>1. cpu.eip = "tail" /\ cpu'.eip = "head"
      BY <1>0, <2>5 DEF InsertTail, At, GoTo, Context
    <3> QED
      BY <2>1, <2>2, <2>5, <3>1 DEF InsertTail, BootInv, InterruptState, pcbVars
  <2>6. CASE InsertHead
    <3>1. cpu.eip = "head" /\ cpu'.eip = "size"
      BY <1>0, <2>6 DEF InsertHead, At, GoTo, Context
    <3> QED
      BY <2>1, <2>2, <2>6, <3>1 DEF InsertHead, BootInv, InterruptState, pcbVars
  <2>7. CASE InsertSize
    <3>1. cpu.eip = "size" /\ cpu'.eip = "self"
      BY <1>0, <2>7 DEF InsertSize, At, GoTo, Context
    <3> QED
      BY <2>1, <2>2, <2>7, <3>1 DEF InsertSize, BootInv, InterruptState, pcbVars
  <2> QED
    BY <1>4, <2>3, <2>4, <2>5, <2>6, <2>7
<1>5. CASE CreateSelf
  <2>1. /\ cpu.eip = "self" /\ cpu.p1 = 0 /\ alloc = {cpu.t} /\ cpu.t \in Node
        /\ head = cpu.t /\ tail = cpu.t /\ next[cpu.t] = NULL /\ prev[cpu.t] = NULL
        /\ val[cpu.t] = 0 /\ size = 1 /\ Live = {0} /\ current = 0 /\ last = NULL
    BY <1>5 DEF CreateSelf, At, BootInv
  <2>2. cpu'.own = Boot /\ cpu'.eip = "loop"
    BY <1>0, <1>5 DEF CreateSelf, Context
  <2>3. self'[0] = cpu.t
    BY <1>0, <1>5, <2>1 DEF CreateSelf, TypeOK
  <2>4. /\ head' = head /\ tail' = tail /\ size' = size /\ next' = next /\ prev' = prev
        /\ val' = val /\ alloc' = alloc /\ Live' = Live
    BY <1>5 DEF CreateSelf, listVars, Live
  <2>5. SizeInv'
    BY <2>1, <2>4, FS_Singleton DEF SizeInv
  <2>6. NodesAreProcesses' /\ NextInPidOrder' /\ HeadIsLargest' /\ LinkedBack'
    BY <2>1, <2>3, <2>4 DEF NodesAreProcesses, NextInPidOrder, HeadIsLargest, LinkedBack
  <2>7. ListInv'
    BY <2>5, <2>6 DEF ListInv
  <2> QED
    BY <1>5, <2>1, <2>2, <2>4, <2>7 DEF CreateSelf, BootInv, InterruptState, PidInv, Running
<1> QED
  BY <1>1, <1>2, <1>3, <1>4, <1>5 DEF CreateStep

\* The invariant holds when kmain starts.
LEMMA IInvInit == Init => IInv
<1> SUFFICES ASSUME Init PROVE IInv
  OBVIOUS
<1> USE SchedulerAssumption
<1>1. TypeOK
  BY InitType
<1>2. BootInv
  BY DEF Init, BootInv, BootContext, EntryContext, Live, Pcb
<1>3. PidInv
  BY DEF Init, PidInv, Pcb
<1>4. SuspendedInv /\ FreshInv /\ HaltInv
  BY DEF Init, SuspendedInv, FreshInv, HaltInv
<1> QED
  BY <1>1, <1>2, <1>3, <1>4 DEF IInv

\* Only the context of a live process is ever recorded, and no pcb disappears.
LEMMA FreshStep == IInv /\ [Next]_vars => FreshInv'
<1> SUFFICES ASSUME IInv, [Next]_vars PROVE FreshInv'
  OBVIOUS
<1>1. TypeOK /\ FreshInv
  BY DEF IInv
<1>2. \A p \in Pcb : state'[p] = "none" => state[p] = "none"
  <2>1. CASE state' = state
    BY <2>1
  <2>2. ASSUME NEW v \in {"created", "zombie"}, NEW q, state' = [state EXCEPT ![q] = v]
        PROVE  \A p \in Pcb : state'[p] = "none" => state[p] = "none"
    BY <1>1, <2>2 DEF TypeOK
  <2> QED
    BY <2>1, <2>2 DEF Next, Tick, CreatePcb, CreateStep, CreateCurrent, InsertKcalloc, InsertPrev,
         InsertNext, InsertTail, InsertHead, InsertSize, CreateSelf, StackLost, Work, Syscall,
         SyscallUnknown, SyscallNull, SyscallSchedule, SyscallPrintf, SyscallCreate,
         SyscallExit, vars
<1>3. CASE suspended' = suspended
  BY <1>1, <1>2, <1>3 DEF FreshInv
<1>4. CASE EnterHandler
  <2>1. \A p \in Pcb : suspended'[p] # suspended[p] => p = cpu.own
    BY <1>1, <1>4 DEF EnterHandler, TypeOK
  <2>2. cpu.own \in Pcb => state[cpu.own] # "none"
    BY <1>4, SchedulerAssumption DEF IInv, EnterHandler, BootInv, UserInv, Live
  <2> QED
    BY <1>1, <1>2, <2>1, <2>2 DEF FreshInv
<1> QED
  BY <1>3, <1>4 DEF Next, Tick, CreatePcb, CreateStep, CreateCurrent, InsertKcalloc, InsertPrev,
       InsertNext, InsertTail, InsertHead, InsertSize, CreateSelf, StackLost, Work, Syscall,
       SyscallUnknown, SyscallNull, SyscallSchedule, SyscallPrintf, SyscallCreate,
       SyscallExit, vars, InterruptState

\* Without direct calls only kmain is ever inside a creation, and its stack is its own.
LEMMA StackIsKept == IInv => ~StackLost
<1> SUFFICES ASSUME IInv, Running, cpu.eip \in CreateStages PROVE cpu.p1 # NULL
  BY DEF StackLost
<1>1. BootInv
  BY DEF IInv, UserInv, UserContext, CreateStages
<1>2. 0 \in Pcb /\ NULL \notin Pcb
  BY SchedulerAssumption DEF Pcb
<1>3. cpu.p1 = 0
  BY <1>1 DEF BootInv, CreateStages
<1> QED
  BY <1>2, <1>3

\* Every step keeps the invariant.
LEMMA IInvStep == SyscallsOnly /\ IInv /\ [Next]_vars => IInv'
<1> SUFFICES ASSUME SyscallsOnly, IInv, [Next]_vars PROVE IInv'
  OBVIOUS
<1> USE SchedulerAssumption
<1>1. TypeOK /\ TypeOK' /\ PidInv /\ SuspendedInv /\ FreshInv /\ FreshInv' /\ HaltInv
  BY TypeStep, FreshStep DEF IInv
<1>2. ASSUME Running, EnterHandler
      PROVE  SuspendedInv'
  <2>1. cpu.own \in Pcb => UserContext(cpu.own, cpu)
    BY <1>2 DEF IInv, BootInv, UserInv
  <2> QED
    BY <1>1, <1>2, <2>1, EnterHandlerSuspended
<1>3. ASSUME Running' PROVE HaltInv'
  BY <1>3 DEF Running, HaltInv
<1>4. CASE Tick
  <2>1. Running /\ EnterHandler /\ state' = state /\ self' = self /\ curr_pid' = curr_pid
    BY <1>4 DEF Tick, EnterHandler
  <2>2. SuspendedInv' /\ PidInv'
    BY <1>1, <1>2, <2>1 DEF PidInv
  <2>3. CASE ScheduleDue /\ UserInv
    BY <1>1, <1>3, <1>4, <2>1, <2>2, <2>3, ScheduleFromUser DEF Tick, IInv
  <2>4. CASE ScheduleDue /\ BootInv
    <3>1. \/ BootInv' /\ Running'
          \/ UserInv' /\ Running'
          \/ /\ halted' = "null"
             /\ cpu'.own = Boot /\ cpu'.eip = "self" /\ cpu'.p1 = 0 /\ current' = 0
      BY <1>1, <1>4, <2>1, <2>4, ScheduleFromBoot DEF Tick
    <3> QED
      BY <1>1, <1>3, <2>2, <3>1 DEF IInv, HaltInv, Running
  <2>5. CASE ~ScheduleDue
    <3>1. /\ cpu' = cpu /\ current' = current /\ last' = last /\ regs' = regs
          /\ halted' = halted /\ listVars' = listVars
      BY <1>1, <1>4, <2>1, <2>5, HandlerSaves DEF Tick, IInv
    <3>2. Live' = Live /\ Running' /\ HaltInv'
      BY <1>1, <2>1, <3>1 DEF Live, Running, HaltInv
    <3>3. ListInv => ListInv'
      BY <3>1, <3>2, <2>1 DEF listVars, ListInv, NodesAreProcesses, NextInPidOrder,
           HeadIsLargest, LinkedBack, SizeInv
    <3>4. CASE BootInv
      <4>1. suspended' = suspended
        BY <2>1, <3>4 DEF EnterHandler, BootInv
      <4>2. BootInv'
        BY <2>1, <3>1, <3>2, <3>3, <3>4, <4>1 DEF BootInv, listVars
      <4> QED
        BY <1>1, <2>2, <3>2, <4>2 DEF IInv
    <3>5. CASE UserInv
      <4>1. \A p \in Pcb : p # current => suspended'[p] = suspended[p]
        BY <1>1, <2>1, <3>5, EnterHandlerSuspended DEF UserInv, UserContext
      <4>2. UserInv'
        BY <2>1, <3>1, <3>2, <3>3, <3>5, <4>1 DEF UserInv, Live
      <4> QED
        BY <1>1, <2>2, <3>2, <4>2 DEF IInv
    <3> QED
      BY <2>1, <3>4, <3>5 DEF IInv
  <2> QED
    BY <2>1, <2>3, <2>4, <2>5 DEF IInv
<1>5. ASSUME NEW eax \in SysNums, Syscall(eax) PROVE IInv'
  <2>1. Running /\ cpu.own \in Pcb /\ cpu.eip = "user"
    BY <1>5 DEF Syscall, SyscallUnknown, SyscallNull, SyscallSchedule, SyscallPrintf,
         SyscallCreate, SyscallExit, InUserCode
  <2>2. UserInv
    BY <2>1 DEF IInv, BootInv
  <2>3. CASE SyscallUnknown(eax)
    BY <1>1, <2>1, <2>2, <2>3 DEF SyscallUnknown, vars, IInv, PidInv, SuspendedInv, HaltInv,
         Running, UserInv, Live, ListInv, NodesAreProcesses, NextInPidOrder, HeadIsLargest,
         LinkedBack, SizeInv
  <2>4. CASE SyscallNull(eax)
    <3>1. SuspendedInv' /\ PidInv' /\ ~Running' /\ HaltInv'
      BY <1>1, <1>2, <2>1, <2>4 DEF SyscallNull, PidInv, Running, HaltInv
    <3> QED
      BY <1>1, <3>1 DEF IInv
  <2>5. CASE SyscallSchedule(eax)
    <3>1. SuspendedInv' /\ PidInv'
      BY <1>1, <1>2, <2>1, <2>5 DEF SyscallSchedule, PidInv
    <3>2. UserInv' /\ Running'
      BY <1>1, <2>1, <2>2, <2>5, ScheduleFromUser DEF SyscallSchedule
    <3> QED
      BY <1>1, <1>3, <3>1, <3>2 DEF IInv
  <2>6. CASE SyscallPrintf(eax)
    <3>1. SuspendedInv' /\ PidInv' /\ Running' /\ Live' = Live
      BY <1>1, <1>2, <2>1, <2>6 DEF SyscallPrintf, PidInv, Running, Live
    <3>2. ListInv'
      BY <2>2, <2>6, <3>1 DEF SyscallPrintf, UserInv, listVars, pcbVars, ListInv,
           NodesAreProcesses, NextInPidOrder, HeadIsLargest, LinkedBack, SizeInv
    <3>3. \A p \in Pcb : p # current => suspended'[p] = suspended[p]
      BY <1>1, <2>2, <2>6, EnterHandlerSuspended DEF SyscallPrintf, UserInv, UserContext
    <3>4. UserContext(cpu'.own, cpu') /\ cpu'.own = cpu.own
      BY <1>1, <2>2, <2>6, AdvanceIsUser DEF SyscallPrintf, UserInv, TypeOK
    <3>5. UserInv'
      BY <2>2, <2>6, <3>1, <3>2, <3>3, <3>4 DEF SyscallPrintf, UserInv, pcbVars, Live
    <3> QED
      BY <1>1, <1>3, <3>1, <3>5 DEF IInv
  <2>7. CASE SyscallCreate(eax)
    <3>1. SuspendedInv' /\ Running' /\ curr_pid \in Pcb /\ curr_pid' = curr_pid + 1
      BY <1>1, <1>2, <2>1, <2>7 DEF SyscallCreate, Running, TypeOK, Pcb, allocate_pid
    <3>2. PidInv'
      BY <1>1, <2>7, <3>1 DEF SyscallCreate, PidInv, Pcb, TypeOK
    <3>3. ListInv'
      BY <1>1, <2>2, <2>7, <3>1, InsertKeepsList DEF SyscallCreate, UserInv
    <3>4. Live' = Live \cup {curr_pid} /\ curr_pid \notin Live
      BY <1>1, <2>7, <3>1 DEF SyscallCreate, Live, TypeOK, PidInv
    <3>5. /\ \A p \in Pcb : p # current => suspended'[p] = suspended[p]
      BY <1>1, <2>2, <2>7, EnterHandlerSuspended DEF SyscallCreate, UserInv, UserContext
    <3>6. UserContext(cpu'.own, cpu') /\ cpu'.own = cpu.own
      BY <1>1, <2>2, <2>7, AdvanceIsUser DEF SyscallCreate, UserInv, TypeOK
    <3>7. current' = current /\ last' = last
      BY <2>2, <2>7 DEF SyscallCreate, UserInv, Live
    <3>8. ASSUME NEW p \in Live' \ {current'}
          PROVE  regs'[p] = IF suspended'[p].own = NULL THEN EntryContext(p) ELSE suspended'[p]
      <4>1. CASE p = curr_pid
        <5>1. suspended[p].own = NULL
          BY <1>1, <3>1, <4>1 DEF FreshInv, PidInv, TypeOK, ZeroContext, EntryContext
        <5> QED
          BY <1>1, <2>7, <3>1, <3>5, <3>7, <4>1, <5>1 DEF SyscallCreate, TypeOK
      <4>2. CASE p # curr_pid
        <5>1. p \in Live \ {current} /\ p \in Pcb
          BY <3>4, <3>7, <4>2 DEF Live
        <5>2. regs'[p] = regs[p]
          BY <1>1, <2>7, <4>2, <5>1 DEF SyscallCreate, TypeOK
        <5> QED
          BY <2>2, <3>5, <5>1, <5>2 DEF UserInv
      <4> QED
        BY <4>1, <4>2
    <3>9. UserInv'
      BY <2>2, <3>3, <3>4, <3>6, <3>7, <3>8 DEF UserInv
    <3> QED
      BY <1>1, <1>3, <3>1, <3>2, <3>9 DEF IInv
  <2>8. CASE SyscallExit(eax)
    <3>1. SuspendedInv'
      BY <1>2, <2>1, <2>8 DEF SyscallExit
    <3>2. PidInv'
      BY <1>1, <2>2, <2>8 DEF SyscallExit, PidInv, TypeOK, UserInv, Live
    <3>3. \/ UserInv' /\ Running'
          \/ halted' = "panic" /\ Live' = {}
      BY <1>1, <2>1, <2>2, <2>8, ExitFromUser DEF SyscallExit
    <3> QED
      BY <1>1, <1>3, <3>1, <3>2, <3>3 DEF IInv, HaltInv, Running
  <2> QED
    BY <1>5, <2>3, <2>4, <2>5, <2>6, <2>7, <2>8 DEF Syscall
<1>6. CASE CreatePcb \/ CreateStep
  <2>1. Running /\ BootInv
    BY <1>6 DEF CreatePcb, CreateStep, CreateCurrent, InsertKcalloc, InsertPrev, InsertNext,
         InsertTail, InsertHead, InsertSize, CreateSelf, At, InUserCode, IInv, UserInv,
         UserContext, SyscallsOnly
  <2>2. BootInv' /\ Running' /\ PidInv' /\ suspended' = suspended
    BY <1>1, <1>6, <2>1, BootStep
  <2> QED
    BY <1>1, <1>3, <2>2 DEF IInv, SuspendedInv
<1>7. CASE Work
  <2>1. Running /\ UserInv
    BY <1>7 DEF Work, InUserCode, IInv, BootInv
  <2>2. UserContext(cpu'.own, cpu') /\ cpu'.own = cpu.own
    BY <1>1, <1>7, <2>1, AdvanceIsUser DEF Work, UserInv, TypeOK
  <2>3. Live' = Live /\ Running' /\ PidInv' /\ SuspendedInv'
    BY <1>1, <1>7, <2>1 DEF Work, Live, Running, PidInv, SuspendedInv, InterruptState
  <2>4. ListInv'
    BY <1>7, <2>1, <2>3 DEF Work, UserInv, listVars, pcbVars, ListInv,
         NodesAreProcesses, NextInPidOrder, HeadIsLargest, LinkedBack, SizeInv
  <2>5. UserInv'
    BY <1>7, <2>1, <2>2, <2>3, <2>4 DEF Work, UserInv, InterruptState, pcbVars
  <2> QED
    BY <1>1, <1>3, <2>3, <2>5 DEF IInv
<1>8. CASE UNCHANGED vars
  BY <1>1, <1>8 DEF vars, IInv, PidInv, SuspendedInv, HaltInv, Running, BootInv, UserInv, Live,
       ListInv, NodesAreProcesses, NextInPidOrder, HeadIsLargest, LinkedBack, SizeInv
<1>9. ~StackLost
  BY StackIsKept
<1> QED
  BY <1>4, <1>5, <1>6, <1>7, <1>8, <1>9 DEF Next

\* The invariant holds in every behaviour of programs that only use system calls.
THEOREM InvariantHolds ==
  ASSUME SyscallsOnly
  PROVE  Spec => []IInv
<1>1. IInv /\ [Next]_vars => IInv'
  BY IInvStep
<1> QED
  BY <1>1, IInvInit, PTL DEF Spec

\* The process on the processor is current_process and last_process and is live.
THEOREM RunningIsCurrentHolds ==
  ASSUME SyscallsOnly
  PROVE  Spec => []RunningIsCurrent
<1>1. IInv => RunningIsCurrent
  BY DEF IInv, BootInv, UserInv, RunningIsCurrent
<1> QED
  BY <1>1, InvariantHolds, PTL

\* The pcb of every process that is not running holds exactly the context in which
\* the process was last interrupted.
THEOREM ContextPreservedHolds ==
  ASSUME SyscallsOnly
  PROVE  Spec => []ContextPreserved
<1>1. IInv => ContextPreserved
  <2> SUFFICES ASSUME IInv, NEW p \in Live, Running, p # cpu.own
               PROVE  regs[p] = IF suspended[p].own = NULL THEN EntryContext(p) ELSE suspended[p]
    BY DEF ContextPreserved
  <2>1. CASE BootInv
    BY <2>1 DEF BootInv, Live, ZeroContext, EntryContext
  <2>2. CASE UserInv
    BY <2>2 DEF UserInv
  <2> QED
    BY <2>1, <2>2 DEF IInv
<1> QED
  BY <1>1, InvariantHolds, PTL

\* The scheduler panics only when every process ever created has exited.
THEOREM PanicOnlyWhenAllExitedHolds ==
  ASSUME SyscallsOnly
  PROVE  Spec => []PanicOnlyWhenAllExited
<1>1. IInv => PanicOnlyWhenAllExited
  <2> SUFFICES ASSUME IInv, halted = "panic", NEW p \in 0 .. curr_pid - 1
               PROVE  state[p] = "zombie"
    BY DEF PanicOnlyWhenAllExited
  <2>1. p \in Pcb /\ p < curr_pid /\ p \in Int /\ curr_pid \in Int
    BY SchedulerAssumption DEF IInv, TypeOK, Pcb
  <2>2. state[p] # "none" /\ state[p] # "created"
    BY <2>1 DEF IInv, PidInv, HaltInv, Live
  <2> QED
    BY <2>1, <2>2 DEF IInv, TypeOK
<1> QED
  BY <1>1, InvariantHolds, PTL

\* The list the scheduler walks is intact whenever it can be walked.
THEOREM ListIntactHolds ==
  ASSUME SyscallsOnly
  PROVE  Spec => []ListIntact
<1>1. IInv => ListIntact
  <2> SUFFICES ASSUME IInv, Running PROVE ListIntact
    BY DEF ListIntact
  <2>1. TypeOK
    BY DEF IInv
  <2>2. CASE ListInv
    <3>1. head \in alloc
      BY <2>2 DEF ListInv, HeadIsLargest
    <3>2. ASSUME NEW p \in Live
          PROVE  /\ self[p] \in alloc /\ val[self[p]] = p
                 /\ next[self[p]] # NULL =>
                      /\ next[self[p]] \in alloc /\ val[next[self[p]]] \in Live
                      /\ prev[next[self[p]]] = self[p]
                 /\ next[self[p]] = NULL => tail = self[p]
                 /\ IF prev[self[p]] = NULL THEN head = self[p] ELSE prev[self[p]] \in alloc
      <4>1. self[p] \in alloc /\ val[self[p]] = p
        BY <2>2 DEF ListInv, NodesAreProcesses
      <4>2. next[self[p]] = NULL => tail = self[p]
        BY <2>1, <2>2, <4>1, LastIsTail
      <4> QED
        BY <2>2, <4>1, <4>2 DEF ListInv, NodesAreProcesses, NextInPidOrder, LinkedBack
    <3> QED
      BY <3>1, <3>2 DEF ListIntact
  <2>3. CASE BootInv /\ cpu.eip # "loop"
    <3>1. \A p \in Live : self[p] = NULL
      BY <2>3, SchedulerAssumption DEF BootInv, IInv, PidInv, Live, Pcb
    <3>2. head # NULL => head \in alloc
      BY <2>3 DEF BootInv
    <3> QED
      BY <3>1, <3>2 DEF ListIntact
  <2> QED
    BY <2>2, <2>3 DEF IInv, UserInv, BootInv
<1> QED
  BY <1>1, InvariantHolds, PTL

\* schedule() meets a null self only if the tick fell into the window of kmain's creation
\* of the first process.
THEOREM NullOnlyInWindowHolds ==
  ASSUME SyscallsOnly
  PROVE  Spec => []NullOnlyInWindow
<1>1. IInv => NullOnlyInWindow
  <2> SUFFICES ASSUME IInv PROVE NullOnlyInWindow
    OBVIOUS
  <2>1. ASSUME halted = "null" PROVE InWindow(current)
    BY <2>1 DEF IInv, HaltInv, InWindow, Contexts
  <2>2. ASSUME NEW p \in Live, Running, p = current, size # 0, self[p] = NULL
        PROVE  InWindow(p)
    <3>1. ~ListInv
      BY <2>2, SchedulerAssumption DEF ListInv, NodesAreProcesses, IInv, TypeOK
    <3>2. BootInv /\ cpu.eip = "self" /\ cpu.p1 = 0 /\ p = 0
      BY <2>2, <3>1 DEF IInv, UserInv, BootInv
    <3> QED
      BY <3>2 DEF InWindow, Contexts
  <2> QED
    BY <2>1, <2>2 DEF NullOnlyInWindow
<1> QED
  BY <1>1, InvariantHolds, PTL

\* The branch of schedule() for the first process is dead code.
THEOREM FirstBranchDeadHolds ==
  ASSUME SyscallsOnly
  PROVE  Spec => []FirstBranchDead
<1>1. IInv => FirstBranchDead
  BY SchedulerAssumption DEF IInv, UserInv, BootInv, FirstBranchDead, Live, Pcb
<1> QED
  BY <1>1, InvariantHolds, PTL

\* A zombie stays one and never gets the processor again.
THEOREM ZombieIsFinalHolds ==
  ASSUME SyscallsOnly
  PROVE  Spec => ZombieIsFinal
<1> USE SchedulerAssumption
<1>1. ASSUME IInv, IInv', [Next]_vars
      PROVE  [\A p \in Pcb : state[p] = "zombie" => state'[p] = "zombie" /\ cpu'.own # p]_vars
  <2> SUFFICES ASSUME Next, NEW p \in Pcb, state[p] = "zombie"
               PROVE  state'[p] = "zombie" /\ cpu'.own # p
    BY <1>1
  <2>1. TypeOK /\ p # curr_pid
    BY <1>1 DEF IInv, PidInv, TypeOK, Pcb
  <2>2. state'[p] = "zombie"
    BY <2>1 DEF Next, Tick, CreatePcb, CreateStep, CreateCurrent, InsertKcalloc, InsertPrev,
         InsertNext, InsertTail, InsertHead, InsertSize, CreateSelf, StackLost, Work, Syscall,
         SyscallUnknown, SyscallNull, SyscallSchedule, SyscallPrintf, SyscallCreate,
         SyscallExit, TypeOK, vars
  <2>3. Running
    BY DEF Next, Tick, CreatePcb, CreateStep, CreateCurrent, InsertKcalloc, InsertPrev,
         InsertNext, InsertTail, InsertHead, InsertSize, CreateSelf, StackLost, Work, Syscall,
         SyscallUnknown, SyscallNull, SyscallSchedule, SyscallPrintf, SyscallCreate,
         SyscallExit, EnterHandler, At, InUserCode
  <2>4. cpu.own # p
    BY <1>1, <2>3 DEF IInv, BootInv, UserInv, Live
  <2>5. CASE Running'
    BY <1>1, <2>2, <2>5 DEF IInv, BootInv, UserInv, Live
  <2>6. CASE ~Running'
    <3>1. ASSUME NEW st, schedule(st) PROVE cpu' = cpu
      BY <2>3, <2>6, <3>1 DEF schedule, Running
    <3>2. ASSUME Tick PROVE cpu' = cpu
      <4>1. CASE ScheduleDue
        BY <3>1, <3>2, <4>1 DEF Tick
      <4>2. CASE ~ScheduleDue
        BY <2>3, <2>6, <3>2, <4>2 DEF Tick, Running
      <4> QED
        BY <4>1, <4>2
    <3>3. ASSUME NEW eax \in SysNums, Syscall(eax) PROVE cpu' = cpu
      BY <2>3, <2>6, <3>1, <3>3 DEF Syscall, SyscallUnknown, SyscallNull, SyscallSchedule,
           SyscallPrintf, SyscallCreate, SyscallExit, vars, Running
    <3>4. ASSUME CreatePcb \/ CreateStep \/ StackLost \/ Work PROVE cpu' = cpu
      BY <2>3, <2>6, <3>4 DEF CreatePcb, CreateStep, CreateCurrent, InsertKcalloc,
           InsertPrev, InsertNext, InsertTail, InsertHead, InsertSize, CreateSelf, StackLost,
           Work, InterruptState, Running
    <3> QED
      BY <2>2, <2>4, <3>2, <3>3, <3>4 DEF Next
  <2> QED
    BY <2>2, <2>4, <2>5, <2>6
<1>2. Spec => []IInv
  BY InvariantHolds
<1>3. Spec => [][Next]_vars
  BY PTL DEF Spec
<1> QED
  BY <1>1, <1>2, <1>3, PTL DEF ZombieIsFinal

\* A process that a tick or a switch lets continue continues in the context in which it
\* was last interrupted; a new one starts at its entry.
THEOREM ResumeWhereLeftHolds ==
  ASSUME SyscallsOnly
  PROVE  Spec => ResumeWhereLeft
<1> USE SchedulerAssumption
<1>1. ASSUME IInv, IInv', [Next]_vars
      PROVE  [(Tick \/ cpu'.own # cpu.own) /\ cpu'.own \in Pcb /\ Running' =>
                Registers(cpu') =
                  Registers(IF suspended'[cpu'.own].own = NULL THEN EntryContext(cpu'.own)
                            ELSE suspended'[cpu'.own])]_vars
  <2> SUFFICES ASSUME Next, Tick \/ cpu'.own # cpu.own, cpu'.own \in Pcb, Running'
               PROVE  Resumed
    BY <1>1 DEF Resumed
  <2>1. /\ TypeOK /\ TypeOK' /\ SuspendedInv /\ ~BootInv'
        /\ (Running => BootInv \/ UserInv) /\ halted' # "null" /\ halted' # "panic"
    BY <1>1 DEF IInv, BootInv, Running
  <2>2. CASE Tick
    <3>1. /\ Running /\ EnterHandler /\ state' = state /\ self' = self
          /\ curr_pid' = curr_pid
      BY <2>2 DEF Tick, EnterHandler
    <3>2. CASE ScheduleDue /\ UserInv
      BY <2>1, <2>2, <3>1, <3>2, ScheduleFromUser DEF Tick
    <3>3. CASE ScheduleDue /\ BootInv
      BY <2>1, <2>2, <3>1, <3>3, ScheduleFromBoot DEF Tick
    <3>4. CASE ~ScheduleDue
      <4>1. cpu' = cpu /\ cpu.own \in Pcb /\ cpu.own # NULL
        BY <2>1, <2>2, <3>1, <3>4, HandlerSaves DEF Tick
      <4>2. suspended'[cpu.own] = cpu
        BY <2>1, <3>1, <4>1 DEF EnterHandler, TypeOK
      <4> QED
        BY <4>1, <4>2 DEF Resumed
    <3> QED
      BY <2>1, <3>1, <3>2, <3>3, <3>4
  <2>3. ASSUME NEW eax \in SysNums, Syscall(eax), cpu'.own # cpu.own PROVE Resumed
    <3>1. Running /\ cpu.own \in Pcb
      BY <2>3 DEF Syscall, SyscallUnknown, SyscallNull, SyscallSchedule, SyscallPrintf,
           SyscallCreate, SyscallExit, InUserCode
    <3>2. UserInv
      BY <2>1, <3>1 DEF BootInv
    <3>3. Advance(cpu).own = cpu.own
      BY <2>1, <3>2, AdvanceIsUser DEF UserInv, TypeOK
    <3>4. SyscallSchedule(eax) \/ SyscallExit(eax)
      BY <2>3, <3>3 DEF Syscall, SyscallUnknown, SyscallNull, SyscallPrintf, SyscallCreate, vars
    <3>5. CASE SyscallSchedule(eax)
      BY <2>1, <3>1, <3>2, <3>5, ScheduleFromUser DEF SyscallSchedule
    <3>6. CASE SyscallExit(eax)
      BY <2>1, <3>1, <3>2, <3>6, ExitFromUser DEF SyscallExit
    <3> QED
      BY <3>4, <3>5, <3>6
  <2>4. ASSUME CreatePcb \/ CreateStep \/ StackLost \/ Work PROVE cpu'.own = cpu.own
    <3>1. cpu \in Context
      BY <2>1 DEF TypeOK
    <3>2. CASE Work
      BY <3>1, <3>2 DEF Work, Advance, Context
    <3>3. CASE CreatePcb
      BY <3>1, <3>3 DEF CreatePcb, Context
    <3>4. CASE CreateSelf
      BY <3>1, <3>4 DEF CreateSelf, Context
    <3>5. CASE InsertKcalloc
      BY <3>1, <3>5 DEF InsertKcalloc, Context
    <3>6. ASSUME NEW e, GoTo(e) PROVE cpu'.own = cpu.own
      BY <3>1, <3>6 DEF GoTo, Context
    <3>7. CASE CreateCurrent \/ InsertPrev \/ InsertNext \/ InsertTail \/ InsertHead \/ InsertSize
      BY <3>6, <3>7 DEF CreateCurrent, InsertPrev, InsertNext, InsertTail, InsertHead, InsertSize
    <3> QED
      BY <2>4, <3>2, <3>3, <3>4, <3>5, <3>7 DEF CreateStep, StackLost
  <2> QED
    BY <2>2, <2>3, <2>4 DEF Next
<1>2. Spec => []IInv
  BY InvariantHolds
<1>3. Spec => [][Next]_vars
  BY PTL DEF Spec
<1> QED
  BY <1>1, <1>2, <1>3, PTL DEF ResumeWhereLeft


-----------------------------------------------------------------------------
(***************************************************************************)
(* Scheduler implements RoundRobin, for programs that enter the kernel     *)
(* through system calls: the ring is the list of live processes by         *)
(* decreasing pid, because creation inserts ever larger pids in front.     *)
(***************************************************************************)

\* What the walk along next needs: the part of ListInv that holds from the moment head
\* names the first node.
WalkInv ==
  /\ \A n \in alloc : val[n] \in Pcb
  /\ \A m, n \in alloc : val[m] = val[n] => m = n
  /\ NextInPidOrder /\ HeadIsLargest

\* A walk of k nodes finds every allocated node, by decreasing pid, and ends.
Walk(k) ==
  /\ k \in Nat
  /\ \A i \in 1 .. k : NodeAt[i] \in alloc
  /\ \A i \in Nat : i > k => NodeAt[i] = NULL
  /\ \A i, j \in 1 .. k : i < j => val[NodeAt[j]] < val[NodeAt[i]]
  /\ \A n \in alloc : \E i \in 1 .. k : NodeAt[i] = n

-----------------------------------------------------------------------------
(* The walk.                                                                *)

\* NodeAt satisfies its defining equation, whatever the list looks like.
LEMMA NodeAtDef ==
  ASSUME TypeOK
  PROVE  \A i \in Nat : NodeAt[i] = IF i <= 1 THEN head
                                    ELSE IF NodeAt[i - 1] = NULL THEN NULL ELSE next[NodeAt[i - 1]]
<1> DEFINE Ptr == Node \cup {NULL}
           step == [p \in Ptr |-> IF p = NULL THEN NULL ELSE next[p]]
           Eqn(f) == f = [i \in Nat |-> IF i <= 1 THEN head
                                        ELSE IF f[i - 1] = NULL THEN NULL ELSE next[f[i - 1]]]
<1>1. step \in [Ptr -> Ptr] /\ head \in Ptr
  BY DEF TypeOK
<1>2. PICK g \in [Nat -> Ptr] : g[0] = head /\ \A n \in Nat : g[n + 1] = step[g[n]]
  <2> HIDE DEF step, Ptr
  <2>1. \E g \in [Nat -> Ptr] : IsIteration(g, step, head)
    BY <1>1, IterationExists
  <2> QED
    BY <2>1 DEF IsIteration
<1> HIDE DEF step
<1> DEFINE h == [i \in Nat |-> IF i <= 1 THEN head ELSE g[i - 1]]
<1>3. ASSUME NEW i \in Nat
      PROVE  h[i] = IF i <= 1 THEN head ELSE IF h[i - 1] = NULL THEN NULL ELSE next[h[i - 1]]
  <2>1. CASE i <= 1
    BY <2>1
  <2>2. CASE ~(i <= 1)
    <3>1. i - 1 \in Nat /\ i - 2 \in Nat /\ (i - 2) + 1 = i - 1
      BY <2>2
    <3>2. h[i] = step[g[i - 2]] /\ g[i - 2] \in Ptr
      BY <1>2, <2>2, <3>1
    <3>3. h[i - 1] = g[i - 2]
      BY <1>2, <2>2, <3>1
    <3> QED
      BY <2>2, <3>2, <3>3 DEF step
  <2> QED
    BY <2>1, <2>2
<1>4. Eqn(h)
  BY <1>3
<1>5. NodeAt = CHOOSE f : Eqn(f)
  BY DEF NodeAt
<1> HIDE DEF h
<1>6. Eqn(NodeAt)
  BY <1>4, <1>5
<1> QED
  BY <1>6

\* The walk ends, and finds every node.
LEMMA WalkExists ==
  ASSUME TypeOK, WalkInv
  PROVE  \E k \in Nat \ {0} : Walk(k)
<1> USE SchedulerAssumption
<1>1. \A i \in Nat : NodeAt[i] = IF i <= 1 THEN head
                                 ELSE IF NodeAt[i - 1] = NULL THEN NULL ELSE next[NodeAt[i - 1]]
  BY NodeAtDef
<1>2. /\ head \in alloc /\ NULL \notin alloc /\ alloc \subseteq Node
      /\ \A n \in alloc : val[n] \in Int /\ 0 <= val[n] /\ val[n] < MaxProcs
      /\ \A n \in alloc : next[n] # NULL => next[n] \in alloc /\ val[next[n]] < val[n]
  BY DEF WalkInv, HeadIsLargest, NextInPidOrder, TypeOK, Pcb
<1>3. ASSUME NEW i \in Nat \ {0}, NodeAt[i] # NULL
      PROVE  NodeAt[i] \in alloc /\ val[NodeAt[i]] <= MaxProcs - i
  <2> DEFINE A == {n \in Nat : NodeAt[n + 1] # NULL =>
                     NodeAt[n + 1] \in alloc /\ val[NodeAt[n + 1]] <= MaxProcs - (n + 1)}
  <2>1. 0 \in A
    BY <1>1, <1>2
  <2>2. ASSUME NEW n \in A PROVE n + 1 \in A
    <3>1. n + 2 \in Nat /\ ~(n + 2 <= 1) /\ (n + 2) - 1 = n + 1 /\ (n + 1) + 1 = n + 2
      OBVIOUS
    <3>2. NodeAt[n + 2] = IF NodeAt[n + 1] = NULL THEN NULL ELSE next[NodeAt[n + 1]]
      BY <1>1, <3>1
    <3>3. NodeAt[n + 2] # NULL => NodeAt[n + 2] \in alloc /\ val[NodeAt[n + 2]] <= MaxProcs - (n + 2)
      BY <1>2, <3>2
    <3> QED
      BY <3>1, <3>3
  <2>3. A = Nat
    BY <2>1, <2>2, SetInduction
  <2>4. i - 1 \in A /\ (i - 1) + 1 = i
    BY <2>3
  <2> QED
    BY <1>3, <2>4
<1> DEFINE E == {i \in Nat : i # 0 /\ NodeAt[i] = NULL}
<1>4. E # {}
  <2>1. MaxProcs + 1 \in Nat \ {0}
    OBVIOUS
  <2>2. NodeAt[MaxProcs + 1] = NULL
    BY <1>2, <1>3, <2>1
  <2> QED
    BY <2>1, <2>2
<1>5. PICK e \in E : \A i \in E : e <= i
  BY <1>4, LeastNat
<1> DEFINE k == e - 1
<1>6. k \in Nat \ {0} /\ NodeAt[k + 1] = NULL /\ \A i \in 1 .. k : NodeAt[i] # NULL
  BY <1>1, <1>2, <1>5
<1> HIDE DEF k, E
<1>7. \A i \in 1 .. k : NodeAt[i] \in alloc
  BY <1>3, <1>6
<1>8. \A i \in 2 .. k : NodeAt[i] = next[NodeAt[i - 1]] /\ i - 1 \in 1 .. k
  BY <1>1, <1>6
<1>9. next[NodeAt[k]] = NULL
  BY <1>1, <1>6
<1>10. ASSUME NEW i \in Nat, i > k PROVE NodeAt[i] = NULL
  <2> DEFINE A == {n \in Nat : NodeAt[(k + 1) + n] = NULL}
  <2>1. 0 \in A
    BY <1>6
  <2>2. ASSUME NEW n \in A PROVE n + 1 \in A
    <3>1. /\ (k + 1) + (n + 1) \in Nat /\ ~((k + 1) + (n + 1) <= 1)
          /\ ((k + 1) + (n + 1)) - 1 = (k + 1) + n
      BY <1>6
    <3>2. NodeAt[(k + 1) + (n + 1)] = NULL
      BY <1>1, <3>1
    <3> QED
      BY <3>2
  <2>3. A = Nat
    BY <2>1, <2>2, SetInduction
  <2>4. i - (k + 1) \in Nat /\ (k + 1) + (i - (k + 1)) = i
    BY <1>6, <1>10
  <2>5. i - (k + 1) \in A
    BY <2>3, <2>4
  <2> QED
    BY <2>4, <2>5
<1>11. ASSUME NEW i \in 1 .. k, NEW j \in 1 .. k, i < j
       PROVE  val[NodeAt[j]] < val[NodeAt[i]]
  <2> DEFINE A == {n \in Nat : i + 1 + n <= k => val[NodeAt[i + 1 + n]] < val[NodeAt[i]]}
  <2>1. 0 \in A
    <3>1. i + 1 \in 2 .. k /\ i + 1 + 0 = i + 1 /\ (i + 1) - 1 = i
      BY <1>6, <1>11
    <3>2. NodeAt[i + 1] = next[NodeAt[i]] /\ NodeAt[i + 1] # NULL /\ NodeAt[i] \in alloc
      BY <1>6, <1>7, <1>8, <3>1
    <3> QED
      BY <1>2, <3>1, <3>2
  <2>2. ASSUME NEW n \in A PROVE n + 1 \in A
    <3>1. CASE i + 1 + (n + 1) <= k
      <4>1. /\ i + 1 + (n + 1) \in 2 .. k /\ (i + 1 + (n + 1)) - 1 = i + 1 + n
            /\ i + 1 + n \in 1 .. k /\ i + 1 + n <= k
        BY <1>6, <3>1
      <4>2. /\ NodeAt[i + 1 + (n + 1)] = next[NodeAt[i + 1 + n]]
            /\ NodeAt[i + 1 + (n + 1)] # NULL /\ NodeAt[i + 1 + (n + 1)] \in alloc
            /\ NodeAt[i + 1 + n] \in alloc /\ NodeAt[i] \in alloc
        BY <1>6, <1>7, <1>8, <4>1
      <4>3. val[NodeAt[i + 1 + n]] < val[NodeAt[i]]
        BY <4>1
      <4>4. val[NodeAt[i + 1 + (n + 1)]] < val[NodeAt[i]]
        BY <1>2, <4>2, <4>3
      <4> QED
        BY <4>4
    <3>2. CASE ~(i + 1 + (n + 1) <= k)
      BY <3>2
    <3> QED
      BY <3>1, <3>2
  <2>3. A = Nat
    BY <2>1, <2>2, SetInduction
  <2>4. j - (i + 1) \in A /\ i + 1 + (j - (i + 1)) = j
    BY <1>11, <2>3
  <2> QED
    BY <2>4
<1>12. ASSUME NEW n \in alloc PROVE \E i \in 1 .. k : NodeAt[i] = n
  \* The last node of the walk whose pid is not smaller than n's.
  <2> DEFINE B == {i \in Nat : i \in 2 .. k + 1 /\ (i = k + 1 \/ val[NodeAt[i]] < val[n])}
  <2>1. k + 1 \in B
    BY <1>6
  <2>2. PICK b \in B : \A i \in B : b <= i
    BY <2>1, LeastNat
  <2>3. /\ b \in 2 .. k + 1 /\ (b = k + 1 \/ val[NodeAt[b]] < val[n])
        /\ b - 1 \in 1 .. k /\ b - 1 \notin B
    BY <1>6, <2>2
  <2> DEFINE m == NodeAt[b - 1]
  <2>4. m \in alloc /\ val[m] \in Int /\ val[n] \in Int /\ val[m] >= val[n]
    <3>1. m \in alloc
      BY <1>7, <2>3
    <3>2. CASE b - 1 = 1
      <4>1. m = head
        BY <1>1, <3>2
      <4> QED
        BY <1>2, <4>1 DEF WalkInv, HeadIsLargest
    <3>3. CASE b - 1 # 1
      <4>1. ~(val[NodeAt[b - 1]] < val[n])
        BY <1>6, <2>3, <3>3
      <4> QED
        BY <1>2, <3>1, <4>1
    <3> QED
      BY <3>2, <3>3
  <2>5. val[m] = val[n]
    <3>1. CASE b = k + 1
      <4>1. next[m] = NULL
        BY <1>6, <1>9, <3>1
      <4>2. val[m] <= val[n]
        BY <2>4, <4>1 DEF WalkInv, NextInPidOrder
      <4> QED
        BY <2>4, <4>2
    <3>2. CASE b # k + 1
      <4>1. b \in 2 .. k /\ next[m] = NodeAt[b] /\ next[m] # NULL /\ val[next[m]] < val[n]
        BY <1>6, <1>8, <2>3, <3>2
      <4>2. val[n] < val[m] => val[n] <= val[next[m]]
        BY <2>4, <4>1 DEF WalkInv, NextInPidOrder
      <4>3. next[m] \in alloc /\ val[next[m]] \in Int
        BY <1>2, <2>4, <4>1
      <4> QED
        BY <2>4, <4>1, <4>2, <4>3
    <3> QED
      BY <3>1, <3>2
  <2> QED
    BY <2>3, <2>4, <2>5 DEF WalkInv
<1> QED
  BY <1>6, <1>7, <1>10, <1>11, <1>12 DEF Walk

\* The ring is what the walk finds.
LEMMA RingOfWalk ==
  ASSUME TypeOK, WalkInv, NEW k \in Nat, Walk(k)
  PROVE  /\ ListLength = k /\ Ring = [i \in 1 .. k |-> val[NodeAt[i]]]
         /\ Ring \in [1 .. k -> Pcb] /\ Decreasing(Ring, k)
         /\ Ring \in Seq(Pcb) /\ Len(Ring) = k
         /\ \A n \in alloc : \E i \in 1 .. k : NodeAt[i] = n /\ Ring[i] = val[n]
         /\ \A i \in 1 .. k : NodeAt[i] \in alloc /\ Ring[i] = val[NodeAt[i]]
<1> USE SchedulerAssumption
<1>1. /\ \A i \in 1 .. k : NodeAt[i] \in alloc
      /\ \A i \in Nat : i > k => NodeAt[i] = NULL
      /\ \A i, j \in 1 .. k : i < j => val[NodeAt[j]] < val[NodeAt[i]]
      /\ \A n \in alloc : \E i \in 1 .. k : NodeAt[i] = n
  BY DEF Walk
<1>2. alloc \subseteq Node /\ NULL \notin alloc /\ \A n \in alloc : val[n] \in Pcb /\ val[n] \in Int
  BY DEF TypeOK, WalkInv, Pcb
<1>3. Cardinality(Node) \in Nat /\ k <= Cardinality(Node)
  <2> DEFINE f == [i \in 1 .. k |-> NodeAt[i]]
  <2>1. f \in [1 .. k -> Node]
    BY <1>1, <1>2
  <2>2. ASSUME NEW i \in 1 .. k, NEW j \in 1 .. k, f[i] = f[j] PROVE i = j
    <3>1. ~(i < j) /\ ~(j < i)
      BY <1>1, <1>2, <2>2
    <3> QED
      BY <3>1
  <2>3. f \in Injection(1 .. k, Node)
    <3> HIDE DEF f
    <3> QED
      BY <2>1, <2>2, Fun_IsInj
  <2>4. Cardinality(1 .. k) = k
    BY FS_Interval
  <2> QED
    BY <2>3, <2>4, FS_Injection, FS_CardinalityType
<1>4. ListLength = k
  <2> DEFINE N == Cardinality(Node) + 1
             T == {i \in 1 .. N : NodeAt[i] # NULL}
  <2>1. N \in Nat /\ k <= N
    BY <1>3
  <2> HIDE DEF N
  <2>2. \A i \in 1 .. N : NodeAt[i] # NULL <=> i \in 1 .. k
    BY <1>1, <1>2, <2>1
  <2>3. T = 1 .. k
    BY <2>1, <2>2
  <2>4. Cardinality(1 .. k) = k
    BY FS_Interval
  <2> QED
    BY <2>3, <2>4 DEF ListLength, N
<1>5. Ring = [i \in 1 .. k |-> val[NodeAt[i]]]
  BY <1>4 DEF Ring
<1>6. Ring \in [1 .. k -> Pcb] /\ Decreasing(Ring, k)
  BY <1>1, <1>2, <1>5 DEF Decreasing
<1>7. Ring \in Seq(Pcb) /\ Len(Ring) = k
  BY <1>1, <1>2, <1>5
<1> QED
  BY <1>1, <1>4, <1>5, <1>6, <1>7

\* The walk counts the allocated nodes.
LEMMA LengthIsCount ==
  ASSUME TypeOK, WalkInv
  PROVE  ListLength = Cardinality(alloc)
<1>1. PICK k \in Nat \ {0} : Walk(k)
  BY WalkExists
<1>2. /\ ListLength = k /\ Decreasing(Ring, k) /\ Ring \in [1 .. k -> Pcb]
      /\ \A n \in alloc : \E i \in 1 .. k : NodeAt[i] = n
      /\ \A i \in 1 .. k : NodeAt[i] \in alloc /\ Ring[i] = val[NodeAt[i]]
  BY <1>1, RingOfWalk
<1> DEFINE f == [i \in 1 .. k |-> NodeAt[i]]
<1>3. ASSUME NEW i \in 1 .. k, NEW j \in 1 .. k, f[i] = f[j] PROVE i = j
  <2>1. \A a, b \in 1 .. k : a < b => Ring[b] < Ring[a]
    BY <1>2 DEF Decreasing
  <2>2. Ring[i] = Ring[j] /\ Ring[i] \in Int
    BY <1>2, <1>3 DEF Pcb
  <2> QED
    BY <2>1, <2>2
<1>4. f \in Bijection(1 .. k, alloc)
  <2>1. f \in [1 .. k -> alloc] /\ \A n \in alloc : \E i \in 1 .. k : f[i] = n
    BY <1>2
  <2> HIDE DEF f
  <2> QED
    BY <1>3, <2>1, Fun_IsBij
<1>5. Cardinality(alloc) = k
  BY <1>4, FS_CountingElements DEF ExistsBijection
<1> QED
  BY <1>2, <1>5

\* The pids in the list.
Listed == {val[n] : n \in alloc}

\* The ring has the listed processes, by decreasing pid.
RingSorted == Ring \in Seq(Pcb) /\ SortedSeq(Ring, Listed)

LEMMA SortedRing == TypeOK /\ WalkInv => RingSorted
<1> SUFFICES ASSUME TypeOK, WalkInv PROVE RingSorted
  OBVIOUS
<1>1. PICK k \in Nat \ {0} : Walk(k)
  BY WalkExists
<1>2. /\ Ring \in [1 .. k -> Pcb] /\ Decreasing(Ring, k) /\ Ring \in Seq(Pcb)
      /\ \A n \in alloc : \E i \in 1 .. k : Ring[i] = val[n]
      /\ \A i \in 1 .. k : NodeAt[i] \in alloc /\ Ring[i] = val[NodeAt[i]]
  BY <1>1, RingOfWalk
<1>3. Ring \in [1 .. k -> Int]
  BY <1>2 DEF Pcb
<1>4. \A i \in 1 .. k : Ring[i] \in Listed
  BY <1>2 DEF Listed
<1>5. \A q \in Listed : \E i \in 1 .. k : Ring[i] = q
  BY <1>2 DEF Listed
<1>6. k \in Nat
  BY <1>1
<1>7. SortedSeq(Ring, Listed)
  BY <1>2, <1>3, <1>4, <1>5, <1>6 DEF SortedSeq
<1> QED
  BY <1>2, <1>7 DEF RingSorted

\* Without a head there is no ring.
LEMMA NoLength == TypeOK /\ head = NULL => ListLength = 0
<1> SUFFICES ASSUME TypeOK, head = NULL PROVE ListLength = 0
  OBVIOUS
<1> USE SchedulerAssumption
<1>1. \A i \in Nat : NodeAt[i] = IF i <= 1 THEN head
                                 ELSE IF NodeAt[i - 1] = NULL THEN NULL ELSE next[NodeAt[i - 1]]
  BY NodeAtDef
<1> DEFINE A == {i \in Nat : NodeAt[i] = NULL}
<1>2. A = Nat
  <2>1. 0 \in A
    BY <1>1
  <2>2. ASSUME NEW n \in A PROVE n + 1 \in A
    <3>1. n + 1 \in Nat /\ (n + 1) - 1 = n
      OBVIOUS
    <3> QED
      BY <1>1, <3>1
  <2> QED
    BY <2>1, <2>2, SetInduction
<1>3. Cardinality(Node) \in Nat
  BY FS_CardinalityType
<1>4. {i \in 1 .. Cardinality(Node) + 1 : NodeAt[i] # NULL} = {}
  BY <1>2, <1>3
<1> QED
  BY <1>4, FS_EmptySet DEF ListLength

LEMMA NoRing == TypeOK /\ head = NULL => Ring = <<>>
BY NoLength DEF Ring

\* An intact list can be walked, and the listed processes are the live ones.
LEMMA ListIsWalkable ==
  ASSUME TypeOK, ListInv
  PROVE  WalkInv /\ Listed = Live
<1>1. \A n \in alloc : val[n] \in Live /\ self[val[n]] = n
  BY DEF ListInv, NodesAreProcesses
<1>2. \A p \in Live : self[p] \in alloc /\ val[self[p]] = p
  BY DEF ListInv, NodesAreProcesses
<1>3. Live \subseteq Pcb
  BY DEF Live
<1> QED
  BY <1>1, <1>2, <1>3 DEF WalkInv, Listed, ListInv

\* So can a list with the first node in it.
LEMMA FirstIsWalkable ==
  ASSUME TypeOK, NEW t \in Node, alloc = {t}, head = t, next[t] = NULL, val[t] = 0
  PROVE  WalkInv /\ Listed = {0}
<1>1. 0 \in Pcb /\ 0 <= 0
  BY SchedulerAssumption DEF Pcb
<1> QED
  BY <1>1 DEF WalkInv, Listed, NextInPidOrder, HeadIsLargest

\* The ring depends on the list only.
LEMMA SameRing ==
  ASSUME head' = head, next' = next, val' = val
  PROVE  Ring' = Ring
<1>1. NodeAt' = NodeAt
  BY DEF NodeAt
<1> QED
  BY <1>1 DEF Ring, ListLength

\* schedule() passes the processor to the successor in the ring.
LEMMA SuccessorIs ==
  ASSUME TypeOK, ListInv, current \in Live
  PROVE  \E i \in 1 .. Len(Ring) :
           /\ Len(Ring) \in Nat /\ Ring[i] = current /\ RR!Position(current) = i
           /\ i = Len(Ring) <=> next[self[current]] = NULL
           /\ i = 1 <=> self[current] = head
           /\ RR!Successor(current) = IF next[self[current]] = NULL THEN val[head]
                                      ELSE val[next[self[current]]]
<1> USE SchedulerAssumption
<1>1. WalkInv /\ self[current] \in alloc /\ val[self[current]] = current /\ NULL \notin alloc
  BY ListIsWalkable DEF ListInv, NodesAreProcesses, TypeOK
<1>2. PICK k \in Nat \ {0} : Walk(k)
  BY <1>1, WalkExists
<1>3. /\ Ring \in [1 .. k -> Pcb] /\ Decreasing(Ring, k) /\ Len(Ring) = k
      /\ \A n \in alloc : \E i \in 1 .. k : NodeAt[i] = n /\ Ring[i] = val[n]
      /\ \A i \in 1 .. k : NodeAt[i] \in alloc /\ Ring[i] = val[NodeAt[i]]
  BY <1>1, <1>2, RingOfWalk
<1>4. PICK i \in 1 .. k : NodeAt[i] = self[current] /\ Ring[i] = current
  BY <1>1, <1>3
<1>5. \A a, b \in 1 .. k : Ring[a] = Ring[b] => a = b
  <2>1. \A a, b \in 1 .. k : a < b => Ring[b] < Ring[a]
    BY <1>3 DEF Decreasing
  <2>2. \A a \in 1 .. k : Ring[a] \in Int
    BY <1>3 DEF Pcb
  <2> QED
    BY <1>2, <2>1, <2>2
<1>6. RR!Position(current) = i
  BY <1>3, <1>4, <1>5 DEF RR!Position
<1>7. \A j \in Nat : NodeAt[j] = IF j <= 1 THEN head
                                 ELSE IF NodeAt[j - 1] = NULL THEN NULL ELSE next[NodeAt[j - 1]]
  BY NodeAtDef
<1>8. NodeAt[i + 1] = next[self[current]] /\ NodeAt[1] = head
  BY <1>1, <1>4, <1>7
<1>9. i = k <=> next[self[current]] = NULL
  <2>1. CASE i = k
    BY <1>2, <1>8, <2>1 DEF Walk
  <2>2. CASE i # k
    <3>1. i + 1 \in 1 .. k
      BY <2>2
    <3> QED
      BY <1>1, <1>3, <1>8, <2>2, <3>1
  <2> QED
    BY <2>1, <2>2
<1>10. i = 1 <=> self[current] = head
  <2>1. 1 \in 1 .. k /\ Ring[1] = val[head]
    BY <1>3, <1>8
  <2> QED
    BY <1>1, <1>4, <1>5, <1>8, <2>1
<1>11. Ring[1] = val[head] /\ (i # k => Ring[i + 1] = val[next[self[current]]])
  <2>1. 1 \in 1 .. k /\ (i # k => i + 1 \in 1 .. k)
    OBVIOUS
  <2> QED
    BY <1>3, <1>8, <2>1
<1>12. RR!Successor(current) = IF next[self[current]] = NULL THEN val[head]
                               ELSE val[next[self[current]]]
  BY <1>3, <1>6, <1>9, <1>11 DEF RR!Successor
<1> QED
  BY <1>3, <1>4, <1>6, <1>9, <1>10, <1>12

-----------------------------------------------------------------------------
(* What the steps that change the list do to the ring.                      *)

\* The ring of an intact list, in a state and in the next one.
LEMMA RingIsLive == TypeOK /\ ListInv => Ring \in Seq(Pcb) /\ SortedSeq(Ring, Live)
BY SortedRing, ListIsWalkable DEF RingSorted

\* A sequence of integers, as SortedSeq wants it.
LEMMA SortedSeqOf ==
  ASSUME NEW s \in Seq(Int), Decreasing(s, Len(s)), NEW L,
         \A i \in 1 .. Len(s) : s[i] \in L,
         \A p \in L : \E i \in 1 .. Len(s) : s[i] = p
  PROVE  SortedSeq(s, L)
<1>1. Len(s) \in Nat /\ s \in [1 .. Len(s) -> Int]
  BY LenProperties
<1> QED
  BY <1>1 DEF SortedSeq

LEMMA SeqOfSorted ==
  ASSUME NEW s \in Seq(Int), NEW L, SortedSeq(s, L)
  PROVE  /\ Len(s) \in Nat /\ Decreasing(s, Len(s))
         /\ \A i \in 1 .. Len(s) : s[i] \in L /\ s[i] \in Int
         /\ \A p \in L : \E i \in 1 .. Len(s) : s[i] = p
<1>1. PICK k \in Nat : /\ s \in [1 .. k -> Int] /\ Decreasing(s, k)
                       /\ \A i \in 1 .. k : s[i] \in L
                       /\ \A p \in L : \E i \in 1 .. k : s[i] = p
  BY DEF SortedSeq
<1>2. Len(s) = k
  BY <1>1
<1> QED
  BY <1>1, <1>2

\* A larger element goes in front.
LEMMA SortedPush ==
  ASSUME NEW s \in Seq(Int), NEW L, SortedSeq(s, L), NEW p \in Int, \A q \in L : q < p
  PROVE  SortedSeq(<<p>> \o s, L \cup {p})
<1> DEFINE t == <<p>> \o s
<1>1. /\ Len(s) \in Nat /\ Decreasing(s, Len(s))
      /\ \A i \in 1 .. Len(s) : s[i] \in L /\ s[i] \in Int
      /\ \A q \in L : \E i \in 1 .. Len(s) : s[i] = q
  BY SeqOfSorted
<1>2. /\ t \in Seq(Int) /\ Len(t) = Len(s) + 1
      /\ \A i \in 1 .. Len(s) + 1 : t[i] = IF i = 1 THEN p ELSE s[i - 1]
  <2>1. <<p>> \in Seq(Int) /\ Len(<<p>>) = 1 /\ <<p>>[1] = p
    OBVIOUS
  <2> QED
    BY <1>1, <2>1, ConcatProperties
<1> HIDE DEF t
<1>3. ASSUME NEW i \in 1 .. Len(t), NEW j \in 1 .. Len(t), i < j PROVE t[j] < t[i]
  <2>1. j - 1 \in 1 .. Len(s) /\ t[j] = s[j - 1]
    BY <1>1, <1>2, <1>3
  <2>2. CASE i = 1
    BY <1>1, <1>2, <2>1, <2>2
  <2>3. CASE i # 1
    <3>1. i - 1 \in 1 .. Len(s) /\ t[i] = s[i - 1] /\ i - 1 < j - 1
      BY <1>1, <1>2, <1>3, <2>3
    <3> QED
      BY <1>1, <2>1, <3>1 DEF Decreasing
  <2> QED
    BY <2>2, <2>3
<1>4. ASSUME NEW i \in 1 .. Len(t) PROVE t[i] \in L \cup {p}
  <2>1. CASE i = 1
    <3>1. t[1] = p
      BY <1>1, <1>2
    <3> QED
      BY <2>1, <3>1
  <2>2. CASE i # 1
    <3>1. i - 1 \in 1 .. Len(s) /\ t[i] = s[i - 1]
      BY <1>1, <1>2, <2>2
    <3> QED
      BY <1>1, <3>1
  <2> QED
    BY <2>1, <2>2
<1>5. ASSUME NEW q \in L \cup {p} PROVE \E i \in 1 .. Len(t) : t[i] = q
  <2>1. CASE q = p
    <3>1. 1 \in 1 .. Len(t) /\ t[1] = p
      BY <1>1, <1>2
    <3> QED
      BY <2>1, <3>1
  <2>2. CASE q \in L
    <3>1. PICK i \in 1 .. Len(s) : s[i] = q
      BY <1>1, <2>2
    <3>2. i + 1 \in 1 .. Len(s) + 1 /\ i + 1 # 1 /\ (i + 1) - 1 = i
      BY <1>1
    <3>3. i + 1 \in 1 .. Len(t) /\ t[i + 1] = q
      BY <1>2, <3>1, <3>2
    <3> QED
      BY <3>3
  <2> QED
    BY <2>1, <2>2
<1>6. SortedSeq(t, L \cup {p})
  <2>1. Decreasing(t, Len(t))
    BY <1>3 DEF Decreasing
  <2>2. t \in Seq(Int)
    BY <1>2
  <2> QED
    BY <1>4, <1>5, <2>1, <2>2, SortedSeqOf, Zenon
<1> QED
  BY <1>6 DEF t

\* An element is taken out.
LEMMA SortedRemove ==
  ASSUME NEW s \in Seq(Int), NEW L, SortedSeq(s, L), NEW k \in 1 .. Len(s)
  PROVE  SortedSeq(SubSeq(s, 1, k - 1) \o SubSeq(s, k + 1, Len(s)), L \ {s[k]})
<1> DEFINE t == [i \in 1 .. Len(s) - 1 |-> IF i < k THEN s[i] ELSE s[i + 1]]
<1>1. /\ Len(s) \in Nat /\ Decreasing(s, Len(s))
      /\ \A i \in 1 .. Len(s) : s[i] \in L /\ s[i] \in Int
      /\ \A q \in L : \E i \in 1 .. Len(s) : s[i] = q
  BY SeqOfSorted
<1>2. SubSeq(s, 1, k - 1) \o SubSeq(s, k + 1, Len(s)) = t
  BY RemoveAtIs
<1>3. t \in Seq(Int) /\ Len(t) = Len(s) - 1
  BY <1>1
<1>4. \A i \in 1 .. Len(t) : /\ i < k => t[i] = s[i] /\ i \in 1 .. Len(s)
                             /\ i >= k => t[i] = s[i + 1] /\ i + 1 \in 1 .. Len(s)
  BY <1>1, <1>3
<1> HIDE DEF t
<1>5. Decreasing(t, Len(t))
  <2> SUFFICES ASSUME NEW i \in 1 .. Len(t), NEW j \in 1 .. Len(t), i < j PROVE t[j] < t[i]
    BY DEF Decreasing
  <2>1. \E a, b \in 1 .. Len(s) : a < b /\ t[i] = s[a] /\ t[j] = s[b]
    <3>1. CASE j < k
      <4>1. i < k
        BY <1>1, <1>3, <3>1
      <4>2. i \in 1 .. Len(s) /\ j \in 1 .. Len(s) /\ t[i] = s[i] /\ t[j] = s[j]
        BY <1>4, <3>1, <4>1
      <4> QED
        BY <4>2
    <3>2. CASE i < k /\ j >= k
      <4>1. i \in 1 .. Len(s) /\ j + 1 \in 1 .. Len(s) /\ i < j + 1 /\ t[i] = s[i] /\ t[j] = s[j + 1]
        BY <1>4, <3>2
      <4> QED
        BY <4>1
    <3>3. CASE i >= k
      <4>1. /\ i + 1 \in 1 .. Len(s) /\ j + 1 \in 1 .. Len(s) /\ i + 1 < j + 1
            /\ t[i] = s[i + 1] /\ t[j] = s[j + 1]
        BY <1>4, <3>3
      <4> QED
        BY <4>1
    <3>4. j < k \/ (i < k /\ j >= k) \/ i >= k
      BY <1>1, <1>3
    <3> QED
      BY <3>1, <3>2, <3>3, <3>4
  <2> QED
    BY <1>1, <2>1 DEF Decreasing
<1>6. \A a, b \in 1 .. Len(s) : s[a] = s[b] => a = b
  <2>1. \A a, b \in 1 .. Len(s) : a < b => s[b] < s[a]
    BY <1>1 DEF Decreasing
  <2> QED
    BY <1>1, <2>1
<1>7. \A i \in 1 .. Len(t) : t[i] \in L \ {s[k]}
  <2> SUFFICES ASSUME NEW i \in 1 .. Len(t) PROVE t[i] \in L \ {s[k]}
    OBVIOUS
  <2>1. CASE i < k
    BY <1>1, <1>4, <1>6, <2>1
  <2>2. CASE i >= k
    <3>1. i + 1 \in 1 .. Len(s) /\ i + 1 # k /\ t[i] = s[i + 1]
      BY <1>4, <2>2
    <3> QED
      BY <1>1, <1>6, <3>1
  <2> QED
    BY <1>3, <2>1, <2>2
<1>8. ASSUME NEW q \in L \ {s[k]} PROVE \E i \in 1 .. Len(t) : t[i] = q
  <2>1. PICK i \in 1 .. Len(s) : s[i] = q
    BY <1>1
  <2>2. i # k
    BY <2>1
  <2>3. CASE i < k
    <3>1. i \in 1 .. Len(t)
      BY <1>1, <1>3, <2>3
    <3> QED
      BY <1>4, <2>1, <2>3, <3>1
  <2>4. CASE i > k
    <3>1. i - 1 \in 1 .. Len(t) /\ i - 1 >= k /\ (i - 1) + 1 = i
      BY <1>1, <1>3, <2>4
    <3>2. t[i - 1] = s[i]
      BY <1>4, <3>1
    <3> QED
      BY <2>1, <3>1, <3>2
  <2> QED
    BY <2>2, <2>3, <2>4
<1> QED
  BY <1>2, <1>3, <1>5, <1>7, <1>8, SortedSeqOf

\* A process is admitted at the front.
LEMMA AdmitStep ==
  ASSUME Running, Ring \in Seq(Pcb), NEW L, SortedSeq(Ring, L),
         NEW p \in Pcb, SortedSeq(Ring', L \cup {p}), \A q \in L : q < p, state[p] # "zombie",
         cpu'.own = cpu.own, halted' = halted,
         \A q \in Pcb : state'[q] = "zombie" <=> state[q] = "zombie"
  PROVE  RR!Next
<1>1. Ring \in Seq(Int) /\ p \in Int
  <2>1. Pcb \subseteq Int
    BY DEF Pcb
  <2> QED
    BY <2>1, SeqMonotonic
<1>2. SortedSeq(<<p>> \o Ring, L \cup {p})
  BY <1>1, SortedPush
<1>3. Ring' = <<p>> \o Ring
  BY <1>2, SortedUnique
<1>4. p \notin L
  BY <1>1
<1>5. p \notin RR!Range(Ring)
  <2>1. \A i \in 1 .. Len(Ring) : Ring[i] \in L
    BY <1>1, SeqOfSorted
  <2> QED
    BY <1>4, <2>1 DEF RR!Range
<1>6. {q \in Pcb : state[q] = "zombie"}' = {q \in Pcb : state[q] = "zombie"}
  OBVIOUS
<1> QED
  BY <1>3, <1>5, <1>6 DEF RR!Next, RR!Admit, Running

\* The running process leaves the ring, and its successor runs.
LEMMA ExitStep ==
  ASSUME TypeOK, TypeOK', SuspendedInv, UserInv, Running, EnterHandler, self' = self,
         state' = [state EXCEPT ![current] = "zombie"], schedule(state')
  PROVE  RR!Next
<1> USE SchedulerAssumption
<1>1. /\ current \in Live /\ ListInv /\ current # NULL /\ current \in Pcb /\ cpu.own = current
      /\ self[current] \in alloc /\ self[current] # NULL /\ size # 0 /\ current # Boot
  BY ListNotEmpty DEF UserInv, Live, ListInv, NodesAreProcesses, TypeOK
<1>2. state'[current] = "zombie"
  BY <1>1 DEF TypeOK
<1>3. list_remove_node(self[current]) /\ current' = Choice(head')
  BY <1>1, <1>2 DEF schedule
<1>4. /\ Live' = Live \ {current}
      /\ alloc' = alloc \ {self[current]} /\ val' = val
      /\ alloc' = {} => head' = NULL /\ next[self[current]] = NULL
      /\ alloc' # {} => ListInv'
  BY <1>1, <1>3, RemoveKeepsList DEF list_remove_node
<1>5. PICK i \in 1 .. Len(Ring) :
        /\ Len(Ring) \in Nat /\ Ring[i] = current /\ RR!Position(current) = i
        /\ i = Len(Ring) <=> next[self[current]] = NULL
        /\ i = 1 <=> self[current] = head
        /\ RR!Successor(current) = IF next[self[current]] = NULL THEN val[head]
                                   ELSE val[next[self[current]]]
  BY <1>1, SuccessorIs
<1>6. Ring \in Seq(Int) /\ SortedSeq(Ring, Live)
  <2>1. Ring \in Seq(Pcb) /\ SortedSeq(Ring, Live)
    BY <1>1, RingIsLive
  <2> QED
    BY <2>1, SeqMonotonic DEF Pcb
<1> DEFINE r == SubSeq(Ring, 1, i - 1) \o SubSeq(Ring, i + 1, Len(Ring))
<1>7. SortedSeq(r, Live \ {current})
  BY <1>5, <1>6, SortedRemove
<1> HIDE DEF r
<1>8. {p \in Pcb : state[p] = "zombie"}' = {p \in Pcb : state[p] = "zombie"} \cup {current}
  BY <1>1 DEF TypeOK
<1>9. CASE alloc' = {}
  <2>1. current' = NULL
    BY <1>1, <1>3, <1>4, <1>9 DEF Choice, list_peek_front
  <2>2. halted' = "panic" /\ cpu' = cpu
    BY <1>1, <2>1 DEF schedule
  <2>3. Ring' = <<>>
    <3>1. (TypeOK /\ head = NULL => Ring = <<>>)'
      BY NoRing, PTL
    <3> QED
      BY <1>4, <1>9, <3>1
  <2>4. Live \ {current} = {}
    BY <1>1, <1>4, <1>9 DEF ListInv, NodesAreProcesses
  <2>5. SortedSeq(<<>>, Live \ {current})
    <3>1. <<>> \in Seq(Int) /\ Len(<<>>) = 0 /\ 1 .. Len(<<>>) = {}
      OBVIOUS
    <3> QED
      BY <2>4, <3>1, SortedSeqOf DEF Decreasing
  <2>6. Ring' = r
    BY <1>7, <2>3, <2>5, SortedUnique
  <2>7. Len(Ring) = 1
    <3>1. i = Len(Ring)
      BY <1>4, <1>5, <1>9
    <3>2. self[current] = head
      BY <1>1, <1>4, <1>9 DEF ListInv, HeadIsLargest
    <3> QED
      BY <1>5, <3>1, <3>2
  <2>8. ~Running'
    BY <2>2 DEF Running
  <2> QED
    BY <1>1, <1>5, <1>8, <2>2, <2>6, <2>7, <2>8
       DEF RR!Next, RR!Exit, RR!RemoveAt, r
<1>10. CASE alloc' # {}
  <2>1. UserInv' /\ Running'
    <3>1. Live' # {}
      <4>1. ListInv'
        BY <1>4, <1>10
      <4> QED
        BY <1>10, <4>1 DEF ListInv, NodesAreProcesses
    <3> QED
      BY <3>1, ExitFromUser
  <2>2. cpu'.own = current' /\ current' # Boot
    BY <2>1 DEF UserInv, Live
  <2>3. Ring' = r
    <3>1. (TypeOK /\ ListInv => Ring \in Seq(Pcb) /\ SortedSeq(Ring, Live))'
      BY RingIsLive, PTL
    <3>2. SortedSeq(Ring', Live \ {current})
      BY <1>4, <1>10, <3>1
    <3> QED
      BY <1>7, <3>2, SortedUnique
  <2>4. \E n \in alloc : n # self[current]
    BY <1>1, <1>4, <1>10
  <2>5. Len(Ring) # 1
    <3>1. SUFFICES ASSUME Len(Ring) = 1 PROVE FALSE
      OBVIOUS
    <3>2. self[current] = head /\ next[head] = NULL
      BY <1>5, <3>1
    <3>3. \A n \in alloc : val[n] = val[head] /\ n = head
      <4>1. \A n \in alloc : val[n] \in Int /\ val[n] <= val[head] /\ val[head] <= val[n]
        BY <1>1, <3>2 DEF ListInv, HeadIsLargest, NextInPidOrder, NodesAreProcesses, Live, Pcb
      <4>2. \A m, n \in alloc : val[m] = val[n] => m = n
        BY <1>1 DEF ListInv, NodesAreProcesses
      <4> QED
        BY <1>1, <3>2, <4>1, <4>2
    <3> QED
      BY <2>4, <3>2, <3>3
  <2>6. current' = RR!Successor(current)
    <3>1. CASE next[self[current]] = NULL
      <4>1. self[current] # head
        BY <1>5, <2>5, <3>1
      <4>2. head' = head /\ head # NULL
        BY <1>1, <1>3, <4>1 DEF list_remove_node, list_remove_front, list_remove_back,
             list_remove_middle, ListInv, HeadIsLargest, TypeOK
      <4> QED
        BY <1>1, <1>3, <1>5, <3>1, <4>2 DEF Choice, list_peek_front
    <3>2. CASE next[self[current]] # NULL
      BY <1>1, <1>3, <1>5, <3>2 DEF Choice
    <3> QED
      BY <3>1, <3>2
  <2> QED
    BY <1>1, <1>5, <1>8, <2>1, <2>2, <2>3, <2>5, <2>6
       DEF RR!Next, RR!Exit, RR!RemoveAt, r
<1> QED
  BY <1>9, <1>10

\* A call of schedule() with nobody exiting rotates the ring.
LEMMA RotateStep ==
  ASSUME TypeOK, TypeOK', SuspendedInv, UserInv, Running, EnterHandler,
         state' = state, self' = self, schedule(state)
  PROVE  RR!Next
<1> USE SchedulerAssumption
<1>1. /\ current \in Live /\ ListInv /\ current # NULL /\ self[current] # NULL /\ size # 0
      /\ cpu.own = current /\ current # Boot /\ state[current] # "zombie"
  BY ListNotEmpty DEF UserInv, Live, ListInv, NodesAreProcesses, TypeOK
<1>2. listVars' = listVars /\ current' = Choice(head')
  BY <1>1 DEF schedule
<1>3. UserInv' /\ Running' /\ cpu'.own = current' /\ current' # Boot
  <2>1. UserInv' /\ Running'
    BY ScheduleFromUser
  <2> QED
    BY <2>1 DEF UserInv, Live
<1>4. Ring' = Ring
  BY <1>2, SameRing DEF listVars
<1>5. head' = head /\ head # NULL
  BY <1>1, <1>2 DEF listVars, ListInv, HeadIsLargest, TypeOK
<1>6. current' = RR!Successor(current)
  BY <1>1, <1>2, <1>5, SuccessorIs DEF Choice, list_peek_front
<1> QED
  BY <1>1, <1>3, <1>4, <1>6 DEF RR!Next, RR!Rotate

-----------------------------------------------------------------------------
(* The refinement.                                                          *)

\* Before the first dispatch the ring is empty, or holds the first process.
FirstRing ==
  IF cpu.eip \in {"size", "self", "loop"} THEN Ring \in Seq(Pcb) /\ SortedSeq(Ring, {0})
  ELSE Ring = <<>>

LEMMA BootRing == TypeOK /\ BootInv => FirstRing
<1> SUFFICES ASSUME TypeOK, BootInv PROVE FirstRing
  OBVIOUS
<1>1. cpu.eip \notin {"size", "self", "loop"} => Ring = <<>>
  BY NoRing DEF BootInv
<1>2. CASE cpu.eip \in {"size", "self"}
  <2>1. WalkInv /\ Listed = {0}
    BY <1>2, FirstIsWalkable DEF BootInv
  <2> QED
    BY <1>2, <2>1, SortedRing DEF RingSorted, FirstRing
<1>3. CASE cpu.eip = "loop"
  BY <1>3, RingIsLive DEF BootInv, FirstRing
<1> QED
  BY <1>1, <1>2, <1>3 DEF FirstRing

LEMMA EmptySorted == ASSUME NEW L, L = {} PROVE SortedSeq(<<>>, L) /\ <<>> \in Seq(Pcb)
<1>1. <<>> \in Seq(Int) /\ Len(<<>>) = 0 /\ 1 .. Len(<<>>) = {}
  OBVIOUS
<1>2. SortedSeq(<<>>, L)
  BY <1>1, SortedSeqOf DEF Decreasing
<1> QED
  BY <1>2

\* Nothing the ring shows has changed.
LEMMA StutterStep ==
  ASSUME Ring' = Ring, cpu'.own = cpu.own, halted' = halted,
         \A p \in Pcb : state'[p] = "zombie" <=> state[p] = "zombie"
  PROVE  UNCHANGED RR!vars
<1>1. {p \in Pcb : state[p] = "zombie"}' = {p \in Pcb : state[p] = "zombie"}
  OBVIOUS
<1> QED
  BY <1>1 DEF RR!vars, Running

\* The machine stops, on an error.
LEMMA FailStep ==
  ASSUME Running, ~Running', cpu' = cpu, state' = state, Ring' = Ring
  PROVE  RR!Next
BY DEF RR!Next, RR!Fail

\* A tick while kmain is on the processor.
LEMMA BootTick ==
  ASSUME TypeOK, TypeOK', BootInv, Running, EnterHandler, state' = state, schedule(state)
  PROVE  [RR!Next]_(RR!vars)
<1> USE SchedulerAssumption
<1>1. CASE cpu.eip \notin {"self", "loop"}
  <2>1. size = 0
    BY <1>1 DEF BootInv
  <2>2. cpu' = cpu /\ halted' = halted /\ Ring' = Ring
    BY <2>1, SameRing, HandlerSaves DEF schedule, listVars
  <2> QED
    BY <2>2, StutterStep
<1>2. CASE cpu.eip = "self"
  <2>1. size # 0 /\ current # NULL /\ self[current] = NULL
    BY <1>2 DEF BootInv, Pcb
  <2>2. halted' = "null" /\ cpu' = cpu /\ listVars' = listVars
    BY <2>1 DEF schedule
  <2>3. ~Running' /\ Ring' = Ring
    BY <2>2, SameRing DEF Running, listVars
  <2> QED
    BY <2>2, <2>3, FailStep
<1>3. CASE cpu.eip = "loop"
  <2>1. ListInv /\ current = 0 /\ Live = {0} /\ last = NULL /\ cpu.own = Boot
    BY <1>3 DEF BootInv
  <2>2. /\ current # NULL /\ current \in Live /\ current \in Pcb
        /\ self[current] # NULL /\ size # 0 /\ state[current] # "zombie"
    BY <2>1, ListNotEmpty DEF ListInv, NodesAreProcesses, Live, TypeOK
  <2>3. listVars' = listVars /\ current' = Choice(head')
    BY <2>2 DEF schedule
  <2>4. current' = 0 /\ current' # NULL
    BY <2>1, <2>2, <2>3, ChoiceIsLive DEF listVars, Live
  <2>5. context_switch(NULL, current') /\ halted' = halted
    BY <2>1, <2>2, <2>4 DEF schedule, LastToSave
  <2>6. cpu' = EntryContext(0) /\ cpu'.own = 0 /\ 0 # Boot
    BY <2>1, <2>4, <2>5 DEF context_switch, SavedRegs, BootInv, EntryContext, Pcb
  <2>7. Ring' = Ring
    BY <2>3, SameRing DEF listVars
  <2>8. Ring \in Seq(Int) /\ SortedSeq(Ring, {0})
    <3>1. Ring \in Seq(Pcb) /\ SortedSeq(Ring, {0}) /\ Pcb \subseteq Int
      BY <1>3, BootRing DEF FirstRing, Pcb
    <3> QED
      BY <3>1, SeqMonotonic
  <2>9. Ring # <<>> /\ Ring[1] = 0
    <3>1. PICK i \in 1 .. Len(Ring) : Ring[i] = 0
      BY <2>8, SeqOfSorted
    <3>2. Len(Ring) \in Nat /\ 1 \in 1 .. Len(Ring) /\ \A j \in 1 .. Len(Ring) : Ring[j] \in {0}
      BY <2>8, <3>1, SeqOfSorted
    <3> QED
      BY <3>2
  <2> QED
    BY <2>1, <2>5, <2>6, <2>7, <2>9 DEF RR!Next, RR!Start, Running
<1> QED
  BY <1>1, <1>2, <1>3

\* kmain's creation: the store of head is the step that admits the first process.
LEMMA BootCreateStep ==
  ASSUME SyscallsOnly, TypeOK, TypeOK', PidInv, BootInv, BootInv', Running, CreatePcb \/ CreateStep
  PROVE  [RR!Next]_(RR!vars)
<1> USE SchedulerAssumption
<1>1. cpu.own = Boot /\ cpu'.own = Boot /\ cpu.eip # "user" /\ cpu \in Context
  BY DEF BootInv, TypeOK
<1>2. FirstRing /\ FirstRing'
  <2>1. (TypeOK /\ BootInv => FirstRing)'
    BY BootRing, PTL
  <2> QED
    BY <2>1, BootRing
<1>3. CASE CreatePcb
  <2>1. Ring' = Ring /\ halted' = halted
    BY <1>3, SameRing DEF CreatePcb, listVars, InterruptState
  <2>2. curr_pid \in Pcb /\ state[curr_pid] = "none"
    BY <1>3 DEF CreatePcb, TypeOK, PidInv, Pcb
  <2>3. \A p \in Pcb : state'[p] = "zombie" <=> state[p] = "zombie"
    BY <1>3, <2>2 DEF CreatePcb, TypeOK
  <2> QED
    BY <1>1, <2>1, <2>3, StutterStep
<1>4. CASE CreateCurrent \/ InsertSize \/ CreateSelf
  <2>1. Ring' = Ring /\ halted' = halted /\ state' = state
    BY <1>4, SameRing DEF CreateCurrent, InsertSize, CreateSelf, listVars, InterruptState
  <2> QED
    BY <1>1, <2>1, StutterStep
<1>5. CASE InsertKcalloc \/ InsertPrev \/ InsertNext \/ InsertTail
  <2>1. cpu.eip \in {"kcalloc", "prev", "next", "tail"} /\ halted' = halted /\ state' = state
    BY <1>5 DEF InsertKcalloc, InsertPrev, InsertNext, InsertTail, At, InterruptState
  <2>2. cpu'.eip \in {"prev", "next", "tail", "head"}
    BY <1>1, <1>5 DEF InsertKcalloc, InsertPrev, InsertNext, InsertTail, GoTo, Context
  <2>3. Ring = <<>> /\ Ring' = <<>>
    BY <1>2, <2>1, <2>2 DEF FirstRing
  <2> QED
    BY <1>1, <2>1, <2>3, StutterStep
<1>6. CASE InsertHead
  <2>1. cpu.eip = "head" /\ halted' = halted /\ state' = state
    BY <1>6 DEF InsertHead, At, InterruptState
  <2>2. cpu'.eip = "size"
    BY <1>1, <1>6 DEF InsertHead, GoTo, Context
  <2>3. Ring = <<>> /\ SortedSeq(Ring', {} \cup {0})
    BY <1>2, <2>1, <2>2 DEF FirstRing
  <2>4. SortedSeq(Ring, {}) /\ Ring \in Seq(Pcb)
    BY <2>3, EmptySorted
  <2>5. 0 \in Pcb /\ state[0] # "zombie"
    BY <2>1 DEF BootInv, Live, Pcb
  <2> QED
    BY <1>1, <2>1, <2>3, <2>4, <2>5, AdmitStep
<1> QED
  BY <1>3, <1>4, <1>5, <1>6 DEF CreateStep

\* Every step of the scheduler is a step of the ring or leaves it alone.
LEMMA RefinementStep ==
  ASSUME SyscallsOnly, IInv, IInv', [Next]_vars
  PROVE  [RR!Next]_(RR!vars)
<1> USE SchedulerAssumption
<1>1. /\ TypeOK /\ TypeOK' /\ PidInv /\ SuspendedInv
      /\ (Running => BootInv \/ UserInv) /\ (Running' => BootInv' \/ UserInv')
  BY DEF IInv
<1>2. CASE Tick
  <2>1. Running /\ EnterHandler /\ state' = state /\ self' = self
    BY <1>2 DEF Tick, EnterHandler
  <2>2. CASE ScheduleDue /\ UserInv
    BY <1>1, <1>2, <2>1, <2>2, RotateStep DEF Tick
  <2>3. CASE ScheduleDue /\ BootInv
    BY <1>1, <1>2, <2>1, <2>3, BootTick DEF Tick
  <2>4. CASE ~ScheduleDue
    <3>1. cpu' = cpu /\ halted' = halted /\ listVars' = listVars
      BY <1>1, <1>2, <2>1, <2>4, HandlerSaves DEF Tick
    <3>2. Ring' = Ring
      BY <3>1, SameRing DEF listVars
    <3> QED
      BY <2>1, <3>1, <3>2, StutterStep
  <2> QED
    BY <1>1, <2>1, <2>2, <2>3, <2>4
<1>3. ASSUME NEW eax \in SysNums, Syscall(eax) PROVE [RR!Next]_(RR!vars)
  <2>1. Running /\ cpu.own \in Pcb /\ cpu.own # Boot
    BY <1>3 DEF Syscall, SyscallUnknown, SyscallNull, SyscallSchedule, SyscallPrintf,
         SyscallCreate, SyscallExit, InUserCode
  <2>2. UserInv /\ UserContext(cpu.own, cpu)
    BY <1>1, <2>1 DEF BootInv, UserInv
  <2>3. Advance(cpu).own = cpu.own
    BY <1>1, <2>2, AdvanceIsUser DEF TypeOK
  <2>4. CASE SyscallUnknown(eax)
    <3>1. Ring' = Ring /\ cpu' = cpu /\ halted' = halted /\ state' = state
      BY <2>4, SameRing DEF SyscallUnknown, vars
    <3> QED
      BY <3>1, StutterStep
  <2>5. CASE SyscallNull(eax)
    <3>1. Ring' = Ring /\ cpu' = cpu /\ state' = state
      BY <2>5, SameRing DEF SyscallNull, listVars
    <3>2. ~Running'
      BY <2>5 DEF SyscallNull, Running
    <3> QED
      BY <2>1, <3>1, <3>2, FailStep
  <2>6. CASE SyscallSchedule(eax)
    BY <1>1, <2>1, <2>2, <2>6, RotateStep DEF SyscallSchedule
  <2>7. CASE SyscallPrintf(eax)
    <3>1. Ring' = Ring /\ cpu'.own = cpu.own /\ halted' = halted /\ state' = state
      BY <2>3, <2>7, SameRing DEF SyscallPrintf, listVars
    <3> QED
      BY <3>1, StutterStep
  <2>8. CASE SyscallCreate(eax)
    <3>1. /\ curr_pid \in Pcb /\ state[curr_pid] = "none" /\ halted' = halted
          /\ cpu'.own = cpu.own
      BY <1>1, <2>3, <2>8 DEF SyscallCreate, TypeOK, PidInv, Pcb
    <3>2. /\ Live' = Live \cup {curr_pid} /\ \A q \in Live : q < curr_pid
          /\ \A p \in Pcb : state'[p] = "zombie" <=> state[p] = "zombie"
      BY <1>1, <2>8, <3>1 DEF SyscallCreate, Live, TypeOK, PidInv, Pcb
    <3>3. Running' /\ ListInv /\ ListInv'
      <4>1. Running' /\ cpu'.own # Boot
        BY <2>1, <3>1 DEF Running
      <4> QED
        BY <1>1, <2>2, <4>1 DEF UserInv, BootInv
    <3>4. Ring \in Seq(Pcb) /\ SortedSeq(Ring, Live)
      BY <1>1, <3>3, RingIsLive
    <3>5. SortedSeq(Ring', Live \cup {curr_pid})
      <4>1. (TypeOK /\ ListInv => Ring \in Seq(Pcb) /\ SortedSeq(Ring, Live))'
        BY RingIsLive, PTL
      <4> QED
        BY <1>1, <3>2, <3>3, <4>1
    <3> QED
      BY <2>1, <3>1, <3>2, <3>4, <3>5, AdmitStep
  <2>9. CASE SyscallExit(eax)
    BY <1>1, <2>1, <2>2, <2>9, ExitStep DEF SyscallExit
  <2> QED
    BY <1>3, <2>4, <2>5, <2>6, <2>7, <2>8, <2>9 DEF Syscall
<1>4. CASE CreatePcb \/ CreateStep
  <2>1. Running /\ cpu.eip # "user"
    BY <1>4 DEF CreatePcb, CreateStep, CreateCurrent, InsertKcalloc, InsertPrev, InsertNext,
         InsertTail, InsertHead, InsertSize, CreateSelf, At, InUserCode, SyscallsOnly
  <2>2. BootInv
    BY <1>1, <2>1 DEF UserInv, UserContext
  <2>3. BootInv'
    BY <1>1, <1>4, <2>1, <2>2, BootStep
  <2> QED
    BY <1>1, <1>4, <2>1, <2>2, <2>3, BootCreateStep
<1>5. CASE Work
  <2>1. Running /\ cpu.own \in Pcb
    BY <1>5 DEF Work, InUserCode
  <2>2. UserInv /\ UserContext(cpu.own, cpu)
    BY <1>1, <2>1 DEF BootInv, UserInv
  <2>3. cpu'.own = cpu.own /\ halted' = halted /\ state' = state /\ Ring' = Ring
    BY <1>1, <1>5, <2>2, AdvanceIsUser, SameRing DEF Work, TypeOK, InterruptState, listVars
  <2> QED
    BY <2>3, StutterStep
<1>6. CASE UNCHANGED vars
  <2>1. Ring' = Ring /\ cpu' = cpu /\ halted' = halted /\ state' = state
    BY <1>6, SameRing DEF vars
  <2> QED
    BY <2>1, StutterStep
<1>7. ~StackLost
  BY StackIsKept
<1> QED
  BY <1>2, <1>3, <1>4, <1>5, <1>6, <1>7 DEF Next

\* The pointer-level scheduler is a round robin over the processes: schedule() passes the
\* processor to the successor in the ring, a creation admits one process at the front, an
\* exit removes exactly the process that asked for it.
THEOREM ImplementsRoundRobinHolds ==
  ASSUME SyscallsOnly
  PROVE  Spec => ImplementsRoundRobin
<1>1. Init => RR!Init
  <2> SUFFICES ASSUME Init PROVE RR!Init
    OBVIOUS
  <2>1. TypeOK /\ head = NULL
    BY IInvInit DEF Init, IInv
  <2>2. Ring = <<>>
    BY <2>1, NoRing
  <2>3. cpu.own = Boot /\ Running /\ {p \in Pcb : state[p] = "zombie"} = {}
    BY DEF Init, BootContext, EntryContext, Running
  <2> QED
    BY <2>2, <2>3 DEF RR!Init
<1>2. IInv /\ IInv' /\ [Next]_vars => [RR!Next]_(RR!vars)
  BY RefinementStep
<1> QED
  BY <1>1, <1>2, InvariantHolds, PTL DEF Spec, ImplementsRoundRobin, RR!Spec

\* Every live process whose insertion has returned is found by walking the list.
THEOREM InsertedIsListedHolds ==
  ASSUME SyscallsOnly
  PROVE  Spec => []InsertedIsListed
<1>1. IInv => InsertedIsListed
  <2> SUFFICES ASSUME IInv, Running, NEW p \in Live, self[p] # NULL
               PROVE  \E i \in 1 .. ListLength : Ring[i] = p
    BY DEF InsertedIsListed
  <2>1. TypeOK /\ ListInv
    BY SchedulerAssumption DEF IInv, UserInv, BootInv, PidInv, Live, Pcb
  <2>2. WalkInv /\ self[p] \in alloc /\ val[self[p]] = p
    BY <2>1, ListIsWalkable DEF ListInv, NodesAreProcesses
  <2>3. PICK k \in Nat \ {0} : Walk(k)
    BY <2>1, <2>2, WalkExists
  <2> QED
    BY <2>1, <2>2, <2>3, RingOfWalk
<1> QED
  BY <1>1, InvariantHolds, PTL

\* Running contexts of processes are never inside an insertion, so size is the number of
\* nodes a walk from head meets, less the one that kmain has linked but not counted.
THEOREM SizeMatchesListHolds ==
  ASSUME SyscallsOnly
  PROVE  Spec => []SizeMatchesList
<1> USE SchedulerAssumption
<1>1. IInv => SizeMatchesList
  <2> SUFFICES ASSUME IInv, Running
               PROVE  size = ListLength - Cardinality({c \in Contexts : c.eip = "size"})
    BY DEF SizeMatchesList
  <2>1. TypeOK /\ SuspendedInv /\ (BootInv \/ UserInv)
    BY DEF IInv
  <2>2. \A p \in Live \ {cpu.own} : regs[p].eip = "user"
    <3>1. \A p \in Pcb : EntryContext(p).eip = "user" /\ suspended[p].eip = "user"
      BY <2>1 DEF SuspendedInv, UserContext, EntryContext, ZeroContext
    <3> QED
      BY <2>1, <3>1 DEF BootInv, UserInv, Live
  <2>3. {c \in Contexts : c.eip = "size"} = IF cpu.eip = "size" THEN {cpu} ELSE {}
    BY <2>2 DEF Contexts
  <2>4. Cardinality({c \in Contexts : c.eip = "size"}) = IF cpu.eip = "size" THEN 1 ELSE 0
    BY <2>3, FS_EmptySet, FS_Singleton
  <2>5. CASE ListInv /\ cpu.eip # "size"
    <3>1. ListLength = Cardinality(alloc) /\ size = Cardinality(alloc) /\ size \in Int
      BY <2>1, <2>5, ListIsWalkable, LengthIsCount DEF ListInv, SizeInv, TypeOK
    <3> QED
      BY <2>4, <2>5, <3>1
  <2>6. CASE BootInv /\ cpu.eip \notin {"size", "self", "loop"}
    <3>1. ListLength = 0 /\ size = 0
      BY <2>1, <2>6, NoLength DEF BootInv
    <3> QED
      BY <2>4, <2>6, <3>1
  <2>7. CASE BootInv /\ cpu.eip \in {"size", "self"}
    <3>1. WalkInv /\ alloc = {cpu.t} /\ size = IF cpu.eip = "size" THEN 0 ELSE 1
      BY <2>1, <2>7, FirstIsWalkable DEF BootInv
    <3>2. ListLength = 1
      BY <2>1, <3>1, LengthIsCount, FS_Singleton
    <3> QED
      BY <2>4, <2>7, <3>1, <3>2
  <2> QED
    BY <2>1, <2>5, <2>6, <2>7 DEF BootInv, UserInv, UserContext
<1> QED
  BY <1>1, InvariantHolds, PTL
=============================================================================
