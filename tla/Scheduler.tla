----------------------------- MODULE Scheduler -----------------------------
(***************************************************************************)
(* The process scheduler of the kernel, at the level of the pointers it    *)
(* follows: scheduler/process.c, the part of lib/list.c it calls, the      *)
(* system calls that enter it (syscall/syscall.c, syscall/_exit.c) and the *)
(* timer interrupt that preempts everything else (isr.c, drivers/timer.c). *)
(*                                                                         *)
(* What is atomic.  Interrupt and system-call handlers run with IF = 0     *)
(* (interrupt gates, cli in interrupt.s), so a handler is one action.      *)
(* Everything else runs with IF = 1: the boot code (idt.c enables          *)
(* interrupts before kmain creates the first process) and ring 3, where    *)
(* user_process calls create_process_from_routine as a plain function.     *)
(* That function is therefore one action for every access to shared state. *)
(*                                                                         *)
(* Data.  A pcb is named by its pid.  A context is a record: whose it is   *)
(* (own), where it executes (eip), the two locals of the creation routine  *)
(* (p1, t) and a value the program computes in a register (w).             *)
(*                                                                         *)
(* Stacks.  The compiler keeps p1 and t on the stack.  kmain runs on a     *)
(* stack of its own (loader.s), in ring 0, where an interrupt pushes its   *)
(* frame below what is there.  Every process starts with the same esp,     *)
(* 0xC0400000 (process.c:136), and an interrupt that leaves ring 3 starts  *)
(* at esp0 = 0x400000 (kernel.c:185): the same page of memory, written     *)
(* from the same end, so a handler overwrites the frames of the process    *)
(* it interrupts.  A program's own locals and calls are not modelled: they *)
(* are lost the same way, and only programs that keep to registers, as     *)
(* those of userland.s do, run on.                                         *)
(***************************************************************************)
EXTENDS Integers, FiniteSets

CONSTANTS
  MaxProcs,       \* bound: pids handed out, 0 .. MaxProcs-1
  Node,           \* heap blocks available to list_insert_front
  NULL,           \* the null pointer
  Boot,           \* owner of the context kmain runs in
  SchedOffset,    \* ticks between two calls of schedule (30 in the code)
  JiffyModulus,   \* jiffies is a uint32_t: 2^32 in the code
  WorkMod,        \* bound: distinct values of a program's registers
  DirectCallers,  \* processes that call create_process_from_routine directly
  SyscallCallers, \* processes that use int 0x80
  SysNums         \* values of eax they use

Pcb == 0 .. MaxProcs - 1
NUM_SYSCALLS == 5

ASSUME SchedulerAssumption ==
  /\ MaxProcs \in Nat \ {0}
  /\ SchedOffset \in Nat \ {0} /\ JiffyModulus \in Nat \ {0}
  /\ WorkMod \in Nat \ {0}
  /\ IsFiniteSet(Node)
  /\ NULL \notin Pcb /\ NULL \notin Node /\ Boot \notin Pcb /\ Boot # NULL
  /\ DirectCallers \subseteq Pcb /\ SyscallCallers \subseteq Pcb
  /\ SysNums \subseteq Nat

VARIABLES
  cpu,        \* the registers of the processor outside handlers
  inService,  \* the timer's in-service bit in the PIC
  jiffies,
  saved,      \* saved_context
  current,    \* current_process
  last,       \* last_process
  curr_pid,
  regs, state, self,               \* the fields of each pcb
  head, tail, size,                \* process_list
  next, prev, val,                 \* the fields of each list node
  alloc,                           \* nodes that kcalloc handed out
  halted,     \* "no", or why the machine stopped ("stack": it runs on, but
              \* with a lost frame, and what it does is out of the model)
  suspended   \* history: the context each process was last interrupted in

pcbVars  == <<regs, self>>
listVars == <<head, tail, size, next, prev, val, alloc>>
vars == <<cpu, inService, jiffies, saved, current, last, curr_pid, regs, state,
          self, head, tail, size, next, prev, val, alloc, halted, suspended>>

\* The stages of create_process_from_routine as its caller sees them.  Each
\* names the shared access that comes next.
CreateStages == {"current", "kcalloc", "prev", "next", "tail", "head", "size", "self"}
Eip == {"start", "loop", "user"} \cup CreateStages

Context == [own : Pcb \cup {Boot, NULL}, eip : Eip, p1 : Pcb \cup {NULL},
            t : Node \cup {NULL}, w : 0 .. WorkMod - 1]

\* What a pcb's regs hold after creation, and memory that was never written.
EntryContext(p) == [own |-> p, eip |-> "user", p1 |-> NULL, t |-> NULL, w |-> 0]
ZeroContext     == EntryContext(NULL)
BootContext     == [EntryContext(Boot) EXCEPT !.eip = "start"]

\* The context after the program's next computation, or after a system call
\* returned to it (eax holds the result).
Advance(c) == [c EXCEPT !.w = (@ + 1) % WorkMod]

\* What survives of a context when a handler interrupts it.
Registers(c) == <<c.own, c.eip, c.w>>

\* The context after a handler has used the stack: a process has lost its frames.
Interrupted(c) == IF c.own \in Pcb THEN [c EXCEPT !.p1 = NULL, !.t = NULL] ELSE c

Running == halted = "no"

Init ==
  /\ cpu = BootContext /\ inService = FALSE /\ jiffies = 0
  /\ saved = ZeroContext
  /\ current = NULL /\ last = NULL /\ curr_pid = 0
  /\ regs = [p \in Pcb |-> ZeroContext]
  /\ state = [p \in Pcb |-> "none"]
  /\ self = [p \in Pcb |-> NULL]
  /\ head = NULL /\ tail = NULL /\ size = 0
  /\ next = [n \in Node |-> NULL] /\ prev = [n \in Node |-> NULL]
  /\ val = [n \in Node |-> NULL]
  /\ alloc = {}
  /\ halted = "no"
  /\ suspended = [p \in Pcb |-> ZeroContext]

-----------------------------------------------------------------------------
(* lib/list.c: the operations the scheduler uses, inside a handler.         *)

list_peek_front(hd) == IF hd = NULL THEN NULL ELSE val[hd]

\* list_remove_front: the tail is left alone, even if the list becomes empty.
list_remove_front(n) ==
  /\ head = n
  /\ head' = next[n]
  /\ prev' = IF next[n] = NULL THEN prev ELSE [prev EXCEPT ![next[n]] = NULL]
  /\ UNCHANGED <<tail, next>>

\* Mutant: the new last node keeps its pointer to the removed one.
list_remove_back_NoUnlink(n) ==
  /\ head # n /\ tail = n
  /\ tail' = prev[n]
  /\ UNCHANGED <<head, prev, next>>

list_remove_back(n) ==
  /\ head # n /\ tail = n
  /\ tail' = prev[n]
  /\ next' = IF prev[n] = NULL THEN next ELSE [next EXCEPT ![prev[n]] = NULL]
  /\ UNCHANGED <<head, prev>>

\* Mutant: only the forward pointer is redirected.
list_remove_middle_OneWay(n) ==
  /\ head # n /\ tail # n
  /\ next' = [next EXCEPT ![prev[n]] = next[n]]
  /\ UNCHANGED <<head, tail, prev>>

list_remove_middle(n) ==
  /\ head # n /\ tail # n
  /\ prev' = [prev EXCEPT ![next[n]] = prev[n]]
  /\ next' = [next EXCEPT ![prev[n]] = next[n]]
  /\ UNCHANGED <<head, tail>>

\* Mutant: the size is not updated.
list_remove_node_NoSize(n) ==
  /\ list_remove_front(n) \/ list_remove_back(n) \/ list_remove_middle(n)
  /\ alloc' = alloc \ {n}
  /\ UNCHANGED <<size, val>>

list_remove_node(n) ==
  /\ list_remove_front(n) \/ list_remove_back(n) \/ list_remove_middle(n)
  /\ size' = size - 1
  /\ alloc' = alloc \ {n}
  /\ UNCHANGED val

list_insert_front(t, v) ==
  /\ prev' = [n \in Node |-> IF n = t THEN NULL ELSE IF n = head THEN t ELSE prev[n]]
  /\ next' = [next EXCEPT ![t] = head]
  /\ val' = [val EXCEPT ![t] = v]
  /\ tail' = IF head = NULL THEN t ELSE tail
  /\ head' = t
  /\ size' = size + 1
  /\ alloc' = alloc \cup {t}

-----------------------------------------------------------------------------
(* process.c, pic.c: choosing and dispatching the next process.             *)

\* Mutant: no EOI is sent.
ack_irq_None(bit) == bit

\* ack_irq: the EOI clears the in-service bit, if it is set.
ack_irq(bit) == FALSE

allocate_pid == curr_pid + 1

\* last_process as context_switch finds it: no context is saved for a zombie,
\* nor for the boot code.
LastToSave(st) ==
  IF current = NULL THEN NULL ELSE IF st[current] = "zombie" THEN NULL ELSE last

\* Mutant: the copy in saved_context is the one of the previous interrupt.
SavedRegs_Stale(lst, ctx) == IF lst = NULL THEN regs ELSE [regs EXCEPT ![lst] = saved]

\* The registers of the interrupted process go into its pcb.
SavedRegs(lst, ctx) == IF lst = NULL THEN regs ELSE [regs EXCEPT ![lst] = ctx]

\* Mutant: the front of the list, always.
Choice_Front(hd) == list_peek_front(hd)

\* Mutant: no wrap from the end of the list to its front.
Choice_NoWrap(hd) == IF next[self[current]] = NULL THEN NULL ELSE val[next[self[current]]]

\* The next process: the successor of current_process in the list as it was
\* before a zombie was unlinked, or the front of the list as it is now (hd).
\* The branch for current_process = NULL takes the front, too.
Choice(hd) ==
  IF current = NULL THEN list_peek_front(hd)
  ELSE IF next[self[current]] = NULL THEN list_peek_front(hd)
  ELSE val[next[self[current]]]

\* Mutant: the registers are loaded before the interrupted ones are saved.
context_switch_LoadFirst(lst, nxt) ==
  /\ regs' = SavedRegs(lst, saved')
  /\ inService' = ack_irq(inService)
  /\ last' = nxt
  /\ cpu' = regs[nxt]

context_switch(lst, nxt) ==
  /\ regs' = SavedRegs(lst, saved')
  /\ inService' = ack_irq(inService)
  /\ last' = nxt
  /\ cpu' = regs'[nxt]

\* schedule() with the pcb states st, in a handler that has just stored
\* saved_context.  It never returns, except from an empty list.
schedule(st) ==
  \/ /\ size = 0
     /\ cpu' = saved'
     /\ UNCHANGED <<current, last, regs, halted, listVars>>
     /\ inService' = ack_irq(inService)
  \/ /\ size # 0 /\ current # NULL
     /\ self[current] = NULL                    \* (current_process->self)->next
     /\ halted' = "null"
     /\ inService' = ack_irq(inService)
     /\ UNCHANGED <<cpu, current, last, regs, listVars>>
  \/ /\ size # 0
     /\ current # NULL => self[current] # NULL
     /\ IF current # NULL /\ st[current] = "zombie"
          THEN list_remove_node(self[current])
          ELSE UNCHANGED listVars
     /\ current' = Choice(head')
     /\ IF current' = NULL
          THEN /\ halted' = "panic"
               /\ last' = LastToSave(st)
               /\ inService' = ack_irq(inService)
               /\ UNCHANGED <<cpu, regs>>
          ELSE /\ context_switch(LastToSave(st), current')
               /\ UNCHANGED halted

\* A handler begins, on the stack of the interrupted process: the registers are copied
\* to saved_context.
EnterHandler ==
  /\ Running
  /\ saved' = Interrupted(cpu)
  /\ suspended' = IF cpu.own \in Pcb THEN [suspended EXCEPT ![cpu.own] = cpu]
                  ELSE suspended

ScheduleDue == jiffies' % SchedOffset = 0

\* IRQ 0: irq_handler acknowledges, timer_handler counts and calls schedule when
\* its period has elapsed.  schedule is at the head of the callback list.
Tick ==
  /\ ~inService
  /\ EnterHandler
  /\ jiffies' = (jiffies + 1) % JiffyModulus
  /\ IF ScheduleDue
       THEN schedule(state)
       ELSE /\ inService' = ack_irq(TRUE)
            /\ cpu' = saved'
            /\ UNCHANGED <<current, last, regs, halted, listVars>>
  /\ UNCHANGED <<curr_pid, state, self>>

-----------------------------------------------------------------------------
(* syscall.c: int 0x80 from ring 3.                                         *)

InUserCode(S) == Running /\ cpu.own \in S /\ cpu.eip = "user"

\* eax >= NUM_SYSCALLS: the dispatcher returns before it touches anything.
SyscallUnknown(eax) ==
  /\ InUserCode(SyscallCallers) /\ eax >= NUM_SYSCALLS
  /\ UNCHANGED vars

\* syscall_table[0] is a null pointer, and the dispatcher calls it.
SyscallNull(eax) ==
  /\ InUserCode(SyscallCallers) /\ eax = 0
  /\ EnterHandler
  /\ halted' = "call0"
  /\ UNCHANGED <<cpu, inService, jiffies, current, last, curr_pid, state, pcbVars, listVars>>

SyscallSchedule(eax) ==
  /\ InUserCode(SyscallCallers) /\ eax = 1
  /\ EnterHandler
  /\ schedule(state)
  /\ UNCHANGED <<jiffies, curr_pid, state, self>>

SyscallPrintf(eax) ==
  /\ InUserCode(SyscallCallers) /\ eax = 2
  /\ EnterHandler
  /\ cpu' = Advance(cpu)
  /\ UNCHANGED <<inService, jiffies, current, last, curr_pid, state, pcbVars, listVars, halted>>

\* create_process_from_routine as a system call: nothing can interrupt it.
SyscallCreate(eax) ==
  /\ InUserCode(SyscallCallers) /\ eax = 3
  /\ curr_pid < MaxProcs
  /\ EnterHandler
  /\ curr_pid' = allocate_pid
  /\ regs' = [regs EXCEPT ![curr_pid] = EntryContext(curr_pid)]
  /\ state' = [state EXCEPT ![curr_pid] = "created"]
  /\ current' = IF current = NULL THEN curr_pid ELSE current
  /\ \E t \in Node \ alloc :
       /\ list_insert_front(t, curr_pid)
       /\ self' = [self EXCEPT ![curr_pid] = t]
  /\ cpu' = Advance(cpu)
  /\ UNCHANGED <<inService, jiffies, last, halted>>

\* _exit.
SyscallExit(eax) ==
  /\ InUserCode(SyscallCallers) /\ eax = 4
  /\ EnterHandler
  /\ state' = [state EXCEPT ![current] = "zombie"]
  /\ schedule(state')
  /\ UNCHANGED <<jiffies, curr_pid, self>>

Syscall(eax) ==
  \/ SyscallUnknown(eax) \/ SyscallNull(eax) \/ SyscallSchedule(eax)
  \/ SyscallPrintf(eax)  \/ SyscallCreate(eax) \/ SyscallExit(eax)

-----------------------------------------------------------------------------
(* create_process_from_routine as a plain call, interruptible between any   *)
(* two of its accesses to shared state.                                     *)

\* The caller has come to this stage with its frame intact.
At(stage) == Running /\ cpu.eip = stage /\ (stage # "start" => cpu.p1 # NULL)
GoTo(stage) == cpu' = [cpu EXCEPT !.eip = stage]

\* What a creating context leaves alone when it runs.
InterruptState == <<inService, jiffies, saved, suspended, last, halted>>

\* process.c:129-147: the pcb is private until it is published.
CreatePcb ==
  /\ At("start") \/ InUserCode(DirectCallers)
  /\ curr_pid < MaxProcs
  /\ curr_pid' = allocate_pid
  /\ regs' = [regs EXCEPT ![curr_pid] = EntryContext(curr_pid)]
  /\ state' = [state EXCEPT ![curr_pid] = "created"]
  /\ cpu' = [cpu EXCEPT !.eip = "current", !.p1 = curr_pid]
  /\ UNCHANGED <<InterruptState, current, self, listVars>>

\* process.c:148-149.
CreateCurrent ==
  /\ At("current")
  /\ current' = IF current = NULL THEN cpu.p1 ELSE current
  /\ GoTo("kcalloc")
  /\ UNCHANGED <<InterruptState, curr_pid, state, pcbVars, listVars>>

\* list.c:45: kcalloc zeroes the node.
InsertKcalloc ==
  /\ At("kcalloc")
  /\ \E t \in Node \ alloc :
       /\ alloc' = alloc \cup {t}
       /\ next' = [next EXCEPT ![t] = NULL]
       /\ prev' = [prev EXCEPT ![t] = NULL]
       /\ val' = [val EXCEPT ![t] = NULL]
       /\ cpu' = [cpu EXCEPT !.eip = "prev", !.t = t]
  /\ UNCHANGED <<InterruptState, current, curr_pid, state, pcbVars, head, tail, size>>

\* list.c:46: for an empty list the store goes through the null pointer, to low
\* memory that nothing here reads.
InsertPrev ==
  /\ At("prev")
  /\ prev' = IF head = NULL THEN prev ELSE [prev EXCEPT ![head] = cpu.t]
  /\ GoTo("next")
  /\ UNCHANGED <<InterruptState, current, curr_pid, state, pcbVars, head, tail, size, next,
                 val, alloc>>

\* list.c:47-48: the node is not linked yet; head is read again.
InsertNext ==
  /\ At("next")
  /\ next' = [next EXCEPT ![cpu.t] = head]
  /\ val' = [val EXCEPT ![cpu.t] = cpu.p1]
  /\ GoTo("tail")
  /\ UNCHANGED <<InterruptState, current, curr_pid, state, pcbVars, head, tail, size, prev,
                 alloc>>

\* list.c:51-52.
InsertTail ==
  /\ At("tail")
  /\ tail' = IF head = NULL THEN cpu.t ELSE tail
  /\ GoTo("head")
  /\ UNCHANGED <<InterruptState, current, curr_pid, state, pcbVars, head, size, next, prev,
                 val, alloc>>

\* Mutant: the head is only set for an empty list.
InsertHead_FirstOnly ==
  /\ At("head")
  /\ head' = IF head = NULL THEN cpu.t ELSE head
  /\ GoTo("size")
  /\ UNCHANGED <<InterruptState, current, curr_pid, state, pcbVars, tail, size, next, prev,
                 val, alloc>>

\* list.c:54.
InsertHead ==
  /\ At("head")
  /\ head' = cpu.t
  /\ GoTo("size")
  /\ UNCHANGED <<InterruptState, current, curr_pid, state, pcbVars, tail, size, next, prev,
                 val, alloc>>

\* list.c:55-56.
InsertSize ==
  /\ At("size")
  /\ size' = size + 1
  /\ GoTo("self")
  /\ UNCHANGED <<InterruptState, current, curr_pid, state, pcbVars, head, tail, next, prev,
                 val, alloc>>

\* Mutant: the node is not stored in the pcb.
CreateSelf_Skip ==
  /\ At("self")
  /\ cpu' = [cpu EXCEPT !.eip = IF cpu.own = Boot THEN "loop" ELSE "user",
                        !.p1 = NULL, !.t = NULL]
  /\ UNCHANGED <<InterruptState, current, curr_pid, state, pcbVars, listVars>>

\* process.c:150-152 and the return to the caller: kmain's endless loop, or the
\* program.
CreateSelf ==
  /\ At("self")
  /\ self' = [self EXCEPT ![cpu.p1] = cpu.t]
  /\ cpu' = [cpu EXCEPT !.eip = IF cpu.own = Boot THEN "loop" ELSE "user",
                        !.p1 = NULL, !.t = NULL]
  /\ UNCHANGED <<InterruptState, current, curr_pid, regs, state, listVars>>

\* The steps of a creation that has begun.
CreateStep ==
  \/ CreateCurrent \/ InsertKcalloc \/ InsertPrev \/ InsertNext \/ InsertTail
  \/ InsertHead \/ InsertSize \/ CreateSelf

\* An interrupted creation goes on with what the handlers left where its locals were.
StackLost ==
  /\ Running /\ cpu.eip \in CreateStages /\ cpu.p1 = NULL
  /\ halted' = "stack"
  /\ UNCHANGED <<cpu, inService, jiffies, saved, suspended, last, current, curr_pid, state,
                 pcbVars, listVars>>

\* A process computes.
Work ==
  /\ InUserCode(Pcb)
  /\ cpu' = Advance(cpu)
  /\ UNCHANGED <<InterruptState, current, curr_pid, state, pcbVars, listVars>>

Next ==
  \/ Tick \/ CreatePcb \/ CreateStep \/ StackLost \/ Work
  \/ \E eax \in SysNums : Syscall(eax)

\* The timer is a periodic hardware interrupt and interrupts are enabled in every
\* context, so ticks keep coming.  Between two of them the interrupted program
\* executes instructions: kmain gets to its first creation, and a creation that
\* has begun makes progress whenever its caller keeps getting the processor with its
\* frame intact.
Fairness ==
  /\ WF_vars(Tick)
  /\ WF_vars(CreatePcb /\ cpu.own = Boot)
  /\ SF_vars(CreateStep)

Spec == Init /\ [][Next]_vars /\ Fairness

-----------------------------------------------------------------------------
(* Properties.                                                              *)

\* The type of every variable.
TypeOK ==
  /\ cpu \in Context /\ inService \in BOOLEAN
  /\ jiffies \in 0 .. JiffyModulus - 1
  /\ saved \in Context
  /\ current \in Pcb \cup {NULL} /\ last \in Pcb \cup {NULL}
  /\ curr_pid \in 0 .. MaxProcs
  /\ regs \in [Pcb -> Context] /\ suspended \in [Pcb -> Context]
  /\ state \in [Pcb -> {"none", "created", "zombie"}]
  /\ self \in [Pcb -> Node \cup {NULL}]
  /\ head \in Node \cup {NULL} /\ tail \in Node \cup {NULL} /\ size \in Int
  /\ next \in [Node -> Node \cup {NULL}] /\ prev \in [Node -> Node \cup {NULL}]
  /\ val \in [Node -> Pcb \cup {NULL}]
  /\ alloc \subseteq Node
  /\ halted \in {"no", "panic", "null", "call0", "stack"}

Live == {p \in Pcb : state[p] = "created"}

\* The contexts that exist: the one on the processor, and those saved in the pcbs
\* of processes that are not on it.
Contexts == {cpu} \cup {regs[p] : p \in Live \ {cpu.own}}

\* A creation that has published p but not yet stored its list node in the pcb, the
\* window between list.c:54 and process.c:150, or one that has lost what it published.
InWindow(p) == \E c \in Contexts : c.eip \in {"size", "self"} /\ c.p1 \in {p, NULL}

\* The process on the processor is current_process and last_process, and it is not
\* a zombie: schedule() and context_switch() keep the three in step, so the next
\* interrupt saves its registers in the right pcb (process.c:27-38, 50, 75-79, 87).
RunningIsCurrent ==
  (Running /\ cpu.own # Boot) =>
     cpu.own = current /\ last = current /\ current \in Live

\* A process that is not running has in its pcb the very registers it was last
\* interrupted with, whichever handlers, switches, creations and exits happened
\* since, although they all go through the one global saved_context.
ContextPreserved ==
  \A p \in Live : (Running /\ p # cpu.own) =>
     Registers(regs[p]) =
       Registers(IF suspended[p].own = NULL THEN EntryContext(p) ELSE suspended[p])

\* process.c:135 says that a process gets its "4kb initial stack": what a process had on
\* it when it was last interrupted is there when it gets the processor again.
StackPreserved ==
  \A p \in Live : (Running /\ p # cpu.own /\ suspended[p].own = p) =>
     regs[p].p1 = suspended[p].p1 /\ regs[p].t = suspended[p].t

\* schedule() finds current_process->self unset only while the creation of that
\* very process is suspended between publishing it and storing self.
NullOnlyInWindow ==
  /\ \A p \in Live : Running /\ p = current /\ size # 0 /\ self[p] = NULL => InWindow(p)
  /\ halted = "null" => InWindow(current)

\* The scheduler panics only when every process that was ever created has exited.
PanicOnlyWhenAllExited ==
  halted = "panic" => \A p \in 0 .. curr_pid - 1 : state[p] = "zombie"

\* The branch of schedule() for current_process = NULL is never taken: by the time
\* the list has an element, create_process_from_routine has set current_process.
FirstBranchDead == (Running /\ size # 0) => current # NULL

\* Every node of the list that the scheduler can step to is allocated, belongs to a
\* live process, and is linked back to the node it was reached from: following next,
\* or unlinking any node, never touches a block that was given back to the heap.
ListIntact ==
  Running =>
    /\ head # NULL => head \in alloc
    /\ \A p \in Live : self[p] # NULL =>
         /\ self[p] \in alloc /\ val[self[p]] = p
         /\ next[self[p]] # NULL =>
              /\ next[self[p]] \in alloc
              /\ val[next[self[p]]] \in Live
              /\ prev[next[self[p]]] = self[p]
         /\ next[self[p]] = NULL => tail = self[p]
         /\ IF prev[self[p]] = NULL THEN head = self[p] ELSE prev[self[p]] \in alloc

\* Whenever a tick or a switch lets a process continue, it continues exactly where it was
\* interrupted and with the registers of that moment, and a new one starts at its entry.
ResumeWhereLeft ==
  [][ (Tick \/ cpu'.own # cpu.own) /\ cpu'.own \in Pcb /\ Running' =>
        Registers(cpu') =
          Registers(IF suspended'[cpu'.own].own = NULL THEN EntryContext(cpu'.own)
                    ELSE suspended'[cpu'.own]) ]_vars

\* A zombie never runs again, and never becomes live again.
ZombieIsFinal ==
  [][ \A p \in Pcb : state[p] = "zombie" => state'[p] = "zombie" /\ cpu'.own # p ]_vars

\* Every live process that is in the list runs again, unless the machine stops.
EveryProcessRuns ==
  \A p \in Pcb : (p \in Live /\ self[p] # NULL) ~> (cpu.own = p \/ p \notin Live \/ ~Running)

\* process.c:125-127 says of create_process_from_routine "Create a new process, load a
\* program from filesystem and run it": every process it creates gets the processor
\* (or exits with all others).
CreatedProcessRuns ==
  \A p \in Pcb : (p \in Live) ~> (cpu.own = p \/ halted = "panic")
=============================================================================
