-------------------------------- MODULE Heap --------------------------------
(***************************************************************************)
(* The kernel heap, mm/malloc.c: blocks of an 8-byte header, a payload and *)
(* 4 bytes of padding, laid one after the other from heap_begin up to      *)
(* last_alloc; a block is never split, merged or moved.                    *)
(*                                                                         *)
(* A handler (IF = 0: create and _exit through int 0x80) calls malloc and  *)
(* free in one piece.  Code that runs with IF = 1 (kmain, a process that   *)
(* calls create_process_from_routine) is a task, interruptible between the *)
(* search for a block and the stores that take it.                         *)
(***************************************************************************)
EXTENDS Integers, FiniteSets

CONSTANTS
  HeapBegin, HeapEnd,  \* heap_begin, heap_end
  DescSize,            \* MAX_PAGE_ALIGNED_ALLOCS: the block init_mm takes
  Sizes,               \* sizes that are requested
  AddrMod,             \* addresses and sizes are uint32_t: 2^32 in the code
  Task, Idle,          \* interruptible callers; no block
  Overlap              \* whether a handler allocates while a task is inside malloc

Header == 8            \* sizeof(alloc_t)
Pad == 4

ASSUME HeapAssumption ==
  /\ HeapBegin \in Nat /\ HeapEnd \in Nat /\ HeapBegin + DescSize + Header < HeapEnd
  /\ DescSize \in Nat \ {0}
  /\ AddrMod \in Nat /\ HeapEnd + Header + Pad < AddrMod
  /\ Sizes \subseteq 1 .. AddrMod - 1
  /\ Overlap \in BOOLEAN
  /\ Idle \notin Nat

VARIABLES
  status, size,   \* the headers: functions on the addresses of the blocks
  last_alloc,
  memory_used,
  granted,        \* <<block, size>>: what callers hold (history)
  pc, found, want,\* of each task: where it is, the block it found, its request
  panicked

hdr == <<status, size>>
taskVars == <<pc, found, want>>
vars == <<status, size, last_alloc, memory_used, granted, pc, found, want, panicked>>

Blocks == DOMAIN size

\* init_mm: an empty heap, from which the page descriptors are taken first.
Init ==
  /\ status = [a \in {HeapBegin} |-> 1]
  /\ size = [a \in {HeapBegin} |-> DescSize]
  /\ last_alloc = HeapBegin + DescSize + Header + Pad
  /\ memory_used = DescSize + Header + Pad
  /\ granted = {<<HeapBegin, DescSize>>}
  /\ pc = [t \in Task |-> "idle"]
  /\ found = [t \in Task |-> Idle]
  /\ want = [t \in Task |-> 0]
  /\ panicked = FALSE

\* Mutant: the search does not look at the status.
Fits_NoStatus(n) == {a \in Blocks : size[a] >= n}

\* A free block of a sufficient size; the search from heap_begin stops at the first.
Fits(n) == {a \in Blocks : status[a] = 0 /\ size[a] >= n}

\* Mutant: the last block that fits.
FirstFit_Last(n, a) == a \in Fits(n) /\ \A b \in Fits(n) : b <= a

FirstFit(n, a) == a \in Fits(n) /\ \A b \in Fits(n) : a <= b

\* Mutant: the header is not counted.
Exhausted_NoHeader(n) == (last_alloc + n) % AddrMod >= HeapEnd

\* The test for the end of the heap, in 32-bit arithmetic.
Exhausted(n) == (last_alloc + n + Header) % AddrMod >= HeapEnd

\* The search as the loop of malloc.c:47-84 performs it, from the header at mem on: the block
\* it takes, or Idle when it comes to last_alloc or to a header without a size.
Search(n) ==
  LET from[mem \in Blocks \cup {last_alloc}] ==
        IF mem >= last_alloc \/ size[mem] = 0 THEN Idle
        ELSE IF status[mem] = 0 /\ size[mem] >= n THEN mem
        ELSE from[mem + size[mem] + Header + Pad]
  IN from

\* A function extended or overwritten at one argument.
Put(f, a, v) == [x \in DOMAIN f \cup {a} |-> IF x = a THEN v ELSE f[x]]

\* malloc.c:67-75.
Reuse(n, a) ==
  /\ status' = [status EXCEPT ![a] = 1]
  /\ memory_used' = (memory_used + n + Header) % AddrMod
  /\ granted' = granted \cup {<<a, n>>}
  /\ UNCHANGED <<size, last_alloc>>

\* malloc.c:92-94: the header of a new block at a.
WriteHeader(n, a) ==
  /\ status' = Put(status, a, 1)
  /\ size' = Put(size, a, n)

Stride(n) == n + Header + Pad

\* Mutant: the next block begins right after the payload.
Bump_NoPad(n, a) ==
  /\ last_alloc' = (last_alloc + n + Header) % AddrMod
  /\ memory_used' = (memory_used + Stride(n)) % AddrMod
  /\ granted' = granted \cup {<<a, n>>}

\* malloc.c:96-102.
Bump(n, a) ==
  /\ last_alloc' = (last_alloc + Stride(n)) % AddrMod
  /\ memory_used' = (memory_used + Stride(n)) % AddrMod
  /\ granted' = granted \cup {<<a, n>>}

\* A handler can run: always, but callers may see to it that no task is inside malloc.
HandlerRuns == ~panicked /\ (Overlap \/ \A t \in Task : pc[t] = "idle")

\* malloc(n), in one piece.
MallocReuse(n) ==
  /\ HandlerRuns
  /\ \E a \in Blocks : FirstFit(n, a) /\ Reuse(n, a)
  /\ UNCHANGED <<taskVars, panicked>>

MallocFresh(n) ==
  /\ HandlerRuns
  /\ Fits(n) = {} /\ ~Exhausted(n)
  /\ WriteHeader(n, last_alloc)
  /\ Bump(n, last_alloc)
  /\ UNCHANGED <<taskVars, panicked>>

MallocPanic(n) ==
  /\ HandlerRuns
  /\ Fits(n) = {} /\ Exhausted(n)
  /\ panicked' = TRUE
  /\ UNCHANGED <<hdr, last_alloc, memory_used, granted, taskVars>>

\* Mutant: the counter is a signed number.
free_Signed(g) ==
  /\ status' = [status EXCEPT ![g[1]] = 0]
  /\ memory_used' = memory_used - size[g[1]] - Header
  /\ granted' = granted \ {g}
  /\ UNCHANGED <<size, last_alloc>>

\* free of a block its caller holds: the header stays, the block is reusable.
free(g) ==
  /\ status' = [status EXCEPT ![g[1]] = 0]
  /\ memory_used' = (memory_used - size[g[1]] - Header) % AddrMod
  /\ granted' = granted \ {g}
  /\ UNCHANGED <<size, last_alloc>>

\* The descriptors that init_mm took are never freed.
HandlerFree ==
  /\ HandlerRuns
  /\ \E g \in granted : g[1] # HeapBegin /\ free(g)
  /\ UNCHANGED <<taskVars, panicked>>

-----------------------------------------------------------------------------
(* malloc and free called with interrupts enabled.                          *)

\* The search, up to the test of line 87.
TaskSearch(t, n) ==
  /\ ~panicked /\ pc[t] = "idle"
  /\ \/ \E a \in Blocks :
          /\ FirstFit(n, a)
          /\ found' = [found EXCEPT ![t] = a]
          /\ pc' = [pc EXCEPT ![t] = "reuse"]
          /\ UNCHANGED panicked
     \/ /\ Fits(n) = {} /\ ~Exhausted(n)
        /\ pc' = [pc EXCEPT ![t] = "header"]
        /\ UNCHANGED <<found, panicked>>
     \/ /\ Fits(n) = {} /\ Exhausted(n)
        /\ panicked' = TRUE
        /\ UNCHANGED <<found, pc>>
  /\ want' = [want EXCEPT ![t] = n]
  /\ UNCHANGED <<hdr, last_alloc, memory_used, granted>>

TaskDone(t) ==
  /\ pc' = [pc EXCEPT ![t] = "idle"]
  /\ found' = [found EXCEPT ![t] = Idle]
  /\ want' = [want EXCEPT ![t] = 0]
  /\ UNCHANGED panicked

TaskReuse(t) ==
  /\ ~panicked /\ pc[t] = "reuse"
  /\ Reuse(want[t], found[t])
  /\ TaskDone(t)

\* The address of the new block is read once, its header written.
TaskHeader(t) ==
  /\ ~panicked /\ pc[t] = "header"
  /\ WriteHeader(want[t], last_alloc)
  /\ found' = [found EXCEPT ![t] = last_alloc]
  /\ pc' = [pc EXCEPT ![t] = "bump"]
  /\ UNCHANGED <<last_alloc, memory_used, granted, want, panicked>>

TaskBump(t) ==
  /\ ~panicked /\ pc[t] = "bump"
  /\ Bump(want[t], found[t])
  /\ UNCHANGED hdr
  /\ TaskDone(t)

TaskFree(t) ==
  /\ ~panicked /\ pc[t] = "idle"
  /\ \E g \in granted : g[1] # HeapBegin /\ free(g)
  /\ UNCHANGED <<taskVars, panicked>>

Next ==
  \/ \E n \in Sizes : MallocReuse(n) \/ MallocFresh(n) \/ MallocPanic(n)
  \/ HandlerFree
  \/ \E t \in Task : \/ \E n \in Sizes : TaskSearch(t, n)
                     \/ TaskReuse(t) \/ TaskHeader(t) \/ TaskBump(t) \/ TaskFree(t)

Spec == Init /\ [][Next]_vars

-----------------------------------------------------------------------------
(* Properties.                                                              *)

\* The type of every variable.
TypeOK ==
  /\ Blocks \subseteq Nat
  /\ status \in [Blocks -> {0, 1}] /\ size \in [Blocks -> 1 .. AddrMod - 1]
  /\ last_alloc \in 0 .. AddrMod - 1 /\ memory_used \in 0 .. AddrMod - 1
  /\ granted \subseteq Nat \X (1 .. AddrMod - 1)
  /\ pc \in [Task -> {"idle", "reuse", "header", "bump"}]
  /\ found \in [Task -> Nat \cup {Idle}]
  /\ want \in [Task -> 0 .. AddrMod - 1]
  /\ panicked \in BOOLEAN

\* No byte is handed to two callers, and none of the bytes handed out holds a header
\* that malloc will read: whatever callers write, the heap's structure survives.
PayloadsDisjoint ==
  /\ \A g, h \in granted : g # h => g[1] + Header + g[2] <= h[1] \/ h[1] + Header + h[2] <= g[1]
  /\ \A g \in granted, a \in Blocks :
       a < g[1] + Header \/ g[1] + Header + g[2] <= a

\* Every payload lies between heap_begin and heap_end, below the page heap.
PayloadInHeap ==
  \A g \in granted : HeapBegin <= g[1] /\ g[1] + Header + g[2] <= HeapEnd

Chained ==
  /\ HeapBegin \in Blocks
  /\ \A a \in Blocks : a + Stride(size[a]) \in Blocks \cup {last_alloc}
  /\ last_alloc \notin Blocks

\* The blocks tile the heap from heap_begin to last_alloc, so the search of malloc,
\* which steps from header to header, sees each of them and stops at last_alloc; the only
\* exception is a task that has written a header and not yet moved last_alloc.
Tiled == (\A t \in Task : pc[t] # "bump") => Chained

\* What the loop finds, from header to header, is the first free block that is large enough,
\* and nothing only if there is none.
SearchIsFirstFit ==
  \A n \in Sizes :
    IF Fits(n) = {} THEN Search(n)[HeapBegin] = Idle ELSE FirstFit(n, Search(n)[HeapBegin])
=============================================================================
