----------------------------- MODULE HeapProofs -----------------------------
(***************************************************************************)
(* The heap of malloc.c, proved for every heap and every set of sizes, when*)
(* the callers are handlers and at most one interruptible task, no handler *)
(* allocates or frees while the task is inside malloc, and no request is   *)
(* large enough to wrap the 32-bit test for the end of the heap.           *)
(***************************************************************************)
EXTENDS Heap, NatLemmas, TLAPS

\* The two conditions of the theorems: at most one task, and no handler that allocates while
\* it is inside malloc (otherwise a block is granted twice: the run heap_race); and requests
\* that do not wrap (otherwise malloc.c:87 accepts one larger than the heap).
Serial == (\A t, u \in Task : t = u) /\ (Overlap => Task = {})
NoWrap == \A n \in Sizes : HeapEnd + n + Header + Pad < AddrMod

\* The blocks the search can reach: a task may have written one header at last_alloc itself.
Placed == {a \in Blocks : a < last_alloc}

HeapType ==
  /\ Blocks \subseteq Nat
  /\ status \in [Blocks -> {0, 1}] /\ size \in [Blocks -> 1 .. AddrMod - 1]
  /\ last_alloc \in 0 .. AddrMod - 1 /\ memory_used \in 0 .. AddrMod - 1
  /\ granted \subseteq Nat \X (1 .. AddrMod - 1)

TaskType ==
  /\ pc \in [Task -> {"idle", "reuse", "header", "bump"}]
  /\ found \in [Task -> Nat \cup {Idle}]
  /\ want \in [Task -> 0 .. AddrMod - 1]
  /\ panicked \in BOOLEAN

Linked ==
  /\ HeapBegin \in Placed
  /\ \A a \in Placed : a + Stride(size[a]) \in Placed \cup {last_alloc}

\* last_alloc is at most Pad bytes past the end: the test of line 87 leaves out the padding.
Bounded ==
  /\ HeapBegin < last_alloc /\ last_alloc < HeapEnd + Pad
  /\ \A a \in Placed : /\ HeapBegin <= a /\ a + Stride(size[a]) <= last_alloc
                       /\ a + Header + size[a] <= HeapEnd

\* Blocks do not overlap.
Apart == \A a, b \in Placed : a < b => a + Stride(size[a]) <= b

\* A caller holds an allocated block at least as large as its request, and one caller only.
Held ==
  /\ \A g \in granted : g[1] \in Placed /\ status[g[1]] = 1 /\ g[2] <= size[g[1]]
  /\ \A g, h \in granted : g[1] = h[1] => g = h

Core == HeapType /\ Linked /\ Bounded /\ Apart /\ Held

\* What a task inside malloc has found out is still true when it uses it.
TaskInv ==
  /\ (\A t \in Task : pc[t] # "bump") => Blocks = Placed
  /\ \A t \in Task :
       /\ pc[t] # "idle" => want[t] \in Sizes
       /\ pc[t] = "reuse" => found[t] \in Fits(want[t])
       /\ pc[t] \in {"header", "bump"} => ~Exhausted(want[t])
       /\ pc[t] = "bump" => /\ found[t] = last_alloc /\ Blocks = Placed \cup {last_alloc}
                            /\ size[last_alloc] = want[t] /\ status[last_alloc] = 1

\* The inductive invariant.
HeapInv == Core /\ TaskType /\ TaskInv

-----------------------------------------------------------------------------
\* malloc tests Exhausted on a sum that does not wrap.
LEMMA NotExhausted ==
  ASSUME NoWrap, Core, NEW n \in Sizes, ~Exhausted(n)
  PROVE  /\ n \in 1 .. AddrMod - 1
         /\ last_alloc + n + Header < HeapEnd
         /\ (last_alloc + Stride(n)) % AddrMod = last_alloc + Stride(n)
  <1>1. n \in 1 .. AddrMod - 1 /\ AddrMod \in Nat /\ HeapEnd \in Nat
    BY HeapAssumption
  <1>2. last_alloc \in Nat /\ last_alloc < HeapEnd + 4
    BY <1>1 DEF Core, HeapType, Bounded, Pad
  <1>3. HeapEnd + n + 12 < AddrMod
    BY <1>1 DEF NoWrap, Header, Pad
  <1>4. (last_alloc + n + 8) % AddrMod = last_alloc + n + 8
    <2>1. last_alloc + n + 8 \in Nat /\ last_alloc + n + 8 < AddrMod
      BY <1>1, <1>2, <1>3
    <2> QED BY <2>1, <1>1, ModBelow
  <1>5. last_alloc + n + 8 < HeapEnd
    BY <1>1, <1>2, <1>4 DEF Exhausted, Header
  <1>6. (last_alloc + (n + 8 + 4)) % AddrMod = last_alloc + (n + 8 + 4)
    <2>1. last_alloc + (n + 8 + 4) \in Nat /\ last_alloc + (n + 8 + 4) < AddrMod
      BY <1>1, <1>2, <1>3, <1>5
    <2> QED BY <2>1, <1>1, ModBelow
  <1> QED BY <1>1, <1>5, <1>6 DEF Stride, Header, Pad

\* What the search finds lies below last_alloc.
LEMMA FitsPlaced ==
  ASSUME HeapInv, NEW n
  PROVE  Fits(n) \subseteq Placed
  <1>1. CASE \A t \in Task : pc[t] # "bump"
    BY <1>1 DEF HeapInv, TaskInv, Fits
  <1>2. CASE \E t \in Task : pc[t] = "bump"
    <2>1. Blocks = Placed \cup {last_alloc} /\ status[last_alloc] = 1
      BY <1>2 DEF HeapInv, TaskInv
    <2> QED BY <2>1 DEF Fits
  <1> QED BY <1>1, <1>2

\* The only block beyond the reach of the search is the one at last_alloc.
LEMMA AllBlocks ==
  ASSUME HeapInv
  PROVE  Blocks \cup {last_alloc} = Placed \cup {last_alloc}
  <1>1. CASE \A t \in Task : pc[t] # "bump"
    BY <1>1 DEF HeapInv, TaskInv
  <1>2. CASE \E t \in Task : pc[t] = "bump"
    BY <1>2 DEF HeapInv, TaskInv
  <1> QED BY <1>1, <1>2

\* The heap init_mm leaves, with the page descriptors in it, satisfies the invariant.
THEOREM InitInv == NoWrap /\ Init => HeapInv
  <1> SUFFICES ASSUME NoWrap, Init PROVE HeapInv
    OBVIOUS
  <1>1. /\ HeapBegin \in Nat /\ HeapEnd \in Nat /\ DescSize \in Nat /\ DescSize > 0
        /\ AddrMod \in Nat /\ HeapEnd + 12 < AddrMod /\ HeapBegin + DescSize + 8 < HeapEnd
    BY HeapAssumption DEF Header, Pad
  <1>2. Blocks = {HeapBegin} /\ size[HeapBegin] = DescSize /\ status[HeapBegin] = 1
    BY DEF Init, Blocks
  <1>3. last_alloc = HeapBegin + DescSize + 12
    BY <1>1 DEF Init, Header, Pad
  <1>4. Placed = {HeapBegin}
    BY <1>1, <1>2, <1>3 DEF Placed
  <1>5. HeapType
    <2>1. last_alloc \in 0 .. AddrMod - 1 /\ memory_used \in 0 .. AddrMod - 1
      BY <1>1 DEF Init, Header, Pad
    <2>2. granted \subseteq Nat \X (1 .. AddrMod - 1)
      BY <1>1 DEF Init
    <2>3. status \in [Blocks -> {0, 1}] /\ size \in [Blocks -> 1 .. AddrMod - 1] /\ Blocks \subseteq Nat
      BY <1>1, <1>2 DEF Init
    <2> QED BY <2>1, <2>2, <2>3 DEF HeapType
  <1>6. TaskType
    <2>1. pc \in [Task -> {"idle", "reuse", "header", "bump"}] /\ found \in [Task -> Nat \cup {Idle}]
      BY DEF Init
    <2>2. want \in [Task -> 0 .. AddrMod - 1]
      BY <1>1 DEF Init
    <2>3. panicked \in BOOLEAN
      BY Zenon DEF Init
    <2> QED BY <2>1, <2>2, <2>3 DEF TaskType
  <1>7. Linked
    BY <1>1, <1>2, <1>3, <1>4 DEF Linked, Stride, Header, Pad
  <1>8. Bounded
    BY <1>1, <1>2, <1>3, <1>4 DEF Bounded, Stride, Header, Pad
  <1>9. Apart
    BY <1>1, <1>4 DEF Apart
  <1>10. Held
    BY <1>1, <1>2, <1>4 DEF Held, Init
  <1>11. TaskInv
    BY <1>2, <1>4 DEF TaskInv, Init
  <1> QED BY <1>5, <1>6, <1>7, <1>8, <1>9, <1>10, <1>11 DEF HeapInv, Core

\* Taking a free block that is large enough.
LEMMA ReuseCore ==
  ASSUME Core, NEW n \in Sizes, NEW a \in Placed, status[a] = 0, size[a] >= n, Reuse(n, a)
  PROVE  Core' /\ Blocks' = Blocks /\ Placed' = Placed
  <1>1. /\ a \in Blocks /\ n <= size[a] /\ n \in 1 .. AddrMod - 1 /\ AddrMod \in Nat
        /\ size[a] \in 1 .. AddrMod - 1 /\ a \in Nat
    BY HeapAssumption DEF Placed, Core, HeapType
  <1>2. /\ size' = size /\ last_alloc' = last_alloc /\ Blocks' = Blocks /\ Placed' = Placed
        /\ status' = [status EXCEPT ![a] = 1] /\ granted' = granted \cup {<<a, n>>}
    BY DEF Reuse, Blocks, Placed
  <1>3. status \in [Blocks -> {0, 1}]
    BY DEF Core, HeapType
  <1>4. status'[a] = 1 /\ \A x \in Placed : x # a => status'[x] = status[x]
    BY <1>1, <1>2, <1>3 DEF Placed
  <1>5. HeapType'
    <2>1. memory_used' \in 0 .. AddrMod - 1
      <3>1. memory_used + n + 8 \in Int
        BY <1>1 DEF Core, HeapType
      <3>2. AddrMod \in Nat \ {0}
        BY <1>1
      <3> QED BY <3>1, <3>2, ModRange DEF Reuse, Header
    <2>2. granted' \subseteq Nat \X (1 .. AddrMod - 1)
      BY <1>1, <1>2 DEF Core, HeapType
    <2>3. status' \in [Blocks' -> {0, 1}]
      BY <1>2, <1>3
    <2> QED BY <1>2, <2>1, <2>2, <2>3 DEF Core, HeapType
  <1>6. Linked' /\ Bounded' /\ Apart'
    BY <1>2 DEF Core, Linked, Bounded, Apart, Stride
  <1>7. Held'
    <2>1. \A g \in granted : g[1] # a
      BY DEF Core, Held
    <2>2. <<a, n>>[1] = a /\ <<a, n>>[2] = n
      OBVIOUS
    <2>3. \A g \in granted' : g[1] \in Placed' /\ status'[g[1]] = 1 /\ g[2] <= size'[g[1]]
      BY <1>1, <1>2, <1>4, <2>1, <2>2 DEF Core, Held
    <2>4. \A g, h \in granted' : g[1] = h[1] => g = h
      BY <1>2, <2>1, <2>2 DEF Core, Held
    <2> QED BY <2>3, <2>4 DEF Held
  <1> QED BY <1>2, <1>5, <1>6, <1>7 DEF Core

\* A new block at last_alloc, whether its header was written in this step or in an earlier one.
LEMMA FreshCore ==
  ASSUME NoWrap, Core, NEW n \in Sizes, ~Exhausted(n), Bump(n, last_alloc),
         Blocks' = Placed \cup {last_alloc}, size'[last_alloc] = n, status'[last_alloc] = 1,
         \A x \in Placed : size'[x] = size[x] /\ status'[x] = status[x],
         size' \in [Blocks' -> 1 .. AddrMod - 1], status' \in [Blocks' -> {0, 1}]
  PROVE  Core' /\ Blocks' = Placed'
  <1>0. PICK a : a = last_alloc
    OBVIOUS
  <1>1. /\ n \in 1 .. AddrMod - 1 /\ a + n + 8 < HeapEnd
        /\ (a + Stride(n)) % AddrMod = a + Stride(n)
    BY <1>0, NotExhausted DEF Header
  <1>2. /\ a \in Nat /\ HeapBegin \in Nat /\ HeapEnd \in Nat /\ AddrMod \in Nat
        /\ HeapEnd + 12 < AddrMod /\ Placed \subseteq Nat /\ a \notin Placed
    <2>1. HeapBegin \in Nat /\ HeapEnd \in Nat /\ AddrMod \in Nat /\ HeapEnd + (8 + 4) < AddrMod
      BY HeapAssumption DEF Header, Pad
    <2>2. a \in Nat /\ Placed \subseteq Nat
      <3>1. last_alloc \in 0 .. AddrMod - 1 /\ Blocks \subseteq Nat
        BY DEF Core, HeapType
      <3>2. Placed \subseteq Nat
        BY <3>1 DEF Placed
      <3> QED BY <1>0, <2>1, <3>1, <3>2
    <2>3. \A x \in Placed : x < a
      BY <1>0 DEF Placed
    <2> QED BY <2>1, <2>2, <2>3
  <1>3. Blocks' = Placed \cup {a} /\ size'[a] = n /\ status'[a] = 1
    BY <1>0
  <1>5. last_alloc' = a + n + 12 /\ granted' = granted \cup {<<a, n>>}
    <2>1. last_alloc' = (a + Stride(n)) % AddrMod /\ granted' = granted \cup {<<a, n>>}
      BY <1>0 DEF Bump
    <2>2. a + Stride(n) = a + n + 12
      BY <1>1, <1>2 DEF Stride, Header, Pad
    <2> QED BY <1>1, <2>1, <2>2
  <1>6. HeapType'
    <2>1. memory_used' \in 0 .. AddrMod - 1
      <3>1. memory_used + Stride(n) \in Int
        BY <1>1, <1>2 DEF Core, HeapType, Stride, Header, Pad
      <3>2. AddrMod \in Nat \ {0}
        BY <1>2
      <3> QED BY <3>1, <3>2, ModRange DEF Bump
    <2>2. last_alloc' \in 0 .. AddrMod - 1
      BY <1>1, <1>2, <1>5
    <2>3. granted' \subseteq Nat \X (1 .. AddrMod - 1)
      BY <1>1, <1>2, <1>5 DEF Core, HeapType
    <2>4. Blocks' \subseteq Nat
      BY <1>2, <1>3
    <2> QED BY <2>1, <2>2, <2>3, <2>4 DEF HeapType
  <1>7. \A x \in Placed : /\ size'[x] = size[x] /\ status'[x] = status[x] /\ x \in Nat
                          /\ x + size[x] + 12 <= a /\ HeapBegin <= x
                          /\ size[x] \in Nat /\ size[x] > 0 /\ x + 8 + size[x] <= HeapEnd
    <2> TAKE x \in Placed
    <2>1. x \in Nat /\ size[x] \in 1 .. AddrMod - 1
      BY <1>2 DEF Placed, Core, HeapType
    <2>2. HeapBegin <= x /\ x + (size[x] + 8 + 4) <= a /\ x + 8 + size[x] <= HeapEnd
      BY <1>0 DEF Core, Bounded, Stride, Header, Pad
    <2> QED BY <1>2, <2>1, <2>2
  <1>4. Placed' = Blocks'
    <2>1. a < last_alloc' /\ \A x \in Placed : x < last_alloc'
      BY <1>1, <1>2, <1>5, <1>7
    <2> QED BY <1>3, <2>1 DEF Placed
  <1>8. Linked'
    <2>1. \A x \in Placed : x + size[x] + 12 \in Placed \cup {a}
      <3> TAKE x \in Placed
      <3>1. x + (size[x] + 8 + 4) \in Placed \cup {a}
        BY <1>0 DEF Core, Linked, Stride, Header, Pad
      <3>2. x + (size[x] + 8 + 4) = x + size[x] + 12
        BY <1>7
      <3> QED BY <3>1, <3>2
    <2>2. \A x \in Placed' : x + size'[x] + 12 \in Placed' \cup {last_alloc'}
      BY <1>1, <1>2, <1>3, <1>4, <1>5, <1>7, <2>1
    <2>4. HeapBegin \in Placed'
      BY <1>3, <1>4 DEF Core, Linked
    <2>5. \A x \in Placed' : size'[x] \in Nat /\ x \in Nat
      BY <1>1, <1>2, <1>3, <1>4, <1>7
    <2> QED BY <2>2, <2>4, <2>5 DEF Linked, Stride, Header, Pad
  <1>9. Bounded'
    <2>1. HeapBegin < a
      BY <1>0 DEF Core, Bounded
    <2>2. \A x \in Placed' : /\ HeapBegin <= x /\ x + (size'[x] + 8 + 4) <= last_alloc'
                             /\ x + 8 + size'[x] <= HeapEnd
      BY <1>1, <1>2, <1>3, <1>4, <1>5, <1>7, <2>1
    <2>3. HeapBegin < last_alloc' /\ last_alloc' < HeapEnd + 4
      BY <1>1, <1>2, <1>5, <2>1
    <2> QED BY <2>2, <2>3 DEF Bounded, Stride, Header, Pad
  <1>10. Apart'
    <2>1. \A x, y \in Placed : x < y => x + (size[x] + 8 + 4) <= y
      BY DEF Core, Apart, Stride, Header, Pad
    <2>2. \A x, y \in Placed' : x < y => x + (size'[x] + 8 + 4) <= y
      BY <1>1, <1>2, <1>3, <1>4, <1>7, <2>1
    <2> QED BY <2>2 DEF Apart, Stride, Header, Pad
  <1>11. Held'
    <2>1. <<a, n>>[1] = a /\ <<a, n>>[2] = n
      OBVIOUS
    <2>2. \A g \in granted : g[1] \in Placed
      BY DEF Core, Held
    <2>3. \A g \in granted' : g[1] \in Placed' /\ status'[g[1]] = 1 /\ g[2] <= size'[g[1]]
      <3>1. \A g \in granted : g[1] \in Placed /\ status[g[1]] = 1 /\ g[2] <= size[g[1]]
        BY DEF Core, Held
      <3>2. \A g \in granted : g[1] \in Placed' /\ status'[g[1]] = 1 /\ g[2] <= size'[g[1]]
        BY <1>3, <1>4, <1>7, <3>1
      <3>3. n <= n
        BY <1>1
      <3> QED BY <1>3, <1>4, <1>5, <2>1, <3>2, <3>3
    <2>4. \A g, h \in granted' : g[1] = h[1] => g = h
      BY <1>2, <1>5, <2>1, <2>2 DEF Core, Held
    <2> QED BY <2>3, <2>4 DEF Held
  <1> QED BY <1>4, <1>6, <1>8, <1>9, <1>10, <1>11 DEF Core

\* Freeing a block its caller holds.
LEMMA FreeCore ==
  ASSUME Core, NEW g \in granted, free(g)
  PROVE  Core' /\ Blocks' = Blocks /\ Placed' = Placed
  <1>1. g[1] \in Blocks /\ AddrMod \in Nat /\ AddrMod > 0
    BY HeapAssumption DEF Core, Held, Placed, Header, Pad
  <1>2. /\ size' = size /\ last_alloc' = last_alloc /\ Blocks' = Blocks /\ Placed' = Placed
        /\ status' = [status EXCEPT ![g[1]] = 0] /\ granted' = granted \ {g}
    BY DEF free, Blocks, Placed
  <1>3. status \in [Blocks -> {0, 1}]
    BY DEF Core, HeapType
  <1>4. HeapType'
    <2>1. memory_used' \in 0 .. AddrMod - 1
      <3>1. memory_used - size[g[1]] - 8 \in Int
        BY <1>1 DEF Core, HeapType
      <3>2. AddrMod \in Nat \ {0}
        BY <1>1
      <3> QED BY <3>1, <3>2, ModRange DEF free, Header
    <2>2. granted' \subseteq Nat \X (1 .. AddrMod - 1)
      BY <1>2 DEF Core, HeapType
    <2>3. status' \in [Blocks' -> {0, 1}]
      BY <1>2, <1>3
    <2> QED BY <1>2, <2>1, <2>2, <2>3 DEF Core, HeapType
  <1>5. Linked' /\ Bounded' /\ Apart'
    BY <1>2 DEF Core, Linked, Bounded, Apart, Stride
  <1>6. Held'
    <2>1. \A h \in granted' : h \in granted /\ h[1] # g[1]
      BY <1>2 DEF Core, Held
    <2>2. \A x \in Placed : x # g[1] => status'[x] = status[x]
      BY <1>1, <1>2, <1>3 DEF Placed
    <2> QED BY <1>2, <2>1, <2>2 DEF Core, Held
  <1> QED BY <1>2, <1>4, <1>5, <1>6 DEF Core

-----------------------------------------------------------------------------
\* Nobody is inside malloc when a handler or a free runs.
LEMMA AllIdle ==
  ASSUME HeapInv, Serial, HandlerRuns \/ \E t \in Task : pc[t] = "idle"
  PROVE  (\A t \in Task : pc[t] = "idle") /\ Blocks = Placed
  <1>1. \A t \in Task : pc[t] = "idle"
    BY DEF HandlerRuns, Serial
  <1> QED BY <1>1 DEF HeapInv, TaskInv

\* The tasks that are outside malloc need only the blocks to be placed.
LEMMA IdleTasks ==
  ASSUME \A t \in Task : pc'[t] = "idle", Blocks' = Placed'
  PROVE  TaskInv'
  BY DEF TaskInv

\* The end of malloc in a task: it was the only one inside.
LEMMA DoneIdle ==
  ASSUME HeapInv, Serial, NEW t \in Task, TaskDone(t)
  PROVE  TaskType' /\ \A u \in Task : pc'[u] = "idle"
  <1>1. AddrMod \in Nat /\ AddrMod > 0
    BY HeapAssumption DEF Header, Pad
  <1>2. /\ pc' = [pc EXCEPT ![t] = "idle"] /\ found' = [found EXCEPT ![t] = Idle]
        /\ want' = [want EXCEPT ![t] = 0] /\ panicked' = panicked
    BY DEF TaskDone
  <1>3. /\ pc \in [Task -> {"idle", "reuse", "header", "bump"}] /\ found \in [Task -> Nat \cup {Idle}]
        /\ want \in [Task -> 0 .. AddrMod - 1] /\ panicked \in BOOLEAN
    BY DEF HeapInv, TaskType
  <1>4. \A u \in Task : u = t
    BY DEF Serial
  <1>5. 0 \in 0 .. AddrMod - 1
    BY <1>1
  <1>6. want' \in [Task -> 0 .. AddrMod - 1]
    BY <1>2, <1>3, <1>5
  <1>7. /\ pc' \in [Task -> {"idle", "reuse", "header", "bump"}] /\ found' \in [Task -> Nat \cup {Idle}]
        /\ \A u \in Task : pc'[u] = "idle"
    BY <1>2, <1>3, <1>4
  <1> QED BY <1>2, <1>3, <1>6, <1>7 DEF TaskType

\* A header at last_alloc, where no reachable block lies.
LEMMA HeaderWritten ==
  ASSUME Core, Blocks = Placed, NEW n \in 1 .. AddrMod - 1, WriteHeader(n, last_alloc)
  PROVE  /\ Blocks' = Placed \cup {last_alloc} /\ size'[last_alloc] = n /\ status'[last_alloc] = 1
         /\ \A x \in Placed : size'[x] = size[x] /\ status'[x] = status[x]
         /\ size' \in [Blocks' -> 1 .. AddrMod - 1] /\ status' \in [Blocks' -> {0, 1}]
  <1>0. PICK a : a = last_alloc
    OBVIOUS
  <1>1. size \in [Blocks -> 1 .. AddrMod - 1] /\ status \in [Blocks -> {0, 1}] /\ a \notin Blocks
    BY <1>0 DEF Core, HeapType, Placed
  <1>2. size' = Put(size, a, n) /\ status' = Put(status, a, 1)
    BY <1>0 DEF WriteHeader
  <1>3. /\ DOMAIN size' = Blocks \cup {a} /\ size'[a] = n /\ \A x \in Blocks : size'[x] = size[x]
        /\ size' \in [Blocks \cup {a} -> 1 .. AddrMod - 1]
    BY <1>1, <1>2 DEF Put
  <1>4. /\ status'[a] = 1 /\ \A x \in Blocks : status'[x] = status[x]
        /\ status' \in [Blocks \cup {a} -> {0, 1}]
    BY <1>1, <1>2 DEF Put
  <1>5. Blocks' = Blocks \cup {a}
    BY <1>3 DEF Blocks
  <1> QED BY <1>0, <1>3, <1>4, <1>5

LEMMA ReuseInv ==
  ASSUME HeapInv, Serial, NEW n \in Sizes, MallocReuse(n)
  PROVE  HeapInv'
  <1>1. PICK a \in Blocks : a \in Fits(n) /\ Reuse(n, a)
    BY DEF MallocReuse, FirstFit
  <1>2. a \in Placed /\ status[a] = 0 /\ size[a] >= n
    BY <1>1, FitsPlaced DEF Fits
  <1>3. Core' /\ Blocks' = Blocks /\ Placed' = Placed
    BY <1>1, <1>2, ReuseCore DEF HeapInv
  <1>4. UNCHANGED <<pc, found, want, panicked>> /\ HandlerRuns
    BY DEF MallocReuse, taskVars
  <1>5. TaskInv'
    BY <1>3, <1>4, AllIdle, IdleTasks
  <1> QED BY <1>3, <1>4, <1>5 DEF HeapInv, TaskType

LEMMA FreshInv ==
  ASSUME NoWrap, HeapInv, Serial, NEW n \in Sizes, MallocFresh(n)
  PROVE  HeapInv'
  <1>1. /\ ~Exhausted(n) /\ WriteHeader(n, last_alloc) /\ Bump(n, last_alloc) /\ HandlerRuns
        /\ UNCHANGED <<pc, found, want, panicked>>
    BY DEF MallocFresh, taskVars
  <1>2. Blocks = Placed /\ \A t \in Task : pc[t] = "idle"
    BY <1>1, AllIdle
  <1>3. n \in 1 .. AddrMod - 1
    BY HeapAssumption
  <1>4. /\ Blocks' = Placed \cup {last_alloc} /\ size'[last_alloc] = n /\ status'[last_alloc] = 1
        /\ \A x \in Placed : size'[x] = size[x] /\ status'[x] = status[x]
        /\ size' \in [Blocks' -> 1 .. AddrMod - 1] /\ status' \in [Blocks' -> {0, 1}]
    BY <1>1, <1>2, <1>3, HeaderWritten DEF HeapInv
  <1>5. Core' /\ Blocks' = Placed'
    BY <1>1, <1>4, FreshCore DEF HeapInv
  <1>6. TaskInv'
    BY <1>1, <1>2, <1>5, IdleTasks
  <1> QED BY <1>1, <1>5, <1>6 DEF HeapInv, TaskType

LEMMA FreeInv ==
  ASSUME HeapInv, Serial, HandlerFree \/ \E t \in Task : TaskFree(t)
  PROVE  HeapInv'
  <1>1. PICK g \in granted : free(g)
    BY DEF HandlerFree, TaskFree
  <1>2. UNCHANGED <<pc, found, want, panicked>> /\ (HandlerRuns \/ \E t \in Task : pc[t] = "idle")
    BY DEF HandlerFree, TaskFree, taskVars
  <1>3. Core' /\ Blocks' = Blocks /\ Placed' = Placed
    BY <1>1, FreeCore DEF HeapInv
  <1>4. TaskInv'
    BY <1>2, <1>3, AllIdle, IdleTasks
  <1> QED BY <1>2, <1>3, <1>4 DEF HeapInv, TaskType

\* A caller that finds the heap exhausted halts the kernel, and changes nothing else.
LEMMA PanicInv ==
  ASSUME HeapInv, NEW n \in Sizes, MallocPanic(n)
  PROVE  HeapInv'
  <1>1. UNCHANGED <<status, size, last_alloc, memory_used, granted, pc, found, want>> /\ panicked' = TRUE
    BY DEF MallocPanic, hdr, taskVars
  <1>2. Blocks' = Blocks /\ Placed' = Placed
    BY <1>1 DEF Blocks, Placed
  <1>3. Core'
    BY <1>1, <1>2 DEF HeapInv, Core, HeapType, Linked, Bounded, Apart, Held, Stride
  <1>4. TaskInv'
    BY <1>1, <1>2 DEF HeapInv, TaskInv, Fits, Exhausted
  <1>5. TaskType'
    BY <1>1 DEF HeapInv, TaskType
  <1> QED BY <1>3, <1>4, <1>5 DEF HeapInv

\* A task searches: what it found is a free block that fits, or room at last_alloc.
LEMMA TaskSearchInv ==
  ASSUME HeapInv, Serial, NEW t \in Task, NEW n \in Sizes, TaskSearch(t, n)
  PROVE  HeapInv'
  <1>1. UNCHANGED <<status, size, last_alloc, memory_used, granted>> /\ want' = [want EXCEPT ![t] = n]
    BY DEF TaskSearch, hdr
  <1>2. Blocks' = Blocks /\ Placed' = Placed /\ Fits(n)' = Fits(n) /\ (Exhausted(n)' <=> Exhausted(n))
    BY <1>1 DEF Blocks, Placed, Fits, Exhausted
  <1>3. Core'
    BY <1>1, <1>2 DEF HeapInv, Core, HeapType, Linked, Bounded, Apart, Held, Stride
  <1>4. /\ pc \in [Task -> {"idle", "reuse", "header", "bump"}] /\ found \in [Task -> Nat \cup {Idle}]
        /\ want \in [Task -> 0 .. AddrMod - 1] /\ n \in 0 .. AddrMod - 1
        /\ panicked \in BOOLEAN
    BY HeapAssumption DEF HeapInv, TaskType
  <1>5. (\A u \in Task : u = t) /\ pc[t] = "idle" /\ Blocks = Placed /\ want'[t] = n
    BY <1>1, <1>4, AllIdle DEF Serial, TaskSearch
  <1>6. Fits(n) \subseteq Nat
    BY DEF HeapInv, Core, HeapType, Fits
  <1>7. \/ \E a \in Fits(n) : /\ found' = [found EXCEPT ![t] = a]
                              /\ pc' = [pc EXCEPT ![t] = "reuse"] /\ panicked' = panicked
        \/ ~Exhausted(n) /\ pc' = [pc EXCEPT ![t] = "header"] /\ found' = found /\ panicked' = panicked
        \/ panicked' = TRUE /\ found' = found /\ pc' = pc
    BY DEF TaskSearch, FirstFit
  <1>8. want' \in [Task -> 0 .. AddrMod - 1]
    BY <1>1, <1>4
  <1>9. panicked' \in BOOLEAN
    BY <1>4, <1>7
  <1>10. pc' \in [Task -> {"idle", "reuse", "header", "bump"}] /\ found' \in [Task -> Nat \cup {Idle}]
    BY <1>4, <1>6, <1>7
  <1>11. /\ pc'[t] # "bump"
         /\ pc'[t] = "reuse" => found'[t] \in Fits(n)
         /\ pc'[t] = "header" => ~Exhausted(n)
    BY <1>4, <1>5, <1>7
  <1>12. TaskInv'
    <2>1. \A u \in Task : /\ pc'[u] # "bump"
                          /\ pc'[u] # "idle" => want'[u] \in Sizes
                          /\ pc'[u] = "reuse" => found'[u] \in Fits(n)' /\ want'[u] = n
                          /\ pc'[u] = "header" => ~Exhausted(n)' /\ want'[u] = n
      BY <1>2, <1>5, <1>11
    <2>2. \A u \in Task : /\ pc'[u] = "reuse" => found'[u] \in Fits(want[u])'
                          /\ pc'[u] = "header" => ~Exhausted(want[u])'
      BY <2>1 DEF Fits, Exhausted
    <2>3. \A u \in Task : pc'[u] \in {"header", "bump"} => ~Exhausted(want[u])'
      BY <2>1, <2>2
    <2> QED BY <1>2, <1>5, <2>1, <2>2, <2>3 DEF TaskInv
  <1> QED BY <1>3, <1>8, <1>9, <1>10, <1>12 DEF HeapInv, TaskType

\* A task takes the block it found: it is still free.
LEMMA TaskReuseInv ==
  ASSUME HeapInv, Serial, NEW t \in Task, TaskReuse(t)
  PROVE  HeapInv'
  <1>1. pc[t] = "reuse" /\ Reuse(want[t], found[t]) /\ TaskDone(t)
    BY DEF TaskReuse
  <1>2. found[t] \in Fits(want[t]) /\ want[t] \in Sizes /\ \A u \in Task : pc[u] # "bump"
    BY <1>1 DEF HeapInv, TaskInv, Serial
  <1>3. Blocks = Placed
    BY <1>2 DEF HeapInv, TaskInv
  <1>4. found[t] \in Placed /\ status[found[t]] = 0 /\ size[found[t]] >= want[t]
    BY <1>2, <1>3 DEF Fits
  <1>5. Core' /\ Blocks' = Placed'
    BY <1>1, <1>2, <1>3, <1>4, ReuseCore DEF HeapInv
  <1>6. TaskType' /\ \A u \in Task : pc'[u] = "idle"
    BY <1>1, DoneIdle
  <1>7. TaskInv'
    BY <1>5, <1>6, IdleTasks
  <1> QED BY <1>5, <1>6, <1>7 DEF HeapInv

\* A task writes the header of a new block, which the search cannot reach yet.
LEMMA TaskHeaderInv ==
  ASSUME HeapInv, Serial, NEW t \in Task, TaskHeader(t)
  PROVE  HeapInv'
  <1> DEFINE n == want[t]
  <1>1. /\ pc[t] = "header" /\ WriteHeader(n, last_alloc) /\ found' = [found EXCEPT ![t] = last_alloc]
        /\ pc' = [pc EXCEPT ![t] = "bump"] /\ UNCHANGED <<last_alloc, memory_used, granted, want, panicked>>
    BY DEF TaskHeader
  <1>2. n \in Sizes /\ ~Exhausted(n) /\ (\A u \in Task : u = t) /\ Blocks = Placed
    BY <1>1 DEF HeapInv, TaskInv, Serial
  <1>3. n \in 1 .. AddrMod - 1
    BY <1>2, HeapAssumption
  <1>4. last_alloc \in Nat /\ AddrMod \in Nat
    BY HeapAssumption DEF HeapInv, Core, HeapType
  <1> HIDE DEF n
  <1>5. /\ Blocks' = Placed \cup {last_alloc} /\ size'[last_alloc] = n /\ status'[last_alloc] = 1
        /\ \A x \in Placed : size'[x] = size[x] /\ status'[x] = status[x]
        /\ size' \in [Blocks' -> 1 .. AddrMod - 1] /\ status' \in [Blocks' -> {0, 1}]
    BY <1>1, <1>2, <1>3, HeaderWritten DEF HeapInv
  <1>6. Placed' = Placed
    <2>1. \A x \in Placed : x < last_alloc
      BY DEF Placed
    <2>2. ~(last_alloc < last_alloc)
      BY <1>4
    <2> QED BY <1>1, <1>5, <2>1, <2>2 DEF Placed
  <1>7. HeapType'
    <2>1. Blocks' \subseteq Nat
      BY <1>4, <1>5 DEF HeapInv, Core, HeapType, Placed
    <2> QED BY <1>1, <1>5, <2>1 DEF HeapInv, Core, HeapType
  <1>8. Linked' /\ Bounded' /\ Apart'
    BY <1>1, <1>5, <1>6 DEF HeapInv, Core, Linked, Bounded, Apart, Stride
  <1>9. Held'
    BY <1>1, <1>5, <1>6 DEF HeapInv, Core, Held
  <1>10. TaskType'
    <2>1. pc' \in [Task -> {"idle", "reuse", "header", "bump"}] /\ found' \in [Task -> Nat \cup {Idle}]
      BY <1>1, <1>4 DEF HeapInv, TaskType
    <2> QED BY <1>1, <2>1 DEF HeapInv, TaskType
  <1>11. TaskInv'
    <2>1. pc'[t] = "bump" /\ found'[t] = last_alloc' /\ want'[t] = n
      BY <1>1 DEF HeapInv, TaskType, n
    <2>2. ~Exhausted(want[t])'
      BY <1>1, <1>2, <2>1 DEF Exhausted
    <2>3. Blocks' = Placed' \cup {last_alloc'} /\ size'[last_alloc'] = want'[t] /\ status'[last_alloc'] = 1
      BY <1>1, <1>5, <1>6, <2>1
    <2>4. \A u \in Task : u = t
      BY <1>2
    <2> QED BY <1>2, <2>1, <2>2, <2>3, <2>4 DEF TaskInv
  <1> QED BY <1>7, <1>8, <1>9, <1>10, <1>11 DEF HeapInv, Core

\* A task moves last_alloc past the block whose header it wrote.
LEMMA TaskBumpInv ==
  ASSUME NoWrap, HeapInv, Serial, NEW t \in Task, TaskBump(t)
  PROVE  HeapInv'
  <1>1. pc[t] = "bump" /\ Bump(want[t], found[t]) /\ status' = status /\ size' = size /\ TaskDone(t)
    BY DEF TaskBump, hdr
  <1>2. /\ want[t] \in Sizes /\ ~Exhausted(want[t]) /\ found[t] = last_alloc
        /\ Blocks = Placed \cup {last_alloc} /\ size[last_alloc] = want[t] /\ status[last_alloc] = 1
    BY <1>1 DEF HeapInv, TaskInv
  <1>3. Blocks' = Blocks /\ status \in [Blocks -> {0, 1}] /\ size \in [Blocks -> 1 .. AddrMod - 1]
    BY <1>1 DEF Blocks, HeapInv, Core, HeapType
  <1>4. Core' /\ Blocks' = Placed'
    BY <1>1, <1>2, <1>3, FreshCore DEF HeapInv
  <1>5. TaskType' /\ \A u \in Task : pc'[u] = "idle"
    BY <1>1, DoneIdle
  <1>6. TaskInv'
    BY <1>4, <1>5, IdleTasks
  <1> QED BY <1>4, <1>5, <1>6 DEF HeapInv

\* A step that changes nothing.
LEMMA StutterInv ==
  ASSUME HeapInv, UNCHANGED vars
  PROVE  HeapInv'
  <1>1. UNCHANGED <<status, size, last_alloc, memory_used, granted, pc, found, want, panicked>>
    BY DEF vars
  <1>2. Blocks' = Blocks /\ Placed' = Placed
    BY <1>1 DEF Blocks, Placed
  <1>3. Core'
    BY <1>1, <1>2 DEF HeapInv, Core, HeapType, Linked, Bounded, Apart, Held, Stride
  <1>4. TaskInv'
    BY <1>1, <1>2 DEF HeapInv, TaskInv, Fits, Exhausted
  <1>5. TaskType'
    BY <1>1 DEF HeapInv, TaskType
  <1> QED BY <1>3, <1>4, <1>5 DEF HeapInv

\* Every step keeps the invariant.
THEOREM StepInv == Serial /\ NoWrap /\ HeapInv /\ [Next]_vars => HeapInv'
  <1> SUFFICES ASSUME Serial, NoWrap, HeapInv, [Next]_vars PROVE HeapInv'
    OBVIOUS
  <1>1. ASSUME NEW n \in Sizes, MallocReuse(n) PROVE HeapInv'
    BY <1>1, ReuseInv
  <1>2. ASSUME NEW n \in Sizes, MallocFresh(n) PROVE HeapInv'
    BY <1>2, FreshInv
  <1>3. ASSUME NEW n \in Sizes, MallocPanic(n) PROVE HeapInv'
    BY <1>3, PanicInv
  <1>4. ASSUME HandlerFree \/ \E t \in Task : TaskFree(t) PROVE HeapInv'
    BY <1>4, FreeInv
  <1>5. ASSUME NEW t \in Task, NEW n \in Sizes, TaskSearch(t, n) PROVE HeapInv'
    BY <1>5, TaskSearchInv
  <1>6. ASSUME NEW t \in Task, TaskReuse(t) PROVE HeapInv'
    BY <1>6, TaskReuseInv
  <1>7. ASSUME NEW t \in Task, TaskHeader(t) PROVE HeapInv'
    BY <1>7, TaskHeaderInv
  <1>8. ASSUME NEW t \in Task, TaskBump(t) PROVE HeapInv'
    BY <1>8, TaskBumpInv
  <1>9. ASSUME UNCHANGED vars PROVE HeapInv'
    BY <1>9, StutterInv
  <1> QED BY <1>1, <1>2, <1>3, <1>4, <1>5, <1>6, <1>7, <1>8, <1>9 DEF Next

\* Headers, blocks and what callers hold agree in every reachable heap.
THEOREM HeapInvariant ==
  ASSUME Serial, NoWrap
  PROVE  Spec => []HeapInv
  <1>1. Init => HeapInv
    BY InitInv
  <1>2. HeapInv /\ [Next]_vars => HeapInv'
    BY StepInv
  <1> QED BY <1>1, <1>2, PTL DEF Spec

\* The headers, the counters and the state of the task stay within their types: memory_used and
\* last_alloc are 32-bit values in every reachable state.
THEOREM TypeOKHolds ==
  ASSUME Serial, NoWrap
  PROVE  Spec => []TypeOK
  <1>1. HeapInv => TypeOK
    BY DEF HeapInv, Core, HeapType, TaskType, TypeOK
  <1> QED BY <1>1, HeapInvariant, PTL

\* Whatever sequence of malloc and free the handlers and the task perform, no two callers share
\* a byte and no payload covers a header that the search will read (malloc.c:47-84), nor the one
\* that the task has just written.
THEOREM PayloadsDisjointHolds ==
  ASSUME Serial, NoWrap
  PROVE  Spec => []PayloadsDisjoint
  <1>1. HeapInv => PayloadsDisjoint
    <2> SUFFICES ASSUME HeapInv PROVE PayloadsDisjoint
      OBVIOUS
    <2>1. \A x \in Placed : x \in Nat /\ x \in Blocks
      BY DEF HeapInv, Core, HeapType, Placed
    <2>2. \A g \in granted : /\ g[1] \in Placed /\ g[1] \in Nat /\ g[2] \in Nat /\ g[2] > 0
                             /\ size[g[1]] \in Nat /\ g[2] <= size[g[1]]
      BY <2>1 DEF HeapInv, Core, Held, HeapType
    <2>3. \A x, y \in Placed : x < y => x + (size[x] + 8 + 4) <= y
      BY DEF HeapInv, Core, Apart, Stride, Header, Pad
    <2>4. \A g, h \in granted : g # h => g[1] + Header + g[2] <= h[1] \/ h[1] + Header + h[2] <= g[1]
      <3>1. \A g, h \in granted : g # h => g[1] # h[1]
        BY DEF HeapInv, Core, Held
      <3> QED BY <2>2, <2>3, <3>1 DEF Header
    <2>5. \A g \in granted, a \in Blocks : a < g[1] + Header \/ g[1] + Header + g[2] <= a
      <3> SUFFICES ASSUME NEW g \in granted, NEW a \in Blocks
                   PROVE  a < g[1] + 8 \/ g[1] + 8 + g[2] <= a
        BY DEF Header
      <3>1. CASE a \in Placed
        BY <2>1, <2>2, <2>3, <3>1
      <3>2. CASE a = last_alloc
        <4>1. g[1] + (size[g[1]] + 8 + 4) <= last_alloc /\ last_alloc \in Nat
          BY <2>2 DEF HeapInv, Core, Bounded, HeapType, Stride, Header, Pad
        <4> QED BY <2>2, <3>2, <4>1
      <3> QED BY <3>1, <3>2, AllBlocks
    <2> QED BY <2>4, <2>5 DEF PayloadsDisjoint
  <1> QED BY <1>1, HeapInvariant, PTL

\* Every payload lies inside the heap: the test of malloc.c:87 is strong enough although it
\* leaves out the padding.
THEOREM PayloadInHeapHolds ==
  ASSUME Serial, NoWrap
  PROVE  Spec => []PayloadInHeap
  <1>1. HeapInv => PayloadInHeap
    <2> SUFFICES ASSUME HeapInv, NEW g \in granted
                 PROVE  HeapBegin <= g[1] /\ g[1] + Header + g[2] <= HeapEnd
      BY DEF PayloadInHeap
    <2>0. g[1] \in Placed /\ g[2] <= size[g[1]]
      BY DEF HeapInv, Core, Held
    <2>1. g[1] \in Nat /\ g[2] \in Nat /\ size[g[1]] \in Nat /\ HeapEnd \in Nat
      BY <2>0, HeapAssumption DEF HeapInv, Core, HeapType, Placed
    <2>2. HeapBegin <= g[1] /\ g[1] + 8 + size[g[1]] <= HeapEnd
      BY <2>0 DEF HeapInv, Core, Bounded, Header
    <2> QED BY <2>0, <2>1, <2>2 DEF Header
  <1> QED BY <1>1, HeapInvariant, PTL

\* The headers tile the heap from heap_begin to last_alloc, so the walk of malloc.c:48-84
\* neither misses a block nor leaves the heap.
THEOREM TiledHolds ==
  ASSUME Serial, NoWrap
  PROVE  Spec => []Tiled
  <1>1. HeapInv => Tiled
    <2> SUFFICES ASSUME HeapInv, \A t \in Task : pc[t] # "bump" PROVE Chained
      BY DEF Tiled
    <2>1. Blocks = Placed
      BY DEF HeapInv, TaskInv
    <2>2. last_alloc \notin Placed
      BY DEF HeapInv, Core, HeapType, Placed
    <2> QED BY <2>1, <2>2 DEF HeapInv, Core, Linked, Chained
  <1> QED BY <1>1, HeapInvariant, PTL

-----------------------------------------------------------------------------
(* The loop of the search, by induction from last_alloc down to heap_begin.  *)

\* What the loop returns from header mem on: the first fitting block there, or nothing.
Found(n, mem, r) ==
  \/ r = Idle /\ \A b \in Fits(n) : ~(mem <= b)
  \/ r \in Fits(n) /\ mem <= r /\ \A b \in Fits(n) : mem <= b => r <= b

\* One round of the loop, as an equation.
IsSearch(f, n) ==
  f = [mem \in Blocks \cup {last_alloc} |->
         IF mem >= last_alloc \/ size[mem] = 0 THEN Idle
         ELSE IF status[mem] = 0 /\ size[mem] >= n THEN mem
         ELSE f[mem + size[mem] + Header + Pad]]

\* Where a block leads, and what lies between.
LEMMA NextBlock ==
  ASSUME HeapInv, NEW a \in Placed
  PROVE  /\ a \in Nat /\ last_alloc \in Nat /\ a < last_alloc /\ size[a] \in Nat /\ size[a] # 0
         /\ a + size[a] + Header + Pad \in Placed \cup {last_alloc}
         /\ a < a + size[a] + Header + Pad /\ a + size[a] + Header + Pad \in Nat
         /\ \A b \in Placed : b \in Nat /\ (a < b => a + size[a] + Header + Pad <= b)
  <1>1. /\ a \in Nat /\ last_alloc \in Nat /\ size[a] \in Nat /\ size[a] > 0
        /\ \A b \in Placed : b \in Nat
    BY DEF HeapInv, Core, HeapType, Placed
  <1>2. a + (size[a] + 8 + 4) <= last_alloc
    BY DEF HeapInv, Core, Bounded, Stride, Header, Pad
  <1>3. a + (size[a] + 8 + 4) \in Placed \cup {last_alloc}
    BY DEF HeapInv, Core, Linked, Stride, Header, Pad
  <1>4. \A b \in Placed : a < b => a + (size[a] + 8 + 4) <= b
    BY DEF HeapInv, Core, Apart, Stride, Header, Pad
  <1>5. a + (size[a] + 8 + 4) = a + size[a] + 8 + 4
    BY <1>1
  <1> QED BY <1>1, <1>2, <1>3, <1>4, <1>5 DEF Header, Pad

\* From a block that does not fit, the answer is the one of the next header.
LEMMA FoundSkips ==
  ASSUME HeapInv, NEW n \in Nat, NEW a \in Placed, a \notin Fits(n), NEW r
  PROVE  Found(n, a + size[a] + Header + Pad, r) <=> Found(n, a, r)
  <1> DEFINE c == a + size[a] + Header + Pad
  <1>1. /\ a \in Nat /\ c \in Nat /\ a < c
        /\ \A b \in Placed : b \in Nat /\ (a < b => c <= b)
    BY NextBlock
  <1>2. Fits(n) \subseteq Placed
    BY FitsPlaced
  <1> HIDE DEF c
  <1>3. \A b \in Fits(n) : (c <= b) <=> (a <= b)
    <2> SUFFICES ASSUME NEW b \in Fits(n) PROVE (c <= b) <=> (a <= b)
      OBVIOUS
    <2>1. b \in Nat /\ b # a /\ (a < b => c <= b)
      BY <1>1, <1>2
    <2> QED BY <1>1, <2>1
  <1>4. Found(n, c, r) <=> Found(n, a, r)
    BY <1>3 DEF Found
  <1> QED BY <1>4 DEF c

\* The loop terminates, so that its equation has a solution.
LEMMA SearchExists ==
  ASSUME HeapInv, NEW n \in Nat
  PROVE  \E f : IsSearch(f, n)
  <1> DEFINE D == Placed \cup {last_alloc}
             f == [mem \in D |-> CHOOSE r : Found(n, mem, r)]
  <1>1. \A mem \in D : mem \in Nat /\ mem <= last_alloc
    BY NextBlock DEF HeapInv, Core, HeapType
  <1>2. Fits(n) \subseteq Placed /\ Fits(n) \in SUBSET Nat /\ Idle \notin Fits(n)
    BY FitsPlaced, HeapAssumption DEF HeapInv, Core, HeapType, Fits
  <1>3. ASSUME NEW mem \in D, NEW r, NEW s, Found(n, mem, r), Found(n, mem, s) PROVE r = s
    <2>1. mem \in Nat /\ \A b \in Fits(n) : b \in Nat
      BY <1>1, <1>2
    <2> QED BY <1>2, <1>3, <2>1 DEF Found
  <1>4. ASSUME NEW mem \in D PROVE \E r : Found(n, mem, r)
    <2> DEFINE T == {b \in Fits(n) : mem <= b}
    <2>1. CASE T = {}
      <3>1. Found(n, mem, Idle)
        BY <2>1 DEF Found
      <3> QED BY <3>1
    <2>2. CASE T # {}
      <3>1. PICK m \in T : \A k \in T : m <= k
        BY <1>2, <2>2, LeastNat
      <3>2. Found(n, mem, m)
        BY <3>1 DEF Found
      <3> QED BY <3>2
    <2> QED BY <2>1, <2>2
  <1>5. \A mem \in D : Found(n, mem, f[mem])
    BY <1>4
  <1>6. ASSUME NEW mem \in D
        PROVE  f[mem] = IF mem >= last_alloc \/ size[mem] = 0 THEN Idle
                        ELSE IF status[mem] = 0 /\ size[mem] >= n THEN mem
                        ELSE f[mem + size[mem] + Header + Pad]
    <2>1. Found(n, mem, f[mem])
      BY <1>5
    <2> HIDE DEF f
    <2>2. CASE mem = last_alloc
      <3>1. Found(n, mem, Idle)
        <4>1. \A b \in Fits(n) : b \in Nat /\ b < last_alloc /\ last_alloc \in Nat
          BY <1>2, NextBlock
        <4> QED BY <2>2, <4>1 DEF Found
      <3>2. f[mem] = Idle
        BY <1>3, <2>1, <3>1
      <3>3. mem >= last_alloc
        BY <1>1, <2>2
      <3> QED BY <3>2, <3>3
    <2>3. CASE mem \in Fits(n)
      <3>1. mem \in Placed /\ status[mem] = 0 /\ size[mem] >= n
        BY <1>2, <2>3 DEF Fits
      <3>2. ~(mem >= last_alloc) /\ size[mem] # 0 /\ mem \in Nat
        BY <3>1, NextBlock
      <3>3. Found(n, mem, mem)
        BY <2>3, <3>2 DEF Found
      <3>4. f[mem] = mem
        BY <1>3, <2>1, <3>3
      <3> QED BY <3>1, <3>2, <3>4
    <2>4. CASE mem \in Placed /\ mem \notin Fits(n)
      <3> DEFINE c == mem + size[mem] + Header + Pad
      <3>1. c \in D /\ ~(mem >= last_alloc) /\ size[mem] # 0
        BY <2>4, NextBlock
      <3>2. ~(status[mem] = 0 /\ size[mem] >= n)
        BY <2>4 DEF Fits, Placed
      <3>3. Found(n, c, f[c])
        BY <1>5, <3>1
      <3>4. Found(n, mem, f[c])
        BY <2>4, <3>3, FoundSkips
      <3>5. f[mem] = f[c]
        BY <1>3, <2>1, <3>4
      <3> QED BY <3>1, <3>2, <3>5
    <2> QED BY <2>2, <2>3, <2>4
  <1>7. IsSearch(f, n)
    <2>1. f = [mem \in D |-> f[mem]]
      OBVIOUS
    <2>2. D = Blocks \cup {last_alloc}
      BY AllBlocks
    <2> HIDE DEF f, D
    <2>3. \A mem \in D :
            f[mem] = IF mem >= last_alloc \/ size[mem] = 0 THEN Idle
                     ELSE IF status[mem] = 0 /\ size[mem] >= n THEN mem
                     ELSE f[mem + size[mem] + Header + Pad]
      BY <1>6
    <2> QED BY <2>1, <2>2, <2>3 DEF IsSearch
  <1> QED BY <1>7

\* Whatever satisfies the equation finds the first fit, from every header.
LEMMA SearchFinds ==
  ASSUME HeapInv, NEW n \in Nat, NEW f, IsSearch(f, n)
  PROVE  \A mem \in Placed \cup {last_alloc} : Found(n, mem, f[mem])
  <1> DEFINE D == Placed \cup {last_alloc}
             Bad == {mem \in D : ~Found(n, mem, f[mem])}
             T == {last_alloc - mem : mem \in Bad}
  <1>1. \A mem \in D : mem \in Nat /\ last_alloc \in Nat /\ mem <= last_alloc
    BY NextBlock DEF HeapInv, Core, HeapType
  <1>2. SUFFICES ASSUME Bad # {} PROVE FALSE
    OBVIOUS
  <1>3. T \in SUBSET Nat /\ T # {}
    BY <1>1, <1>2
  <1>4. PICK t \in T : \A k \in T : t <= k
    BY <1>3, LeastNat
  <1>5. PICK mem \in Bad : \A k \in Bad : last_alloc - mem <= last_alloc - k
    BY <1>4
  <1>6. \A k \in D : mem < k => Found(n, k, f[k])
    BY <1>1, <1>5
  <1>7. /\ mem \in D /\ ~Found(n, mem, f[mem])
        /\ f[mem] = IF mem >= last_alloc \/ size[mem] = 0 THEN Idle
                    ELSE IF status[mem] = 0 /\ size[mem] >= n THEN mem
                    ELSE f[mem + size[mem] + Header + Pad]
    BY <1>5, AllBlocks DEF IsSearch
  <1> HIDE DEF Bad, T
  <1>8. CASE mem = last_alloc
    <2>1. \A b \in Fits(n) : b \in Nat /\ b < last_alloc /\ last_alloc \in Nat
      BY NextBlock, FitsPlaced
    <2>2. f[mem] = Idle
      BY <1>1, <1>7, <1>8
    <2> QED BY <1>7, <1>8, <2>1, <2>2 DEF Found
  <1>9. CASE mem \in Fits(n)
    <2>1. mem \in Placed /\ status[mem] = 0 /\ size[mem] >= n
      BY <1>9, FitsPlaced DEF Fits
    <2>2. ~(mem >= last_alloc) /\ size[mem] # 0 /\ mem \in Nat
      BY <2>1, NextBlock
    <2>3. f[mem] = mem
      BY <1>7, <2>1, <2>2
    <2> QED BY <1>7, <1>9, <2>2, <2>3 DEF Found
  <1>10. CASE mem \in Placed /\ mem \notin Fits(n)
    <2> DEFINE c == mem + size[mem] + Header + Pad
    <2>1. c \in D /\ mem < c /\ ~(mem >= last_alloc) /\ size[mem] # 0
      BY <1>10, NextBlock
    <2>2. ~(status[mem] = 0 /\ size[mem] >= n)
      BY <1>10 DEF Fits, Placed
    <2>3. Found(n, c, f[c]) /\ f[mem] = f[c]
      BY <1>6, <1>7, <2>1, <2>2
    <2> QED BY <1>7, <1>10, <2>3, FoundSkips
  <1> QED BY <1>7, <1>8, <1>9, <1>10

\* The loop of malloc.c:47-84, which steps from header to header, stops at the first free block
\* that is large enough, and comes to the end of the heap only if there is none.
THEOREM SearchIsFirstFitHolds ==
  ASSUME Serial, NoWrap
  PROVE  Spec => []SearchIsFirstFit
  <1>1. HeapInv => SearchIsFirstFit
    <2> SUFFICES ASSUME HeapInv, NEW n \in Sizes
                 PROVE  IF Fits(n) = {} THEN Search(n)[HeapBegin] = Idle
                        ELSE FirstFit(n, Search(n)[HeapBegin])
      BY DEF SearchIsFirstFit
    <2>1. n \in Nat
      BY HeapAssumption
    <2>2. IsSearch(Search(n), n)
      <3>1. \E f : IsSearch(f, n)
        BY <2>1, SearchExists
      <3> QED BY <3>1 DEF Search, IsSearch
    <2>3. Found(n, HeapBegin, Search(n)[HeapBegin])
      BY <2>1, <2>2, SearchFinds DEF HeapInv, Core, Linked
    <2>4. \A b \in Fits(n) : HeapBegin <= b
      BY FitsPlaced DEF HeapInv, Core, Bounded
    <2> HIDE DEF Search
    <2>5. Idle \notin Fits(n)
      BY HeapAssumption DEF Fits, HeapInv, Core, HeapType
    <2> QED BY <2>3, <2>4, <2>5 DEF Found, FirstFit
  <1> QED BY <1>1, HeapInvariant, PTL
=============================================================================
