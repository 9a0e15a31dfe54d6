-------------------------------- MODULE Pmm ---------------------------------
(***************************************************************************)
(* The physical memory manager, mm/pmm.c: a bitmap with one bit per block, *)
(* set for a block in use, and the way kmain (kernel.c:115-154) fills it   *)
(* from the multiboot memory map before anything allocates.                *)
(*                                                                         *)
(* The bitmap is the set of the indices of the bits that are set.  An index*)
(* at or above Capacity lies in whatever the linker placed after           *)
(* bitmap_addr.  Address 0 is both the null pointer and block 0, as in C.  *)
(***************************************************************************)
EXTENDS Integers, FiniteSets

CONSTANTS
  WordBits, ByteBits,   \* 32 and PMM_BLOCKS_PER_BYTE
  Words,                \* PMM_BITMAP_SIZE
  BlockSize,            \* PMM_BLOCK_SIZE
  MemSize,              \* bytes of memory, from mem_upper
  Available,            \* <<base, length>>: the available entries of the memory map
  Deinits,              \* <<base, length>>: what kmain gives to pmm_deinit_region
  Runs,                 \* sizes that pmm_alloc_blocks is called with
  UintMod               \* 2^32

Capacity == Words * WordBits

ASSUME PmmAssumption ==
  /\ {WordBits, ByteBits, Words, BlockSize} \subseteq Nat \ {0} /\ WordBits % ByteBits = 0
  /\ MemSize \in Nat /\ MemSize \div BlockSize <= Words
  /\ UintMod \in Nat \ {0} /\ MemSize < UintMod
  /\ Available \subseteq Nat \X Nat /\ Deinits \subseteq Nat \X Nat
  /\ Runs \subseteq Nat \ {0}

InitCall == <<"init", <<0, 0>>>>
None == -1              \* no allocation was just answered

VARIABLES
  map, max_blocks, used_blocks,   \* _pmm_memory_map, _pmm_max_blocks, _pmm_used_blocks
  stray,                          \* bits written outside the bitmap
  todo,                           \* what kmain still has to do: its calls
  held,                           \* <<block, count>>: what callers hold (history)
  ret,                            \* the answer to the last call, if an allocation
  faulted                         \* a read beyond the bitmap met an unmapped page

vars == <<map, max_blocks, used_blocks, stray, todo, held, ret, faulted>>

Running == todo = {} /\ ~faulted

\* The static array is zero and nothing is configured.
Init ==
  /\ map = {} /\ max_blocks = 0 /\ used_blocks = 0
  /\ stray = {}
  /\ todo = {InitCall}
  /\ held = {} /\ ret = None /\ faulted = FALSE

Outside(S) == {b \in S : b < 0 \/ b >= Capacity}

\* mmap_set and mmap_unset on a set of bits.
mmap_set(S) == map' = map \cup S /\ stray' = stray \cup Outside(S)
mmap_unset(S) == map' = map \ S /\ stray' = stray \cup Outside(S)

pmm_get_free_block_count == (max_blocks - used_blocks) % UintMod

\* Everything is marked in use, in whole bytes.
init_pmm ==
  /\ todo = {InitCall}
  /\ max_blocks' = MemSize \div BlockSize
  /\ used_blocks' = max_blocks'
  /\ map' = 0 .. (max_blocks' \div ByteBits) * ByteBits - 1
  /\ todo' = {<<"available", r>> : r \in Available} \cup {<<"deinit", r>> : r \in Deinits}
  /\ UNCHANGED <<stray, held, ret, faulted>>

Blocks(r) == LET align == r[1] \div BlockSize IN align .. align + (r[2] \div BlockSize) - 1

\* Mutant: block 0 is not set again.
pmm_init_region_NoZero(r) ==
  /\ <<"available", r>> \in todo
  /\ mmap_unset(Blocks(r))
  /\ used_blocks' = (used_blocks - Cardinality(Blocks(r))) % UintMod
  /\ todo' = todo \ {<<"available", r>>}
  /\ UNCHANGED <<max_blocks, held, ret, faulted>>

\* The blocks of the region are cleared; then block 0 is set, whatever it was.
pmm_init_region(r) ==
  /\ <<"available", r>> \in todo
  /\ map' = (map \ Blocks(r)) \cup {0}
  /\ stray' = stray \cup Outside(Blocks(r))
  /\ used_blocks' = (used_blocks - Cardinality(Blocks(r))) % UintMod
  /\ todo' = todo \ {<<"available", r>>}
  /\ UNCHANGED <<max_blocks, held, ret, faulted>>

\* Mutant: the kernel is marked before the memory map is read.
pmm_deinit_region_Early(r) ==
  /\ <<"deinit", r>> \in todo
  /\ mmap_set(Blocks(r))
  /\ used_blocks' = (used_blocks + Cardinality(Blocks(r))) % UintMod
  /\ todo' = todo \ {<<"deinit", r>>}
  /\ UNCHANGED <<max_blocks, held, ret, faulted>>

\* kmain marks the kernel's own memory once the whole memory map is in.
pmm_deinit_region(r) ==
  /\ <<"deinit", r>> \in todo
  /\ \A a \in Available : <<"available", a>> \notin todo
  /\ mmap_set(Blocks(r))
  /\ used_blocks' = (used_blocks + Cardinality(Blocks(r))) % UintMod
  /\ todo' = todo \ {<<"deinit", r>>}
  /\ UNCHANGED <<max_blocks, held, ret, faulted>>

\* Mutants: one word too many, one too few.
Scanned_OneMore == 0 .. (max_blocks \div WordBits + 1) * WordBits - 1
Scanned_OneLess == 0 .. (max_blocks \div WordBits - 1) * WordBits - 1

\* The bits mmap_first_free looks at: the whole words of the map.
Scanned == 0 .. (max_blocks \div WordBits) * WordBits - 1

\* The least element of a set of bits; none stands for -1.
First(S) == {f \in S : \A b \in S : f <= b}

mmap_first_free == First(Scanned \ map)

\* A null answer: nothing changes.
Refuse == ret' = 0 /\ UNCHANGED <<map, max_blocks, used_blocks, stray, todo, held, faulted>>

\* Mutant: the count is forgotten.
Grant_NoCount(frame, n) ==
  /\ mmap_set(frame .. frame + n - 1)
  /\ ret' = frame
  /\ held' = held \cup {<<frame, n>>}
  /\ UNCHANGED <<max_blocks, used_blocks, todo, faulted>>

\* n blocks from frame on: they are marked, counted and given to the caller.
Grant(frame, n) ==
  /\ mmap_set(frame .. frame + n - 1)
  /\ used_blocks' = (used_blocks + n) % UintMod
  /\ ret' = frame
  /\ held' = held \cup {<<frame, n>>}
  /\ UNCHANGED <<max_blocks, todo, faulted>>

\* Mutant: the test for -1 is missing.
pmm_alloc_block_NoTest ==
  /\ Running
  /\ \/ pmm_get_free_block_count = 0 /\ Refuse
     \/ /\ pmm_get_free_block_count # 0
        /\ \E frame \in (IF mmap_first_free = {} THEN {-1} ELSE mmap_first_free) : Grant(frame, 1)

pmm_alloc_block ==
  /\ Running
  /\ \/ (pmm_get_free_block_count = 0 \/ mmap_first_free = {}) /\ Refuse
     \/ pmm_get_free_block_count # 0 /\ \E frame \in mmap_first_free : Grant(frame, 1)

\* Mutant: one block too many is released.
pmm_free_blocks_OneMore(g) ==
  /\ Running
  /\ mmap_unset(g[1] .. g[1] + g[2])
  /\ used_blocks' = (used_blocks - g[2]) % UintMod
  /\ held' = held \ {g}
  /\ ret' = None
  /\ UNCHANGED <<max_blocks, todo, faulted>>

\* Releases of what a caller holds: pmm_free_block for one block, else pmm_free_blocks.
pmm_free_blocks(g) ==
  /\ Running
  /\ mmap_unset(g[1] .. g[1] + g[2] - 1)
  /\ used_blocks' = (used_blocks - g[2]) % UintMod
  /\ held' = held \ {g}
  /\ ret' = None
  /\ UNCHANGED <<max_blocks, todo, faulted>>

-----------------------------------------------------------------------------
(* mmap_first_free_s looks for n free bits near, not at, the bit it returns:*)
(* it starts at i * 32 + (1 << j), and it takes i up to the number of blocks.*)

Spot == {<<i, j>> : i \in 0 .. max_blocks - 1, j \in 0 .. WordBits - 1}
Index(s) == s[1] * WordBits + s[2]
startingBit(s) == s[1] * WordBits + 2 ^ s[2]
Tested(s, n) == startingBit(s) .. startingBit(s) + n

\* Whether the spot is accepted, when bits beyond the bitmap read as set or as clear.
Accepted(s, n, clear) ==
  Cardinality({b \in Tested(s, n) : IF b < Capacity THEN b \notin map ELSE clear}) >= n

Tried(n, clear) == {s \in Spot : Index(s) \notin map /\ Accepted(s, n, clear)}

mmap_first_free_s(n, clear) ==
  IF n = 1 THEN mmap_first_free ELSE First({Index(s) : s \in Tried(n, clear)})

\* The search reads a bit beyond the bitmap before it ends.
ReadsOutside(n, clear) ==
  /\ n > 1
  /\ \E s \in Spot :
       /\ Index(s) \notin map /\ Outside(Tested(s, n)) # {}
       /\ \A t \in Tried(n, clear) : Index(s) <= Index(t)

pmm_alloc_blocks(n, clear) ==
  /\ Running
  /\ \/ (pmm_get_free_block_count <= n \/ mmap_first_free_s(n, clear) = {}) /\ Refuse
     \/ pmm_get_free_block_count > n /\ \E frame \in mmap_first_free_s(n, clear) : Grant(frame, n)

\* The page beyond is not mapped: page_fault_handler stops the kernel.
pmm_alloc_blocks_Fault(n, clear) ==
  /\ Running /\ pmm_get_free_block_count > n
  /\ ReadsOutside(n, clear)
  /\ faulted' = TRUE
  /\ UNCHANGED <<map, max_blocks, used_blocks, stray, todo, held, ret>>

Next ==
  \/ init_pmm
  \/ \E r \in Available : pmm_init_region(r)
  \/ \E r \in Deinits : pmm_deinit_region(r)
  \/ pmm_alloc_block
  \/ \E g \in held : pmm_free_blocks(g)
  \/ \E n \in Runs, clear \in BOOLEAN : pmm_alloc_blocks(n, clear) \/ pmm_alloc_blocks_Fault(n, clear)

Spec == Init /\ [][Next]_vars

-----------------------------------------------------------------------------
(* Properties.                                                              *)

\* The type of every variable.
TypeOK ==
  /\ map \subseteq Nat /\ stray \subseteq Nat
  /\ max_blocks \in Nat /\ used_blocks \in 0 .. UintMod - 1
  /\ held \subseteq Nat \X (Nat \ {0})
  /\ ret \in Nat \cup {None} /\ faulted \in BOOLEAN

Span(g) == g[1] .. g[1] + g[2] - 1

\* No block is handed to two callers, and a block that is held stays marked in the bitmap
\* until it is released, so it cannot be handed out again.
HeldExclusively ==
  /\ \A g \in held : Span(g) \subseteq map
  /\ \A g, h \in held : g # h => Span(g) \cap Span(h) = {}

\* A block that is handed out is real memory that the memory map says is available.
HeldIsAvailable ==
  \A g \in held : Span(g) \subseteq (UNION {Blocks(r) : r \in Available}) \cap (0 .. max_blocks - 1)

\* pmm.c:140 says "first block is always set. This insures allocs cant be 0": a caller never
\* holds the block whose address is the null pointer.
NullIsNeverGranted == \A g \in held : 0 \notin Span(g)

\* No block of a region is in the hands of a caller.
Reserved(r) == \A g \in held : Span(g) \cap Blocks(r) = {}

\* What kmain takes out with pmm_deinit_region after the memory map was read is never handed
\* out, although the memory map declares it available.
DeinitIsReserved == \A r \in Deinits : Reserved(r)

\* The comments of pmm_alloc_block say a null answer means "out of memory": no block of the
\* memory is free then.
NullMeansExhausted == ret = 0 => 0 .. max_blocks - 1 \subseteq map

\* Every write to the map stays in the array bitmap_addr, from boot to exhaustion.
BitmapInBounds == stray = {}

\* Whatever the count is when the kernel has booted, it moves exactly with the bitmap: no
\* sequence of allocations and releases makes it drift.
CountFollowsMap ==
  [][todo = {} => used_blocks' - used_blocks = Cardinality(map') - Cardinality(map)]_vars
=============================================================================
