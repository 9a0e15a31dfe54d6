----------------------------- MODULE PmmProofs ------------------------------
(***************************************************************************)
(* The physical memory manager, proved for every memory map and every list *)
(* of regions taken out, when blocks are allocated one at a time (the runs *)
(* that use pmm_alloc_blocks are model-checked).                           *)
(***************************************************************************)
EXTENDS Pmm, FiniteSetTheorems, NatLemmas

OneAtATime == Runs = {} /\ Available # {}

Booted == InitCall \notin todo

\* Nothing is held before kmain is done; a holder has one block, marked, other than block 0.
HeldInv ==
  /\ todo # {} => held = {}
  /\ \A g \in held : g[1] \in Nat /\ g[2] = 1 /\ g = <<g[1], 1>> /\ g[1] \in map /\ g[1] # 0

\* Reading the first entry of the memory map sets bit 0 for good.
ZeroInv == \A r \in Available : Booted /\ <<"available", r>> \notin todo => 0 \in map

\* The regions are taken out last, and stay marked.
DeinitInv ==
  \A r \in Deinits : Booted /\ <<"deinit", r>> \notin todo =>
    /\ \A a \in Available : <<"available", a>> \notin todo
    /\ Blocks(r) \subseteq map
    /\ \A g \in held : g[1] \notin Blocks(r)

\* init_pmm comes first and alone.
TodoInv == InitCall \in todo => todo = {InitCall}

\* The inductive invariant.
PmmInv == TodoInv /\ HeldInv /\ ZeroInv /\ DeinitInv

\* The bits of one block.
LEMMA OneBit == ASSUME NEW f \in Nat PROVE f .. f + 1 - 1 = {f}
  OBVIOUS

\* The zeroed manager satisfies the invariant.
LEMMA InitInv == Init => PmmInv
  BY DEF Init, PmmInv, TodoInv, HeldInv, ZeroInv, DeinitInv, Booted

\* init_pmm leaves every region to be read.
LEMMA InitPmmInv == ASSUME PmmInv, init_pmm PROVE PmmInv'
  <1>1. InitCall \notin todo'
    BY DEF init_pmm, InitCall
  <1>2. held' = {}
    BY DEF init_pmm, PmmInv, HeldInv
  <1>3. \A r \in Available : <<"available", r>> \in todo'
    BY DEF init_pmm
  <1>4. \A r \in Deinits : <<"deinit", r>> \in todo'
    BY DEF init_pmm
  <1> QED BY <1>1, <1>2, <1>3, <1>4 DEF PmmInv, TodoInv, HeldInv, ZeroInv, DeinitInv, Booted

\* An available region is read: nothing is held and no region is taken out yet.
LEMMA InitRegionInv == ASSUME PmmInv, NEW r \in Available, pmm_init_region(r) PROVE PmmInv'
  <1>1. /\ held = {} /\ held' = held /\ InitCall \notin todo /\ InitCall \notin todo' /\ 0 \in map'
    BY DEF pmm_init_region, PmmInv, HeldInv, TodoInv, InitCall
  <1>2. \A d \in Deinits : <<"deinit", d>> \in todo
    BY <1>1 DEF pmm_init_region, PmmInv, DeinitInv, Booted
  <1>3. \A d \in Deinits : <<"deinit", d>> \in todo'
    BY <1>2 DEF pmm_init_region
  <1> QED BY <1>1, <1>3 DEF PmmInv, TodoInv, HeldInv, ZeroInv, DeinitInv, Booted

\* A region is taken out, after the whole memory map.
LEMMA DeinitRegionInv == ASSUME PmmInv, NEW r \in Deinits, pmm_deinit_region(r) PROVE PmmInv'
  <1>1. /\ held = {} /\ held' = held /\ InitCall \notin todo /\ InitCall \notin todo'
        /\ map' = map \cup Blocks(r) /\ todo' = todo \ {<<"deinit", r>>}
        /\ \A a \in Available : <<"available", a>> \notin todo
    BY DEF pmm_deinit_region, mmap_set, PmmInv, HeldInv, TodoInv, InitCall
  <1>2. ZeroInv'
    BY <1>1 DEF PmmInv, ZeroInv, Booted
  <1>3. DeinitInv'
    <2> SUFFICES ASSUME NEW d \in Deinits, <<"deinit", d>> \notin todo'
                 PROVE  Blocks(d) \subseteq map'
      BY <1>1 DEF DeinitInv, Booted
    <2>1. CASE d = r
      BY <1>1, <2>1
    <2>2. CASE d # r
      <3>1. <<"deinit", d>> \notin todo
        BY <1>1, <2>2
      <3> QED BY <1>1, <3>1 DEF PmmInv, DeinitInv, Booted
    <2> QED BY <2>1, <2>2
  <1> QED BY <1>1, <1>2, <1>3 DEF PmmInv, TodoInv, HeldInv

\* A block is taken: it was free, so it is neither block 0 nor in a region taken out.
LEMMA GrantInv ==
  ASSUME Available # {}, PmmInv, todo = {}, NEW f \in mmap_first_free, Grant(f, 1)
  PROVE  PmmInv'
  <1>1. f \in Nat /\ f \notin map
    BY DEF mmap_first_free, First, Scanned
  <1>2. map' = map \cup {f} /\ held' = held \cup {<<f, 1>>} /\ todo' = {}
    <2>1. f .. f + 1 - 1 = {f}
      BY <1>1, OneBit
    <2> QED BY <2>1 DEF Grant, mmap_set
  <1>3. f # 0
    BY <1>1 DEF PmmInv, ZeroInv, Booted
  <1>4. <<f, 1>>[1] = f /\ <<f, 1>>[2] = 1
    OBVIOUS
  <1>5. HeldInv'
    BY <1>1, <1>2, <1>3, <1>4 DEF PmmInv, HeldInv
  <1>6. DeinitInv'
    <2>1. \A d \in Deinits : Blocks(d) \subseteq map /\ \A g \in held : g[1] \notin Blocks(d)
      BY DEF PmmInv, DeinitInv, Booted
    <2> QED BY <1>1, <1>2, <1>4, <2>1 DEF DeinitInv
  <1> QED BY <1>2, <1>5, <1>6 DEF PmmInv, TodoInv, ZeroInv, Booted

\* A block is released: neither block 0 nor a block of a region taken out.
LEMMA FreeInv == ASSUME PmmInv, NEW g \in held, pmm_free_blocks(g) PROVE PmmInv'
  <1>1. g[1] \in Nat /\ g[2] = 1 /\ g[1] # 0 /\ g = <<g[1], 1>> /\ todo = {}
    BY DEF PmmInv, HeldInv, pmm_free_blocks, Running
  <1>2. map' = map \ {g[1]} /\ held' = held \ {g} /\ todo' = {}
    <2>1. g[1] .. g[1] + g[2] - 1 = {g[1]}
      BY <1>1, OneBit
    <2> QED BY <1>1, <2>1 DEF pmm_free_blocks, mmap_unset
  <1>3. HeldInv'
    <2>1. \A h \in held' : h \in held /\ h[1] # g[1]
      BY <1>1, <1>2 DEF PmmInv, HeldInv
    <2> QED BY <1>2, <2>1 DEF PmmInv, HeldInv
  <1>4. DeinitInv'
    BY <1>1, <1>2 DEF PmmInv, DeinitInv, Booted
  <1> QED BY <1>1, <1>2, <1>3, <1>4 DEF PmmInv, TodoInv, ZeroInv, Booted

\* Every step keeps the invariant.
LEMMA StepInv == OneAtATime /\ PmmInv /\ [Next]_vars => PmmInv'
  <1> SUFFICES ASSUME OneAtATime, PmmInv, [Next]_vars PROVE PmmInv'
    OBVIOUS
  <1>1. CASE pmm_alloc_block
    <2>1. CASE Refuse
      BY <2>1 DEF Refuse, PmmInv, TodoInv, HeldInv, ZeroInv, DeinitInv, Booted
    <2>2. CASE \E f \in mmap_first_free : Grant(f, 1)
      BY <1>1, <2>2, GrantInv DEF pmm_alloc_block, Running, OneAtATime
    <2> QED BY <1>1, <2>1, <2>2 DEF pmm_alloc_block
  <1>2. CASE UNCHANGED vars
    BY <1>2 DEF vars, PmmInv, TodoInv, HeldInv, ZeroInv, DeinitInv, Booted
  <1> QED BY <1>1, <1>2, InitPmmInv, InitRegionInv, DeinitRegionInv, FreeInv DEF Next, OneAtATime

\* What is held is marked, real and reserved nowhere, from the first allocation on.
THEOREM PmmInvariant == ASSUME OneAtATime PROVE Spec => []PmmInv
  <1>1. PmmInv /\ [Next]_vars => PmmInv'
    BY StepInv
  <1> QED BY <1>1, InitInv, PTL DEF Spec

\* pmm_alloc_block never hands a block to two callers, whatever the memory map and however
\* allocations and releases follow each other.
THEOREM HeldExclusivelyHolds == ASSUME OneAtATime PROVE Spec => []HeldExclusively
  <1>1. PmmInv => HeldExclusively
    <2> SUFFICES ASSUME PmmInv PROVE HeldExclusively
      OBVIOUS
    <2>1. \A g \in held : Span(g) = {g[1]}
      BY OneBit DEF PmmInv, HeldInv, Span
    <2> QED BY <2>1 DEF PmmInv, HeldInv, HeldExclusively
  <1> QED BY <1>1, PmmInvariant, PTL

\* No caller is ever given the block at address 0 (pmm.c:140).
THEOREM NullIsNeverGrantedHolds == ASSUME OneAtATime PROVE Spec => []NullIsNeverGranted
  <1>1. PmmInv => NullIsNeverGranted
    <2> SUFFICES ASSUME PmmInv PROVE NullIsNeverGranted
      OBVIOUS
    <2>1. \A g \in held : Span(g) = {g[1]}
      BY OneBit DEF PmmInv, HeldInv, Span
    <2> QED BY <2>1 DEF PmmInv, HeldInv, NullIsNeverGranted
  <1> QED BY <1>1, PmmInvariant, PTL

\* A region given to pmm_deinit_region by its physical address stays out of every caller's
\* hands (kernel.c:146-148 passes virtual ones, which is what the run pmm_kernel shows).
THEOREM DeinitIsReservedHolds == ASSUME OneAtATime PROVE Spec => []DeinitIsReserved
  <1>1. PmmInv => DeinitIsReserved
    <2> SUFFICES ASSUME PmmInv, NEW r \in Deinits, NEW g \in held PROVE Span(g) \cap Blocks(r) = {}
      BY DEF DeinitIsReserved, Reserved
    <2>1. Span(g) = {g[1]}
      BY OneBit DEF PmmInv, HeldInv, Span
    <2>2. todo = {}
      BY DEF PmmInv, HeldInv
    <2>3. g[1] \notin Blocks(r)
      BY <2>2 DEF PmmInv, DeinitInv, Booted
    <2> QED BY <2>1, <2>3
  <1> QED BY <1>1, PmmInvariant, PTL

-----------------------------------------------------------------------------
(* The bitmap and the memory behind it.                                     *)

\* What init_pmm computes for max_blocks.
Memory == MemSize \div BlockSize

\* The sizes, and the whole words that mmap_first_free looks at.
LEMMA MemoryType ==
  /\ Memory \in Nat /\ Memory <= MemSize /\ Memory <= Words /\ Memory < UintMod
  /\ Memory <= Capacity
  <1>1. /\ BlockSize \in Nat \ {0} /\ MemSize \in Nat /\ Words \in Nat \ {0}
        /\ WordBits \in Nat \ {0} /\ Memory <= Words /\ MemSize < UintMod /\ UintMod \in Nat
    BY PmmAssumption DEF Memory
  <1>2. Memory \in Nat /\ MemSize = Memory * BlockSize + (MemSize % BlockSize)
        /\ MemSize % BlockSize \in 0 .. BlockSize - 1
    BY <1>1, DivMod DEF Memory
  <1>3. Memory <= MemSize
    <2>1. Memory * BlockSize >= Memory
      BY <1>1, <1>2
    <2> HIDE DEF Memory
    <2> QED BY <1>1, <1>2, <2>1
  <1>4. Words <= Words * WordBits
    BY <1>1
  <1>5. Words * WordBits \in Nat
    BY <1>1
  <1> HIDE DEF Memory
  <1> QED BY <1>1, <1>2, <1>3, <1>4, <1>5 DEF Capacity

\* A whole number of words is a whole number of bytes.
LEMMA WordsAndBytes ==
  ASSUME NEW m \in Nat
  PROVE  /\ (m \div WordBits) * WordBits \in Nat /\ (m \div ByteBits) * ByteBits \in Nat
         /\ (m \div WordBits) * WordBits <= (m \div ByteBits) * ByteBits
         /\ (m \div ByteBits) * ByteBits <= m
         /\ m % WordBits = 0 => m = (m \div WordBits) * WordBits
  <1>1. WordBits \in Nat \ {0} /\ ByteBits \in Nat \ {0} /\ WordBits % ByteBits = 0
    BY PmmAssumption
  <1>2. PICK k \in Nat : WordBits = k * ByteBits
    <2>1. WordBits = (WordBits \div ByteBits) * ByteBits + (WordBits % ByteBits)
          /\ WordBits \div ByteBits \in Nat
      BY <1>1, DivMod
    <2>2. (WordBits \div ByteBits) * ByteBits \in Nat
      BY <1>1, <2>1
    <2> QED BY <1>1, <2>1, <2>2
  <1> DEFINE q == m \div WordBits  p == m \div ByteBits
  <1>3. q \in Nat /\ m = q * WordBits + (m % WordBits) /\ m % WordBits \in 0 .. WordBits - 1
    BY <1>1, DivMod
  <1>4. p \in Nat /\ m = p * ByteBits + (m % ByteBits) /\ m % ByteBits \in 0 .. ByteBits - 1
    BY <1>1, DivMod
  <1> HIDE DEF p, q
  <1>5. q * WordBits \in Nat /\ p * ByteBits \in Nat
    BY <1>1, <1>3, <1>4
  <1>6. q * WordBits <= m /\ p * ByteBits <= m /\ m < (p + 1) * ByteBits
    BY <1>1, <1>3, <1>4, <1>5
  <1>7. q * WordBits = (q * k) * ByteBits
    BY <1>1, <1>2, <1>3
  <1>8. q * k < p + 1
    <2>1. q * k \in Nat /\ (p + 1) * ByteBits \in Nat
      BY <1>1, <1>2, <1>3, <1>4
    <2>2. q * WordBits < (p + 1) * ByteBits
      BY <1>5, <1>6, <2>1
    <2>3. (q * k) * ByteBits < (p + 1) * ByteBits
      BY <1>7, <2>2
    <2> QED BY <1>1, <1>4, <2>1, <2>3
  <1>9. q * WordBits <= p * ByteBits
    <2>1. q * k \in Nat /\ q * k <= p
      BY <1>2, <1>3, <1>4, <1>8
    <2>2. (q * k) * ByteBits <= p * ByteBits
      BY <1>1, <1>4, <2>1
    <2> QED BY <1>7, <2>2
  <1>10. m % WordBits = 0 => m = q * WordBits
    BY <1>3, <1>5
  <1> QED BY <1>5, <1>6, <1>9, <1>10 DEF p, q

\* A free block in reach of the search lies in a region that the memory map calls available,
\* and so does every block that is held.
BackedInv ==
  /\ Booted => max_blocks = Memory
  /\ Booted => \A b \in Scanned \ map : \E r \in Available : b \in Blocks(r)
  /\ \A g \in held : g[1] < Memory /\ \E r \in Available : g[1] \in Blocks(r)

\* What the search looks at is memory.
LEMMA ScannedIsMemory ==
  ASSUME max_blocks = Memory
  PROVE  Scanned \subseteq 0 .. Memory - 1 /\ (Memory % WordBits = 0 => Scanned = 0 .. Memory - 1)
  <1>1. /\ Memory \in Nat /\ (Memory \div WordBits) * WordBits \in Nat
        /\ (Memory \div WordBits) * WordBits <= Memory
        /\ Memory % WordBits = 0 => Memory = (Memory \div WordBits) * WordBits
    BY MemoryType, WordsAndBytes
  <1> QED BY <1>1 DEF Scanned

\* The steps of kmain keep it, ...
LEMMA BackedBoot ==
  ASSUME PmmInv, BackedInv,
         \/ init_pmm
         \/ \E r \in Available : pmm_init_region(r)
         \/ \E r \in Deinits : pmm_deinit_region(r)
  PROVE  BackedInv'
  <1>1. CASE init_pmm
    <2>1. max_blocks' = Memory /\ held' = {}
          /\ map' = 0 .. (Memory \div ByteBits) * ByteBits - 1
      BY <1>1 DEF init_pmm, Memory, PmmInv, HeldInv
    <2>2. Scanned' \subseteq map'
      <3>1. /\ (Memory \div WordBits) * WordBits \in Nat /\ (Memory \div ByteBits) * ByteBits \in Nat
            /\ (Memory \div WordBits) * WordBits <= (Memory \div ByteBits) * ByteBits
        BY MemoryType, WordsAndBytes
      <3> QED BY <2>1, <3>1 DEF Scanned
    <2> QED BY <2>1, <2>2 DEF BackedInv
  <1>2. ASSUME NEW r \in Available, pmm_init_region(r) PROVE BackedInv'
    <2>1. /\ max_blocks' = max_blocks /\ held' = held /\ InitCall \notin todo
          /\ map' = (map \ Blocks(r)) \cup {0}
      BY <1>2 DEF pmm_init_region, PmmInv, TodoInv, InitCall
    <2>2. Scanned' = Scanned /\ Booted
      BY <2>1 DEF Scanned, Booted
    <2> QED BY <2>1, <2>2 DEF BackedInv
  <1>3. ASSUME NEW r \in Deinits, pmm_deinit_region(r) PROVE BackedInv'
    <2>1. /\ max_blocks' = max_blocks /\ held' = held /\ InitCall \notin todo
          /\ map' = map \cup Blocks(r)
      BY <1>3 DEF pmm_deinit_region, mmap_set, PmmInv, TodoInv, InitCall
    <2>2. Scanned' = Scanned /\ Booted
      BY <2>1 DEF Scanned, Booted
    <2> QED BY <2>1, <2>2 DEF BackedInv
  <1> QED BY <1>1, <1>2, <1>3

\* ... as do a grant ...
LEMMA BackedGrant ==
  ASSUME BackedInv, Running, NEW f \in mmap_first_free, Grant(f, 1)
  PROVE  BackedInv'
  <1>1. todo = {} /\ Booted
    BY DEF Running, Booted
  <1>2. f \in Scanned \ map /\ f \in Nat
    BY DEF mmap_first_free, First, Scanned
  <1>3. /\ map' = map \cup {f} /\ held' = held \cup {<<f, 1>>}
        /\ max_blocks' = max_blocks
    <2>1. f .. f + 1 - 1 = {f}
      BY <1>2, OneBit
    <2> QED BY <2>1 DEF Grant, mmap_set
  <1>4. f < Memory /\ \E r \in Available : f \in Blocks(r)
    <2>1. f \in 0 .. Memory - 1
      BY <1>1, <1>2, ScannedIsMemory DEF BackedInv
    <2> QED BY <1>1, <1>2, <2>1, MemoryType DEF BackedInv
  <1>5. Scanned' = Scanned
    BY <1>3 DEF Scanned
  <1>6. <<f, 1>>[1] = f
    OBVIOUS
  <1> QED BY <1>1, <1>3, <1>4, <1>5, <1>6 DEF BackedInv

\* ... and a release.
LEMMA BackedFree == ASSUME PmmInv, BackedInv, NEW g \in held, pmm_free_blocks(g) PROVE BackedInv'
  <1>1. g[1] \in Nat /\ g[2] = 1 /\ todo = {} /\ Booted
    BY DEF PmmInv, HeldInv, pmm_free_blocks, Running, Booted
  <1>2. map' = map \ {g[1]} /\ held' = held \ {g} /\ max_blocks' = max_blocks
    <2>1. g[1] .. g[1] + g[2] - 1 = {g[1]}
      BY <1>1, OneBit
    <2> QED BY <2>1 DEF pmm_free_blocks, mmap_unset
  <1>3. Scanned' = Scanned
    BY <1>2 DEF Scanned
  <1> QED BY <1>1, <1>2, <1>3 DEF BackedInv

\* Every step keeps it.
LEMMA BackedStep == OneAtATime /\ PmmInv /\ BackedInv /\ [Next]_vars => BackedInv'
  <1> SUFFICES ASSUME OneAtATime, PmmInv, BackedInv, [Next]_vars PROVE BackedInv'
    OBVIOUS
  <1>1. CASE pmm_alloc_block
    <2>1. CASE Refuse
      BY <2>1 DEF Refuse, BackedInv, Booted, Scanned
    <2> QED BY <1>1, <2>1, BackedGrant DEF pmm_alloc_block
  <1>2. CASE UNCHANGED vars
    BY <1>2 DEF vars, BackedInv, Booted, Scanned
  <1> QED BY <1>1, <1>2, BackedBoot, BackedFree DEF Next, OneAtATime

\* It holds in every behaviour.
THEOREM BackedInvariant == ASSUME OneAtATime PROVE Spec => [](PmmInv /\ BackedInv)
  <1>1. Init => BackedInv
    BY DEF Init, BackedInv, Booted
  <1>2. PmmInv /\ BackedInv /\ [Next]_vars => BackedInv'
    BY BackedStep
  <1> QED BY <1>1, <1>2, PmmInvariant, PTL DEF Spec

\* A block that pmm_alloc_block hands out is memory that the machine has and that the memory
\* map calls available, whatever its size (pmm.c:67-80, 157-173).
THEOREM HeldIsAvailableHolds == ASSUME OneAtATime PROVE Spec => []HeldIsAvailable
  <1>1. PmmInv /\ BackedInv => HeldIsAvailable
    <2> SUFFICES ASSUME PmmInv, BackedInv, NEW g \in held
                 PROVE  Span(g) \subseteq (UNION {Blocks(r) : r \in Available}) \cap (0 .. max_blocks - 1)
      BY DEF HeldIsAvailable
    <2>1. g[1] \in Nat /\ Span(g) = {g[1]} /\ Booted
      BY OneBit DEF PmmInv, HeldInv, Span, Booted
    <2>2. max_blocks \in Nat /\ g[1] < max_blocks
      BY <2>1, MemoryType DEF BackedInv
    <2> QED BY <2>1, <2>2 DEF BackedInv
  <1> QED BY <1>1, BackedInvariant, PTL

\* The regions of the memory map, and those taken out, lie in the memory the bitmap describes.
RegionsFit == \A r \in Available \cup Deinits : Blocks(r) \subseteq 0 .. Capacity - 1

\* No write leaves the array when every region kmain reads or takes out fits into it
\* (kernel.c:146-148 passes virtual addresses, which do not: see the run pmm_kernel).
THEOREM BitmapInBoundsHolds == ASSUME OneAtATime, RegionsFit PROVE Spec => []BitmapInBounds
  <1>1. Init => BitmapInBounds
    BY DEF Init, BitmapInBounds
  <1>2. PmmInv /\ BackedInv /\ BitmapInBounds /\ [Next]_vars => BitmapInBounds'
    <2> SUFFICES ASSUME PmmInv, BackedInv, stray = {}, [Next]_vars PROVE stray' = {}
      BY DEF BitmapInBounds
    <2>1. Capacity \in Nat /\ Memory \in Nat /\ Memory <= Capacity
      <3>1. Words \in Nat /\ WordBits \in Nat
        BY PmmAssumption
      <3>2. Capacity \in Nat
        BY <3>1 DEF Capacity
      <3> QED BY <3>2, MemoryType
    <2>2. \A S \in SUBSET (0 .. Capacity - 1) : Outside(S) = {}
      <3>1. \A b \in 0 .. Capacity - 1 : ~(b < 0 \/ b >= Capacity)
        BY <2>1
      <3> QED BY <3>1, Zenon DEF Outside
    <2>3. ASSUME NEW f \in Nat, f < Memory PROVE Outside(f .. f + 1 - 1) = {}
      <3>1. {f} \subseteq 0 .. Capacity - 1
        BY <2>1, <2>3
      <3> QED BY <2>2, <2>3, <3>1, OneBit
    <2>4. CASE init_pmm
      BY <2>4 DEF init_pmm
    <2>5. ASSUME NEW r \in Available, pmm_init_region(r) PROVE stray' = {}
      BY <2>2, <2>5 DEF pmm_init_region, RegionsFit
    <2>6. ASSUME NEW r \in Deinits, pmm_deinit_region(r) PROVE stray' = {}
      BY <2>2, <2>6 DEF pmm_deinit_region, mmap_set, RegionsFit
    <2>7. CASE pmm_alloc_block
      <3>1. CASE Refuse
        BY <3>1 DEF Refuse
      <3>2. ASSUME NEW f \in mmap_first_free, Grant(f, 1) PROVE stray' = {}
        <4>1. f \in Scanned /\ f \in Nat /\ max_blocks = Memory
          BY <2>7 DEF mmap_first_free, First, Scanned, BackedInv, Booted, pmm_alloc_block, Running
        <4>2. f < Memory
          BY <4>1, <2>1, ScannedIsMemory
        <4> QED BY <2>3, <3>2, <4>1, <4>2 DEF Grant, mmap_set
      <3> QED BY <2>7, <3>1, <3>2 DEF pmm_alloc_block
    <2>8. ASSUME NEW g \in held, pmm_free_blocks(g) PROVE stray' = {}
      <3>1. g[1] \in Nat /\ g[2] = 1 /\ g[1] < Memory
        BY DEF PmmInv, HeldInv, BackedInv
      <3> QED BY <2>3, <2>8, <3>1 DEF pmm_free_blocks, mmap_unset
    <2>9. CASE UNCHANGED vars
      BY <2>9 DEF vars
    <2> QED BY <2>4, <2>5, <2>6, <2>7, <2>8, <2>9 DEF Next, OneAtATime
  <1> QED BY <1>1, <1>2, BackedInvariant, PTL DEF Spec

-----------------------------------------------------------------------------
(* The count of blocks in use.                                              *)

\* A machine with a whole number of bitmap words of memory, whose memory map lists no block
\* twice and none beyond the memory, and regions taken out of it that hold no block twice.
\* Otherwise the count and the bitmap part during boot: pmm_init_region counts a block that
\* is already free.
RegularMachine ==
  /\ Memory > 0 /\ Memory % WordBits = 0
  /\ \A r \in Available : Blocks(r) \subseteq 0 .. Memory - 1
  /\ \A r, q \in Available : r # q => Blocks(r) \cap Blocks(q) = {}
  /\ \A d \in Deinits : 0 \notin Blocks(d) /\ Blocks(d) \subseteq UNION {Blocks(r) : r \in Available}
  /\ \A d, e \in Deinits : d # e => Blocks(d) \cap Blocks(e) = {}

\* The region with block 0 was read: pmm_init_region counts block 0 as free, then sets its bit.
ZeroRead == \E r \in Available : <<"available", r>> \notin todo /\ 0 \in Blocks(r)

\* The bits that are set during boot are those of regions not yet read, of no region, of
\* regions taken out, and bit 0.
BootMap ==
  /\ map \subseteq 0 .. Memory - 1 /\ 0 \in map
  /\ \A r \in Available : <<"available", r>> \in todo => Blocks(r) \subseteq map
  /\ todo # {} =>
       \A r \in Available : <<"available", r>> \notin todo =>
         \A b \in Blocks(r) \cap map :
           b = 0 \/ \E d \in Deinits : <<"deinit", d>> \notin todo /\ b \in Blocks(d)

\* The count is the number of bits set, less the one of block 0 if it was counted as free.
UsedInv ==
  \/ used_blocks = Cardinality(map)
  \/ used_blocks = Cardinality(map) - 1 /\ ZeroRead

CountInv ==
  /\ Booted => BootMap /\ UsedInv
  /\ todo # {} => ret = None
  /\ ret = 0 => 0 .. Memory - 1 \subseteq map

\* A set of blocks of the memory is finite.
LEMMA MapFinite ==
  ASSUME NEW S \in SUBSET (0 .. Memory - 1)
  PROVE  /\ IsFiniteSet(S) /\ Cardinality(S) \in Nat /\ Cardinality(S) <= Memory
         /\ Cardinality(S) = Memory => S = 0 .. Memory - 1
  <1>1. Memory \in Nat /\ 0 \in Int /\ Memory - 1 \in Int
    BY MemoryType
  <1>2. IsFiniteSet(0 .. Memory - 1) /\ Cardinality(0 .. Memory - 1) = Memory
    <2>1. IsFiniteSet(0 .. Memory - 1)
          /\ Cardinality(0 .. Memory - 1) = IF 0 > Memory - 1 THEN 0 ELSE Memory - 1 - 0 + 1
      BY <1>1, FS_Interval
    <2> QED BY <1>1, <2>1
  <1>3. /\ IsFiniteSet(S) /\ Cardinality(S) <= Cardinality(0 .. Memory - 1)
        /\ Cardinality(0 .. Memory - 1) = Cardinality(S) => 0 .. Memory - 1 = S
    BY <1>2, FS_Subset
  <1>4. Cardinality(S) \in Nat
    BY <1>3, FS_CardinalityType
  <1> QED BY <1>2, <1>3, <1>4

\* init_pmm sets every bit of the memory.
LEMMA CountInitPmm ==
  ASSUME RegularMachine, PmmInv, CountInv, init_pmm
  PROVE  CountInv'
  <1>1. /\ map' = 0 .. (Memory \div ByteBits) * ByteBits - 1 /\ used_blocks' = Memory
        /\ ret' = ret /\ todo # {}
        /\ \A r \in Available : <<"available", r>> \in todo'
    BY DEF init_pmm, Memory
  <1>2. map' = 0 .. Memory - 1
    <2>1. /\ (Memory \div WordBits) * WordBits <= (Memory \div ByteBits) * ByteBits
          /\ (Memory \div ByteBits) * ByteBits <= Memory /\ (Memory \div ByteBits) * ByteBits \in Nat
          /\ Memory = (Memory \div WordBits) * WordBits
      BY MemoryType, WordsAndBytes DEF RegularMachine
    <2>2. (Memory \div ByteBits) * ByteBits = Memory
      BY <2>1, MemoryType
    <2> QED BY <1>1, <2>2
  <1>3. Cardinality(map') = Memory
    <2>1. Memory \in Nat /\ 0 \in Int /\ Memory - 1 \in Int
      BY MemoryType
    <2>2. Cardinality(0 .. Memory - 1) = IF 0 > Memory - 1 THEN 0 ELSE Memory - 1 - 0 + 1
      BY <2>1, FS_Interval
    <2> QED BY <1>2, <2>1, <2>2
  <1>4. 0 \in map'
    BY <1>2, MemoryType DEF RegularMachine
  <1>5. ret' = None /\ None # 0
    BY <1>1 DEF CountInv, None
  <1> QED BY <1>1, <1>2, <1>3, <1>4, <1>5 DEF CountInv, BootMap, UsedInv, RegularMachine

\* A region is read: its blocks were all in use and counted.
LEMMA CountInitRegion ==
  ASSUME RegularMachine, PmmInv, CountInv, NEW r \in Available, pmm_init_region(r)
  PROVE  CountInv'
  <1> DEFINE B == Blocks(r)
  <1>1. /\ Booted /\ Booted' /\ BootMap /\ UsedInv /\ ret = None /\ ret' = ret
        /\ map' = (map \ B) \cup {0} /\ <<"available", r>> \in todo
        /\ todo' = todo \ {<<"available", r>>}
        /\ used_blocks' = (used_blocks - Cardinality(B)) % UintMod
    BY DEF pmm_init_region, PmmInv, TodoInv, InitCall, Booted, CountInv
  <1> HIDE DEF B
  <1>2. B \subseteq map /\ map \subseteq 0 .. Memory - 1 /\ 0 \in map
    BY <1>1 DEF BootMap, B
  <1>3. /\ IsFiniteSet(map) /\ Cardinality(map) \in Nat /\ Cardinality(map) <= Memory
        /\ IsFiniteSet(B) /\ Cardinality(B) \in Nat
    BY <1>2, MapFinite
  <1>4. /\ IsFiniteSet(map \ B) /\ Cardinality(map \ B) = Cardinality(map) - Cardinality(B)
        /\ Cardinality(map \ B) \in Nat
    <2>1. map \cap B = B
      BY <1>2
    <2>2. IsFiniteSet(map \ B) /\ Cardinality(map \ B) = Cardinality(map) - Cardinality(map \cap B)
      BY <1>3, FS_Difference
    <2> QED BY <2>1, <2>2, FS_CardinalityType
  <1>5. /\ 0 \in B => Cardinality(map') = Cardinality(map \ B) + 1
        /\ 0 \notin B => map' = map \ B
    <2>1. Cardinality((map \ B) \cup {0}) =
            IF 0 \in map \ B THEN Cardinality(map \ B) ELSE Cardinality(map \ B) + 1
      BY <1>4, FS_AddElement
    <2> QED BY <1>1, <1>2, <2>1
  <1>6. UsedInv'
    <2>0. UintMod \in Nat /\ Memory \in Nat /\ Memory < UintMod
      BY MemoryType, PmmAssumption
    <2>1. CASE 0 \in B
      <3>1. ~ZeroRead
        BY <1>1, <2>1 DEF ZeroRead, RegularMachine, B
      <3>2. used_blocks = Cardinality(map)
        BY <1>1, <3>1 DEF UsedInv
      <3>3. used_blocks - Cardinality(B) = Cardinality(map \ B) /\ Cardinality(map \ B) < UintMod
        BY <1>3, <1>4, <2>0, <3>2
      <3>4. used_blocks' = Cardinality(map \ B)
        BY <1>1, <1>4, <2>0, <3>3, ModBelow
      <3>5. ZeroRead'
        BY <1>1, <2>1 DEF ZeroRead, B
      <3>6. used_blocks' = Cardinality(map') - 1
        BY <1>4, <1>5, <2>1, <3>4
      <3> QED BY <3>5, <3>6 DEF UsedInv
    <2>2. CASE 0 \notin B
      <3>1. map' = map \ B /\ Cardinality(map') \in Nat /\ Cardinality(map') <= Memory
        <4>1. map' = map \ B
          BY <1>5, <2>2
        <4>2. Cardinality(map \ B) <= Memory
          BY <1>3, <1>4, <2>0
        <4> QED BY <1>4, <4>1, <4>2
      <3>2. Cardinality(map') # 0
        BY <1>2, <1>4, <2>2, <3>1, FS_EmptySet
      <3>3. CASE used_blocks = Cardinality(map)
        <4>1. used_blocks - Cardinality(B) = Cardinality(map')
          BY <1>4, <3>1, <3>3
        <4>2. used_blocks' = Cardinality(map')
          BY <1>1, <2>0, <3>1, <4>1, ModBelow
        <4> QED BY <4>2 DEF UsedInv
      <3>4. CASE used_blocks = Cardinality(map) - 1 /\ ZeroRead
        <4>1. used_blocks - Cardinality(B) = Cardinality(map') - 1
          BY <1>3, <1>4, <3>1, <3>4
        <4>2. Cardinality(map') - 1 \in Nat /\ Cardinality(map') - 1 < UintMod
          BY <2>0, <3>1, <3>2
        <4>3. used_blocks' = Cardinality(map') - 1
          BY <1>1, <2>0, <4>1, <4>2, ModBelow
        <4>4. ZeroRead'
          BY <1>1, <3>4 DEF ZeroRead
        <4> QED BY <4>3, <4>4 DEF UsedInv
      <3> QED BY <1>1, <3>3, <3>4 DEF UsedInv
    <2> QED BY <2>1, <2>2
  <1>7. BootMap'
    <2>1. map' \subseteq 0 .. Memory - 1 /\ 0 \in map'
      BY <1>1, <1>2
    <2>2. \A q \in Available : <<"available", q>> \in todo' => Blocks(q) \subseteq map'
      BY <1>1 DEF RegularMachine, BootMap, B
    <2>3. ASSUME NEW q \in Available, <<"available", q>> \notin todo', NEW b \in Blocks(q) \cap map', b # 0
          PROVE  \E d \in Deinits : <<"deinit", d>> \notin todo' /\ b \in Blocks(d)
      <3>1. b \in map /\ b \notin B /\ q # r
        BY <1>1, <2>3 DEF B
      <3>2. <<"available", q>> \notin todo /\ todo # {}
        BY <1>1, <2>3, <3>1
      <3>3. \E d \in Deinits : <<"deinit", d>> \notin todo /\ b \in Blocks(d)
        BY <1>1, <2>3, <3>1, <3>2 DEF BootMap
      <3> QED BY <1>1, <3>3
    <2> QED BY <2>1, <2>2, <2>3 DEF BootMap
  <1>8. ret' # 0
    BY <1>1 DEF None
  <1> QED BY <1>1, <1>6, <1>7, <1>8 DEF CountInv

\* A region is taken out: its blocks were all free.
LEMMA CountDeinitRegion ==
  ASSUME RegularMachine, PmmInv, CountInv, NEW r \in Deinits, pmm_deinit_region(r)
  PROVE  CountInv'
  <1> DEFINE B == Blocks(r)
  <1>1. /\ Booted /\ Booted' /\ BootMap /\ UsedInv /\ ret = None /\ ret' = ret
        /\ map' = map \cup B /\ <<"deinit", r>> \in todo
        /\ todo' = todo \ {<<"deinit", r>>}
        /\ \A a \in Available : <<"available", a>> \notin todo
        /\ used_blocks' = (used_blocks + Cardinality(B)) % UintMod
    BY DEF pmm_deinit_region, mmap_set, PmmInv, TodoInv, InitCall, Booted, CountInv
  <1>2. B \cap map = {}
    <2> SUFFICES ASSUME NEW b \in B \cap map PROVE FALSE
      OBVIOUS
    <2>1. PICK a \in Available : b \in Blocks(a)
      BY DEF RegularMachine
    <2>2. b # 0
      BY DEF RegularMachine
    <2>3. PICK d \in Deinits : <<"deinit", d>> \notin todo /\ b \in Blocks(d)
      BY <1>1, <2>1, <2>2 DEF BootMap
    <2> QED BY <1>1, <2>3 DEF RegularMachine
  <1>3. B \subseteq 0 .. Memory - 1
    BY DEF RegularMachine
  <1> HIDE DEF B
  <1>4. map \subseteq 0 .. Memory - 1 /\ map' \subseteq 0 .. Memory - 1 /\ 0 \in map /\ 0 \in map'
    BY <1>1, <1>3 DEF BootMap
  <1>5. /\ IsFiniteSet(map) /\ Cardinality(map) \in Nat
        /\ IsFiniteSet(B) /\ Cardinality(B) \in Nat
        /\ Cardinality(map') \in Nat /\ Cardinality(map') <= Memory
    BY <1>3, <1>4, MapFinite
  <1>6. Cardinality(map') = Cardinality(map) + Cardinality(B)
    <2>1. Cardinality(map \cup B) = Cardinality(map) + Cardinality(B) - Cardinality(map \cap B)
      BY <1>5, FS_Union
    <2>2. map \cap B = {} /\ Cardinality({}) = 0
      BY <1>2, FS_EmptySet
    <2>3. Cardinality(map \cup B) = Cardinality(map) + Cardinality(B) - 0
      BY <2>1, <2>2
    <2> QED BY <1>1, <1>5, <2>3
  <1>7. UsedInv'
    <2>0. UintMod \in Nat /\ Memory \in Nat /\ Memory < UintMod
      BY MemoryType, PmmAssumption
    <2>1. CASE used_blocks = Cardinality(map)
      <3>1. used_blocks + Cardinality(B) = Cardinality(map') /\ Cardinality(map') < UintMod
        BY <1>5, <1>6, <2>0, <2>1
      <3>2. used_blocks' = Cardinality(map')
        BY <1>1, <1>5, <2>0, <3>1, ModBelow
      <3> QED BY <3>2 DEF UsedInv
    <2>2. CASE used_blocks = Cardinality(map) - 1 /\ ZeroRead
      <3>1. Cardinality(map) # 0
        BY <1>4, <1>5, FS_EmptySet
      <3>2. /\ used_blocks + Cardinality(B) = Cardinality(map') - 1
            /\ Cardinality(map') - 1 \in Nat /\ Cardinality(map') - 1 < UintMod
        BY <1>5, <1>6, <2>0, <2>2, <3>1
      <3>3. used_blocks' = Cardinality(map') - 1
        BY <1>1, <2>0, <3>2, ModBelow
      <3>4. ZeroRead'
        BY <1>1, <2>2 DEF ZeroRead
      <3> QED BY <3>3, <3>4 DEF UsedInv
    <2> QED BY <1>1, <2>1, <2>2 DEF UsedInv
  <1>8. BootMap'
    <2>1. ASSUME NEW q \in Available, NEW b \in Blocks(q) \cap map', b # 0
          PROVE  \E d \in Deinits : <<"deinit", d>> \notin todo' /\ b \in Blocks(d)
      <3>1. CASE b \in B
        BY <1>1, <3>1 DEF B
      <3>2. CASE b \in map
        <4>1. \E d \in Deinits : <<"deinit", d>> \notin todo /\ b \in Blocks(d)
          BY <1>1, <2>1, <3>2 DEF BootMap
        <4> QED BY <1>1, <4>1
      <3> QED BY <1>1, <2>1, <3>1, <3>2
    <2> QED BY <1>1, <1>4, <2>1 DEF BootMap
  <1>9. ret' # 0
    BY <1>1 DEF None
  <1> QED BY <1>1, <1>7, <1>8, <1>9 DEF CountInv

\* A step of the running kernel moves the count with the bitmap, without a wrap.
LEMMA CountGrant ==
  ASSUME RegularMachine, OneAtATime, PmmInv, BackedInv, CountInv, Running,
         NEW f \in mmap_first_free, Grant(f, 1)
  PROVE  CountInv' /\ used_blocks' - used_blocks = Cardinality(map') - Cardinality(map)
  <1>1. f \in Nat /\ f \notin map /\ f \in Scanned
    BY DEF mmap_first_free, First, Scanned
  <1>2. /\ map' = map \cup {f} /\ todo' = todo /\ todo = {} /\ ret' = f
        /\ used_blocks' = (used_blocks + 1) % UintMod
    <2>1. f .. f + 1 - 1 = {f}
      BY <1>1, OneBit
    <2> QED BY <2>1 DEF Grant, mmap_set, Running
  <1>3. BootMap /\ UsedInv /\ max_blocks = Memory
    BY <1>2 DEF CountInv, BackedInv, Booted
  <1>4. map \subseteq 0 .. Memory - 1 /\ map' \subseteq 0 .. Memory - 1 /\ 0 \in map
    BY <1>1, <1>2, <1>3, ScannedIsMemory DEF BootMap
  <1>5. f # 0
    BY <1>1, <1>4
  <1>6. /\ IsFiniteSet(map) /\ Cardinality(map) \in Nat
        /\ Cardinality(map') \in Nat /\ Cardinality(map') <= Memory
    BY <1>4, MapFinite
  <1>7. Cardinality(map') = Cardinality(map) + 1
    <2>1. Cardinality(map \cup {f}) = IF f \in map THEN Cardinality(map) ELSE Cardinality(map) + 1
      BY <1>6, FS_AddElement
    <2> QED BY <1>1, <1>2, <2>1
  <1>8. used_blocks' = used_blocks + 1 /\ used_blocks \in Nat
    <2>1. UintMod \in Nat /\ Memory \in Nat /\ Memory < UintMod
      BY MemoryType, PmmAssumption
    <2>2. Cardinality(map) # 0
      BY <1>4, <1>6, FS_EmptySet
    <2>3. used_blocks \in Nat /\ used_blocks + 1 \in Nat /\ used_blocks + 1 < UintMod
      BY <1>3, <1>6, <1>7, <2>1, <2>2 DEF UsedInv
    <2> QED BY <1>2, <2>1, <2>3, ModBelow
  <1>9. UsedInv' /\ BootMap'
    <2>1. ZeroRead => ZeroRead'
      BY <1>2 DEF ZeroRead
    <2>2. UsedInv'
      BY <1>3, <1>6, <1>7, <1>8, <2>1 DEF UsedInv
    <2>3. BootMap'
      BY <1>2, <1>3, <1>4 DEF BootMap
    <2> QED BY <2>2, <2>3
  <1> QED BY <1>2, <1>5, <1>6, <1>7, <1>8, <1>9 DEF CountInv

\* A release, likewise: bit 0 is set, so the count was not 0.
LEMMA CountFree ==
  ASSUME RegularMachine, PmmInv, BackedInv, CountInv, NEW g \in held, pmm_free_blocks(g)
  PROVE  CountInv' /\ used_blocks' - used_blocks = Cardinality(map') - Cardinality(map)
  <1>1. g[1] \in Nat /\ g[2] = 1 /\ g[1] # 0 /\ g[1] \in map /\ todo = {}
    BY DEF PmmInv, HeldInv, pmm_free_blocks, Running
  <1>2. /\ map' = map \ {g[1]} /\ todo' = todo /\ ret' = None
        /\ used_blocks' = (used_blocks - 1) % UintMod
    <2>1. g[1] .. g[1] + g[2] - 1 = {g[1]}
      BY <1>1, OneBit
    <2> QED BY <1>1, <2>1 DEF pmm_free_blocks, mmap_unset
  <1>3. BootMap /\ UsedInv
    BY <1>1 DEF CountInv, Booted
  <1>4. map \subseteq 0 .. Memory - 1 /\ map' \subseteq 0 .. Memory - 1 /\ 0 \in map /\ 0 \in map'
    BY <1>1, <1>2, <1>3 DEF BootMap
  <1>5. /\ IsFiniteSet(map) /\ Cardinality(map) \in Nat /\ Cardinality(map) <= Memory
        /\ IsFiniteSet(map') /\ Cardinality(map') \in Nat
    BY <1>4, MapFinite
  <1>6. Cardinality(map') = Cardinality(map) - 1 /\ Cardinality(map') # 0
    <2>1. Cardinality(map \ {g[1]}) = IF g[1] \in map THEN Cardinality(map) - 1 ELSE Cardinality(map)
      BY <1>5, FS_RemoveElement
    <2> QED BY <1>1, <1>2, <1>4, <1>5, <2>1, FS_EmptySet
  <1>7. used_blocks' = used_blocks - 1 /\ used_blocks \in Nat
    <2>1. UintMod \in Nat /\ Memory \in Nat /\ Memory < UintMod
      BY MemoryType, PmmAssumption
    <2>2. used_blocks \in Nat /\ used_blocks - 1 \in Nat /\ used_blocks - 1 < UintMod
      BY <1>3, <1>5, <1>6, <2>1 DEF UsedInv
    <2> QED BY <1>2, <2>1, <2>2, ModBelow
  <1>8. UsedInv' /\ BootMap'
    <2>1. ZeroRead => ZeroRead'
      BY <1>2 DEF ZeroRead
    <2>2. UsedInv'
      BY <1>3, <1>5, <1>6, <1>7, <2>1 DEF UsedInv
    <2>3. BootMap'
      BY <1>1, <1>2, <1>3, <1>4 DEF BootMap
    <2> QED BY <2>2, <2>3
  <1>9. ret' # 0
    BY <1>2 DEF None
  <1> QED BY <1>1, <1>2, <1>5, <1>6, <1>7, <1>8, <1>9 DEF CountInv

\* A null answer: the count says that all blocks are in use, or the search finds none.
LEMMA CountRefuse ==
  ASSUME RegularMachine, BackedInv, CountInv, Running,
         pmm_get_free_block_count = 0 \/ mmap_first_free = {}, Refuse
  PROVE  CountInv'
  <1>1. BootMap /\ UsedInv /\ max_blocks = Memory /\ todo = {}
    BY DEF CountInv, BackedInv, Booted, Running
  <1>2. Memory \in Nat /\ UintMod \in Nat /\ Memory < UintMod
    BY MemoryType, PmmAssumption
  <1>3. map \subseteq 0 .. Memory - 1 /\ 0 \in map
    BY <1>1 DEF BootMap
  <1>4. IsFiniteSet(map) /\ Cardinality(map) \in Nat /\ Cardinality(map) <= Memory
        /\ (Cardinality(map) = Memory => map = 0 .. Memory - 1)
    BY <1>3, MapFinite
  <1>5. CASE pmm_get_free_block_count = 0
    <2>1. Cardinality(map) # 0
      BY <1>3, <1>4, FS_EmptySet
    <2>2. max_blocks - used_blocks \in Nat /\ max_blocks - used_blocks < UintMod
      BY <1>1, <1>2, <1>4, <2>1 DEF UsedInv
    <2>3. max_blocks - used_blocks = 0
      BY <1>2, <1>5, <2>2, ModBelow DEF pmm_get_free_block_count
    <2>4. Cardinality(map) = Memory
      BY <1>1, <1>2, <1>4, <2>3 DEF UsedInv
    <2> QED BY <1>1, <1>4, <2>4 DEF CountInv, Refuse, BootMap, UsedInv, ZeroRead, Booted
  <1>6. CASE mmap_first_free = {}
    <2>1. Scanned = 0 .. Memory - 1
      BY <1>1, ScannedIsMemory DEF RegularMachine
    <2>2. Scanned \ map = {}
      <3> SUFFICES ASSUME Scanned \ map # {} PROVE FALSE
        OBVIOUS
      <3>1. Scanned \ map \in SUBSET Nat
        BY <1>2, <2>1
      <3>2. PICK f \in Scanned \ map : \A b \in Scanned \ map : f <= b
        BY <3>1, LeastNat
      <3> QED BY <1>6, <3>2 DEF mmap_first_free, First
    <2> QED BY <1>1, <2>1, <2>2 DEF CountInv, Refuse, BootMap, UsedInv, ZeroRead, Booted
  <1> QED BY <1>5, <1>6

\* Every step keeps the invariant and, once the kernel has booted, moves count and bitmap
\* together.
LEMMA CountStep ==
  RegularMachine /\ OneAtATime /\ PmmInv /\ BackedInv /\ CountInv /\ [Next]_vars =>
    CountInv' /\ (todo = {} => used_blocks' - used_blocks = Cardinality(map') - Cardinality(map))
  <1> DEFINE Moves == used_blocks' - used_blocks = Cardinality(map') - Cardinality(map)
  <1> SUFFICES ASSUME RegularMachine, OneAtATime, PmmInv, BackedInv, CountInv, [Next]_vars
               PROVE  CountInv' /\ (todo = {} => Moves)
    OBVIOUS
  <1>1. todo = {} => used_blocks \in Int /\ Cardinality(map) \in Int
    <2> SUFFICES ASSUME todo = {} PROVE used_blocks \in Int /\ Cardinality(map) \in Int
      OBVIOUS
    <2>1. UsedInv /\ map \in SUBSET (0 .. Memory - 1)
      BY DEF CountInv, Booted, BootMap
    <2>2. Cardinality(map) \in Nat
      BY <2>1, MapFinite
    <2> QED BY <2>1, <2>2 DEF UsedInv
  <1>2. CASE init_pmm
    BY <1>2, CountInitPmm DEF init_pmm
  <1>3. ASSUME NEW r \in Available, pmm_init_region(r) PROVE CountInv' /\ (todo = {} => Moves)
    BY <1>3, CountInitRegion DEF pmm_init_region
  <1>4. ASSUME NEW r \in Deinits, pmm_deinit_region(r) PROVE CountInv' /\ (todo = {} => Moves)
    BY <1>4, CountDeinitRegion DEF pmm_deinit_region
  <1>5. CASE pmm_alloc_block
    <2>1. CASE (pmm_get_free_block_count = 0 \/ mmap_first_free = {}) /\ Refuse
      <3>1. CountInv'
        BY <1>5, <2>1, CountRefuse DEF pmm_alloc_block
      <3>2. used_blocks' = used_blocks /\ map' = map
        BY <2>1 DEF Refuse
      <3> QED BY <1>1, <3>1, <3>2
    <2>2. CASE \E f \in mmap_first_free : Grant(f, 1)
      BY <1>5, <2>2, CountGrant DEF pmm_alloc_block
    <2> QED BY <1>5, <2>1, <2>2 DEF pmm_alloc_block
  <1>6. ASSUME NEW g \in held, pmm_free_blocks(g) PROVE CountInv' /\ (todo = {} => Moves)
    BY <1>6, CountFree
  <1>7. CASE UNCHANGED vars
    <2>1. CountInv'
      BY <1>7 DEF vars, CountInv, BootMap, UsedInv, ZeroRead, Booted
    <2>2. used_blocks' = used_blocks /\ map' = map
      BY <1>7 DEF vars
    <2> QED BY <1>1, <2>1, <2>2
  <1> QED BY <1>2, <1>3, <1>4, <1>5, <1>6, <1>7 DEF Next, OneAtATime

\* The count invariant holds in every behaviour of a regular machine.
THEOREM CountInvariant ==
  ASSUME OneAtATime, RegularMachine PROVE Spec => [](PmmInv /\ BackedInv /\ CountInv)
  <1>1. Init => CountInv
    BY DEF Init, CountInv, Booted, None
  <1>2. PmmInv /\ BackedInv /\ CountInv /\ [Next]_vars => CountInv'
    BY CountStep
  <1> QED BY <1>1, <1>2, BackedInvariant, PTL DEF Spec

\* pmm_alloc_block answers null only when no block of the memory is free: neither the count,
\* which it tests first, nor the search over whole words hides one (pmm.c:157-166).
THEOREM NullMeansExhaustedHolds ==
  ASSUME OneAtATime, RegularMachine PROVE Spec => []NullMeansExhausted
  <1>1. PmmInv /\ BackedInv /\ CountInv => NullMeansExhausted
    <2> SUFFICES ASSUME BackedInv, CountInv, ret = 0 PROVE 0 .. max_blocks - 1 \subseteq map
      BY DEF NullMeansExhausted
    <2>1. todo = {}
      BY DEF CountInv, None
    <2>2. max_blocks = Memory
      BY <2>1 DEF BackedInv, Booted
    <2> QED BY <2>2 DEF CountInv
  <1> QED BY <1>1, CountInvariant, PTL

\* Once the kernel has booted, _pmm_used_blocks changes by as much as the number of set bits,
\* in every allocation and release, and never wraps (pmm.c:170, 183).
THEOREM CountFollowsMapHolds ==
  ASSUME OneAtATime, RegularMachine PROVE Spec => CountFollowsMap
  <1>1. PmmInv /\ BackedInv /\ CountInv /\ [Next]_vars =>
          [todo = {} => used_blocks' - used_blocks = Cardinality(map') - Cardinality(map)]_vars
    BY CountStep
  <1> QED BY <1>1, CountInvariant, PTL DEF Spec, CountFollowsMap
=============================================================================
