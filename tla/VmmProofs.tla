------------------------------ MODULE VmmProofs -----------------------------
(***************************************************************************)
(* Paging, proved for every memory map, table size and set of pages, on    *)
(* the invariants of the physical memory manager.  The phase "bare", where *)
(* nothing is paged and pmm_alloc_blocks is called at will, is left to TLC.*)
(***************************************************************************)
EXTENDS Vmm, PmmProofs, FunctionTheorems

Indices == 0 .. Entries - 1
KernelIndex == PAGE_DIRECTORY_INDEX(KernelBase)

\* The directory refers to every table once, and the tables are whole.
Shape ==
  /\ dir \in [Indices -> Nat \X BOOLEAN]
  /\ table \in [DOMAIN table -> [Indices -> Nat \X BOOLEAN]]
  /\ \A d \in Indices : dir[d][2] => dir[d][1] \in DOMAIN table
  /\ \A d, e \in Indices : dir[d][2] /\ dir[e][2] /\ dir[d][1] = dir[e][1] => d = e
  /\ \A t \in DOMAIN table : \E d \in Indices : dir[d][2] /\ dir[d][1] = t

\* Directory and tables are marked blocks of the available memory that nobody holds.
Private ==
  /\ Tables \subseteq map /\ kpage_dir \notin DOMAIN table
  /\ \A g \in held : g[1] \notin Tables
  /\ \A t \in Tables : t # 0 /\ \E r \in Available : t \in Blocks(r)

\* What a caller may map: a device, or block 0 when there was no block, or what it holds.
Mappable(f) == f \in Devices \cup {0} \/ <<f, 1>> \in held

\* A page of a caller leads to what a caller may map, and a block that is held is mapped once.
Mapped ==
  /\ \A p \in Pages : \A f \in Translate(p) : Mappable(f)
  /\ \A p, q \in Pages : \A f \in Translate(p) \cap Translate(q) : <<f, 1>> \in held => p = q

\* The kernel's image and the identity map.
Kernel == \A i \in Indices : Translate(i) = {i} /\ Translate(KernelBase + i) = {i}

\* The loop of vmm_alloc_page maps its block, which no other page leads to, or block 0.
Looping ==
  loop # <<>> =>
    /\ loop[2] \in Pages /\ loop[1] \in Nat
    /\ loop[1] # 0 => <<loop[1], 1>> \in held /\ \A q \in Pages : loop[1] \in Translate(q) => q = loop[2]

\* What the TLB kept belongs to the pages of callers, and leads to a table only if it led to its
\* block before.
Cached == \A s \in stale : s[1] \in Pages /\ (s[2] \in Tables => s[2] \in exposed)

\* The inductive invariant.
VmInv ==
  vm \in {"boot", "no directory", "paging"} =>
    /\ PmmInv /\ BackedInv
    /\ OnLoader => loop = <<>> /\ stale = {} /\ kpage_dir = 0
    /\ vm = "paging" => todo = {} /\ Shape /\ Private /\ Mapped /\ Kernel /\ Looping /\ Cached

-----------------------------------------------------------------------------
(* Pages and their places in the tables.                                    *)

\* A page is its two indices.
LEMMA PageParts ==
  ASSUME NEW p \in AllPages
  PROVE  /\ PAGE_DIRECTORY_INDEX(p) \in Indices /\ PAGE_TABLE_INDEX(p) \in Indices
         /\ p = PAGE_DIRECTORY_INDEX(p) * Entries + PAGE_TABLE_INDEX(p)
  <1> DEFINE d == p \div Entries  i == p % Entries
  <1>1. Entries \in Nat \ {0} /\ p \in Nat /\ p <= Entries * Entries - 1 /\ Entries * Entries \in Nat
    BY VmmAssumption DEF AllPages
  <1>2. d \in Nat /\ i \in 0 .. Entries - 1 /\ p = d * Entries + i
    BY <1>1, DivMod
  <1> HIDE DEF d, i
  <1>3. d < Entries
    <2> SUFFICES ASSUME d >= Entries PROVE FALSE
      BY <1>1, <1>2
    <2>1. PICK k \in Nat : d = Entries + k
      <3>1. d - Entries \in Nat /\ d = Entries + (d - Entries)
        BY <1>1, <1>2
      <3> QED BY <3>1
    <2>2. d * Entries = Entries * Entries + k * Entries /\ k * Entries \in Nat
      BY <1>1, <2>1
    <2> QED BY <1>1, <1>2, <2>2
  <1>4. d \in Indices
    BY <1>1, <1>2, <1>3 DEF Indices
  <1> QED BY <1>2, <1>4 DEF d, i, Indices, PAGE_DIRECTORY_INDEX, PAGE_TABLE_INDEX

LEMMA PageIs ==
  ASSUME NEW p \in AllPages, NEW q \in AllPages,
         PAGE_DIRECTORY_INDEX(p) = PAGE_DIRECTORY_INDEX(q), PAGE_TABLE_INDEX(p) = PAGE_TABLE_INDEX(q)
  PROVE  p = q
  BY PageParts

\* The pages of the identity map and of the kernel.
LEMMA KernelPages ==
  /\ 0 \in Indices /\ KernelIndex \in Indices /\ KernelIndex # 0
  /\ \A i \in Indices :
       /\ i \in AllPages \ Pages /\ PAGE_DIRECTORY_INDEX(i) = 0 /\ PAGE_TABLE_INDEX(i) = i
       /\ KernelBase + i \in AllPages \ Pages /\ PAGE_DIRECTORY_INDEX(KernelBase + i) = KernelIndex
       /\ PAGE_TABLE_INDEX(KernelBase + i) = i
  <1>1. Entries \in Nat \ {0} /\ KernelBase \in AllPages /\ PAGE_TABLE_INDEX(KernelBase) = 0
        /\ KernelIndex # 0 /\ \A p \in Pages : PAGE_DIRECTORY_INDEX(p) \notin {0, KernelIndex}
    BY VmmAssumption DEF KernelIndex
  <1>2. KernelIndex \in Indices /\ KernelBase = KernelIndex * Entries + 0
    BY <1>1, PageParts DEF KernelIndex
  <1>3. 0 \in Indices
    BY <1>1 DEF Indices
  <1>4. ASSUME NEW i \in Indices, NEW d \in Indices
        PROVE  /\ d * Entries + i \in AllPages /\ PAGE_DIRECTORY_INDEX(d * Entries + i) = d
               /\ PAGE_TABLE_INDEX(d * Entries + i) = i
    <2>1. d \in Nat /\ i \in 0 .. Entries - 1 /\ d <= Entries - 1 /\ d * Entries \in Nat
      BY <1>1 DEF Indices
    <2>2. d * Entries + i <= Entries * Entries - 1
      <3>1. PICK k \in Nat : Entries = d + 1 + k
        <4>1. Entries - d - 1 \in Nat /\ Entries = d + 1 + (Entries - d - 1)
          BY <1>1, <2>1
        <4> QED BY <4>1
      <3>2. Entries * Entries = d * Entries + Entries + k * Entries /\ k * Entries \in Nat
        BY <1>1, <2>1, <3>1
      <3> QED BY <1>1, <2>1, <3>2
    <2>3. (d * Entries + i) % Entries = i /\ (d * Entries + i) \div Entries = d
      BY <1>1, <2>1, DivModUnique
    <2> QED BY <1>1, <2>1, <2>2, <2>3 DEF AllPages, PAGE_DIRECTORY_INDEX, PAGE_TABLE_INDEX
  <1>5. ASSUME NEW i \in Indices
        PROVE  /\ i \in AllPages /\ PAGE_DIRECTORY_INDEX(i) = 0 /\ PAGE_TABLE_INDEX(i) = i
               /\ KernelBase + i \in AllPages /\ PAGE_DIRECTORY_INDEX(KernelBase + i) = KernelIndex
               /\ PAGE_TABLE_INDEX(KernelBase + i) = i
    <2>1. 0 * Entries + i = i /\ KernelIndex * Entries + i = KernelBase + i
      BY <1>1, <1>2 DEF Indices
    <2>2. /\ 0 * Entries + i \in AllPages /\ PAGE_DIRECTORY_INDEX(0 * Entries + i) = 0
          /\ PAGE_TABLE_INDEX(0 * Entries + i) = i
      BY <1>3, <1>4
    <2>3. /\ KernelIndex * Entries + i \in AllPages
          /\ PAGE_DIRECTORY_INDEX(KernelIndex * Entries + i) = KernelIndex
          /\ PAGE_TABLE_INDEX(KernelIndex * Entries + i) = i
      BY <1>2, <1>4
    <2> QED BY <2>1, <2>2, <2>3
  <1> QED BY <1>1, <1>2, <1>3, <1>5

\* The kernel's addresses less their base.
LEMMA KernelAddress == \A i \in Indices : (KernelBase + i) - KernelBase = i
  <1>1. KernelBase \in AllPages /\ Entries \in Nat
    BY VmmAssumption
  <1>2. KernelBase \in Nat
    BY <1>1 DEF AllPages
  <1> QED BY <1>1, <1>2 DEF Indices

LEMMA NoDirectory ==
  ASSUME kpage_dir = 0, NEW i \in Indices
  PROVE  virt2phys(KernelBase + i) = {i}
  <1>1. virt2phys(KernelBase + i) = {(KernelBase + i) - KernelBase}
    BY DEF virt2phys
  <1> QED BY <1>1, KernelAddress

\* What the walk of the processor finds.
LEMMA TranslateIs ==
  ASSUME NEW p, vm = "paging"
  PROVE  LET e == dir[PAGE_DIRECTORY_INDEX(p)]
             t == table[e[1]][PAGE_TABLE_INDEX(p)]
         IN Translate(p) = IF e[2] /\ t[2] THEN {t[1]} ELSE {}
  BY DEF Translate, OnLoader

LEMMA TranslateNext ==
  ASSUME NEW p, vm' = "paging"
  PROVE  LET e == dir'[PAGE_DIRECTORY_INDEX(p)]
             t == table'[e[1]][PAGE_TABLE_INDEX(p)]
         IN Translate(p)' = IF e[2] /\ t[2] THEN {t[1]} ELSE {}
  BY DEF Translate, OnLoader, PAGE_DIRECTORY_INDEX, PAGE_TABLE_INDEX

\* A page keeps its translation when the entries that lead to it stay the same.
LEMMA TranslateSame ==
  ASSUME NEW p, vm = "paging", vm' = "paging",
         dir'[PAGE_DIRECTORY_INDEX(p)] = dir[PAGE_DIRECTORY_INDEX(p)],
         dir[PAGE_DIRECTORY_INDEX(p)][2] =>
           table'[dir[PAGE_DIRECTORY_INDEX(p)][1]][PAGE_TABLE_INDEX(p)]
             = table[dir[PAGE_DIRECTORY_INDEX(p)][1]][PAGE_TABLE_INDEX(p)]
  PROVE  Translate(p)' = Translate(p)
  <1> DEFINE e == dir[PAGE_DIRECTORY_INDEX(p)]  u == table[e[1]][PAGE_TABLE_INDEX(p)]
             w == table'[e[1]][PAGE_TABLE_INDEX(p)]
  <1>1. Translate(p) = IF e[2] /\ u[2] THEN {u[1]} ELSE {}
    BY TranslateIs
  <1>2. Translate(p)' = IF e[2] /\ w[2] THEN {w[1]} ELSE {}
    BY TranslateNext
  <1>3. e[2] => w = u
    OBVIOUS
  <1> HIDE DEF e, u, w
  <1> QED BY <1>1, <1>2, <1>3

\* Writing an entry of a table that exists.
LEMMA EntryWritten ==
  ASSUME vm = "paging", vm' = "paging", Shape, NEW p \in AllPages, NEW e \in Nat \X BOOLEAN,
         dir[PAGE_DIRECTORY_INDEX(p)][2], dir' = dir, table' = SetEntry(table, p, e)
  PROVE  /\ Shape' /\ DOMAIN table' = DOMAIN table
         /\ Translate(p)' = IF e[2] THEN {e[1]} ELSE {}
         /\ \A q \in AllPages : q # p => Translate(q)' = Translate(q)
  <1> DEFINE d == PAGE_DIRECTORY_INDEX(p)  i == PAGE_TABLE_INDEX(p)  t == dir[d][1]
             D == DOMAIN table  V == Nat \X BOOLEAN
  <1>1. d \in Indices /\ i \in Indices /\ t \in D /\ dir \in [Indices -> V]
        /\ table \in [D -> [Indices -> V]]
    BY PageParts DEF Shape
  <1>2. table' = [table EXCEPT ![t][i] = e] /\ e \in V
    BY DEF SetEntry
  <1>3. /\ table' \in [D -> [Indices -> V]] /\ DOMAIN table' = D
        /\ table'[t][i] = e
        /\ \A u \in D : \A j \in Indices : u # t \/ j # i => table'[u][j] = table[u][j]
    <2> HIDE DEF D, t, i, d, V
    <2> QED BY <1>1, <1>2
  <1>4. Shape'
    BY <1>3 DEF Shape
  <1>5. Translate(p)' = IF e[2] THEN {e[1]} ELSE {}
    <2>1. dir'[d][2] /\ dir'[d][1] = t
      OBVIOUS
    <2> QED BY <1>3, <2>1, TranslateNext
  <1>6. ASSUME NEW q \in AllPages, q # p PROVE Translate(q)' = Translate(q)
    <2> DEFINE c == PAGE_DIRECTORY_INDEX(q)  j == PAGE_TABLE_INDEX(q)
    <2>1. c \in Indices /\ j \in Indices /\ (c # d \/ j # i)
      BY <1>6, PageParts, PageIs
    <2>2. CASE dir[c][2]
      <3>1. dir[c][1] \in D /\ (dir[c][1] # t \/ j # i)
        BY <1>1, <2>1, <2>2 DEF Shape
      <3>2. table'[dir[c][1]][j] = table[dir[c][1]][j]
        BY <1>3, <2>1, <3>1
      <3> QED BY <3>2, TranslateSame
    <2>3. CASE ~dir[c][2]
      BY <2>3, TranslateSame
    <2> QED BY <2>2, <2>3
  <1> QED BY <1>3, <1>4, <1>5, <1>6

\* Adding a table, and writing its first entry.
LEMMA TableAdded ==
  ASSUME vm = "paging", vm' = "paging", Shape, NEW p \in AllPages, NEW e \in Nat \X BOOLEAN,
         ~dir[PAGE_DIRECTORY_INDEX(p)][2], NEW t \in Nat, t \notin DOMAIN table,
         dir' = [dir EXCEPT ![PAGE_DIRECTORY_INDEX(p)] = <<t, TRUE>>],
         table' = SetEntry(AddTable(t, NewTable), p, e)
  PROVE  /\ Shape' /\ DOMAIN table' = DOMAIN table \cup {t}
         /\ Translate(p)' = IF e[2] THEN {e[1]} ELSE {}
         /\ \A q \in AllPages : q # p => Translate(q)' = Translate(q)
  <1> DEFINE d == PAGE_DIRECTORY_INDEX(p)  i == PAGE_TABLE_INDEX(p)
             D == DOMAIN table  V == Nat \X BOOLEAN  T == AddTable(t, NewTable)
  <1>1. d \in Indices /\ i \in Indices /\ dir \in [Indices -> V] /\ table \in [D -> [Indices -> V]]
    BY PageParts DEF Shape
  <1>2. dir' \in [Indices -> V] /\ dir'[d][1] = t /\ dir'[d][2] /\ \A c \in Indices : c # d => dir'[c] = dir[c]
    BY <1>1
  <1>3. /\ T \in [D \cup {t} -> [Indices -> V]] /\ \A j \in Indices : ~T[t][j][2]
        /\ \A u \in D : T[u] = table[u]
    BY <1>1 DEF AddTable, NewTable, NoEntries, Indices, Zero
  <1>4. table' = [T EXCEPT ![t][i] = e] /\ e \in V
    BY <1>2 DEF SetEntry
  <1>5. /\ table' \in [D \cup {t} -> [Indices -> V]] /\ DOMAIN table' = D \cup {t}
        /\ table'[t][i] = e
        /\ \A u \in D \cup {t} : \A j \in Indices : u # t \/ j # i => table'[u][j] = T[u][j]
    <2> HIDE DEF D, T, i, d, V
    <2> QED BY <1>1, <1>3, <1>4
  <1> HIDE DEF T
  <1>6. Shape'
    <2>1. \A c \in Indices : dir'[c][2] => dir'[c][1] \in DOMAIN table'
      BY <1>2, <1>5 DEF Shape
    <2>2. \A c, b \in Indices : dir'[c][2] /\ dir'[b][2] /\ dir'[c][1] = dir'[b][1] => c = b
      BY <1>2 DEF Shape
    <2>3. \A u \in DOMAIN table' : \E c \in Indices : dir'[c][2] /\ dir'[c][1] = u
      <3> SUFFICES ASSUME NEW u \in DOMAIN table' PROVE \E c \in Indices : dir'[c][2] /\ dir'[c][1] = u
        OBVIOUS
      <3>1. CASE u = t
        BY <1>1, <1>2, <3>1
      <3>2. CASE u \in D
        <4>1. PICK c \in Indices : dir[c][2] /\ dir[c][1] = u
          BY <3>2 DEF Shape
        <4>2. c # d
          BY <4>1
        <4> QED BY <1>2, <4>1, <4>2
      <3> QED BY <1>5, <3>1, <3>2
    <2> QED BY <1>2, <1>5, <2>1, <2>2, <2>3 DEF Shape
  <1>7. Translate(p)' = IF e[2] THEN {e[1]} ELSE {}
    BY <1>2, <1>5, TranslateNext
  <1>8. ASSUME NEW q \in AllPages, q # p PROVE Translate(q)' = Translate(q)
    <2> DEFINE c == PAGE_DIRECTORY_INDEX(q)  j == PAGE_TABLE_INDEX(q)
    <2>1. c \in Indices /\ j \in Indices /\ (c # d \/ j # i)
      BY <1>8, PageParts, PageIs
    <2>2. CASE c = d
      <3>1. ~table'[t][j][2]
        BY <1>3, <1>5, <2>1, <2>2
      <3>2. dir'[c][1] = t /\ ~dir[c][2]
        BY <1>2, <2>2
      <3> QED BY <3>1, <3>2, TranslateIs, TranslateNext
    <2>3. CASE c # d /\ dir[c][2]
      <3>1. dir[c][1] \in D /\ dir[c][1] # t /\ dir'[c] = dir[c]
        BY <1>2, <2>1, <2>3 DEF Shape
      <3>2. table'[dir[c][1]][j] = table[dir[c][1]][j]
        BY <1>3, <1>5, <2>1, <3>1
      <3> QED BY <3>1, <3>2, TranslateSame
    <2>4. CASE c # d /\ ~dir[c][2]
      <3>1. dir'[c] = dir[c]
        BY <1>2, <2>1, <2>4
      <3> QED BY <2>4, <3>1, TranslateSame
    <2> QED BY <2>2, <2>3, <2>4
  <1> QED BY <1>5, <1>6, <1>7, <1>8

-----------------------------------------------------------------------------
(* Blocks that are obtained.                                                *)

\* A free block that the search sees: never block 0, a table, a device or what somebody holds.
LEMMA FreeIsNew ==
  ASSUME PmmInv, BackedInv, todo = {}, NEW f \in Scanned \ map
  PROVE  /\ f \in Nat /\ f \notin map /\ f # 0 /\ Available # {} /\ f \notin Devices
         /\ (\E r \in Available : f \in Blocks(r)) /\ \A g \in held : g[1] # f
  <1>1. f \in Nat /\ Booted
    BY DEF Scanned, Booted
  <1>2. PICK r \in Available : f \in Blocks(r)
    BY <1>1 DEF BackedInv
  <1>3. f # 0
    BY <1>1, <1>2 DEF PmmInv, ZeroInv
  <1>4. f \notin Devices
    BY <1>2, VmmAssumption
  <1>5. \A g \in held : g[1] # f
    BY DEF PmmInv, HeldInv
  <1> QED BY <1>1, <1>2, <1>3, <1>4, <1>5

\* The blocks obtained so far: free and different.
Fresh(got) ==
  /\ got \in Seq(Nat) /\ \A k \in 1 .. Len(got) : got[k] \in Scanned \ map
  /\ \A k, l \in 1 .. Len(got) : got[k] = got[l] => k = l

LEMMA ObtainFresh ==
  ASSUME NEW got, Fresh(got)
  PROVE  Fresh(Obtain(got)) /\ Len(Obtain(got)) <= Len(got) + 1
  <1>1. got \in Seq(Nat) /\ Len(got) \in Nat /\ DOMAIN got = 1 .. Len(got)
    BY DEF Fresh
  <1>2. CASE NextBlock(got) = {}
    BY <1>1, <1>2 DEF Obtain
  <1>3. CASE NextBlock(got) # {}
    <2> DEFINE f == CHOOSE f \in NextBlock(got) : TRUE
    <2>1. f \in NextBlock(got) /\ Obtain(got) = Append(got, f)
      BY <1>3 DEF Obtain
    <2> HIDE DEF f
    <2>2. f \in Scanned \ map /\ f \in Nat /\ \A k \in 1 .. Len(got) : got[k] # f
      <3>1. f \in First(Scanned \ (map \cup {got[i] : i \in DOMAIN got}))
        BY <1>3, <2>1 DEF NextBlock
      <3> QED BY <1>1, <3>1 DEF First, Scanned
    <2>3. /\ Append(got, f) \in Seq(Nat) /\ Len(Append(got, f)) = Len(got) + 1
          /\ Append(got, f)[Len(got) + 1] = f
          /\ \A k \in 1 .. Len(got) : Append(got, f)[k] = got[k]
      BY <1>1, <2>2
    <2>4. \A k \in 1 .. Len(got) + 1 : k \in 1 .. Len(got) \/ k = Len(got) + 1
      BY <1>1
    <2>5. Fresh(Append(got, f))
      BY <1>1, <2>2, <2>3, <2>4 DEF Fresh
    <2> QED BY <1>1, <2>1, <2>3, <2>5
  <1> QED BY <1>2, <1>3

LEMMA NothingFresh == Fresh(<<>>) /\ Len(<<>>) = 0
  BY DEF Fresh

\* Marking the blocks obtained disturbs nothing of the memory manager.
LEMMA TookInv ==
  ASSUME PmmInv, BackedInv, NEW got, Took(got)
  PROVE  /\ PmmInv' /\ BackedInv' /\ map' = map \cup {got[i] : i \in DOMAIN got}
         /\ held' = held /\ todo' = todo
  <1>1. map' = map \cup {got[i] : i \in DOMAIN got} /\ held' = held /\ todo' = todo /\ max_blocks' = max_blocks
    BY DEF Took, mmap_set
  <1>2. Scanned' = Scanned
    BY <1>1 DEF Scanned
  <1>3. PmmInv'
    BY <1>1 DEF PmmInv, TodoInv, HeldInv, ZeroInv, DeinitInv, Booted
  <1>4. BackedInv'
    BY <1>1, <1>2 DEF BackedInv, Booted
  <1> QED BY <1>1, <1>3, <1>4

-----------------------------------------------------------------------------
(* The steps.                                                               *)

\* Before the first directory the kernel runs on the loader's tables.
LEMMA BootKernel == ASSUME OnLoader PROVE Kernel
  <1> SUFFICES ASSUME NEW i \in Indices PROVE Translate(i) = {i} /\ Translate(KernelBase + i) = {i}
    BY DEF Kernel
  <1> QED BY KernelPages DEF Translate, KernelIndex

\* kmain fills the bitmap.
LEMMA BootStep ==
  ASSUME VmInv, UNCHANGED vmvars,
         \/ init_pmm
         \/ \E r \in Available : pmm_init_region(r)
         \/ \E r \in Deinits : pmm_deinit_region(r)
  PROVE  VmInv'
  <1> SUFFICES ASSUME vm \in {"boot", "no directory", "paging"} PROVE VmInv'
    BY DEF VmInv, vmvars
  <1>1. todo # {}
    BY DEF init_pmm, pmm_init_region, pmm_deinit_region
  <1>2. vm # "paging" /\ PmmInv /\ BackedInv /\ OnLoader
    BY <1>1 DEF VmInv, OnLoader
  <1>3. PmmInv' /\ BackedInv'
    BY <1>2, InitPmmInv, InitRegionInv, DeinitRegionInv, BackedBoot
  <1>4. vm' = vm /\ UNCHANGED <<loop, stale, kpage_dir>>
    BY DEF vmvars
  <1> QED BY <1>2, <1>3, <1>4 DEF VmInv, OnLoader

\* A block goes to a caller, or into the loop of vmm_alloc_page.
LEMMA GrantStep ==
  ASSUME VmInv, Running, vm \in {"boot", "paging"}, NEW f \in mmap_first_free, Grant(f, 1), loop = <<>>,
         UNCHANGED <<table, dir, kpage_dir, vm, stale, exposed>>,
         loop' = <<>> \/ (vm = "paging" /\ \E p \in Pages : loop' = <<f, p>>)
  PROVE  VmInv'
  <1>1. PmmInv /\ BackedInv /\ todo = {} /\ f \in Scanned \ map
    BY DEF VmInv, Running, mmap_first_free, First
  <1>2. /\ f \in Nat /\ f \notin map /\ f # 0 /\ Available # {} /\ f \notin Devices
        /\ \A g \in held : g[1] # f
    BY <1>1, FreeIsNew
  <1>3. map' = map \cup {f} /\ held' = held \cup {<<f, 1>>} /\ todo' = {}
    <2>1. f .. f + 1 - 1 = {f}
      BY <1>2, OneBit
    <2> QED BY <1>1, <2>1 DEF Grant, mmap_set
  <1>4. PmmInv' /\ BackedInv'
    BY <1>1, <1>2, GrantInv, BackedGrant
  <1>5. CASE vm = "boot"
    BY <1>4, <1>5 DEF VmInv, OnLoader
  <1>6. CASE vm = "paging"
    <2>1. Shape /\ Private /\ Mapped /\ Kernel /\ Cached
      BY <1>6 DEF VmInv
    <2>2. \A p : Translate(p)' = Translate(p)
      BY DEF Translate, OnLoader, PAGE_DIRECTORY_INDEX, PAGE_TABLE_INDEX
    <2>3. Shape'
      BY <2>1 DEF Shape
    <2>4. <<f, 1>>[1] = f /\ Tables' = Tables
      BY DEF Tables
    <2>5. Private'
      BY <1>2, <1>3, <2>1, <2>4 DEF Private
    <2>6. \A p \in Pages : f \notin Translate(p)
      <3> SUFFICES ASSUME NEW p \in Pages, f \in Translate(p) PROVE FALSE
        OBVIOUS
      <3>1. Mappable(f)
        BY <2>1 DEF Mapped
      <3> QED BY <1>2, <2>4, <3>1 DEF Mappable
    <2>7. Mapped'
      <3>1. \A p \in Pages : \A h \in Translate(p) : Mappable(h)'
        BY <1>3, <2>1 DEF Mapped, Mappable
      <3>2. \A p, q \in Pages : \A h \in Translate(p) \cap Translate(q) : <<h, 1>> \in held' => p = q
        <4> SUFFICES ASSUME NEW p \in Pages, NEW q \in Pages, NEW h \in Translate(p) \cap Translate(q),
                            <<h, 1>> \in held'
                     PROVE  p = q
          OBVIOUS
        <4>1. h # f
          BY <2>6
        <4>2. <<h, 1>> \in held
          BY <1>3, <4>1
        <4> QED BY <2>1, <4>2 DEF Mapped
      <3> QED BY <2>2, <3>1, <3>2 DEF Mapped
    <2>8. Kernel'
      BY <2>1, <2>2 DEF Kernel
    <2>9. Looping'
      <3>1. CASE loop' = <<>>
        BY <3>1 DEF Looping
      <3>2. CASE \E p \in Pages : loop' = <<f, p>>
        <4>1. PICK p \in Pages : loop' = <<f, p>>
          BY <3>2
        <4>2. loop'[1] = f /\ loop'[2] = p /\ <<f, 1>> \in held'
          BY <1>3, <4>1
        <4> QED BY <1>2, <2>2, <2>6, <4>2 DEF Looping
      <3> QED BY <3>1, <3>2
    <2>10. Cached'
      BY <2>1, <2>4 DEF Cached
    <2> QED BY <1>3, <1>4, <1>6, <2>3, <2>5, <2>7, <2>8, <2>9, <2>10 DEF VmInv, OnLoader
  <1> QED BY <1>5, <1>6

\* A null answer; vmm_alloc_page goes on with it.
LEMMA RefuseStep ==
  ASSUME VmInv, Running, vm \in {"boot", "paging"}, Refuse, loop = <<>>,
         UNCHANGED <<table, dir, kpage_dir, vm, stale, exposed>>,
         loop' = <<>> \/ (vm = "paging" /\ \E p \in Pages : loop' = <<0, p>>)
  PROVE  VmInv'
  <1>1. map' = map /\ held' = held /\ todo' = todo /\ max_blocks' = max_blocks
    BY DEF Refuse
  <1>2. PmmInv' /\ BackedInv'
    BY <1>1 DEF VmInv, PmmInv, TodoInv, HeldInv, ZeroInv, DeinitInv, Booted, BackedInv, Scanned
  <1>3. CASE vm = "boot"
    BY <1>2, <1>3 DEF VmInv, OnLoader
  <1>4. CASE vm = "paging"
    <2>1. Shape /\ Private /\ Mapped /\ Kernel /\ Cached /\ todo = {}
      BY <1>4 DEF VmInv
    <2>2. \A p : Translate(p)' = Translate(p)
      BY DEF Translate, OnLoader, PAGE_DIRECTORY_INDEX, PAGE_TABLE_INDEX
    <2>3. Shape' /\ Private' /\ Kernel' /\ Cached'
      BY <1>1, <2>1, <2>2 DEF Shape, Private, Kernel, Cached, Tables
    <2>4. Mapped'
      BY <1>1, <2>1, <2>2 DEF Mapped, Mappable
    <2>5. Looping'
      <3>1. CASE loop' = <<>>
        BY <3>1 DEF Looping
      <3>2. CASE \E p \in Pages : loop' = <<0, p>>
        BY <3>2 DEF Looping
      <3> QED BY <3>1, <3>2
    <2> QED BY <1>1, <1>2, <1>4, <2>1, <2>3, <2>4, <2>5 DEF VmInv, OnLoader
  <1> QED BY <1>3, <1>4

\* What a mapping may be asked for: something mappable that no other page leads to.
MayMap(frame, p) ==
  /\ p \in Pages /\ frame \in Nat /\ Mappable(frame)
  /\ <<frame, 1>> \in held => \A q \in Pages : frame \in Translate(q) => q = p

\* Once the translation of one page has changed to frame, the rest of the invariant follows.
LEMMA Remapped ==
  ASSUME VmInv, vm = "paging", held' = held, NEW p, NEW frame, MayMap(frame, p), loop' = loop,
         loop # <<>> => loop[1] = frame /\ loop[2] = p,
         Translate(p)' = {frame}, \A q \in AllPages : q # p => Translate(q)' = Translate(q)
  PROVE  Mapped' /\ Kernel' /\ Looping'
  <1>1. Mapped /\ Kernel /\ Looping /\ p \in Pages /\ Pages \subseteq AllPages
    BY VmmAssumption DEF VmInv, MayMap
  <1>2. \A q \in Pages : q # p => Translate(q)' = Translate(q)
    BY <1>1
  <1>3. Mapped'
    <2>1. \A q \in Pages : \A f \in Translate(q)' : Mappable(f)'
      <3> SUFFICES ASSUME NEW q \in Pages, NEW f \in Translate(q)' PROVE Mappable(f)
        BY DEF Mappable
      <3>1. CASE q = p
        BY <3>1 DEF MayMap
      <3>2. CASE q # p
        BY <1>1, <1>2, <3>2 DEF Mapped
      <3> QED BY <3>1, <3>2
    <2>2. ASSUME NEW q \in Pages, NEW u \in Pages, NEW f \in Translate(q)' \cap Translate(u)', <<f, 1>> \in held'
          PROVE  q = u
      <3>1. CASE q = p /\ u # p
        <4>1. f = frame /\ f \in Translate(u) /\ <<f, 1>> \in held
          BY <1>2, <2>2, <3>1
        <4>2. u = p
          BY <4>1 DEF MayMap
        <4> QED BY <3>1, <4>2
      <3>2. CASE q # p /\ u = p
        <4>1. f = frame /\ f \in Translate(q) /\ <<f, 1>> \in held
          BY <1>2, <2>2, <3>2
        <4>2. q = p
          BY <4>1 DEF MayMap
        <4> QED BY <3>2, <4>2
      <3>3. CASE q # p /\ u # p
        <4>1. f \in Translate(q) \cap Translate(u) /\ <<f, 1>> \in held
          BY <1>2, <2>2, <3>3
        <4> QED BY <1>1, <4>1 DEF Mapped
      <3> QED BY <3>1, <3>2, <3>3
    <2> QED BY <2>1, <2>2 DEF Mapped
  <1>4. Kernel'
    <2>1. \A i \in Indices : i \in AllPages /\ i # p /\ KernelBase + i \in AllPages /\ KernelBase + i # p
      BY <1>1, KernelPages
    <2> QED BY <1>1, <2>1 DEF Kernel
  <1>5. Looping'
    BY <1>1, <1>2 DEF Looping
  <1> QED BY <1>3, <1>4, <1>5

\* An entry is stored: the TLB keeps the old translation, which never led to a table; a new
\* table is exposed if the TLB led to its block.
LEMMA CachedStep ==
  ASSUME VmInv, vm = "paging", NEW p \in Pages, NEW now, stale' = Stored(p, now),
         NEW T, Tables' = Tables \cup T, Translate(p) \cap T = {},
         exposed \subseteq exposed', \A t \in T : (\E s \in stale : s[2] = t) => t \in exposed'
  PROVE  Cached'
  <1>1. Cached /\ Private /\ Mapped
    BY DEF VmInv
  <1>2. \A f \in Translate(p) : f \notin Tables
    <2> SUFFICES ASSUME NEW f \in Translate(p), f \in Tables PROVE FALSE
      OBVIOUS
    <2>1. f # 0 /\ (\E r \in Available : f \in Blocks(r)) /\ \A g \in held : g[1] # f
      BY <1>1 DEF Private
    <2>2. f \notin Devices
      BY <2>1, VmmAssumption
    <2>3. <<f, 1>>[1] = f
      OBVIOUS
    <2>4. Mappable(f)
      BY <1>1 DEF Mapped
    <2> QED BY <2>1, <2>2, <2>3, <2>4 DEF Mappable
  <1>3. ASSUME NEW s \in stale' PROVE s[1] \in Pages /\ (s[2] \in Tables' => s[2] \in exposed')
    <2>1. s \in stale \/ s \in {p} \X Translate(p)
      BY <1>3 DEF Stored
    <2>2. CASE s \in stale
      BY <1>1, <2>2 DEF Cached
    <2>3. CASE s \in {p} \X Translate(p)
      <3>1. s[1] = p /\ s[2] \in Translate(p)
        BY <2>3
      <3> QED BY <1>2, <3>1
    <2> QED BY <2>1, <2>2, <2>3
  <1> QED BY <1>3 DEF Cached

\* vmm_map_page, whether there is a table, a block for one, or neither.
LEMMA MapStep ==
  ASSUME VmInv, NEW p, NEW frame, MayMap(frame, p), vmm_map_page(frame, p),
         loop # <<>> => loop[1] = frame /\ loop[2] = p
  PROVE  /\ VmInv'
         /\ vm' = "paging" => \A q \in AllPages : q # p => Translate(q)' = Translate(q)
  <1> DEFINE d == PAGE_DIRECTORY_INDEX(p)  got == Obtain(<<>>)
  <1>1. /\ vm = "paging" /\ PmmInv /\ BackedInv /\ todo = {} /\ Shape /\ Private
        /\ p \in Pages /\ p \in AllPages /\ frame \in Nat
    BY VmmAssumption DEF VmInv, vmm_map_page, MayMap
  <1>2. <<frame, TRUE>> \in Nat \X BOOLEAN /\ <<frame, TRUE>>[1] = frame /\ <<frame, TRUE>>[2]
    BY <1>1
  <1>3. CASE /\ dir[d][2] /\ dir' = dir /\ table' = SetEntry(table, p, <<frame, TRUE>>)
             /\ UNCHANGED <<map, max_blocks, used_blocks, stray, todo, held, ret, faulted, kpage_dir, vm, loop>>
             /\ stale' = Stored(p, {frame}) /\ UNCHANGED exposed
    <2>1. /\ Shape' /\ DOMAIN table' = DOMAIN table /\ Translate(p)' = {frame}
          /\ \A q \in AllPages : q # p => Translate(q)' = Translate(q)
      BY <1>1, <1>2, <1>3, EntryWritten
    <2>2. Mapped' /\ Kernel' /\ Looping'
      BY <1>1, <1>3, <2>1, Remapped
    <2>3. Private'
      BY <1>1, <1>3, <2>1 DEF Private, Tables
    <2>4. PmmInv' /\ BackedInv'
      BY <1>1, <1>3 DEF PmmInv, TodoInv, HeldInv, ZeroInv, DeinitInv, Booted, BackedInv, Scanned
    <2>5. Cached'
      <3>1. Tables' = Tables \cup {}
        BY <1>3, <2>1 DEF Tables
      <3> QED BY <1>1, <1>3, <3>1, CachedStep
    <2> QED BY <1>1, <1>3, <2>1, <2>2, <2>3, <2>4, <2>5 DEF VmInv, OnLoader
  <1>4. CASE UNCHANGED allvars
    <2>1. \A q : Translate(q)' = Translate(q)
      BY <1>4 DEF Translate, OnLoader, PAGE_DIRECTORY_INDEX, PAGE_TABLE_INDEX, allvars
    <2>2. PmmInv' /\ BackedInv'
      BY <1>1, <1>4 DEF PmmInv, TodoInv, HeldInv, ZeroInv, DeinitInv, Booted, BackedInv, Scanned, allvars
    <2>3. Shape' /\ Private' /\ Mapped' /\ Kernel' /\ Looping' /\ Cached'
      BY <1>1, <1>4, <2>1 DEF VmInv, Shape, Private, Tables, Mapped, Mappable, Kernel, Looping, Cached, allvars
    <2> QED BY <1>1, <1>4, <2>1, <2>2, <2>3 DEF VmInv, OnLoader, allvars
  <1>5. CASE page_fault_handler
    BY <1>5 DEF page_fault_handler, VmInv
  <1>6. CASE /\ ~dir[d][2] /\ got # <<>> /\ Took(got)
             /\ dir' = [dir EXCEPT ![d] = <<got[1], TRUE>>]
             /\ table' = SetEntry(AddTable(got[1], NewTable), p, <<frame, TRUE>>)
             /\ stale' = Stored(p, {frame})
             /\ exposed' = exposed \cup {f \in {got[1]} : \E s \in stale : s[2] = f}
             /\ UNCHANGED <<kpage_dir, vm, loop>>
    <2>1. Fresh(got) /\ Len(got) <= 1
      BY NothingFresh, ObtainFresh
    <2> HIDE DEF got
    <2>2. got \in Seq(Nat) /\ Len(got) = 1 /\ DOMAIN got = {1} /\ got[1] \in Scanned \ map
      <3>1. got \in Seq(Nat) /\ Len(got) \in Nat /\ Len(got) # 0
        BY <1>6, <2>1 DEF Fresh
      <3>2. Len(got) = 1 /\ DOMAIN got = 1 .. Len(got) /\ 1 .. 1 = {1}
        <4>1. Len(got) = 1
          <5>1. \A n \in Nat : n # 0 /\ n <= 1 => n = 1
            OBVIOUS
          <5> QED BY <2>1, <3>1, <5>1, Zenon
        <4>2. DOMAIN got = 1 .. Len(got)
          BY <3>1
        <4>3. 1 .. 1 = {1}
          OBVIOUS
        <4> QED BY <4>1, <4>2, <4>3
      <3>3. DOMAIN got = {1} /\ 1 \in 1 .. Len(got)
        BY <3>2
      <3> QED BY <2>1, <3>1, <3>2, <3>3 DEF Fresh
    <2> DEFINE t == got[1]
    <2>3. /\ t \in Nat /\ t \notin map /\ t # 0 /\ (\E r \in Available : t \in Blocks(r))
          /\ \A g \in held : g[1] # t
      BY <1>1, <2>2, FreeIsNew
    <2>4. t \notin DOMAIN table /\ t # kpage_dir
      BY <1>1, <2>3 DEF Private, Tables
    <2>5. PmmInv' /\ BackedInv' /\ map' = map \cup {t} /\ held' = held /\ todo' = todo
      <3>1. PmmInv' /\ BackedInv' /\ map' = map \cup {got[i] : i \in DOMAIN got} /\ held' = held /\ todo' = todo
        BY <1>1, <1>6, TookInv
      <3> QED BY <2>2, <3>1
    <2>6. vm' = "paging" /\ kpage_dir' = kpage_dir /\ loop' = loop
      BY <1>1, <1>6
    <2> HIDE DEF t
    <2>7. dir' = [dir EXCEPT ![d] = <<t, TRUE>>] /\ table' = SetEntry(AddTable(t, NewTable), p, <<frame, TRUE>>)
          /\ ~dir[d][2] /\ exposed' = exposed \cup {f \in {t} : \E s \in stale : s[2] = f}
      BY <1>6 DEF t
    <2>8. /\ Shape' /\ DOMAIN table' = DOMAIN table \cup {t} /\ Translate(p)' = {frame}
          /\ \A q \in AllPages : q # p => Translate(q)' = Translate(q)
      BY <1>1, <1>2, <2>3, <2>4, <2>6, <2>7, TableAdded
    <2>9. Mapped' /\ Kernel' /\ Looping'
      BY <1>1, <2>5, <2>6, <2>8, Remapped
    <2>10. Private'
      <3>1. Tables' = Tables \cup {t}
        BY <2>6, <2>8 DEF Tables
      <3> QED BY <1>1, <2>3, <2>4, <2>5, <2>6, <2>8, <3>1 DEF Private
    <2>11. Cached'
      <3>1. Tables' = Tables \cup {t}
        BY <2>6, <2>8 DEF Tables
      <3>2. Translate(p) = {}
        BY <1>1, <2>7, TranslateIs
      <3>3. exposed \subseteq exposed' /\ \A u \in {t} : (\E s \in stale : s[2] = u) => u \in exposed'
        BY <2>7
      <3>4. stale' = Stored(p, {frame}) /\ Translate(p) \cap {t} = {}
        BY <1>6, <3>2
      <3> QED BY <1>1, <3>1, <3>3, <3>4, CachedStep
    <2> QED BY <1>1, <2>5, <2>6, <2>8, <2>9, <2>10, <2>11 DEF VmInv, OnLoader
  <1> QED BY <1>3, <1>4, <1>5, <1>6 DEF vmm_map_page

\* vmm_free_page: no other page led to the block.
LEMMA FreeStep ==
  ASSUME VmInv, NEW p \in Pages, Freeable(p), vmm_free_page(p), loop = <<>>
  PROVE  VmInv' /\ \A q \in AllPages : q # p => Translate(q)' = Translate(q)
  <1>1. PICK f \in Translate(p) :
             /\ <<f, 1>> \in held /\ pmm_free_blocks(<<f, 1>>)
             /\ dir' = dir /\ table' = SetEntry(table, p, <<f, FALSE>>)
    <2>1. PICK f \in Translate(p) : <<f, 1>> \in held
      BY DEF Freeable
    <2>2. vm = "paging" /\ PmmInv
      BY DEF VmInv, vmm_free_page
    <2>3. f = table[dir[PAGE_DIRECTORY_INDEX(p)][1]][PAGE_TABLE_INDEX(p)][1]
      BY <2>1, <2>2, TranslateIs
    <2>4. <<f, 1>>[1] = f /\ f # 0
      BY <2>1, <2>2 DEF PmmInv, HeldInv
    <2> QED BY <2>1, <2>3, <2>4 DEF vmm_free_page
  <1>2. /\ vm = "paging" /\ PmmInv /\ BackedInv /\ todo = {} /\ Shape /\ Private /\ Mapped /\ Kernel
        /\ p \in AllPages /\ kpage_dir' = kpage_dir /\ vm' = vm /\ loop' = loop
    BY VmmAssumption DEF VmInv, vmm_free_page
  <1>3. <<f, 1>>[1] = f /\ <<f, 1>>[2] = 1
    OBVIOUS
  <1>4. f \in Nat /\ f # 0
    BY <1>1, <1>2, <1>3 DEF PmmInv, HeldInv
  <1>5. map' = map \ {f} /\ held' = held \ {<<f, 1>>} /\ todo' = todo
    <2>1. f .. f + 1 - 1 = {f}
      BY <1>4, OneBit
    <2> QED BY <1>1, <1>3, <2>1 DEF pmm_free_blocks, mmap_unset
  <1>6. PmmInv' /\ BackedInv'
    BY <1>1, <1>2, FreeInv, BackedFree
  <1>7. dir[PAGE_DIRECTORY_INDEX(p)][2]
    BY <1>1, <1>2, TranslateIs
  <1>8. /\ Shape' /\ DOMAIN table' = DOMAIN table /\ Translate(p)' = {}
        /\ \A q \in AllPages : q # p => Translate(q)' = Translate(q)
    <2>1. <<f, FALSE>> \in Nat \X BOOLEAN /\ ~<<f, FALSE>>[2]
      BY <1>4
    <2> QED BY <1>1, <1>2, <1>7, <2>1, EntryWritten
  <1>9. Private'
    <2>1. Tables' = Tables /\ f \notin Tables
      BY <1>1, <1>2, <1>3, <1>8 DEF Tables, Private
    <2> QED BY <1>2, <1>5, <1>8, <2>1 DEF Private
  <1>10. Mapped'
    <2>1. \A q \in Pages : q # p => Translate(q)' = Translate(q)
      BY <1>8, VmmAssumption
    <2>2. ASSUME NEW q \in Pages, NEW h \in Translate(q)' PROVE q # p /\ h \in Translate(q) /\ Mappable(h)'
      <3>1. q # p /\ h \in Translate(q)
        BY <1>8, <2>1
      <3>2. h # f
        BY <1>1, <1>2, <3>1 DEF Mapped
      <3>3. Mappable(h)
        BY <1>2, <3>1 DEF Mapped
      <3> QED BY <1>5, <3>1, <3>2, <3>3 DEF Mappable
    <2>3. \A q, u \in Pages : \A h \in Translate(q)' \cap Translate(u)' : <<h, 1>> \in held' => q = u
      BY <1>2, <1>5, <2>2 DEF Mapped
    <2> QED BY <2>2, <2>3 DEF Mapped
  <1>11. Kernel'
    <2>1. \A i \in Indices : i \in AllPages /\ i # p /\ KernelBase + i \in AllPages /\ KernelBase + i # p
      BY KernelPages
    <2> QED BY <1>2, <1>8, <2>1 DEF Kernel
  <1>12. Looping'
    BY <1>2 DEF Looping
  <1>13. Cached'
    <2>1. Tables' = Tables \cup {} /\ stale' = Stored(p, {}) /\ exposed' = exposed
      BY <1>2, <1>8 DEF Tables, vmm_free_page
    <2> QED BY <1>2, <2>1, CachedStep
  <1> QED BY <1>2, <1>5, <1>6, <1>8, <1>9, <1>10, <1>11, <1>12, <1>13 DEF VmInv, OnLoader

\* init_paging, which leaves the loader's tables for its own.
LEMMA PagingStep ==
  ASSUME VmInv, init_paging, loop = <<>>
  PROVE  VmInv'
  <1> DEFINE got == Obtain(Obtain(Obtain(<<>>)))
  <1>1. vm = "boot" /\ PmmInv /\ BackedInv /\ todo = {} /\ Took(got)
    BY DEF init_paging, VmInv, Running
  <1>2. Fresh(got)
    <2>1. Fresh(Obtain(<<>>))
      BY NothingFresh, ObtainFresh
    <2>2. Fresh(Obtain(Obtain(<<>>)))
      BY <2>1, ObtainFresh
    <2> QED BY <2>2, ObtainFresh
  <1> HIDE DEF got
  <1>3. CASE vm' = "page fault"
    BY <1>3 DEF VmInv
  <1>5. CASE vm' = "no directory" /\ UNCHANGED <<loop, stale, kpage_dir>>
    <2>1. OnLoader /\ PmmInv' /\ BackedInv'
      BY <1>1, TookInv DEF OnLoader
    <2> QED BY <1>1, <1>5, <2>1 DEF VmInv
  <1>4. CASE /\ Len(got) = 3 /\ table' = [f \in {got[1], got[2]} |-> FirstFrames]
             /\ dir' = [NoEntries EXCEPT ![0] = <<got[1], TRUE>>, ![KernelIndex] = <<got[2], TRUE>>]
             /\ kpage_dir' = got[3] /\ vm' = "paging" /\ stale' = {} /\ UNCHANGED loop
    <2> DEFINE a == got[1]  k == got[2]  c == got[3]  V == Nat \X BOOLEAN
    <2>1. 1 \in 1 .. Len(got) /\ 2 \in 1 .. Len(got) /\ 3 \in 1 .. Len(got) /\ DOMAIN got = {1, 2, 3}
      <3>1. DOMAIN got = 1 .. 3
        BY <1>2, <1>4 DEF Fresh
      <3>2. 1 .. 3 = {1, 2, 3}
        OBVIOUS
      <3> QED BY <1>4, <3>1, <3>2
    <2>2. {a, k, c} \subseteq Scanned \ map /\ a # k /\ a # c /\ k # c
      BY <1>2, <2>1 DEF Fresh
    <2>3. /\ PmmInv' /\ BackedInv' /\ map' = map \cup {a, k, c} /\ held' = held /\ todo' = todo
      <3>1. /\ PmmInv' /\ BackedInv' /\ map' = map \cup {got[i] : i \in DOMAIN got}
            /\ held' = held /\ todo' = todo
        BY <1>1, TookInv
      <3>2. {got[i] : i \in DOMAIN got} = {a, k, c}
        BY <2>1
      <3> QED BY <3>1, <3>2
    <2>4. \A f \in {a, k, c} : /\ f \in Nat /\ f # 0 /\ (\E r \in Available : f \in Blocks(r))
                              /\ \A g \in held : g[1] # f
      BY <1>1, <2>2, FreeIsNew
    <2>5. table' = [f \in {a, k} |-> FirstFrames] /\ kpage_dir' = c /\ vm' = "paging" /\ loop' = loop
          /\ dir' = [NoEntries EXCEPT ![0] = <<a, TRUE>>, ![KernelIndex] = <<k, TRUE>>]
      BY <1>4
    <2> HIDE DEF a, k, c
    <2>6. /\ 0 \in Indices /\ KernelIndex \in Indices /\ KernelIndex # 0
          /\ NoEntries \in [Indices -> V] /\ (\A d \in Indices : ~NoEntries[d][2])
          /\ FirstFrames \in [Indices -> V] /\ (\A i \in Indices : FirstFrames[i][1] = i /\ FirstFrames[i][2])
      <3>1. 0 \in Indices /\ KernelIndex \in Indices /\ KernelIndex # 0
        BY KernelPages
      <3>2. \A i \in Indices : i \in Nat
        BY DEF Indices
      <3>3. NoEntries \in [Indices -> V] /\ \A d \in Indices : ~NoEntries[d][2]
        BY DEF NoEntries, Indices, Zero
      <3>4. FirstFrames \in [Indices -> V]
        BY <3>2 DEF FirstFrames, Indices
      <3>5. \A i \in Indices : FirstFrames[i] = <<i, TRUE>>
        BY DEF FirstFrames, Indices
      <3>6. \A i \in Indices : FirstFrames[i][1] = i /\ FirstFrames[i][2]
        <4> SUFFICES ASSUME NEW i \in Indices PROVE FirstFrames[i][1] = i /\ FirstFrames[i][2]
          OBVIOUS
        <4>1. FirstFrames[i] = <<i, TRUE>>
          BY <3>5
        <4>2. <<i, TRUE>>[1] = i /\ <<i, TRUE>>[2]
          OBVIOUS
        <4> QED BY <4>1, <4>2
      <3> QED BY <3>1, <3>3, <3>4, <3>6
    <2>7. /\ dir' \in [Indices -> V] /\ dir'[0][1] = a /\ dir'[0][2] /\ dir'[KernelIndex][1] = k
          /\ dir'[KernelIndex][2] /\ \A d \in Indices : d # 0 /\ d # KernelIndex => ~dir'[d][2]
      <3>1. <<a, TRUE>> \in V /\ <<k, TRUE>> \in V
        BY <2>4
      <3>2. /\ dir' \in [Indices -> V] /\ dir'[0] = <<a, TRUE>> /\ dir'[KernelIndex] = <<k, TRUE>>
            /\ \A d \in Indices : d # 0 /\ d # KernelIndex => dir'[d] = NoEntries[d]
        <4> HIDE DEF V
        <4> QED BY <2>5, <2>6, <3>1
      <3> QED BY <2>6, <3>2
    <2>8. /\ DOMAIN table' = {a, k} /\ table' \in [{a, k} -> [Indices -> V]]
          /\ table'[a] = FirstFrames /\ table'[k] = FirstFrames
      <3> HIDE DEF V
      <3> QED BY <2>5, <2>6
    <2>9. Shape'
      <3>1. \A d \in Indices : dir'[d][2] => d = 0 \/ d = KernelIndex
        BY <2>7
      <3>2. \A d \in Indices : dir'[d][2] => dir'[d][1] \in DOMAIN table'
        BY <2>7, <2>8, <3>1
      <3>3. \A d, e \in Indices : dir'[d][2] /\ dir'[e][2] /\ dir'[d][1] = dir'[e][1] => d = e
        BY <2>2, <2>7, <3>1
      <3>4. \A t \in DOMAIN table' : \E d \in Indices : dir'[d][2] /\ dir'[d][1] = t
        BY <2>6, <2>7, <2>8
      <3> QED BY <2>7, <2>8, <3>2, <3>3, <3>4 DEF Shape
    <2>10. Private'
      <3>1. Tables' = {a, k, c}
        BY <2>5, <2>8 DEF Tables
      <3> QED BY <2>2, <2>3, <2>4, <2>5, <2>8, <3>1 DEF Private
    <2>11. \A p \in Pages : Translate(p)' = {}
      <3> SUFFICES ASSUME NEW p \in Pages PROVE Translate(p)' = {}
        OBVIOUS
      <3>1. p \in AllPages /\ PAGE_DIRECTORY_INDEX(p) # 0 /\ PAGE_DIRECTORY_INDEX(p) # KernelIndex
        BY VmmAssumption DEF KernelIndex
      <3>2. ~dir'[PAGE_DIRECTORY_INDEX(p)][2]
        BY <2>7, <3>1, PageParts
      <3> QED BY <2>5, <3>2, TranslateNext
    <2>12. Mapped'
      BY <2>11 DEF Mapped
    <2>13. Kernel'
      <3> SUFFICES ASSUME NEW i \in Indices
                   PROVE  Translate(i)' = {i} /\ Translate(KernelBase + i)' = {i}
        BY DEF Kernel
      <3>1. /\ PAGE_DIRECTORY_INDEX(i) = 0 /\ PAGE_TABLE_INDEX(i) = i
            /\ PAGE_DIRECTORY_INDEX(KernelBase + i) = KernelIndex /\ PAGE_TABLE_INDEX(KernelBase + i) = i
        BY KernelPages
      <3>2. table'[a][i][1] = i /\ table'[a][i][2] /\ table'[k][i][1] = i /\ table'[k][i][2]
        BY <2>6, <2>8
      <3> HIDE DEF V
      <3>3. Translate(i)' = {i}
        <4>1. Translate(i)' = IF dir'[0][2] /\ table'[dir'[0][1]][i][2] THEN {table'[dir'[0][1]][i][1]} ELSE {}
          BY <2>5, <3>1, TranslateNext
        <4> QED BY <2>7, <3>2, <4>1
      <3>4. Translate(KernelBase + i)' = {i}
        <4>1. Translate(KernelBase + i)' =
                IF dir'[KernelIndex][2] /\ table'[dir'[KernelIndex][1]][i][2]
                THEN {table'[dir'[KernelIndex][1]][i][1]} ELSE {}
          BY <2>5, <3>1, TranslateNext
        <4> QED BY <2>7, <3>2, <4>1
      <3> QED BY <3>3, <3>4
    <2>14. Looping'
      BY <2>5 DEF Looping
    <2>15. Cached'
      BY <1>4 DEF Cached
    <2> QED BY <1>1, <2>3, <2>5, <2>9, <2>10, <2>12, <2>13, <2>14, <2>15 DEF VmInv, OnLoader
  <1> QED BY <1>3, <1>4, <1>5 DEF init_paging, page_fault_handler, got, KernelIndex

\* A step that maps or frees a page does so for one page of a caller.
OneRemapped == \E p \in Pages : \A q \in AllPages : q # p => Translate(q)' = Translate(q)

\* Every step keeps the invariant, and changes the translation of one page at most.
LEMMA VmStep ==
  ASSUME VmInv, [VmNext]_allvars
  PROVE  VmInv' /\ (vm = "paging" /\ vm' = "paging" =>
                     (\A q \in AllPages : Translate(q)' = Translate(q)) \/ OneRemapped)
  <1> DEFINE Same == \A q \in AllPages : Translate(q)' = Translate(q)
  <1>1. UNCHANGED <<table, dir, vm>> => Same
    BY DEF Translate, OnLoader, PAGE_DIRECTORY_INDEX, PAGE_TABLE_INDEX
  <1> HIDE DEF Same
  <1>2. CASE /\ \/ init_pmm
                \/ \E r \in Available : pmm_init_region(r)
                \/ \E r \in Deinits : pmm_deinit_region(r)
             /\ UNCHANGED vmvars
    BY <1>1, <1>2, BootStep DEF vmvars, Same
  <1>3. CASE vm = "bare" /\ UNCHANGED vmvars
    BY <1>3 DEF VmInv, vmvars
  <1>4. CASE vm \in {"boot", "paging"} /\ loop = <<>> /\ pmm_alloc_block /\ UNCHANGED vmvars
    <2>1. Running /\ UNCHANGED <<table, dir, kpage_dir, vm, stale, exposed>> /\ loop' = <<>>
      BY <1>4 DEF pmm_alloc_block, vmvars
    <2>2. CASE Refuse
      <3>1. vm \in {"boot", "paging"} /\ loop = <<>> /\
            (loop' = <<>> \/ (vm = "paging" /\ \E p \in Pages : loop' = <<0, p>>))
        BY <1>4, <2>1
      <3>2. VmInv'
        BY <2>1, <2>2, <3>1, RefuseStep
      <3> QED BY <1>1, <2>1, <3>2 DEF Same
    <2>3. ASSUME NEW f \in mmap_first_free, Grant(f, 1) PROVE VmInv'
      <3>1. vm \in {"boot", "paging"} /\ loop = <<>> /\
            (loop' = <<>> \/ (vm = "paging" /\ \E p \in Pages : loop' = <<f, p>>))
        BY <1>4, <2>1
      <3> QED BY <2>1, <2>3, <3>1, GrantStep
    <2>4. Same
      BY <1>1, <2>1
    <2>5. Refuse \/ \E f \in mmap_first_free : Grant(f, 1)
      BY <1>4 DEF pmm_alloc_block
    <2> QED BY <2>2, <2>3, <2>4, <2>5 DEF Same
  <1>5. CASE init_paging
    <2>1. vm = "boot"
      BY <1>5 DEF init_paging
    <2>2. loop = <<>>
      BY <2>1 DEF VmInv, OnLoader
    <2> QED BY <1>5, <2>1, <2>2, PagingStep
  <1>6. CASE loop # <<>> /\ vmm_map_page(loop[1], loop[2])
    <2>1. vm = "paging" /\ Looping /\ PmmInv
      BY <1>6 DEF vmm_map_page, VmInv
    <2>2. MayMap(loop[1], loop[2])
      <3>1. CASE loop[1] = 0
        <4>1. <<0, 1>>[1] = 0
          OBVIOUS
        <4>2. <<0, 1>> \notin held
          BY <2>1, <4>1 DEF PmmInv, HeldInv
        <4> QED BY <1>6, <2>1, <3>1, <4>2 DEF Looping, MayMap, Mappable
      <3>2. CASE loop[1] # 0
        BY <1>6, <2>1, <3>2 DEF Looping, MayMap, Mappable
      <3> QED BY <3>1, <3>2
    <2>3. VmInv' /\ (vm' = "paging" => \A q \in AllPages : q # loop[2] => Translate(q)' = Translate(q))
      BY <1>6, <2>2, MapStep
    <2>4. loop[2] \in Pages
      BY <1>6, <2>1 DEF Looping
    <2> QED BY <2>3, <2>4 DEF OneRemapped
  <1>7. ASSUME NEW p \in Pages, loop = <<>>, Freeable(p), vmm_free_page(p)
        PROVE  VmInv' /\ OneRemapped
    BY <1>7, FreeStep DEF OneRemapped
  <1>8. ASSUME NEW p \in Pages, loop = <<>>, vmm_alloc_page(p)
        PROVE  VmInv' /\ Same
    <2>1. /\ vm = "paging" /\ Running /\ pmm_alloc_blocks(1, TRUE) /\ loop' = <<ret', p>>
          /\ UNCHANGED <<table, dir, kpage_dir, vm, stale, exposed>>
      BY <1>8 DEF vmm_alloc_page
    <2>2. CASE Refuse
      <3>1. loop' = <<0, p>>
        BY <2>1, <2>2 DEF Refuse
      <3> QED BY <1>1, <1>8, <2>1, <2>2, <3>1, RefuseStep
    <2>3. ASSUME NEW f \in mmap_first_free, Grant(f, 1) PROVE VmInv'
      <3>1. loop' = <<f, p>>
        BY <2>1, <2>3 DEF Grant
      <3> QED BY <1>8, <2>1, <2>3, <3>1, GrantStep
    <2> QED BY <1>1, <2>1, <2>2, <2>3 DEF pmm_alloc_blocks, mmap_first_free_s
  <1>9. ASSUME NEW p \in Pages, loop = <<>>,
               NEW f \in Mappings, vmm_map_page(f, p)
        PROVE  VmInv' /\ (vm' = "paging" => OneRemapped)
    <2>1. vm = "paging" /\ PmmInv /\ BackedInv
      BY <1>9 DEF vmm_map_page, VmInv
    <2>2. MayMap(f, p)
      <3>1. CASE f \in Devices
        <4>1. f \in Nat /\ \A r \in Available : f \notin Blocks(r)
          BY <3>1, VmmAssumption
        <4>2. <<f, 1>>[1] = f
          OBVIOUS
        <4>3. <<f, 1>> \notin held
          BY <2>1, <4>1, <4>2 DEF BackedInv
        <4> QED BY <3>1, <4>1, <4>3 DEF MayMap, Mappable
      <3>2. CASE f \notin Devices
        <4>1. PICK g \in held : g[1] = f /\ \A q \in Pages : Translate(q) # {g[1]}
          BY <1>9, <3>2 DEF Mappings
        <4>2. f \in Nat /\ <<f, 1>> \in held
          BY <2>1, <4>1 DEF PmmInv, HeldInv
        <4>3. \A q \in Pages : f \notin Translate(q)
          <5> SUFFICES ASSUME NEW q \in Pages, f \in Translate(q) PROVE FALSE
            OBVIOUS
          <5>1. Translate(q) = {f}
            BY <2>1, TranslateIs
          <5> QED BY <4>1, <5>1
        <4> QED BY <4>2, <4>3 DEF MayMap, Mappable
      <3> QED BY <3>1, <3>2
    <2>3. VmInv' /\ (vm' = "paging" => \A q \in AllPages : q # p => Translate(q)' = Translate(q))
      BY <1>9, <2>2, MapStep
    <2> QED BY <2>3 DEF OneRemapped
  <1>10. CASE UNCHANGED allvars
    <2>1. \A q : Translate(q)' = Translate(q)
      BY <1>10 DEF Translate, OnLoader, PAGE_DIRECTORY_INDEX, PAGE_TABLE_INDEX, allvars
    <2>2. PmmInv' = PmmInv /\ BackedInv' = BackedInv
      BY <1>10 DEF PmmInv, TodoInv, HeldInv, ZeroInv, DeinitInv, Booted, BackedInv, Scanned, allvars
    <2>3. (Shape /\ Private /\ Mapped /\ Kernel /\ Looping /\ Cached)
            => (Shape /\ Private /\ Mapped /\ Kernel /\ Looping /\ Cached)'
      BY <1>10, <2>1 DEF Shape, Private, Tables, Mapped, Mappable, Kernel, Looping, Cached, allvars
    <2>4. UNCHANGED <<vm, loop, todo, stale, kpage_dir>>
      BY <1>10 DEF allvars
    <2> QED BY <2>1, <2>2, <2>3, <2>4 DEF VmInv, OnLoader
  <1>11. CASE vmm_map_page_NoDirectory
    <2>1. PmmInv' = PmmInv /\ BackedInv' = BackedInv
      BY <1>11 DEF vmm_map_page_NoDirectory, PmmInv, TodoInv, HeldInv, ZeroInv, DeinitInv, Booted, BackedInv, Scanned
    <2>2. /\ vm = "no directory" /\ vm' \in {"no directory", "overwritten"}
          /\ UNCHANGED <<loop, stale, kpage_dir>>
      BY <1>11 DEF vmm_map_page_NoDirectory
    <2> QED BY <2>1, <2>2 DEF VmInv, OnLoader
  <1>12. CASE fb_set_buffer
    BY <1>12 DEF fb_set_buffer, page_fault_handler, VmInv
  <1>13. ASSUME NEW p \in Pages, vmm_flush_tlb_entry(p)
         PROVE  VmInv' /\ Same
    <2>1. /\ vm = "paging" /\ UNCHANGED <<map, max_blocks, used_blocks, stray, todo, held, ret, faulted>>
          /\ UNCHANGED <<table, dir, kpage_dir, vm, loop, exposed>> /\ stale' \subseteq stale
      BY <1>13 DEF vmm_flush_tlb_entry
    <2>2. \A q : Translate(q)' = Translate(q)
      BY <2>1 DEF Translate, OnLoader, PAGE_DIRECTORY_INDEX, PAGE_TABLE_INDEX
    <2>3. PmmInv' = PmmInv /\ BackedInv' = BackedInv
      BY <2>1 DEF PmmInv, TodoInv, HeldInv, ZeroInv, DeinitInv, Booted, BackedInv, Scanned
    <2>4. (Shape /\ Private /\ Mapped /\ Kernel /\ Looping /\ Cached)
            => (Shape /\ Private /\ Mapped /\ Kernel /\ Looping /\ Cached)'
      BY <2>1, <2>2 DEF Shape, Private, Tables, Mapped, Mappable, Kernel, Looping, Cached
    <2> QED BY <1>1, <2>1, <2>3, <2>4 DEF VmInv, OnLoader
  <1> QED BY <1>2, <1>3, <1>4, <1>5, <1>6, <1>7, <1>8, <1>9, <1>10, <1>11, <1>12, <1>13
         DEF VmNext, Same

-----------------------------------------------------------------------------
(* The theorems.                                                            *)

\* The directory, its tables, the bitmap and what callers hold and map agree in every
\* reachable state.
THEOREM VmInvariant == VmSpec => []VmInv
  <1>1. VmInit => VmInv
    <2> SUFFICES ASSUME VmInit, vm \in {"boot", "no directory", "paging"} PROVE VmInv
      BY DEF VmInv
    <2>1. vm = "boot" /\ Init /\ loop = <<>> /\ stale = {} /\ kpage_dir = 0
      BY DEF VmInit
    <2>2. PmmInv
      BY <2>1, InitInv
    <2>3. BackedInv
      BY <2>1 DEF Init, BackedInv, Booted
    <2> QED BY <2>1, <2>2, <2>3 DEF VmInv
  <1>2. VmInv /\ [VmNext]_allvars => VmInv'
    BY VmStep
  <1> QED BY <1>1, <1>2, PTL DEF VmSpec

\* As many directory entries are present as there are tables.
LEMMA TablesCounted ==
  ASSUME Shape
  PROVE  Cardinality({d \in DOMAIN dir : dir[d][2]}) = Cardinality(DOMAIN table)
  <1> DEFINE P == {d \in Indices : dir[d][2]}
             F == [d \in P |-> dir[d][1]]
  <1>1. DOMAIN dir = Indices
    BY DEF Shape
  <1>2. IsFiniteSet(P)
    <2>1. Entries - 1 \in Int /\ 0 \in Int
      BY VmmAssumption
    <2>2. IsFiniteSet(Indices)
      BY <2>1, FS_Interval DEF Indices
    <2>3. P \in SUBSET Indices
      OBVIOUS
    <2> HIDE DEF P
    <2> QED BY <2>2, <2>3, FS_Subset
  <1>3. F \in Bijection(P, DOMAIN table)
    <2>1. \A d \in P : F[d] \in DOMAIN table
      BY DEF Shape
    <2>2. \A d, e \in P : F[d] = F[e] => d = e
      BY DEF Shape
    <2>3. \A t \in DOMAIN table : \E d \in P : F[d] = t
      <3> SUFFICES ASSUME NEW t \in DOMAIN table PROVE \E d \in P : F[d] = t
        OBVIOUS
      <3>1. PICK d \in Indices : dir[d][2] /\ dir[d][1] = t
        BY DEF Shape
      <3> QED BY <3>1
    <2>4. F \in [P -> DOMAIN table]
      BY <2>1
    <2> HIDE DEF F, P
    <2> QED BY <2>2, <2>3, <2>4, Fun_IsBij
  <1> HIDE DEF F, P
  <1>4. ExistsBijection(P, DOMAIN table)
    BY <1>3 DEF ExistsBijection
  <1>5. Cardinality(DOMAIN table) = Cardinality(P)
    BY <1>2, <1>4, FS_Bijection
  <1> QED BY <1>1, <1>5 DEF P

\* No sequence of allocations, mappings and releases lets a caller hold a block that the
\* directory or a table of the kernel lives in, or reach one through a page, be it by the walk or
\* by a translation that was never flushed, unless the block was in the TLB when it became a
\* table (vmm.c:77-82, 146-202).
THEOREM TablesPrivateHolds == VmSpec => []TablesPrivate
  <1>1. VmInv => TablesPrivate
    <2> SUFFICES ASSUME VmInv, vm = "paging"
                 PROVE  /\ Tables \subseteq map /\ kpage_dir \notin DOMAIN table
                        /\ \A g \in held : Span(g) \cap Tables = {}
                        /\ \A p \in Pages : Uses(p) \cap Tables \subseteq exposed
                        /\ {dir[d][1] : d \in {i \in DOMAIN dir : dir[i][2]}} = DOMAIN table
                        /\ Cardinality({d \in DOMAIN dir : dir[d][2]}) = Cardinality(DOMAIN table)
      BY DEF TablesPrivate
    <2>1. Private /\ Mapped /\ Shape /\ PmmInv /\ Cached
      BY DEF VmInv
    <2>2. \A g \in held : Span(g) \cap Tables = {}
      <3> SUFFICES ASSUME NEW g \in held PROVE Span(g) \cap Tables = {}
        OBVIOUS
      <3>1. Span(g) = {g[1]}
        BY <2>1, OneBit DEF PmmInv, HeldInv, Span
      <3>2. g[1] \notin Tables
        BY <2>1 DEF Private
      <3> QED BY <3>1, <3>2
    <2>3. \A p \in Pages : Translate(p) \cap Tables = {}
      <3> SUFFICES ASSUME NEW p \in Pages, NEW f \in Translate(p) \cap Tables PROVE FALSE
        OBVIOUS
      <3>1. f # 0 /\ (\E r \in Available : f \in Blocks(r)) /\ \A g \in held : g[1] # f
        BY <2>1 DEF Private
      <3>2. f \notin Devices
        BY <3>1, VmmAssumption
      <3>3. <<f, 1>>[1] = f
        OBVIOUS
      <3>4. Mappable(f)
        BY <2>1 DEF Mapped
      <3> QED BY <3>1, <3>2, <3>3, <3>4 DEF Mappable
    <2>4. {dir[d][1] : d \in {i \in DOMAIN dir : dir[i][2]}} = DOMAIN table
      <3> DEFINE P == {i \in DOMAIN dir : dir[i][2]}
      <3>1. DOMAIN dir = Indices
        BY <2>1 DEF Shape
      <3>2. \A d \in P : dir[d][1] \in DOMAIN table
        BY <2>1, <3>1 DEF Shape
      <3>3. \A t \in DOMAIN table : \E d \in P : dir[d][1] = t
        BY <2>1, <3>1 DEF Shape
      <3> HIDE DEF P
      <3>4. {dir[d][1] : d \in P} = DOMAIN table
        BY <3>2, <3>3
      <3> QED BY <3>4 DEF P
    <2>5. \A p \in Pages : Uses(p) \cap Tables \subseteq exposed
      BY <2>1, <2>3 DEF Uses, Cached
    <2> QED BY <2>1, <2>2, <2>4, <2>5, TablesCounted DEF Private
  <1> QED BY <1>1, VmInvariant, PTL

\* Accesses to the identity map, through which the tables are written, and to the kernel's image
\* go where they should from the loader's tables on, whatever the TLB kept; virt2phys agrees, and
\* knows every page that the tables translate (vmm.c:18-36, 147-202).
THEOREM KernelStaysMappedHolds == VmSpec => []KernelStaysMapped
  <1>1. VmInv => KernelStaysMapped
    <2> SUFFICES ASSUME VmInv, vm \in {"boot", "no directory", "paging"}
                 PROVE  /\ \A i \in Indices : /\ Uses(i) = {i} /\ Uses(KernelBase + i) = {i}
                                             /\ virt2phys(KernelBase + i) = {i}
                        /\ \A p \in AllPages : vm = "paging" => Translate(p) \subseteq virt2phys(p)
      BY DEF KernelStaysMapped, Indices
    <2>1. Kernel
      BY BootKernel DEF VmInv, OnLoader
    <2>2. ASSUME NEW p \in AllPages, vm = "paging" PROVE Translate(p) \subseteq virt2phys(p)
      <3> DEFINE e == dir[PAGE_DIRECTORY_INDEX(p)]  t == table[e[1]][PAGE_TABLE_INDEX(p)]
      <3>1. kpage_dir # 0
        BY <2>2 DEF VmInv, Private, Tables
      <3>2. Translate(p) = IF e[2] /\ t[2] THEN {t[1]} ELSE {}
        BY <2>2, TranslateIs
      <3>3. ~Zero[2]
        BY DEF Zero
      <3>4. virt2phys(p) = IF e = Zero THEN {} ELSE {f \in {t[1]} : t # Zero}
        BY <3>1 DEF virt2phys
      <3>5. e[2] /\ t[2] => e # Zero /\ t # Zero
        BY <3>3
      <3> HIDE DEF e, t
      <3> QED BY <3>2, <3>4, <3>5
    <2>3. ASSUME NEW p, p \notin Pages PROVE Uses(p) = Translate(p)
      <3>1. \A s \in stale : s[1] # p
        BY <2>3 DEF VmInv, OnLoader, Cached
      <3> QED BY <3>1 DEF Uses
    <2>4. ASSUME NEW i \in Indices PROVE virt2phys(KernelBase + i) = {i}
      <3>1. CASE OnLoader
        <4>1. kpage_dir = 0
          BY <3>1 DEF VmInv
        <4> QED BY <4>1, NoDirectory
      <3>2. CASE vm = "paging"
        <4> DEFINE e == dir[PAGE_DIRECTORY_INDEX(KernelBase + i)]
                   t == table[e[1]][PAGE_TABLE_INDEX(KernelBase + i)]
        <4>1. Translate(KernelBase + i) = IF e[2] /\ t[2] THEN {t[1]} ELSE {}
          BY <3>2, TranslateIs
        <4>2. Translate(KernelBase + i) = {i}
          BY <2>1 DEF Kernel
        <4>3. kpage_dir # 0
          BY <3>2 DEF VmInv, Private, Tables
        <4>4. virt2phys(KernelBase + i) = IF e = Zero THEN {} ELSE {f \in {t[1]} : t # Zero}
          BY <4>3 DEF virt2phys
        <4>5. ~Zero[2]
          BY DEF Zero
        <4> HIDE DEF e, t
        <4>6. e[2] /\ t[2] /\ t[1] = i
          BY <4>1, <4>2
        <4> QED BY <4>4, <4>5, <4>6
      <3> QED BY <3>1, <3>2 DEF OnLoader
    <2>5. \A i \in Indices : i \notin Pages /\ KernelBase + i \notin Pages
      BY KernelPages
    <2> QED BY <2>1, <2>2, <2>3, <2>4, <2>5 DEF Kernel
  <1> QED BY <1>1, VmInvariant, PTL

\* Mapping or freeing a page changes the translation of that page only, also when a new table
\* is needed for it: a new table is cleared before it is used (vmm.c:146-159).
THEOREM OnePageAtATimeHolds == VmSpec => OnePageAtATime
  <1> DEFINE changed == {p \in AllPages : Translate(p)' # Translate(p)}
  <1>1. VmInv /\ [VmNext]_allvars =>
          [vm = "paging" /\ vm' = "paging" => changed \subseteq Pages /\ Cardinality(changed) <= 1]_allvars
    <2> SUFFICES ASSUME VmInv, [VmNext]_allvars, vm = "paging", vm' = "paging"
                 PROVE  changed \subseteq Pages /\ Cardinality(changed) <= 1
      OBVIOUS
    <2>1. (\A q \in AllPages : Translate(q)' = Translate(q)) \/ OneRemapped
      BY VmStep
    <2>2. changed = {} \/ \E p \in Pages : changed = {p}
      <3>1. CASE \A q \in AllPages : Translate(q)' = Translate(q)
        BY <3>1
      <3>2. CASE OneRemapped
        <4>1. PICK p \in Pages : \A q \in AllPages : q # p => Translate(q)' = Translate(q)
          BY <3>2 DEF OneRemapped
        <4>2. changed \subseteq {p}
          BY <4>1
        <4> HIDE DEF changed
        <4> QED BY <4>2
      <3> QED BY <2>1, <3>1, <3>2
    <2> HIDE DEF changed
    <2>3. CASE changed = {}
      BY <2>3, FS_EmptySet
    <2>4. CASE \E p \in Pages : changed = {p}
      <3>1. PICK p \in Pages : changed = {p}
        BY <2>4
      <3>2. Cardinality({p}) = 1
        BY FS_Singleton
      <3> QED BY <3>1, <3>2
    <2> QED BY <2>2, <2>3, <2>4
  <1> QED BY <1>1, VmInvariant, PTL DEF VmSpec, OnePageAtATime
=============================================================================
