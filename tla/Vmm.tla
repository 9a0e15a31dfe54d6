--------------------------------- MODULE Vmm --------------------------------
(***************************************************************************)
(* Paging, mm/vmm.c, on top of Pmm: the page directory and tables live in  *)
(* blocks of Pmm and are read and written through their physical addresses,*)
(* that is through the identity map of the first Entries pages.  Pages and *)
(* frames are numbered; an entry is <<frame, present>>, attributes are left*)
(* out.  EnablePaging of the loader has mapped the first Entries frames at *)
(* page 0 and at KernelBase; interrupts are off.                           *)
(*                                                                         *)
(* Neither vmm_map_page nor vmm_free_page flushes the TLB, so a page may   *)
(* keep the frame it led to before: `stale` holds every such pair, as if   *)
(* the processor had cached every page just before its entry changed.  An  *)
(* absent entry is never cached, and a directory entry that is present is  *)
(* never changed.                                                          *)
(***************************************************************************)
EXTENDS Pmm, Sequences

CONSTANTS
  Entries,        \* entries of a table or directory: 1024
  KernelBase,     \* page of 0xC0000000
  Pages,          \* pages that callers map
  Devices         \* frames outside the available memory, such as VGA_BUFFER_PADDR

VARIABLES
  table,          \* the contents of the blocks in use as tables, by frame
  dir,            \* kpage_dir's entries
  kpage_dir,      \* its frame; 0 is NULL
  vm,             \* "bare" (no paging at all), "boot", "no directory", "paging", or why the kernel stopped
  loop,           \* <<frame, page>>: vmm_alloc_page is in its loop
  stale,          \* <<page, frame>>: what the tables said before and the TLB may still say
  exposed         \* tables whose block the TLB led to when it was taken (history)

vmvars == <<table, dir, kpage_dir, vm, loop, stale, exposed>>
allvars == <<map, max_blocks, used_blocks, stray, todo, held, ret, faulted,
             table, dir, kpage_dir, vm, loop, stale, exposed>>

Zero == <<0, FALSE>>
PAGE_DIRECTORY_INDEX(p) == p \div Entries
PAGE_TABLE_INDEX(p) == p % Entries
AllPages == 0 .. Entries * Entries - 1

\* Callers map pages outside the two regions of the kernel: kmain maps 0xB0000000.
ASSUME VmmAssumption ==
  /\ Entries \in Nat \ {0} /\ KernelBase \in AllPages
  /\ PAGE_TABLE_INDEX(KernelBase) = 0 /\ PAGE_DIRECTORY_INDEX(KernelBase) # 0
  /\ Pages \subseteq AllPages
  /\ \A p \in Pages : PAGE_DIRECTORY_INDEX(p) \notin {0, PAGE_DIRECTORY_INDEX(KernelBase)}
  /\ Devices \subseteq Nat /\ \A f \in Devices, r \in Available : f \notin Blocks(r)

NoEntries == [i \in 0 .. Entries - 1 |-> Zero]

\* Mutant: 256 entries, as the note in init_paging warns.
FirstFrames_Short == [i \in 0 .. Entries - 1 |-> IF i < Entries \div 2 THEN <<i, TRUE>> ELSE Zero]

FirstFrames == [i \in 0 .. Entries - 1 |-> <<i, TRUE>>]

VmInit ==
  /\ Init
  /\ table = [f \in {} |-> f] /\ dir = NoEntries /\ kpage_dir = 0
  /\ vm \in {"boot", "bare"} /\ loop = <<>>
  /\ stale = {} /\ exposed = {}

\* The loader's tables are in force.
OnLoader == vm \in {"boot", "no directory"}

\* The walk of the tables for a page: the frame, none if it meets an absent entry.
Translate(p) ==
  IF OnLoader
  THEN IF PAGE_DIRECTORY_INDEX(p) \in {0, PAGE_DIRECTORY_INDEX(KernelBase)} THEN {PAGE_TABLE_INDEX(p)} ELSE {}
  ELSE LET e == dir[PAGE_DIRECTORY_INDEX(p)] IN
       IF ~e[2] THEN {} ELSE {f \in {table[e[1]][PAGE_TABLE_INDEX(p)][1]} : table[e[1]][PAGE_TABLE_INDEX(p)][2]}

\* Where an access to the page may go: the walk, or what the TLB kept of an earlier one.
Uses(p) == Translate(p) \cup {s[2] : s \in {t \in stale : t[1] = p}}

\* The stale pairs once the page leads to the frames of now (one or none).
Stored(p, now) == (stale \cup ({p} \X Translate(p))) \ ({p} \X now)

\* virt2phys tests the entries for zero, not for their present bit.
virt2phys(p) ==
  LET e == dir[PAGE_DIRECTORY_INDEX(p)] IN
  IF kpage_dir = 0 THEN {p - KernelBase}
  ELSE IF e = Zero THEN {} ELSE {f \in {table[e[1]][PAGE_TABLE_INDEX(p)][1]} : table[e[1]][PAGE_TABLE_INDEX(p)] # Zero}

\* invlpg; nothing in the kernel calls it.
vmm_flush_tlb_entry(p) ==
  /\ Running /\ vm = "paging"
  /\ stale' = {s \in stale : s[1] # p}
  /\ UNCHANGED <<map, max_blocks, used_blocks, stray, todo, held, ret, faulted>>
  /\ UNCHANGED <<table, dir, kpage_dir, vm, loop, exposed>>

\* A block is reached through its physical address.
Reach(frame) == Translate(frame) = {frame}

\* pmm_alloc_block, called when the blocks of got were just obtained: the next block, if any.
NextBlock(got) ==
  IF (max_blocks - used_blocks - Len(got)) % UintMod = 0 THEN {}
  ELSE First(Scanned \ (map \cup {got[i] : i \in DOMAIN got}))

\* One more block, unless they have run out.
Obtain(got) == IF NextBlock(got) = {} THEN got ELSE Append(got, CHOOSE f \in NextBlock(got) : TRUE)

\* Mutant: the blocks are not marked.
Took_NoMark(got) ==
  /\ used_blocks' = (used_blocks + Len(got)) % UintMod /\ ret' = None
  /\ UNCHANGED <<map, stray, held, max_blocks, todo, faulted>>

Took(got) ==
  LET S == {got[i] : i \in DOMAIN got} IN
  /\ mmap_set(S) /\ used_blocks' = (used_blocks + Cardinality(S)) % UintMod
  /\ held' = held /\ ret' = None /\ UNCHANGED <<max_blocks, todo, faulted>>

\* page_fault_handler reports and PANICs.
page_fault_handler == vm' = "page fault" /\ UNCHANGED <<table, dir, kpage_dir, loop, stale, exposed>>

\* The identity table, the kernel's table and the directory, each cleared as it is obtained;
\* without three blocks it returns early and leaves the loader's tables in place, and kpage_dir
\* NULL.  The store to cr3 empties the TLB.
init_paging ==
  LET got == Obtain(Obtain(Obtain(<<>>))) IN
  /\ Running /\ vm = "boot"
  /\ Took(got)
  /\ \/ (\E i \in DOMAIN got : ~Reach(got[i])) /\ page_fault_handler
     \/ /\ \A i \in DOMAIN got : Reach(got[i])
        /\ Len(got) < 3
        /\ vm' = "no directory" /\ UNCHANGED <<table, dir, kpage_dir, loop, stale, exposed>>
     \/ /\ \A i \in DOMAIN got : Reach(got[i])
        /\ Len(got) = 3
        /\ table' = [f \in {got[1], got[2]} |-> FirstFrames]
        /\ dir' = [NoEntries EXCEPT ![0] = <<got[1], TRUE>>, ![PAGE_DIRECTORY_INDEX(KernelBase)] = <<got[2], TRUE>>]
        /\ kpage_dir' = got[3] /\ vm' = "paging" /\ stale' = {} /\ UNCHANGED <<loop, exposed>>

\* kmain does not notice: it maps its pages with a NULL directory.  The entry is what low memory
\* holds: if it is absent, no block is left and the call returns; if it is present, a word is
\* overwritten wherever it points, and nothing more is said.
vmm_map_page_NoDirectory ==
  /\ Running /\ vm = "no directory" /\ NextBlock(<<>>) = {}
  /\ vm' \in {"no directory", "overwritten"}
  /\ UNCHANGED <<map, max_blocks, used_blocks, stray, todo, held, ret, faulted>>
  /\ UNCHANGED <<table, dir, kpage_dir, loop, stale, exposed>>

\* Then it prints to the page it meant to map, which the loader has not mapped.
fb_set_buffer ==
  /\ Running /\ vm = "no directory" /\ page_fault_handler
  /\ UNCHANGED <<map, max_blocks, used_blocks, stray, todo, held, ret, faulted>>

\* The tables, with one more.
AddTable(f, t) == [g \in DOMAIN table \cup {f} |-> IF g = f THEN t ELSE table[g]]

\* The entry of the page in its table, which exists.
SetEntry(t, p, e) == [t EXCEPT ![dir'[PAGE_DIRECTORY_INDEX(p)][1]][PAGE_TABLE_INDEX(p)] = e]

\* Mutant: a new table is not cleared and holds what the block held before.
NewTable_Dirty == FirstFrames
NewTable == NoEntries

\* A page whose directory entry is absent gets a new table first; without a block for it the
\* call returns silently, and a block beyond the identity map is a page fault.
vmm_map_page(frame, p) ==
  LET d == PAGE_DIRECTORY_INDEX(p)  got == Obtain(<<>>) IN
  /\ Running /\ vm = "paging"
  /\ \/ /\ dir[d][2]
        /\ dir' = dir /\ table' = SetEntry(table, p, <<frame, TRUE>>)
        /\ UNCHANGED <<map, max_blocks, used_blocks, stray, todo, held, ret, faulted, kpage_dir, vm, loop>>
        /\ stale' = Stored(p, {frame}) /\ UNCHANGED exposed
     \/ ~dir[d][2] /\ got = <<>> /\ UNCHANGED allvars
     \/ ~dir[d][2] /\ got # <<>> /\ ~Reach(got[1]) /\ Took(got) /\ page_fault_handler
     \/ /\ ~dir[d][2] /\ got # <<>> /\ Reach(got[1])
        /\ Took(got)
        /\ dir' = [dir EXCEPT ![d] = <<got[1], TRUE>>]
        /\ table' = SetEntry(AddTable(got[1], NewTable), p, <<frame, TRUE>>)
        /\ stale' = Stored(p, {frame})
        /\ exposed' = exposed \cup {f \in {got[1]} : \E s \in stale : s[2] = f}
        /\ UNCHANGED <<kpage_dir, vm, loop>>

\* A page is freed through its entry, whatever the entry says: its block goes back if there is
\* one, held or not; the present bit is cleared, the frame stays, and so does the translation.
vmm_free_page(p) ==
  LET d == dir[PAGE_DIRECTORY_INDEX(p)]  f == table[d[1]][PAGE_TABLE_INDEX(p)][1] IN
  /\ Running /\ vm = "paging"
  /\ d[2]
  /\ IF f # 0 THEN pmm_free_blocks(<<f, 1>>)
     ELSE UNCHANGED <<map, max_blocks, used_blocks, stray, todo, held, ret, faulted>>
  /\ dir' = dir /\ table' = SetEntry(table, p, <<f, FALSE>>)
  /\ stale' = Stored(p, {})
  /\ UNCHANGED <<kpage_dir, vm, loop, exposed>>

\* Blocks are asked for, then the first page is mapped: for ever, because the loop counts up its
\* own bound instead of i, and to frame 0 if there was no block.
vmm_alloc_page(p) ==
  /\ Running /\ vm = "paging"
  /\ pmm_alloc_blocks(1, TRUE)
  /\ loop' = <<ret', p>> /\ UNCHANGED <<table, dir, kpage_dir, vm, stale, exposed>>

\* What callers may free, which vmm_free_page does not test: a page that is present, of a block
\* that they hold.
Freeable(p) == \E f \in Translate(p) : <<f, 1>> \in held

\* What callers may map: devices, or blocks they hold and have not mapped.
Mappings == Devices \cup {g[1] : g \in {h \in held : \A q \in Pages : Translate(q) # {h[1]}}}

\* kmain's phase; callers that use the memory manager alone; callers that take single blocks,
\* before init_paging (which stands for smaller memories) and after it, and map, free and flush
\* pages.
VmNext ==
  \/ /\ \/ init_pmm
        \/ \E r \in Available : pmm_init_region(r)
        \/ \E r \in Deinits : pmm_deinit_region(r)
     /\ UNCHANGED vmvars
  \/ /\ vm \in {"bare", "boot", "paging"} /\ loop = <<>> /\ pmm_alloc_block /\ UNCHANGED vmvars
  \/ /\ vm = "bare"
     /\ \/ \E g \in held : pmm_free_blocks(g)
        \/ \E n \in Runs, clear \in BOOLEAN : pmm_alloc_blocks(n, clear) \/ pmm_alloc_blocks_Fault(n, clear)
     /\ UNCHANGED vmvars
  \/ init_paging
  \/ vmm_map_page_NoDirectory
  \/ fb_set_buffer
  \/ loop # <<>> /\ vmm_map_page(loop[1], loop[2])
  \/ \E p \in Pages :
       /\ loop = <<>>
       /\ \/ Freeable(p) /\ vmm_free_page(p)
          \/ vmm_alloc_page(p)
          \/ vmm_flush_tlb_entry(p)
          \/ \E f \in Mappings : vmm_map_page(f, p)

VmSpec == VmInit /\ [][VmNext]_allvars

-----------------------------------------------------------------------------
(* Properties.                                                              *)

Tables == DOMAIN table \cup {kpage_dir}

\* The blocks that hold the directory and the tables are marked, distinct from each other and
\* held by no caller, and no access through a caller's page reaches one, by the walk or by the
\* TLB: but for a table made of a block that the TLB still led to, which it goes on leading to,
\* since vmm_map_page and vmm_free_page do not flush (vmm.c:77-82, 147-159).
TablesPrivate ==
  vm = "paging" =>
    /\ Tables \subseteq map /\ kpage_dir \notin DOMAIN table
    /\ \A g \in held : Span(g) \cap Tables = {}
    /\ \A p \in Pages : Uses(p) \cap Tables \subseteq exposed
    /\ {dir[d][1] : d \in {i \in DOMAIN dir : dir[i][2]}} = DOMAIN table
    /\ Cardinality({d \in DOMAIN dir : dir[d][2]}) = Cardinality(DOMAIN table)

\* While the kernel runs, on the loader's tables (also when init_paging found no blocks) or on
\* its own, and whatever was mapped or freed and not flushed, accesses to its image and to the
\* identity map that the tables are reached through go where they should, and virt2phys, which
\* tests entries for zero only, agrees; it knows every page the tables translate.  For a page
\* of a caller it tells what the tables say, not what the TLB may still hold.
KernelStaysMapped ==
  vm \in {"boot", "no directory", "paging"} =>
    /\ \A i \in 0 .. Entries - 1 :
         Uses(i) = {i} /\ Uses(KernelBase + i) = {i} /\ virt2phys(KernelBase + i) = {i}
    /\ \A p \in AllPages : vm = "paging" => Translate(p) \subseteq virt2phys(p)

\* A step changes the walk of at most one page, and one that a caller names; a new table brings
\* no other page with it.
OnePageAtATime ==
  [][vm = "paging" /\ vm' = "paging" =>
       LET changed == {p \in AllPages : Translate(p)' # Translate(p)} IN
       changed \subseteq Pages /\ Cardinality(changed) <= 1]_allvars
=============================================================================
