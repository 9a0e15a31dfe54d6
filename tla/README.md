# A verification project for unos

unos is a small 32-bit x86 kernel in C: a multiboot entry, descriptor tables and
interrupts, physical and virtual memory, two heaps, a PIT timer, a preemptive round-robin
scheduler with system calls, a text console, and (compiled in, not started) keyboard, PCI,
RTL8139 and ethernet code. Beside the kernel the repository has stand-alone samples, of
which the largest are a B+ tree and an LC-3 virtual machine. This directory holds TLA+
models of all of these, TLC configurations that check them on small instances, and TLAPS
proofs of the memory management, the scheduler, the list, the timer and the drivers.

Run from this directory: `tlc -config <run>.cfg <module>` with the pairs listed in
`PROJECT.json`, and `tlapm <module>.tla` for the seven `*Proofs` modules
and `NatLemmas`.

## 1. Inventory

| Part | State | Operations | Talks to | What makes it correct |
|---|---|---|---|---|
| Scheduler (`scheduler/process.c`, `context_switch.s`) | `current_process`, `last_process`, `saved_context`, pids, pcbs, `process_list`, one stack page for all | `schedule`, `context_switch`, `create_process_from_routine`, `process_init` | timer callback, system calls, list, heap | each process resumes where it was interrupted; the list holds exactly the live processes; round robin; nobody starves |
| System calls (`syscall/`) | `syscall_table` | `syscall_dispatcher`, `_exit` | entered by `int 0x80`; calls scheduler | a valid number has a function; an exited process never runs |
| Interrupt entry (`interrupt.s`, `isr.c`, `pic.c`) | handler table, PIC in-service bit | `isr_handler`, `irq_handler`, `ack_irq` | calls every handler | acknowledged before a handler that does not return |
| Timer (`drivers/timer.c`) | `jiffies`, list of callbacks | `register_timer_callback`, `timer_handler`, `sleep` | PIT interrupt, calls `schedule` | each callback is called at its period, across the wrap of the counter |
| List (`lib/list.c`) | nodes, `head`, `tail`, `size` | insert, remove, pop, index, destroy | heap | a deque; no dangling pointer |
| Heap (`mm/malloc.c`) | headers in memory, `last_alloc`, `memory_used` | `malloc`, `free`, `init_mm` | everybody; not reentrant | payloads disjoint, inside the heap, headers intact |
| Physical memory (`mm/pmm.c`) | bitmap, block counts | `init_pmm`, `pmm_(de)init_region`, `pmm_alloc_block(s)`, `pmm_free_block(s)` | `kmain`, paging | a block has one owner, is real memory, is not the kernel |
| Paging (`mm/vmm.c`) | directory and tables | `vmm_map_page`, `vmm_alloc_page`, `vmm_free_page`, `init_paging` | pmm; identity map of 4 MB | a mapping points where it was put; tables are reachable; nothing stale stays in the TLB |
| Boundary-tag heap (`mm/kmalloc.c`, `dmm.c`) | tags, break | `mm_malloc`, `mm_free`, `coalesce` | unused by the kernel | tags consistent, blocks coalesced, a refused extension noticed |
| Console and printf (`framebuffer.c`, `string.c`) | cursor, cells | `fb_write_char`, `scroll`, `printf` | everybody | writes stay on the screen; conversions right |
| Keyboard (`keyboard.c`) | keys down, locks, prefix seen | `keyboard_cb` | controller, console | what is typed is echoed, in order and in the right case |
| PCI (`pci.c`) | the recursion's locals | `pci_get_device`, `pci_scan_*` | configuration registers | the scan ends and finds the device |
| RTL8139 and ethernet (`rtl8139.c`, `ethernet.c`) | `tx_cur`, `current_packet_ptr`, descriptors, ring | `rtl8139_handler`, `receive_packet`, `*_send_packet`, `ethernet_handle_packet` | card, heap | frames arrive in order, once, under their protocol |
| B+ tree sample (`bplus_tree.c`) | nodes, records | `insert`, `delete`, `find`, `find_range`, `print_*` | libc heap | a map; balanced, linked, nothing leaked |
| LC-3 sample (`lc3/vm.h`) | memory, registers | `vm_load_*`, `vm_run` | standard input and output | instructions do what the architecture says |
| Descriptor tables, boot, I/O ports | tables | start-up code | | entries packed as the processor reads them |

What is hard here: interrupts arrive between any two instructions of code that runs with
IF = 1, and in this kernel that is not only user code. The boot code runs so too, and
`user_process` calls `create_process_from_routine` (heap, list and scheduler state) as a
plain function. `schedule` never returns to the handler that called it. Lists, heap and
bitmap are long-lived pointer and bit structures in which a wrong step shows much later.
Counters are 32 bits wide. The full list, with lines, is `hazards` in `PROJECT.json`.

## 2. Modules and how they correspond to the code

**Scheduler.tla** (with `RoundRobin`, `SchedulerRefinement`, `SchedulerInv`,
`SchedulerProofs`, `MCScheduler`). One action per handler, because
handlers run with IF = 0; one action per access to shared state for
`create_process_from_routine` called directly, because there IF = 1 (`CreatePcb`,
`CreateCurrent`, `InsertKcalloc` ... `InsertSize`, `CreateSelf`). `Tick` is a whole timer
interrupt: stub, acknowledgement, `jiffies`, copy to `saved_context`, and `schedule` when
due. `Syscall*` are the five entries of the table. Pcbs are named by pid, list nodes are
heap blocks with `next`, `prev` and `val`, so dangling and null pointers are visible. A
register file is a record: owner, place in the code, the two locals of the creation routine
and one computed value. `malloc` inside this module is one step (see Heap). Following a null
pointer stops the model: page 0 is mapped, so the real outcome is whatever lies there.

The two locals are on the stack, and the stacks are not separate. `kmain` has one of its own,
but every process starts with `esp` 0xC0400000, and an interrupt that leaves ring 3 starts at
`esp0` = 0x400000: one page of memory, written from the same end. So a handler that interrupts
a process takes the locals away (`Interrupted`), and a direct creation that a handler
interrupted cannot go on as the code says: `StackLost` ends the behaviour there, because what
the processor then does depends on bytes that are not modelled. `kmain`'s own creation goes on.
`ContextPreserved` and `ResumeWhereLeft` are about registers (`Registers`), which the pcbs do
keep; `StackPreserved` says the same of the stack and does not hold. Programs that keep to
registers, as those of `userland.s` do, run on.

`suspended` is a history variable: the context each process was last
interrupted in.

`RoundRobin` is the promise: a ring of processes, a running one, admission at the front,
rotation, exit. `SchedulerRefinement` maps the pointer structure to the ring by following
`next` from `head`, and states the refinement.

**Timer.tla** (`DriverProofs`, `MCTimer`). The list of callbacks in order from `head`;
`timer_handler` in one action with its exact loop (it visits all nodes but the last, or the
only one) and with callbacks that do not return; registration in two steps, before and after
the store to `head`, with ticks in between. A zero period traps and stops the kernel.

**List.tla** (`Deque`, `ListProofs`, `MCList`). Every function that changes a list, pointer
by pointer, over a heap that hands out freed nodes again, zeroed. A `use` is chosen in the
initial state: the functions the owner calls, and the removals among them that it also calls
on a list of one element. `list_push`, `list_enqueue`, `list_dequeue` are
`list_insert_back`, `list_insert_front`, `list_pop`. `Deque` is the promise; `did`, the last
call and its position, is part of what is refined, so each function is held to its own end.

**Heap.tla** (`HeapProofs`, `MCHeap`). Headers as functions on block addresses, the 8-byte
header and the 4 bytes of padding as numbers, 32-bit arithmetic as `% AddrMod`. Handlers
call `malloc` in one piece; a `Task` is a caller with IF = 1, with steps between the search,
the header and the bump. `Overlap` says whether a handler
may allocate in between. `granted` records what callers hold. The actions take the least
fitting block; `Search` is the loop of the code, its exit on a header of size 0 included,
and `SearchIsFirstFit` compares them. Callers free what they hold, once.

**Pmm.tla** (`PmmProofs`, `MCPmm`). The bitmap as the set of its set bits; an index at or
above `Capacity` is memory after the array (`stray` records writes to it, a read of it is
clear, set or a page fault). The boot phase follows `kmain`: `init_pmm`, the available
regions in any order, then the regions taken out. `pmm_free_block` is `pmm_free_blocks` of
one block. Address 0 is the null pointer and block 0, as in C.

**Vmm.tla** (`VmmProofs`, `MCVmm`), which extends Pmm. Tables are blocks of Pmm, read and
written through the identity map: `Translate` is the walk of the tables, and a table in a
block that is not identity-mapped is a page fault. The kernel never flushes the TLB
(`vmm_flush_tlb_entry` has no caller), so `stale` keeps what every page led to before its entry
changed, as if the processor had cached it just then; `Uses`, the walk and the stale pairs, is
where an access may go. A caller may flush, too, but need not. `exposed` (history) has the
tables made of a block that a stale pair led to. `init_paging` takes its three blocks one
after the other (`Obtain`) and may run out between them; then `kpage_dir` is NULL, the loader's
tables stay, and `kmain`, which does not notice, maps through the null directory
(`vmm_map_page_NoDirectory`: low memory is the entry, so it returns, or overwrites a word
somewhere, after which nothing is said) and prints to a page that is not mapped
(`fb_set_buffer`, a page fault). `vmm_map_page` may need a new
table, `vmm_alloc_page` enters the loop it never leaves, `vmm_free_page` frees the block in any
entry of an existing table, present or not, and keeps it there; its callers free only present
pages of blocks they hold (`Freeable`). `virt2phys` tests entries for zero and not for their
present bit, so it answers
for freed pages too; `KernelStaysMapped` claims only that it knows every page the tables
translate. Callers map pages outside the kernel's two ranges (`kmain`
maps 0xB0000000), and to a block they hold or a device outside the available memory. Blocks
taken before `init_paging` stand for smaller memories; `vm = "bare"` drives the memory
manager alone, `pmm_alloc_blocks` included.

**Console.tla** and **Keyboard.tla**, the second on top of the first. `printf` runs with
IF = 1: a process is preempted between the call and `scroll`'s moves, between computing a
position and storing the glyph, and before the wrap. `typed` is history: the lines an
endless terminal would show. `keyboard_cb` is one action per interrupt, over the keyboard
(external), whose scan codes wait in a queue. `scancode |= 0xe000` is lost in a byte and
`makecode` is never 0xB7, so the branch for Print Screen is dead: that key echoes `*`, and
is not among the keys of the run.

**Nic.tla**: two hosts with this kernel, the cards and the wire (external).
`rtl8139_send_packet` runs with IF = 1 and is one step for each access to `tx_cur` or a
register: the index read, the address stored, the index read again, advanced and stored, the
length stored, the test, the reset. Senders overlap between any two. The receiving handler has
three steps, so that frames arrive while it runs; the length it reads has the CRC in it, as the
card's header does. Byte order is computed, not assumed. `excused` becomes true at exactly the
events after which the code promises nothing: a send that reads `tx_cur` while another fills in a
descriptor, or while it is past the last one; a reset that undoes another's advance; a
descriptor overwritten before it was sent; a frame that ends exactly at the end of the ring.
Without any one of them TLC violates `FramesInOrder` (without that of the reset, with four
frames). Other overlaps of sends are covered.

**Pci.tla**: the recursion of `pci_scan_bus`, `_device` and `_function` as a stack of
frames, over every machine with functions from a small set. `function_num` is a bit field and
is cut to its width. `get_secondary_bus` returns what the register it reads holds.
`FindsOnHostBus` speaks of the buses of the host controllers and leaves open what lies behind a
bridge; the comments promise that it is found, which `pci_bridge` refutes.

**Strings.tla**: the loops of `string.c` as operators on a memory of bytes, and what a
`printf` format expands to; a behaviour is one call, compared with a reference written with
sequences. `%` and `/` are C's, so negative numbers get the wrong digits they get in the
code; the reference speaks of the others. Copies run forward, `memmove`'s too, so a legal
call does not copy upwards over itself.

**Kmalloc.tla** (`KmallocProofs`): memory as a function on words, every macro of `kmalloc.h` as
an operator; the loops over the blocks as the set of blocks they visit (`BlockAt`, `Walk`).
`extend_heap` takes a break at or above `SignBit` (2^31) for a failure and returns NULL with
the break moved; then `mm_init` fails, with `heap_listp` set, and `mm_malloc` returns NULL. The
heap starts where `dmm_init` is told, below that address or above it as in this kernel, where
nothing is ever handed out (`BelowSignBit`). `GET_ALLOC` masks the wrong bits: only the
epilogue counts as free, nothing freed is found
again, and `mm_checkheap` calls the right epilogue bad. `BoundaryTags` is what remains true.

**BPlusTree.tla** (`Dict`): nodes on a heap that reuses addresses at once, each function of
the source as an operator from tree to tree, `insert`, `delete` and `destroy_tree` as
actions. `Dict` is the promise. `find_range` answers nothing when `key_start` is not stored and its leaf
has no key from it on, even if the next leaf has; `TraversalsAgree` allows the empty answer in
that case only (`EndsBefore`).

**Lc3.tla**: 16-bit words, one action per opcode. The source's `mem` has 65535 words, so
address 0xFFFF is the word behind it, `reg[0]`; the model does the same. Input arrives at
any time and waits in the descriptor, which `select` asks, or in stdio's buffer, from which
`getchar` takes; one read moves a line, or all there is. A program that polls KBSR can therefore
wait with characters in the buffer, and `ProgramsCompute` does not claim that it gets them.

In Heap, Console and Nic a caller that is interrupted keeps its locals, as one with a stack of
its own does (`kmain`, or processes once the stacks are separate): those modules are about what
the shared state does to it, `sched_stack` about what the shared stack does.

**DriverProofs.tla** holds the theorems about Console, Keyboard, Nic and Pci.

**MCDrivers.tla** and **MCLibrary.tla** put the drivers, and the sequential components, in
one run each. A behaviour belongs to one of them, named by `unit` in the initial state; the
others rest. They do not interact, except Keyboard with Console, which share their state.

## 3. Runs

Passing runs (TLC finishes without error):

| Run | Question |
|---|---|
| `sched_programs` | `kmain` creates the first process; three processes use system calls, the first may create by direct calls, ticks come anywhere: are registers, list, size and ring consistent, is the window before `self` is stored the only place where `schedule` meets a null pointer, does the detailed model implement `RoundRobin`, and does every listed process run again? |
| `heap_callers` | do payloads, headers and the search stay right up to exhaustion, for handlers and one interruptible task whose calls do not overlap? |
| `pmm_blocks` | is a block exclusive, real and not reserved, does null mean exhausted, and does the count follow the bitmap? |
| `vmm_paging` | whatever is mapped, allocated and freed, and wherever blocks run out: are page tables private, the kernel and the identity map in place, one page changed at a time, and which tables can the TLB still lead to; and is block 0 never granted, even by `pmm_alloc_blocks`, whose search leaves the bitmap? |
| `drivers` | are reachable timer callbacks never late and none forgotten; is the screen the tail of what was printed and echoed, and the cursor near it; does the keyboard driver follow the hands; do frames arrive in order, also when sends overlap; does a PCI scan that ends find the right function? |
| `library` | is the list a deque under its owners' uses; do the string functions agree with their references; are boundary tags consistent and is nothing handed out above the sign bit; is the B+ tree a well-formed tree and a map; do LC-3 programs compute? |

Runs that end in a violation, each with a finding in `PROJECT.json`:

| Run | What it shows |
|---|---|
| `sched_create_runs` | `kmain` creates the first process with IF = 1: a tick between `list.c:55` and `process.c:150` makes `schedule` follow a null `self` |
| `sched_stack` | processes and handlers share one stack page: what a process had on it when it was interrupted is lost |
| `timer_shipped` | with two callbacks the first registered one (`print_jiffies`) is never called |
| `heap_race` | `malloc` interrupted by a handler that allocates grants a block twice (the shipped programs do not mix the two kinds of caller) |
| `pmm_kernel` | `kmain` takes out the kernel by virtual address: its image stays allocatable |
| `pci_bridge` | `get_secondary_bus` reads offset 0x09, the programming interface, in place of 0x19: a bridge on bus 0 makes the scan start bus 0 again, without end |

Changing a constant of a passing run shows further limits of the code; the notes of the
hazards in `PROJECT.json` say which: requests that wrap the end test of `malloc`, memory
of no whole number of bitmap words, regions by virtual address (the bitmap is overrun), runs
of two blocks, lists emptied from the back; and so does dropping a condition: `Freeable`, or one
of the excuses of Nic.

**Bounds.** Scheduler: 3 processes, so that front, middle and back of the list all occur
and removal of each happens; `SchedOffset` 2 with `JiffyModulus` 3 (5 in the violations), no multiple, so
the counter wraps off the period as 2^32 does for 30; `WorkMod` 2 lets two contexts of one
process differ. List: 4 nodes, 2 values. Heap: about 60 bytes, room for four blocks and the
padding edge at the end; sizes 1, 5, 9 give fits, misfits and exhaustion; `AddrMod` 92 lies
just above what the test can reach. Pmm: blocks of 4 bytes, words of 4 bits (8 in
`vmm_paging`, where `1 << j` leaves the bitmap), 16 blocks, a memory map with a partial block;
the addresses `kmain` passes are scaled so that they wrap in the address space
`4 * Capacity` exactly as in 2^32. Timer: periods 2, 3 and 0, modulus 11.
Vmm: 8 blocks, tables of 7 entries, so that one block lies beyond the identity map, pages
that share a table and pages that need one, more demand than blocks, and at most two stale
pairs at a time (`FewStale`), enough for one page that is mapped, freed and mapped again while
its old block becomes a table. Console: 5 by 2
cells in 6 rows of memory, two processes, three calls, texts with two lines, a wrap and a
tab; behaviours are cut (`Claimed`, as are Nic's from an excuse on) where two writes overlapped inside a character or a
tab crossed the edge, because the code promises nothing there (`framebuffer.c:102`).
Keyboard: six keys (letter, shift, lock, and three with a prefix), three presses, any delay.
Nic: a ring of 36 bytes and frames that take 16 or 20 of it, so that it wraps, fills, and is hit
exactly at its end; 2 descriptors, 2 senders, 3 frames. Pci: 2 devices of 2 functions on bus 0 and one on bus 1, every choice of kinds,
stack of 3 frames. Strings: all memories of 6 cells over three values. BPlusTree: order 3
(the source's), 6 keys with one value or 4 keys with two: three levels, every kind of split,
merge and borrowing. Kmalloc: chunks of 48 bytes, requests of 0, 1, 9 and 48; heaps that
start at 8 and at 184 with a sign bit at 200, of 8 bytes (no room for the prologue), 40 (none
for a chunk) and 320, so that every panic and refusal occurs. Lc3: five programs that between them use every opcode, and three typed characters.
List nodes are interchangeable and treated as symmetric in `library`, which checks no liveness.

**Deadlock** is not checked where the system may stop: after a panic, and when bounded
resources (pids, nodes, blocks, presses, frames) are used up with nothing else enabled.

**Fairness.** Scheduler: weak fairness of `Tick` (the PIT repeats, user code runs with
IF = 1 and handlers end) and of the boot code, strong fairness of the steps of a creation (its
caller gets the processor again and again, not continuously; a creation that has lost its
frame is not owed a step). Nothing is assumed of system
calls. Timer: weak fairness of the tick and of the second half of a registration.

## 4. Proofs

For every value of the constants, from the named assumptions of the modules. Each further
hypothesis is named below, with the run that shows a violation without it where there is one;
the others exclude what the hazards describe.

*Scheduler* (`SchedulerProofs`; `SyscallsOnly`: no program calls
`create_process_from_routine` directly; with such programs, `sched_programs` checks the same
properties up to `StackLost`). Type correctness,
`RunningIsCurrent`, `ContextPreserved` and `ResumeWhereLeft` (of the registers),
`PanicOnlyWhenAllExited`, `ListIntact`, `SizeMatchesList`, `NullOnlyInWindow`,
`FirstBranchDead`, `ZombieIsFinal`. The inductive
invariant `IInv` (`SchedulerInv`) describes boot, the running phase and the halted machine.
Its key part is that the list is sorted by decreasing pid: links that agree pairwise do not
exclude a separate cycle, and the order does so locally, since `list_insert_front` always
inserts the largest pid and removal keeps the order.

*Refinement* (`SchedulerProofs`, same hypothesis). `ImplementsRoundRobin` and
`InsertedIsListed`. The walk along `next` (`NodeAt`, a recursive function) is shown to visit
every allocated node and to end, because the pid falls at each step; so the ring is the sorted
sequence of the live pids. A sorted sequence is determined by its elements, so each step needs
only what it does to the set of live processes: creation adds the largest pid in front,
exit removes one, a switch moves to the next smaller one or back to the largest.

*Heap* (`HeapProofs`; `Serial`: handlers and at most one interruptible task, and no handler
calls malloc or free while the task is inside malloc, see `heap_race`; `NoWrap`: no request
wraps the end test; `heap_callers` satisfies both). `TypeOK`, `PayloadsDisjoint`,
`PayloadInHeap`, `Tiled`, `SearchIsFirstFit`. `Core` says that the blocks below `last_alloc`
lie apart, that `last_alloc` exceeds the heap by less than the padding, and that a holder's
block is allocated, large enough and held once. `TaskInv` says that what an interrupted task
has read is still true when it stores: the block it found is free, there is room at
`last_alloc`, and the header it wrote there is the only one the search does not reach. For the
search: a block that does not fit is followed by the next block or by the end of the heap; a
function that satisfies the equation of `Search` is given explicitly, and the block nearest to
the end from which the search answers wrongly cannot exist.

*Physical memory* (`PmmProofs`; `OneAtATime`: blocks are allocated singly and there is an
available region). `HeldExclusively`, `NullIsNeverGranted`, `DeinitIsReserved`,
`HeldIsAvailable`; with `RegionsFit` (see `pmm_kernel`) also `BitmapInBounds`; with
`RegularMachine` (whole bitmap words of memory, regions that list no block twice) also
`NullMeansExhausted` and `CountFollowsMap`. `PmmInv` has the order of the boot: nothing is
held before it ends, bit 0 is set by the first region read, and a region taken out stays
marked because no region is read after it and no holder has a block of it. `BackedInv` adds
that what the search sees as free is covered by an available region; `CountInv` that the
count is the number of set bits, or one less when block 0 was counted as free and then marked.
Partial blocks at the ends of regions are included: the proof works with the addresses.

*Paging* (`VmmProofs`, no further hypothesis). `TablesPrivate`, `KernelStaysMapped`,
`OnePageAtATime`. `VmInv` stands on `PmmInv` and `BackedInv` and adds that the directory
refers to each table exactly once, that tables are marked available blocks nobody holds,
that a caller's page leads to a device, to frame 0 or to a block that is held, that a
held block is mapped by one page at most, that the block in the loop of `vmm_alloc_page`
is mapped nowhere else, and that stale pairs belong to callers' pages and lead to a table only
if it is `exposed` (`Cached`). The one-page condition is what makes `vmm_free_page` safe as far
as the tables go: otherwise a freed block would stay mapped, become a table, and be writable by
a caller. The TLB is not safe in that way, and `TablesPrivate` says which tables it lays open.
Without a directory the loader's tables are in force and nothing was cached.

*List* (`ListProofs`; `CarefulOwners`: the owner never removes the last element, or never
calls a function that reads `tail` of an empty list, because `list_remove_front` leaves
`tail` at the freed node). `WellFormed`, `NoDangling`, `ImplementsDeque`. `ListInv` says that
some sequence of distinct nodes is the list; each operation gives the new sequence, and so the
end its name stands for.

*Timer* (`DriverProofs`, no further hypothesis). `NeverLate`, `NeverForgotten`. `TimerInv`
says that what the loop reaches has waited at most `jiffies % period`; the counter wraps to 0,
a multiple of every period, so a wrap makes a call early and never late.

*Boundary-tag heap* (`KmallocProofs`; `Sized`: a chunk is at least a word, requests are
natural numbers, a heap starts at a multiple of 8 other than 0). `BoundaryTags`,
`BelowSignBit`. `MmInv` says that some set of blocks, with a size and a mark
each, lies without gap between prologue and epilogue, tagged alike at both ends (`Layout`), and
that callers hold marked, large enough blocks of it (`Lives`). It holds from `heap_listp`,
wherever the heap starts, to the epilogue, which stands below the break until an extension is
refused, and from then on above the sign bit (`TopAt`), whether `mm_init` succeeded or not.
Extending, splitting and releasing
each give the new layout. `GET_ALLOC` tells no block to be free, so `find_fit` finds nothing
and `coalesce` meets only the epilogue, of size 0, and merges nothing: the tags stay right
because the branches that join blocks are never taken, and every block handed out begins at a
break that was tested. That the walk passes every block goes by induction along the blocks.

*Drivers* (`DriverProofs`).

- Console (`KeyboardSpec`, no further hypothesis): `ScreenIsTail`, `CursorStaysNear`.
  `ScreenInv` says that as long as no two writes overlapped at most one process is inside a
  character, and that what it has still to do (`Fits`: store the glyph, wrap, scroll) gives a
  screen that shows the tail of the lines; it is needed because the screen alone is out of step
  between those steps. `CursorInv` counts the processes that may still end a line (`Owing`),
  each of which has scrolled once; it holds without `~spoiled`.
- Keyboard (`PrintScreen \notin Hands`: the codes of that key hold a shift that was not
  pressed, which the driver takes for one): `DriverFollowsHands`. The property speaks of an
  empty queue only. `KeyboardInv` says that there is a run of driver states, one before each
  code that waits and one after the last, that starts in the driver's state and ends in
  the hands', and whose presses echo `due` from its front: a press lengthens the run at its end,
  an interrupt shortens it at its start.
- Nic (no further hypothesis beyond `NicAssumption`: the size of the ring is a multiple of 4,
  8192 in the source, and a protocol number has 16 bits): `FramesInOrder`. Until an excuse (the
  four events named in section 2),
  `Sound` says that the frames in the ring form a chain from `current_packet_ptr` to the card's
  offset, each beginning where the one before ends; that the descriptors to be sent are those
  from the card's to the driver's, `tx_cur` up to a wrap that is due; that at most one sender is
  filling in a descriptor, and which (`SenderInv`); that three numbers split what was sent into the frames in
  the ring, on the wire and in descriptors; and that a handler that runs finds a frame.
- Pci (no further hypothesis): `FindsOnHostBus`. Only the bottom frame of the stack decides
  what is returned. `BottomInv` says that it scans the host controller's bus and that
  everything to be found lies ahead of it.

`NatLemmas` holds what several proofs need: the least element of a set of numbers and
induction over a set (the library's induction takes an operator as a parameter, which the
provers cannot instantiate; a set comprehension says the same), iteration of a function, which
gives recursive function definitions their meaning, and division with remainder.

Checked by TLC only:

- liveness (`EveryProcessRuns`, and the two violations under fairness): out of the prover's reach;
- Strings and BPlusTree (with `ImplementsDict`), which define recursive operators, and the LC-3,
  whose property is about fixed programs;
- programs that call `create_process_from_routine` directly, up to `StackLost`, and
  `pmm_alloc_blocks` for runs of blocks (`vm = "bare"`).

`TypeOK`, `RunningIsCurrent`, `FirstBranchDead` and `ZombieIsFinal` of Scheduler are proved and
need no run.

## 5. Not modelled, and the plan

Not modelled: descriptor tables, port and serial I/O, CPU identification, the multiboot
entry (straight-line code and single instructions); the spinlock, `sleep`, `memsetdw`,
`fb_write`, `fb_write_str` and the 32-bit and bit-field flips of `network_utils.c` (no
caller); colours, messages, the hardware cursor and page attributes (nothing that
is modelled depends on them); the programming of PIC, PIT and network card; the other samples
(ELF tools, boot sectors, libevent: programs of their own, mostly input and output). Two
interrupts nested in one another do not occur (IF = 0).

Left, in this order:

1. The scheduler's invariant for programs with a direct creation in progress.
2. The composition of Scheduler with Heap (pcbs that are never freed).
3. The contents of the shared stack, to follow a program past `StackLost`.
