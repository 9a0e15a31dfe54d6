------------------------------ MODULE MCLibrary -----------------------------
(***************************************************************************)
(* Instances, for TLC, of the sequential components: the kernel's list and *)
(* string library and boundary-tag heap, and the B+ tree and the LC-3 of   *)
(* the samples.  A behaviour is one component's, named by unit; the others *)
(* rest in their first state.                                              *)
(***************************************************************************)
EXTENDS MCList, Kmalloc

CONSTANTS order, Keys, MaxNodes, MapValues,
          Chars, MaxTyped,
          MemSize, MaxCopy

VARIABLES unit,
          root, node, rec,
          vm_mem, reg, result, program, stdin, typed, vm_out,
          call, before, mem, ret, returned

\* The tree; with all keys and one value, and with few keys and all values.
Tree == INSTANCE BPlusTree WITH Values <- MapValues
AllKeys == INSTANCE BPlusTree WITH Values <- {1}
AllValues == INSTANCE BPlusTree WITH Keys <- {1, 2, 3, 4}, Values <- MapValues
-----------------------------------------------------------------------------
(* Programs for the LC-3: a file is its words in the other byte order, the  *)
(* address first.                                                           *)
Op(c, d, s, low) == c * 4096 + d * 512 + s * 64 + low
Off(v, n) == v % 2 ^ n
NZP == 7
Swap(w) == (w % 256) * 256 + w \div 256
File(origin, words) == [i \in 1 .. Len(words) + 1 |-> Swap(IF i = 1 THEN origin ELSE words[i - 1])]
KBSR == 65024
KBDR == 65026
DDR == 65030
MCR == 65534

\* The operating system: trap vector 0x25, HALT, clears the clock bit.
TheOs == File(37, <<38, Op(5, 1, 1, 32), Op(11, 1, 0, 0), MCR>>)

\* Polls KBSR, copies KBDR to DDR, and halts at a zero.
Poll == File(12288, <<
  Op(10, 0, 0, 7), Op(0, 3, 0, Off(-2, 9)), Op(10, 0, 0, 6), Op(0, 2, 0, 2),
  Op(11, 0, 0, 5), Op(0, NZP, 0, Off(-6, 9)), Op(15, 0, 0, 37),
  0, KBSR, KBDR, DDR>>)

\* The same with GETC.
GetC == File(12288, <<
  Op(15, 0, 0, 32), Op(1, 0, 0, 32), Op(0, 2, 0, 2), Op(11, 0, 0, 2), Op(0, NZP, 0, Off(-5, 9)),
  Op(15, 0, 0, 37), DDR>>)

\* Prints -(3 * 2), computed in a subroutine, through memory, and calls through R7.
Multiply == File(12288, <<
  Op(14, 2, 0, 17), Op(6, 3, 2, 0), Op(6, 4, 2, 1), 4 * 4096 + 2048 + 7, Op(7, 5, 2, 2),
  Op(2, 0, 0, 14), Op(9, 0, 0, 63), Op(1, 0, 0, 33), Op(14, 7, 0, 7), Op(4, 0, 7, 0), Op(15, 0, 0, 37),
  Op(5, 5, 5, 32), Op(1, 5, 5, 4), Op(1, 3, 3, 63), Op(0, 1, 0, Off(-3, 9)), Op(12, 0, 7, 0),
  Op(11, 0, 0, 4), Op(12, 0, 7, 0), 3, 2, 0, DDR>>)

\* Overwrites its next instruction with RTI; and an image past the end of memory.
Rti == File(12288, <<Op(2, 0, 0, 2), Op(3, 0, 0, 0), Op(1, 1, 1, 33), 32768>>)
TooLarge == File(65533, <<1, 2>>)

Vm == INSTANCE Lc3 WITH Os <- TheOs, Programs <- {Poll, GetC, Multiply, Rti, TooLarge},
                        mem <- vm_mem, out <- vm_out
-----------------------------------------------------------------------------
(* Calls of the string library.                                             *)
Addresses == 0 .. MemSize - 1
Zeroed == [i \in Addresses |-> 0]
Memory == {m \in [Addresses -> 0 .. 2] : m[MemSize - 1] = 0}

MemoryCalls == [fn : {"memcpy", "memmove", "memset", "memsetw", "strcpy", "strncpy", "strcat",
                      "strcmp", "strncmp", "strstr"},
                dst : {0, 1, 3}, src : {0, 2, 4}, n : {1, 3}]

\* Two items of a format, with a character between them.
Item(k, z, w, a) == [kind |-> k, zero |-> z, width |-> w, arg |-> a]
Items == {Item(k, z, w, a) : k \in {100, 120}, z \in BOOLEAN, w \in {0, 3},
                             a \in {<<0>>, <<10>>, <<255>>, <<2147483647>>}}
         \cup {Item(115, z, w, a) : z \in BOOLEAN, w \in {0, 3}, a \in {<<>>, <<0>>, <<0, 65>>}}
         \cup {Item(99, FALSE, 0, <<66>>)}
Directive(i) == <<37>> \o (IF i.zero THEN <<48>> ELSE <<>>)
                \o (IF i.width > 0 THEN <<48 + i.width>> ELSE <<>>) \o <<i.kind>>
Formats == {[fn |-> "printf", dst |-> 0, src |-> 0, items |-> <<i, Item(0, FALSE, 0, <<67>>), j>>,
             format |-> Directive(i) \o <<67>> \o Directive(j), arg |-> <<i.arg, j.arg>>] :
              i \in Items, j \in Items}
Idle == [fn |-> "idle"]

InMemory == INSTANCE Strings WITH Memories <- Memory, Calls <- MemoryCalls
OfFormats == INSTANCE Strings WITH Memories <- {Zeroed}, Calls <- Formats
-----------------------------------------------------------------------------
LibraryInit ==
  /\ Init /\ Tree!Init /\ MmInit /\ Vm!Init
  /\ \/ unit = "strings" /\ (InMemory!Init \/ OfFormats!Init)
     \/ /\ unit \in {"list", "tree", "map", "kmalloc", "lc3"}
        /\ call = Idle /\ before = Zeroed /\ mem = Zeroed /\ ret = InMemory!NIL /\ returned = FALSE
  /\ unit # "list" => use = KeepOne
  /\ unit # "kmalloc" => \A a \in HeapStarts, n \in HeapSizes : mem_brk <= a /\ mem_max_adrr <= a + n

treeVars == <<root, node, rec>>
vmVars == <<vm_mem, reg, result, program, stdin, typed, vm_out>>
stringVars == <<call, before, mem, ret, returned>>

LibraryNext ==
  /\ \/ unit = "list" /\ Next /\ UNCHANGED <<treeVars, mmVars, vmVars, stringVars>>
     \/ unit = "map" /\ AllValues!Next /\ UNCHANGED <<vars, mmVars, vmVars, stringVars>>
     \/ unit = "tree" /\ AllKeys!Next /\ UNCHANGED <<vars, mmVars, vmVars, stringVars>>
     \/ unit = "kmalloc" /\ MmNext /\ UNCHANGED <<vars, treeVars, vmVars, stringVars>>
     \/ unit = "lc3" /\ Vm!Next /\ UNCHANGED <<vars, treeVars, mmVars, stringVars>>
     \/ unit = "strings" /\ InMemory!Next /\ UNCHANGED <<vars, treeVars, mmVars, vmVars>>
  /\ UNCHANGED unit

LibrarySpec == LibraryInit /\ [][LibraryNext]_<<unit, vars, treeVars, mmVars, vmVars, stringVars>>
-----------------------------------------------------------------------------
\* Every call of lib/string.c leaves in memory, and returns, what its name promises
\* (string.c:5-298).
StringsAgree == InMemory!StringsAgree

\* The tree's shape: balanced, filled between its minimum and its maximum, every parent pointer
\* right and no node lost, after every split, merge and rotation (bplus_tree.c:424-901).
TreeWellFormed == Tree!TreeWellFormed

\* Searching, walking the leaves and printing by levels agree on what the tree holds.  A
\* range query agrees with them, or answers nothing when its first key is not stored and
\* would lie behind the last key of its leaf (bplus_tree.c:123-354, 270).
TraversalsAgree == Tree!TraversalsAgree

\* insert and delete change the tree's contents as they change a map
\* (bplus_tree.c:654-681, 903-916).
ImplementsDict == Tree!ImplementsDict

\* The programs do what their instructions say: the echoes print what was typed up to a
\* zero, the product is computed, RTI stops the machine (vm.h:244-467).
ProgramsCompute == /\ Vm!Echoes(Poll) /\ Vm!Echoes(GetC)
                   /\ Vm!Computes(Multiply, <<250>>) /\ Vm!Computes(Rti, <<>>)
=============================================================================
