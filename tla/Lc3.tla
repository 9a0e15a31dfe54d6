--------------------------------- MODULE Lc3 --------------------------------
(***************************************************************************)
(* The LC-3 virtual machine of sample/lc3/vm.h, with its 16-bit words.     *)
(* Memory is a function on the addresses written so far, the rest reads as *)
(* zero (calloc).  mem has 65535 elements, so address 0xFFFF is the word   *)
(* behind it, reg[0].  Programs do not run in the device registers.        *)
(*                                                                         *)
(* Characters reach the standard input, which stays open, at any time.     *)
(* They wait in two places: in the descriptor, where select sees them, and *)
(* in the buffer of stdio, where getchar puts what one read returns when   *)
(* it finds the buffer empty: a line of a terminal, all there is of a pipe.*)
(***************************************************************************)
EXTENDS Integers, SequencesExt, Bitwise

CONSTANTS
  Os,         \* lc3os_obj: a file is a sequence of big-endian words, the load address first
  Programs,   \* the files that may be loaded
  Chars,      \* characters that may be typed
  MaxTyped    \* bound: characters typed

VARIABLES mem, reg, result, program, stdin, typed, out

vars == <<mem, reg, result, program, stdin, typed, out>>

M == 65536
PC == 8
PSR == 9
KBSR == 65024
KBDR == 65026
DSR == 65028
DDR == 65030
MCR == 65534
STATUS_BIT == 32768

\* vm_create.
Init ==
  /\ mem = (MCR :> STATUS_BIT)
  /\ reg = [r \in 0 .. 9 |-> IF r = PC THEN 12288 ELSE IF r = PSR THEN 2 ELSE 0]
  /\ result = "created" /\ program = <<>> /\ typed = <<>> /\ out = <<>>
  /\ stdin = [fd |-> <<>>, buffer |-> <<>>]

swap16(val) == (val % 256) * 256 + val \div 256
Field(instr, at, n) == (instr \div 2 ^ at) % 2 ^ n

sextend(val, n) == LET m == 2 ^ (n - 1) IN (((val % 2 ^ n) ^^ m) - m) % M

Mem(addr) == IF addr = M - 1 THEN reg[0] ELSE IF addr \in DOMAIN mem THEN mem[addr] ELSE 0

\* getchar on the standard input s: from the buffer, which is filled by one read if it is empty.
Buffered(s) == IF s.buffer # <<>> THEN s ELSE [fd |-> Tail(s.fd), buffer |-> Head(s.fd)]
getchar(s) == Head(Buffered(s).buffer)
AfterGetchar(s) == [Buffered(s) EXCEPT !.buffer = Tail(@)]

\* select: characters in the buffer do not count.
KbdReady(s) == s.fd # <<>>

\* The value read when s is what the standard input holds, and what it holds afterwards.
vm_read(s, addr) ==
  CASE addr = KBSR -> IF KbdReady(s) THEN STATUS_BIT ELSE 0
    [] addr = KBDR -> IF KbdReady(s) THEN getchar(s) ELSE 0
    [] addr = DSR -> STATUS_BIT
    [] addr = DDR -> 0
    [] OTHER -> Mem(addr)
AfterRead(s, addr) == IF addr = KBDR /\ KbdReady(s) THEN AfterGetchar(s) ELSE s

\* putchar takes the low byte; the store into the word after mem is a store into reg[0].
vm_write(addr, val, pc) ==
  /\ out' = IF addr = DDR THEN Append(out, val % 256) ELSE out
  /\ mem' = IF addr \in {KBSR, KBDR, DSR, DDR, M - 1} THEN mem ELSE (addr :> val) @@ mem
  /\ reg' = [reg EXCEPT ![PC] = pc, ![0] = IF addr = M - 1 THEN val ELSE @]

\* The image goes where its first word says; an image past the end fails the assertion.
vm_load_data(file) ==
  LET load_addr == swap16(Head(file))
      words == Tail(file)
      fits == load_addr + Len(words) < M - 1
  IN /\ mem' = IF fits THEN [i \in load_addr .. load_addr + Len(words) - 1 |-> swap16(words[i - load_addr + 1])] @@ mem ELSE mem
     /\ reg' = IF fits THEN [reg EXCEPT ![PC] = load_addr] ELSE reg
     /\ UNCHANGED <<stdin, typed, out>>
     /\ fits \/ result' = "aborted"

vm_load_os == result = "created" /\ vm_load_data(Os) /\ result' = "booted" /\ UNCHANGED program

\* Not finding the file is VM_LOAD_INPUT_NOT_FOUND.
vm_load_file(file) ==
  /\ result = "booted" /\ program' = file
  /\ \/ result' = "not found" /\ UNCHANGED <<mem, reg, stdin, typed, out>>
     \/ vm_load_data(file) /\ result' \in {"running", "aborted"}

vm_sign_flag(val) == IF val = 0 THEN 2 ELSE IF val >= STATUS_BIT THEN 4 ELSE 1

-----------------------------------------------------------------------------
(* vm_perform: one action for each group of opcodes.                        *)

instr == vm_read(stdin, reg[PC])
pc == (reg[PC] + 1) % M
dr == Field(instr, 9, 3)
sr1 == Field(instr, 6, 3)
Relative(n) == (pc + sextend(instr, n)) % M
Based == (reg[sr1] + sextend(instr, 6)) % M

\* vm_run: as long as the clock bit of the machine control register is set.
Fetch(opcode) ==
  /\ result = "running"
  /\ vm_read(stdin, MCR) >= STATUS_BIT
  /\ instr \div 4096 = opcode
  /\ UNCHANGED <<program, typed>>

\* A register and the flags are written (vm_setcc).
SetReg(val) ==
  /\ reg' = [reg EXCEPT ![dr] = val, ![PC] = pc, ![PSR] = vm_sign_flag(val)]
  /\ UNCHANGED <<mem, result, out>>

Operand2 == IF Field(instr, 5, 1) = 1 THEN sextend(instr, 5) ELSE reg[Field(instr, 0, 3)]

ADD == Fetch(1) /\ SetReg((reg[sr1] + Operand2) % M) /\ UNCHANGED stdin
AND == Fetch(5) /\ SetReg(reg[sr1] & Operand2) /\ UNCHANGED stdin
NOT == Fetch(9) /\ SetReg(M - 1 - reg[sr1]) /\ UNCHANGED stdin
LEA == Fetch(14) /\ SetReg(Relative(9)) /\ UNCHANGED stdin
LD == Fetch(2) /\ SetReg(vm_read(stdin, Relative(9))) /\ stdin' = AfterRead(stdin, Relative(9))
LDR == Fetch(6) /\ SetReg(vm_read(stdin, Based)) /\ stdin' = AfterRead(stdin, Based)
LDI == LET a == vm_read(stdin, Relative(9))  s == AfterRead(stdin, Relative(9))
       IN Fetch(10) /\ SetReg(vm_read(s, a)) /\ stdin' = AfterRead(s, a)

Store(addr) == vm_write(addr, reg[dr], pc) /\ UNCHANGED result
ST == Fetch(3) /\ Store(Relative(9)) /\ UNCHANGED stdin
STR == Fetch(7) /\ Store(Based) /\ UNCHANGED stdin
STI == Fetch(11) /\ Store(vm_read(stdin, Relative(9))) /\ stdin' = AfterRead(stdin, Relative(9))

Jump(r) == reg' = r /\ UNCHANGED <<mem, result, stdin, out>>
BR == Fetch(0) /\ Jump([reg EXCEPT ![PC] = IF reg[PSR] & Field(instr, 9, 3) # 0 THEN Relative(9) ELSE pc])
JMP == Fetch(12) /\ Jump([reg EXCEPT ![PC] = reg[sr1]])

\* Mutant: the link register is written before it is used for the jump.
JSR_LinkFirst ==
  Fetch(4) /\ Jump([reg EXCEPT ![PC] = IF Field(instr, 11, 1) = 1 THEN Relative(11)
                                       ELSE IF sr1 = 7 THEN pc ELSE reg[sr1], ![7] = pc])

JSR == Fetch(4) /\ Jump([reg EXCEPT ![PC] = IF Field(instr, 11, 1) = 1 THEN Relative(11) ELSE reg[sr1], ![7] = pc])

\* GETC waits for a character and sets no flags; any other trap goes through its vector.
TRAP ==
  /\ Fetch(15)
  /\ \/ /\ instr % 256 = 32 /\ (stdin.fd # <<>> \/ stdin.buffer # <<>>)
        /\ reg' = [reg EXCEPT ![PC] = pc, ![0] = getchar(stdin)]
        /\ stdin' = AfterGetchar(stdin)
        /\ UNCHANGED <<mem, result, out>>
     \/ instr % 256 # 32 /\ Jump([reg EXCEPT ![PC] = vm_read(stdin, instr % 256), ![7] = pc])

\* RTI and the reserved opcode.
Unimplemented ==
  \E opcode \in {8, 13} :
    Fetch(opcode) /\ result' = "unimplemented" /\ reg' = [reg EXCEPT ![PC] = pc] /\ UNCHANGED <<mem, stdin, out>>

\* The user types: the character can be read with those before it, or by itself.
Type(c) ==
  /\ Len(typed) < MaxTyped
  /\ result = "running"
  /\ typed' = Append(typed, c)
  /\ \/ stdin' = [stdin EXCEPT !.fd = Append(@, <<c>>)]
     \/ stdin.fd # <<>> /\ stdin' = [stdin EXCEPT !.fd[Len(stdin.fd)] = Append(@, c)]
  /\ UNCHANGED <<mem, reg, result, program, out>>

Next ==
  \/ vm_load_os \/ \E file \in Programs : vm_load_file(file)
  \/ ADD \/ AND \/ NOT \/ LEA \/ LD \/ LDR \/ LDI \/ ST \/ STR \/ STI
  \/ BR \/ JMP \/ JSR \/ TRAP \/ Unimplemented
  \/ \E c \in Chars : Type(c)

Spec == Init /\ [][Next]_vars

-----------------------------------------------------------------------------
(* Properties.                                                              *)

Halted == result = "running" /\ vm_read(stdin, MCR) < STATUS_BIT

\* A program that copies its input up to a zero copies a part of it from the front: whether
\* it polls the keyboard registers or waits in GETC, and whenever the characters arrive, none
\* is lost, doubled or overtaken, and at most one is inside the machine.  That a program which
\* polls gets all of it is not said: once getchar has taken two characters into its buffer,
\* KBSR stays 0 until another one is typed.
Echoes(file) ==
  program = file =>
    LET waiting == stdin.buffer \o FlattenSeq(stdin.fd)
        n == Len(typed) - Len(waiting) IN
    /\ waiting = SubSeq(typed, n + 1, Len(typed))
    /\ Len(out) \in {n, n - 1}
    /\ out = SubSeq(typed, 1, Len(out))
    /\ Halted => Len(out) = n - 1 /\ typed[n] = 0

\* A program that does not read computes what it is meant to: it halts only with that output.
Computes(file, answer) == program = file => (Halted => out = answer) /\ (result = "unimplemented" => out = answer)
=============================================================================
