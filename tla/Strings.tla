------------------------------ MODULE Strings ------------------------------
(***************************************************************************)
(* The string library, lib/string.c: its loops over memory, the conversion *)
(* of numbers and what printf expands a format to.  A behaviour is one     *)
(* call.  Characters and bytes are their codes; memory is a function of    *)
(* addresses 0 .. MemSize - 1.                                             *)
(***************************************************************************)
EXTENDS Integers, Sequences, SequencesExt

CONSTANTS MemSize,
          Memories,    \* what memory may hold before a call
          Calls,       \* the calls: [fn |-> name, arguments ...]
          MaxCopy      \* strncpy's limit, 255

VARIABLES call, before, mem, ret, returned
stringVars == <<call, before, mem, ret, returned>>

NIL == -1

(***************************************************************************)
(* Numbers.  % truncates towards zero, as C's does: the digits of a        *)
(* negative number are negative.                                           *)
(***************************************************************************)
Rem(x, radix) == IF x >= 0 THEN x % radix ELSE -((-x) % radix)
Quo(x, radix) == IF x >= 0 THEN x \div radix ELSE -((-x) \div radix)
Digit(a) == IF a < 10 THEN a + 48 ELSE a + 97 - 10

RECURSIVE Digits(_, _)
Digits(x, radix) ==
  <<Digit(Rem(x, radix))>> \o IF Quo(x, radix) = 0 THEN <<>> ELSE Digits(Quo(x, radix), radix)

itoa(val, radix) == (IF val < 0 /\ radix = 10 THEN <<45>> ELSE <<>>) \o Reverse(Digits(val, radix))
uitoa(val, radix) == Reverse(Digits(val, radix))

(***************************************************************************)
(* Loops over memory: m is the memory, the others addresses and lengths.   *)
(***************************************************************************)
RECURSIVE strlen(_, _)
strlen(m, buf) == IF m[buf] = 0 THEN 0 ELSE 1 + strlen(m, buf + 1)

RECURSIVE memset(_, _, _, _)
memset(m, s, c, n) == IF n = 0 THEN m ELSE memset([m EXCEPT ![s] = c], s + 1, c, n - 1)

\* Mutant: the copy runs backward.
RECURSIVE memcpy_Backward(_, _, _, _)
memcpy_Backward(m, dst, src, n) ==
  IF n = 0 THEN m
  ELSE memcpy_Backward([m EXCEPT ![dst + n - 1] = m[src + n - 1]], dst, src, n - 1)

RECURSIVE memcpy(_, _, _, _)
memcpy(m, dst, src, n) ==
  IF n = 0 THEN m ELSE memcpy([m EXCEPT ![dst] = m[src]], dst + 1, src + 1, n - 1)

memmove(m, dst, src, n) == memcpy(m, dst, src, n)

\* val is stored low byte first.
RECURSIVE memsetw(_, _, _, _)
memsetw(m, dest, val, count) ==
  IF count = 0 THEN m
  ELSE memsetw([m EXCEPT ![dest] = val % 256, ![dest + 1] = val \div 256], dest + 2, val, count - 1)

\* <<memory, count>> where the loop of strncpy ends.
RECURSIVE Copy(_, _, _, _, _)
Copy(m, dest, source, max, count) ==
  IF count >= max THEN <<m, count>>
  ELSE LET now == [m EXCEPT ![dest + count] = m[source + count]]
       IN IF m[source + count] = 0 THEN <<now, count>> ELSE Copy(now, dest, source, max, count + 1)

strncpy(m, dest, source, max) ==
  LET end == Copy(m, dest, source, IF max > MaxCopy THEN MaxCopy ELSE max, 0)
  IN [mem |-> end[1], ret |-> IF end[2] >= MaxCopy THEN NIL ELSE dest]

RECURSIVE strcmp(_, _, _)
strcmp(m, dst, src) ==
  IF m[dst] # m[src] THEN 1 ELSE IF m[src] = 0 THEN 0 ELSE strcmp(m, dst + 1, src + 1)

RECURSIVE strncmp(_, _, _, _)
strncmp(m, s1, s2, c) ==
  IF c = 0 THEN 0
  ELSE IF m[s1] - m[s2] # 0 \/ m[s1] = 0 THEN m[s1] - m[s2]
  ELSE strncmp(m, s1 + 1, s2 + 1, c - 1)

\* The rest of strstr, from address in: str points behind the first character.
RECURSIVE Seek(_, _, _, _)
Seek(m, in, c, str) ==
  CASE m[in] = 0 -> NIL
    [] m[in] = c /\ strncmp(m, in + 1, str, strlen(m, str)) = 0 -> in
    [] OTHER -> Seek(m, in + 1, c, str)

strstr(m, in, str) == IF m[str] = 0 THEN in ELSE Seek(m, in, m[str], str + 1)

RECURSIVE strcpy(_, _, _)
strcpy(m, dst, src) ==
  LET now == [m EXCEPT ![dst] = m[src]]
  IN IF m[src] = 0 THEN [mem |-> now, ret |-> 0]
     ELSE LET rest == strcpy(now, dst + 1, src + 1) IN [rest EXCEPT !.ret = @ + 1]

strcat(m, dest, src) ==
  LET end == dest + strlen(m, dest)
      n   == strlen(m, src)
  IN [memcpy(m, end, src, n) EXCEPT ![end + n] = 0]

(***************************************************************************)
(* printf: % takes an optional 0 and one digit, the width; %d, %i, %u, %x  *)
(* and %s pad on the left, any other character after % writes its argument *)
(* as a character.  An argument is a sequence: <<number>>, <<character>>,  *)
(* <<address, characters...>> of a string, or <<>>, the null pointer.      *)
(***************************************************************************)
Null == <<40, 110, 117, 108, 108, 41>>

Piece(c, arg) ==
  CASE c \in {100, 105, 117} -> itoa(arg[1], 10)
    [] c = 120 -> uitoa(arg[1], 16)
    [] c = 115 -> IF arg = <<>> THEN Null ELSE Tail(arg)

Padding(n, c) == [i \in 1 .. (IF n > 0 THEN n ELSE 0) |-> c]

RECURSIVE printf(_, _)
printf(format, arg) ==
  IF format = <<>> THEN <<>>
  ELSE IF Head(format) # 37 THEN <<Head(format)>> \o printf(Tail(format), arg)
  ELSE LET spec == Tail(format)
           pad0 == Head(spec) = 48
           wide == IF pad0 THEN Tail(spec) ELSE spec
           pad  == IF Head(wide) \in 48 .. 57 THEN Head(wide) - 48 ELSE 0
           conv == IF Head(wide) \in 48 .. 57 THEN Tail(wide) ELSE wide
           c    == Head(conv)
           p    == Piece(c, Head(arg))
       IN (IF c \in {100, 105, 117, 120, 115}
           THEN Padding(pad - Len(p), IF pad0 THEN 48 ELSE 32) \o p
           ELSE Head(arg))
          \o printf(Tail(conv), Tail(arg))
----------------------------------------------------------------------------
(***************************************************************************)
(* What a caller may pass: memory that is there, a copy to lower addresses *)
(* or without overlap (the copies run forward), strings apart.             *)
(***************************************************************************)
Room(at, n) == at + n <= MemSize
Apart(a, n, b, k) == a + n <= b \/ b + k <= a

Legal(c, m) ==
  CASE c.fn \in {"memcpy", "memmove"} ->
         Room(c.dst, c.n) /\ Room(c.src, c.n) /\ (c.dst <= c.src \/ c.src + c.n <= c.dst)
    [] c.fn = "memset" -> Room(c.dst, c.n)
    [] c.fn = "memsetw" -> Room(c.dst, 2 * c.n)
    [] c.fn \in {"strcpy", "strncpy"} ->
         LET k == strlen(m, c.src) + 1 IN Room(c.dst, k) /\ Apart(c.dst, k, c.src, k)
    [] c.fn = "strcat" ->
         LET k == strlen(m, c.src) + 1
             n == strlen(m, c.dst) + k
         IN Room(c.dst, n) /\ Apart(c.dst, n, c.src, k)
    [] OTHER -> TRUE

Init ==
  /\ call \in Calls
  /\ before \in Memories
  /\ Legal(call, before)
  /\ mem = before /\ ret = NIL /\ returned = FALSE

Call ==
  /\ ~returned /\ returned' = TRUE
  /\ \/ call.fn = "memcpy" /\ mem' = memcpy(mem, call.dst, call.src, call.n) /\ ret' = call.dst
     \/ call.fn = "memmove" /\ mem' = memmove(mem, call.dst, call.src, call.n) /\ ret' = call.dst
     \/ call.fn = "memset" /\ mem' = memset(mem, call.dst, 2, call.n) /\ ret' = call.dst
     \/ call.fn = "memsetw" /\ mem' = memsetw(mem, call.dst, 258, call.n) /\ ret' = call.dst
     \/ LET r == strncpy(mem, call.dst, call.src, call.n)
        IN call.fn = "strncpy" /\ mem' = r.mem /\ ret' = r.ret
     \/ LET r == strcpy(mem, call.dst, call.src)
        IN call.fn = "strcpy" /\ mem' = r.mem /\ ret' = r.ret
     \/ call.fn = "strcat" /\ mem' = strcat(mem, call.dst, call.src) /\ ret' = NIL
     \/ call.fn = "strcmp" /\ ret' = strcmp(mem, call.dst, call.src) /\ UNCHANGED mem
     \/ call.fn = "strncmp" /\ ret' = strncmp(mem, call.dst, call.src, call.n) /\ UNCHANGED mem
     \/ call.fn = "strstr" /\ ret' = strstr(mem, call.dst, call.src) /\ UNCHANGED mem
     \/ call.fn = "printf" /\ ret' = printf(call.format, call.arg) /\ UNCHANGED mem
  /\ UNCHANGED <<call, before>>

Next == Call
----------------------------------------------------------------------------
(* References.                                                             *)
Text(m, at) == SubSeq([i \in 1 .. MemSize |-> m[i - 1]], at + 1, at + strlen(m, at))

\* Memory m with the bytes of s at address at.
With(m, at, s) == [i \in DOMAIN m |-> IF i \in at .. at + Len(s) - 1 THEN s[i - at + 1] ELSE m[i]]

RECURSIVE Numeral(_, _)
Numeral(v, radix) ==
  (IF v < radix THEN <<>> ELSE Numeral(v \div radix, radix))
  \o <<IF v % radix < 10 THEN 48 + (v % radix) ELSE 87 + (v % radix)>>

\* The text of one item of a format: right-justified in its width.
ItemText(i) ==
  LET s == CASE i.kind = 100 -> Numeral(i.arg[1], 10) [] i.kind = 120 -> Numeral(i.arg[1], 16)
             [] i.kind = 115 -> IF i.arg = <<>> THEN Null ELSE Tail(i.arg) [] OTHER -> i.arg
  IN Padding(i.width - Len(s), IF i.zero THEN 48 ELSE 32) \o s

First(m, in, s) ==
  LET t == Text(m, in)
      at == {i \in 0 .. Len(t) : /\ i + Len(s) <= Len(t)
                                 /\ \A k \in 1 .. Len(s) : t[i + k] = s[k]}
  IN IF at = {} THEN NIL ELSE in + Min(at)

\* The sign of the first difference within n characters; shorter strings come first.
Order(s, t, n) ==
  LET a == Append(s, 0)
      b == Append(t, 0)
      d == {i \in 1 .. n : i <= Len(a) /\ i <= Len(b) /\ a[i] # b[i]}
  IN IF d = {} THEN 0 ELSE a[Min(d)] - b[Min(d)]

(***************************************************************************)
(* Every call leaves in memory, and returns, what its name promises: a     *)
(* copy moves the bytes as they were, also down over themselves, and only  *)
(* those; strings are joined, ordered and found as sequences; the text of  *)
(* a format is its items', numbers that are not negative in positional     *)
(* notation, each in its width (string.c:5-298).                           *)
(***************************************************************************)
StringsAgree ==
  returned =>
    LET d == call.dst
        s == call.src
        old == [i \in 1 .. MemSize |-> before[i - 1]]
    IN CASE call.fn \in {"memcpy", "memmove"} ->
              mem = With(before, d, SubSeq(old, s + 1, s + call.n)) /\ ret = d
         [] call.fn = "memset" -> mem = With(before, d, Padding(call.n, 2))
         [] call.fn = "memsetw" ->
              mem = With(before, d, [i \in 1 .. 2 * call.n |-> IF i % 2 = 1 THEN 2 ELSE 1])
         [] call.fn = "strcpy" ->
              mem = With(before, d, Append(Text(before, s), 0)) /\ ret = Len(Text(before, s))
         [] call.fn = "strncpy" ->
              LET t == Append(Text(before, s), 0)
                  n == Min({call.n, MaxCopy, Len(t)})
              IN mem = With(before, d, SubSeq(t, 1, n)) /\ (n < MaxCopy => ret = d)
         [] call.fn = "strcat" ->
              mem = With(before, d, Append(Text(before, d) \o Text(before, s), 0))
         [] call.fn = "strcmp" -> ret = IF Text(before, d) = Text(before, s) THEN 0 ELSE 1
         [] call.fn = "strncmp" -> ret = Order(Text(before, d), Text(before, s), call.n)
         [] call.fn = "strstr" -> ret = First(before, d, Text(before, s))
         [] call.fn = "printf" -> ret = FlattenSeq([i \in 1 .. Len(call.items) |-> ItemText(call.items[i])])
============================================================================
