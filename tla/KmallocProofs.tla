---------------------------- MODULE KmallocProofs ---------------------------
(***************************************************************************)
(* The boundary-tag heap of kmalloc.c, proved for every size of the chunks *)
(* and of the memory, every set of requests and any number of blocks held. *)
(***************************************************************************)
EXTENDS Kmalloc, NatLemmas, TLAPS

\* A chunk has room for the two tags of a block (CHUNKSIZE is 4096 in the code), and a heap
\* starts at an aligned address that is not NULL.
Sized ==
  /\ CHUNKSIZE \in Nat /\ CHUNKSIZE >= WSIZE /\ Requests \subseteq Nat
  /\ SignBit \in Nat /\ \A a \in HeapStarts : a \in Nat /\ a % 8 = 0 /\ a # 0

Eights == {n \in Nat : n % 8 = 0}

\* The header and the footer of block a hold its size n and its mark v.
Tagged(w, a, n, v) ==
  /\ a - 4 \in DOMAIN w /\ a + n - 8 \in DOMAIN w
  /\ w[a - 4] = n + v /\ w[a + n - 8] = n + v

\* The memory w is laid out in blocks, from the prologue at L to the epilogue below brk; a
\* block other than the prologue has a block before it.
Layout(w, B, sz, al, brk, L) ==
  /\ B \subseteq Nat /\ sz \in [B -> Eights \ {0}] /\ al \in [B -> {0, 1}]
  /\ brk \in Eights /\ brk - 4 \in DOMAIN w /\ w[brk - 4] = 1
  /\ L \in B /\ L >= 16
  /\ \A a \in B : /\ a \in Eights /\ a >= L /\ Tagged(w, a, sz[a], al[a])
                  /\ a + sz[a] \in B \cup {brk} /\ a + sz[a] <= brk
  /\ \A a, b \in B : a < b => a + sz[a] <= b
  /\ \A b \in B \cup {brk} : b = L \/ \E a \in B : a + sz[a] = b

\* What callers hold are marked blocks, large enough, each held once, and not the prologue.
Lives(B, sz, al, L) ==
  /\ \A b \in mm_live : /\ b[1] \in B \ {L} /\ al[b[1]] = 1
                     /\ b[2] \in Nat \ {0} /\ b[2] + 8 <= sz[b[1]]
  /\ \A b, c \in mm_live : b[1] = c[1] => b = c

\* The epilogue stands below the break, or below where the break was when an extension was refused.
TopAt(top) == top <= mem_brk /\ (top = mem_brk \/ SignBit <= top)

\* The inductive invariant.
MmInv ==
  /\ mm_state \in {"boot", "ready", "failed", "panic"}
  /\ mm_state = "boot" => heap_listp = 0 /\ mem_brk \in HeapStarts
  /\ heap_listp = 0 => mm_state \in {"boot", "panic"} /\ word = [a \in {} |-> a] /\ mm_live = {}
  /\ heap_listp # 0 =>
       /\ mem_brk \in Nat
       /\ \E B, sz, al, top : /\ Layout(word, B, sz, al, top, heap_listp) /\ TopAt(top)
                            /\ Lives(B, sz, al, heap_listp)

-----------------------------------------------------------------------------
(* Multiples of eight.                                                      *)

LEMMA EightsAre ==
  ASSUME NEW n \in Eights
  PROVE  \E q \in Nat : n = q * 8
  <1>1. n \in Nat /\ n % 8 = 0 /\ 8 \in Nat \ {0}
    BY DEF Eights
  <1>2. n \div 8 \in Nat /\ n = (n \div 8) * 8 + (n % 8)
    BY <1>1, DivMod
  <1> QED BY <1>1, <1>2

LEMMA EightTimes ==
  ASSUME NEW q \in Nat
  PROVE  q * 8 \in Eights
  <1>1. 8 \in Nat \ {0} /\ 0 \in 0 .. 8 - 1
    OBVIOUS
  <1>2. (q * 8 + 0) % 8 = 0
    BY <1>1, DivModUnique
  <1>3. q * 8 \in Nat /\ q * 8 + 0 = q * 8
    OBVIOUS
  <1> QED BY <1>2, <1>3 DEF Eights

LEMMA EightsSum ==
  ASSUME NEW m \in Eights, NEW n \in Eights
  PROVE  /\ m + n \in Eights /\ (n <= m => m - n \in Eights) /\ m \in Nat /\ n \in Nat
         /\ n # 0 => n >= 8
         /\ m < n => m + 8 <= n
  <1>1. PICK p \in Nat : m = p * 8
    BY EightsAre
  <1>2. PICK q \in Nat : n = q * 8
    BY EightsAre
  <1>3. p + q \in Nat /\ (p + q) * 8 = m + n
    BY <1>1, <1>2
  <1>4. n <= m => p - q \in Nat /\ (p - q) * 8 = m - n
    BY <1>1, <1>2
  <1>5. m + n \in Eights
    BY <1>3, EightTimes
  <1>6. n <= m => m - n \in Eights
    BY <1>4, EightTimes
  <1> QED BY <1>1, <1>2, <1>5, <1>6 DEF Eights

\* Size and mark, read back from a word.
LEMMA MarkIs ==
  ASSUME NEW n \in Eights, NEW v \in {0, 1}
  PROVE  (n + v) % 8 = v /\ (n + v) % 2 = v /\ n \in Nat
  <1>1. PICK q \in Nat : n = q * 8
    BY EightsAre
  <1>2. (q * 8 + v) % 8 = v
    <2>1. 8 \in Nat \ {0} /\ v \in 0 .. 8 - 1
      OBVIOUS
    <2> QED BY <2>1, DivModUnique
  <1>3. ((q * 4) * 2 + v) % 2 = v
    <2>1. 2 \in Nat \ {0} /\ v \in 0 .. 2 - 1 /\ q * 4 \in Nat
      OBVIOUS
    <2> QED BY <2>1, DivModUnique
  <1>4. (q * 4) * 2 + v = n + v /\ n \in Nat
    BY <1>1
  <1> QED BY <1>1, <1>2, <1>3, <1>4

LEMMA WordIs ==
  ASSUME NEW w, NEW p, NEW n \in Eights, NEW v \in {0, 1}, w[p] = n + v
  PROVE  GET_SIZE(w, p) = n /\ GET_ALLOC(w, p) = n
  <1>1. (n + v) % 8 = v /\ (n + v) % 2 = v /\ n \in Nat
    BY MarkIs
  <1>2. (n + v) - v = n
    BY <1>1
  <1> QED BY <1>1, <1>2 DEF GET_SIZE, GET_ALLOC

-----------------------------------------------------------------------------
(* Storing tags.                                                            *)

LEMMA PutIs ==
  ASSUME NEW w, NEW p, NEW val
  PROVE  /\ DOMAIN PUT(w, p, val) = DOMAIN w \cup {p} /\ PUT(w, p, val)[p] = val
         /\ \A q \in DOMAIN w : q # p => PUT(w, p, val)[q] = w[q]
  BY DEF PUT

LEMMA TagIs ==
  ASSUME NEW w, NEW a \in Nat, NEW n \in Eights \ {0}, NEW v \in {0, 1}
  PROVE  /\ Tagged(Tag(w, a, n, v), a, n, v)
         /\ DOMAIN Tag(w, a, n, v) = DOMAIN w \cup {a - 4, a + n - 8}
         /\ \A q \in DOMAIN w : q # a - 4 /\ q # a + n - 8 => Tag(w, a, n, v)[q] = w[q]
  <1> DEFINE h == PUT(w, a - 4, n + v)
             t == PUT(h, a + n - 8, n + v)
  <1>1. /\ DOMAIN h = DOMAIN w \cup {a - 4} /\ h[a - 4] = n + v
        /\ \A q \in DOMAIN w : q # a - 4 => h[q] = w[q]
    BY DEF PUT
  <1> HIDE DEF h
  <1>2. /\ DOMAIN t = DOMAIN h \cup {a + n - 8} /\ t[a + n - 8] = n + v
        /\ \A q \in DOMAIN h : q # a + n - 8 => t[q] = h[q]
    BY DEF PUT
  <1>3. GET_SIZE(h, a - 4) = n
    BY <1>1, WordIs
  <1>4. n \in Nat /\ n >= 8
    <2>1. n \in Eights /\ n # 0
      OBVIOUS
    <2> QED BY <2>1, EightsSum
  <1>5. a - 4 # a + n - 8
    BY <1>4
  <1>6. Tag(w, a, n, v) = t
    BY <1>3 DEF Tag, FTRP, HDRP, PACK, WSIZE, DSIZE, h
  <1> HIDE DEF t
  <1>7. t[a - 4] = n + v
    BY <1>1, <1>2, <1>5
  <1>8. DOMAIN t = DOMAIN w \cup {a - 4, a + n - 8}
    BY <1>1, <1>2
  <1>9. \A q \in DOMAIN w : q # a - 4 /\ q # a + n - 8 => t[q] = w[q]
    BY <1>1, <1>2
  <1> QED BY <1>2, <1>6, <1>7, <1>8, <1>9 DEF Tagged

\* What a block says of itself.
LEMMA BlockIs ==
  ASSUME NEW w, NEW B, NEW sz, NEW al, NEW brk, NEW L, Layout(w, B, sz, al, brk, L), NEW a \in B
  PROVE  /\ a \in Eights /\ a \in Nat /\ a >= L /\ sz[a] \in Eights \ {0} /\ sz[a] \in Nat /\ sz[a] >= 8
         /\ al[a] \in {0, 1} /\ Tagged(w, a, sz[a], al[a])
         /\ GET_SIZE(w, HDRP(a)) = sz[a] /\ GET_ALLOC(w, HDRP(a)) # 0 /\ w[HDRP(a)] % 2 = al[a]
         /\ NEXT_BLKP(w, a) = a + sz[a] /\ a + sz[a] \in B \cup {brk} /\ a + sz[a] <= brk
         /\ GET_SIZE(w, FTRP(w, a)) = sz[a] /\ GET_ALLOC(w, FTRP(w, a)) # 0
         /\ FTRP(w, a) = a + sz[a] - 8 /\ w[HDRP(a)] = w[FTRP(w, a)]
  <1>1. /\ a \in Eights /\ a >= L /\ sz[a] \in Eights /\ sz[a] # 0 /\ al[a] \in {0, 1}
        /\ Tagged(w, a, sz[a], al[a]) /\ a + sz[a] \in B \cup {brk} /\ a + sz[a] <= brk
    BY DEF Layout
  <1>2. a \in Nat /\ sz[a] \in Nat /\ sz[a] >= 8
    BY <1>1, EightsSum
  <1>3. w[a - 4] = sz[a] + al[a] /\ w[a + sz[a] - 8] = sz[a] + al[a]
    BY <1>1 DEF Tagged
  <1>4. GET_SIZE(w, a - 4) = sz[a] /\ w[a - 4] % 2 = al[a] /\ GET_ALLOC(w, a - 4) # 0
    <2>1. GET_SIZE(w, a - 4) = sz[a] /\ GET_ALLOC(w, a - 4) = sz[a]
      <3> DEFINE p == a - 4  n == sz[a]  v == al[a]
      <3>1. n \in Eights /\ v \in {0, 1} /\ w[p] = n + v
        BY <1>1, <1>3
      <3> HIDE DEF p, n, v
      <3>2. GET_SIZE(w, p) = n /\ GET_ALLOC(w, p) = n
        BY <3>1, WordIs
      <3> QED BY <3>2 DEF p, n
    <2>2. (sz[a] + al[a]) % 2 = al[a]
      BY <1>1, MarkIs
    <2> QED BY <1>1, <1>3, <2>1, <2>2
  <1>5. GET_SIZE(w, a + sz[a] - 8) = sz[a] /\ GET_ALLOC(w, a + sz[a] - 8) # 0
    <2>1. GET_SIZE(w, a + sz[a] - 8) = sz[a] /\ GET_ALLOC(w, a + sz[a] - 8) = sz[a]
      <3> DEFINE p == a + sz[a] - 8  n == sz[a]  v == al[a]
      <3>1. n \in Eights /\ v \in {0, 1} /\ w[p] = n + v
        BY <1>1, <1>3
      <3> HIDE DEF p, n, v
      <3>2. GET_SIZE(w, p) = n /\ GET_ALLOC(w, p) = n
        BY <3>1, WordIs
      <3> QED BY <3>2 DEF p, n
    <2> QED BY <1>1, <2>1
  <1>6. HDRP(a) = a - 4
    BY DEF HDRP, WSIZE
  <1>7. NEXT_BLKP(w, a) = a + sz[a] /\ FTRP(w, a) = a + sz[a] - 8
    BY <1>4, <1>6 DEF NEXT_BLKP, FTRP, DSIZE
  <1> QED BY <1>1, <1>2, <1>3, <1>4, <1>5, <1>6, <1>7

LEMMA FooterIs ==
  ASSUME NEW w, NEW B, NEW sz, NEW al, NEW brk, NEW L, Layout(w, B, sz, al, brk, L), NEW a \in B
  PROVE  /\ a \in Nat /\ sz[a] \in Nat /\ GET_SIZE(w, FTRP(w, a)) = sz[a]
         /\ GET_ALLOC(w, FTRP(w, a)) # 0 /\ FTRP(w, a) = a + sz[a] - 8
  BY BlockIs

LEMMA BlocksAre ==
  ASSUME NEW w, NEW B, NEW sz, NEW al, NEW brk, NEW L, Layout(w, B, sz, al, brk, L)
  PROVE  \A a \in B : /\ a \in Nat /\ a >= L /\ sz[a] \in Nat /\ sz[a] >= 8 /\ a + sz[a] <= brk /\ a \in Eights
                    /\ a + sz[a] \in B \cup {brk}
  BY BlockIs

\* The epilogue.
LEMMA BreakIs ==
  ASSUME NEW w, NEW B, NEW sz, NEW al, NEW brk, NEW L, Layout(w, B, sz, al, brk, L)
  PROVE  /\ brk \in Nat /\ brk \in Eights /\ brk >= 24 /\ brk >= L + 8 /\ L \in Nat /\ brk \notin B
         /\ GET_SIZE(w, HDRP(brk)) = 0 /\ GET_ALLOC(w, HDRP(brk)) = 0 /\ NEXT_BLKP(w, brk) = brk
  <1>1. brk \in Eights /\ brk \in Nat /\ L \in B /\ w[brk - 4] = 0 + 1
    BY DEF Layout, Eights
  <1>2. 0 \in Eights
    <2>1. 0 * 8 = 0 /\ 0 \in Nat
      OBVIOUS
    <2> QED BY <2>1, EightTimes
  <1>3. GET_SIZE(w, brk - 4) = 0 /\ GET_ALLOC(w, brk - 4) = 0
    BY <1>1, <1>2, WordIs
  <1>4. \A a \in B : a \in Nat /\ sz[a] \in Nat /\ sz[a] >= 8 /\ a + sz[a] <= brk
    BY BlockIs
  <1>5. brk >= 24 /\ brk >= L + 8 /\ L \in Nat /\ brk \notin B
    BY <1>1, <1>4 DEF Layout
  <1>6. HDRP(brk) = brk - 4
    BY DEF HDRP, WSIZE
  <1>7. NEXT_BLKP(w, brk) = brk
    BY <1>1, <1>3, <1>6 DEF NEXT_BLKP
  <1> QED BY <1>1, <1>3, <1>5, <1>6, <1>7

\* The tags of different blocks, and the epilogue, are different words.
LEMMA WordsApart ==
  ASSUME NEW w, NEW B, NEW sz, NEW al, NEW brk, NEW L, Layout(w, B, sz, al, brk, L), NEW a \in B
  PROVE  /\ brk - 4 # a - 4 /\ brk - 4 # a + sz[a] - 8
         /\ \A b \in B : b # a => /\ b - 4 # a - 4 /\ b - 4 # a + sz[a] - 8
                                  /\ b + sz[b] - 8 # a - 4 /\ b + sz[b] - 8 # a + sz[a] - 8
  <1>1. \A b \in B : b \in Nat /\ sz[b] \in Nat /\ sz[b] >= 8 /\ b + sz[b] <= brk
    BY BlockIs
  <1>2. brk \in Nat
    BY BreakIs
  <1>3. \A b \in B : (a < b => a + sz[a] <= b) /\ (b < a => b + sz[b] <= a)
    BY DEF Layout
  <1>4. brk - 4 # a - 4 /\ brk - 4 # a + sz[a] - 8
    BY <1>1, <1>2
  <1>5. ASSUME NEW b \in B, b # a
        PROVE  /\ b - 4 # a - 4 /\ b - 4 # a + sz[a] - 8
               /\ b + sz[b] - 8 # a - 4 /\ b + sz[b] - 8 # a + sz[a] - 8
    BY <1>1, <1>3, <1>5
  <1> QED BY <1>4, <1>5

\* Writing the mark of a block.
LEMMA Retag ==
  ASSUME NEW w, NEW B, NEW sz, NEW al, NEW brk, NEW L, Layout(w, B, sz, al, brk, L),
         NEW bp \in B, NEW v \in {0, 1}
  PROVE  Layout(Tag(w, bp, sz[bp], v), B, sz, [al EXCEPT ![bp] = v], brk, L)
  <1> DEFINE t == Tag(w, bp, sz[bp], v)
             al2 == [al EXCEPT ![bp] = v]
  <1>1. bp \in Nat /\ sz[bp] \in Eights \ {0}
    BY BlockIs
  <1>2. /\ Tagged(t, bp, sz[bp], v)
        /\ DOMAIN t = DOMAIN w \cup {bp - 4, bp + sz[bp] - 8}
        /\ \A q \in DOMAIN w : q # bp - 4 /\ q # bp + sz[bp] - 8 => t[q] = w[q]
    BY <1>1, TagIs
  <1>3. al \in [B -> {0, 1}] /\ brk - 4 \in DOMAIN w /\ w[brk - 4] = 1
    BY DEF Layout
  <1>4. al2 \in [B -> {0, 1}] /\ al2[bp] = v /\ \A b \in B : b # bp => al2[b] = al[b]
    BY <1>3
  <1> HIDE DEF t, al2
  <1>5. brk - 4 \in DOMAIN t /\ t[brk - 4] = 1
    BY <1>2, <1>3, WordsApart
  <1>6. ASSUME NEW a \in B PROVE Tagged(t, a, sz[a], al2[a])
    <2>1. CASE a = bp
      BY <1>2, <1>4, <2>1
    <2>2. CASE a # bp
      <3>1. Tagged(w, a, sz[a], al[a])
        BY BlockIs
      <3>2. /\ a - 4 # bp - 4 /\ a - 4 # bp + sz[bp] - 8
            /\ a + sz[a] - 8 # bp - 4 /\ a + sz[a] - 8 # bp + sz[bp] - 8
        BY <2>2, WordsApart
      <3>3. al2[a] = al[a]
        BY <1>4, <2>2
      <3> QED BY <1>2, <3>1, <3>2, <3>3 DEF Tagged
    <2> QED BY <2>1, <2>2
  <1>7. Layout(t, B, sz, al2, brk, L)
    BY <1>4, <1>5, <1>6 DEF Layout
  <1> QED BY <1>7 DEF t, al2

\* Coalescing never finds a neighbour free but the epilogue, which adds nothing.
LEMMA CoalesceIs ==
  ASSUME NEW w, NEW B, NEW sz, NEW al, NEW brk, NEW L, Layout(w, B, sz, al, brk, L),
         NEW bp \in B, bp # L, al[bp] = 0
  PROVE  coalesce(w, bp)[2] = bp /\ Layout(coalesce(w, bp)[1], B, sz, al, brk, L)
  <1>1. PICK a \in B : a + sz[a] = bp
    BY DEF Layout
  <1>2. /\ a \in Nat /\ sz[a] \in Nat /\ GET_SIZE(w, FTRP(w, a)) = sz[a]
        /\ GET_ALLOC(w, FTRP(w, a)) # 0 /\ FTRP(w, a) = a + sz[a] - 8
    BY FooterIs
  <1>3. PREV_BLKP(w, bp) = a
    <2>1. FTRP(w, a) = bp - DSIZE
      BY <1>1, <1>2 DEF DSIZE
    <2>2. bp - sz[a] = a
      BY <1>1, <1>2
    <2> QED BY <1>2, <2>1, <2>2 DEF PREV_BLKP
  <1>4. GET_ALLOC(w, FTRP(w, PREV_BLKP(w, bp))) # 0
    BY <1>2, <1>3
  <1>5. /\ NEXT_BLKP(w, bp) = bp + sz[bp] /\ GET_SIZE(w, HDRP(bp)) = sz[bp]
        /\ bp + sz[bp] \in B \cup {brk} /\ sz[bp] \in Nat
    BY BlockIs
  <1>6. CASE bp + sz[bp] \in B
    <2>1. GET_ALLOC(w, HDRP(NEXT_BLKP(w, bp))) # 0
      BY <1>5, <1>6, BlockIs
    <2>2. coalesce(w, bp) = <<w, bp>>
      BY <1>4, <2>1 DEF coalesce
    <2> QED BY <2>2
  <1>7. CASE bp + sz[bp] = brk
    <2>1. GET_ALLOC(w, HDRP(NEXT_BLKP(w, bp))) = 0 /\ GET_SIZE(w, HDRP(NEXT_BLKP(w, bp))) = 0
      BY <1>5, <1>7, BreakIs
    <2>2. coalesce(w, bp) = <<Tag(w, bp, GET_SIZE(w, HDRP(bp)) + GET_SIZE(w, HDRP(NEXT_BLKP(w, bp))), 0), bp>>
      BY <1>4, <2>1 DEF coalesce
    <2>3. GET_SIZE(w, HDRP(bp)) + GET_SIZE(w, HDRP(NEXT_BLKP(w, bp))) = sz[bp]
      BY <1>5, <2>1
    <2>4. coalesce(w, bp) = <<Tag(w, bp, sz[bp], 0), bp>>
      BY <2>2, <2>3
    <2>5. [al EXCEPT ![bp] = 0] = al
      BY DEF Layout
    <2>6. 0 \in {0, 1}
      OBVIOUS
    <2>7. Layout(Tag(w, bp, sz[bp], 0), B, sz, [al EXCEPT ![bp] = 0], brk, L)
      BY <2>6, Retag
    <2> QED BY <2>4, <2>5, <2>7
  <1> QED BY <1>5, <1>6, <1>7

\* New memory becomes a free block in place of the epilogue.
LEMMA ExtendIs ==
  ASSUME NEW w, NEW B, NEW sz, NEW al, NEW brk, NEW L, Layout(w, B, sz, al, brk, L), NEW n \in Eights \ {0}
  PROVE  Layout(Extend(w, brk, n), B \cup {brk}, [a \in B \cup {brk} |-> IF a = brk THEN n ELSE sz[a]],
                [a \in B \cup {brk} |-> IF a = brk THEN 0 ELSE al[a]], brk + n, L)
  <1> DEFINE B2 == B \cup {brk}
             sz2 == [a \in B2 |-> IF a = brk THEN n ELSE sz[a]]
             al2 == [a \in B2 |-> IF a = brk THEN 0 ELSE al[a]]
             t == Tag(w, brk, n, 0)
             u == PUT(t, brk + n - 4, 1)
  <1>1. brk \in Nat /\ brk \in Eights /\ brk >= 24 /\ brk \notin B
    BY BreakIs
  <1>2. n \in Eights /\ n # 0 /\ n \in Nat /\ n >= 8 /\ brk + n \in Eights
    <2>1. n \in Eights /\ n # 0
      OBVIOUS
    <2> QED BY <1>1, <2>1, EightsSum
  <1>3. /\ Tagged(t, brk, n, 0) /\ DOMAIN t = DOMAIN w \cup {brk - 4, brk + n - 8}
        /\ \A q \in DOMAIN w : q # brk - 4 /\ q # brk + n - 8 => t[q] = w[q]
    BY <1>1, TagIs
  <1> HIDE DEF t
  <1>4. GET_SIZE(t, HDRP(brk)) = n
    <2>1. t[brk - 4] = n + 0 /\ 0 \in {0, 1}
      BY <1>3 DEF Tagged
    <2>2. GET_SIZE(t, brk - 4) = n
      BY <1>2, <2>1, WordIs
    <2> QED BY <2>2 DEF HDRP, WSIZE
  <1>5. Extend(w, brk, n) = u
    <2>1. NEXT_BLKP(t, brk) = brk + n
      BY <1>4 DEF NEXT_BLKP
    <2>2. PACK(0, 1) = 1
      BY DEF PACK
    <2>3. HDRP(NEXT_BLKP(t, brk)) = brk + n - 4
      BY <1>1, <1>2, <2>1 DEF HDRP, WSIZE
    <2>4. PUT(t, HDRP(NEXT_BLKP(t, brk)), PACK(0, 1)) = u
      BY <2>2, <2>3
    <2> QED BY <2>4 DEF Extend, t
  <1>6. /\ DOMAIN u = DOMAIN t \cup {brk + n - 4} /\ u[brk + n - 4] = 1
        /\ \A q \in DOMAIN t : q # brk + n - 4 => u[q] = t[q]
    BY DEF PUT
  <1> HIDE DEF u
  <1>7. sz2 \in [B2 -> Eights \ {0}] /\ al2 \in [B2 -> {0, 1}] /\ B2 \subseteq Nat
    BY <1>1 DEF Layout
  <1>8. /\ sz2[brk] = n /\ al2[brk] = 0
        /\ \A a \in B : sz2[a] = sz[a] /\ al2[a] = al[a] /\ a # brk
    BY <1>1
  <1>9. \A a \in B : a \in Nat /\ a >= L /\ sz[a] \in Nat /\ sz[a] >= 8 /\ a + sz[a] <= brk /\ a \in Eights
    BY BlockIs
  <1> HIDE DEF sz2, al2
  <1>10. ASSUME NEW a \in B2 PROVE Tagged(u, a, sz2[a], al2[a])
    <2>1. CASE a = brk
      <3>1. Tagged(t, brk, n, 0) /\ brk - 4 # brk + n - 4 /\ brk + n - 8 # brk + n - 4
        BY <1>1, <1>2, <1>3
      <3>2. Tagged(u, brk, n, 0)
        BY <1>6, <3>1 DEF Tagged
      <3> QED BY <1>8, <2>1, <3>2
    <2>2. CASE a \in B
      <3>1. Tagged(w, a, sz[a], al[a])
        BY <2>2, BlockIs
      <3>2. /\ a - 4 # brk - 4 /\ a - 4 # brk + n - 8 /\ a - 4 # brk + n - 4
            /\ a + sz[a] - 8 # brk - 4 /\ a + sz[a] - 8 # brk + n - 8 /\ a + sz[a] - 8 # brk + n - 4
        BY <1>1, <1>2, <1>9, <2>2
      <3>3. Tagged(u, a, sz[a], al[a])
        BY <1>3, <1>6, <3>1, <3>2 DEF Tagged
      <3> QED BY <1>8, <2>2, <3>3
    <2> QED BY <2>1, <2>2
  <1>11. \A a \in B2 : /\ a \in Eights /\ a >= L /\ a + sz2[a] \in B2 \cup {brk + n}
                       /\ a + sz2[a] <= brk + n
    <2>1. \A a \in B : a + sz[a] \in B \cup {brk}
      BY BlockIs
    <2>2. brk >= L /\ L \in Nat
      BY <1>1, BreakIs
    <2> QED BY <1>1, <1>2, <1>8, <1>9, <2>1, <2>2
  <1>12. \A a, b \in B2 : a < b => a + sz2[a] <= b
    <2>1. \A a, b \in B : a < b => a + sz[a] <= b
      BY DEF Layout
    <2> QED BY <1>1, <1>2, <1>8, <1>9, <2>1
  <1>13. \A b \in B2 \cup {brk + n} : b = L \/ \E a \in B2 : a + sz2[a] = b
    <2>1. \A b \in B \cup {brk} : b = L \/ \E a \in B : a + sz[a] = b
      BY DEF Layout
    <2>2. \A b \in B \cup {brk} : b = L \/ \E a \in B2 : a + sz2[a] = b
      BY <1>8, <2>1
    <2>3. brk \in B2 /\ brk + sz2[brk] = brk + n
      BY <1>8
    <2> QED BY <2>2, <2>3
  <1>14. L \in B2 /\ brk + n - 4 \in DOMAIN u /\ u[brk + n - 4] = 1
    BY <1>6 DEF Layout
  <1>15. Layout(u, B2, sz2, al2, brk + n, L)
    BY <1>2, <1>7, <1>10, <1>11, <1>12, <1>13, <1>14 DEF Layout
  <1> QED BY <1>5, <1>15 DEF sz2, al2

\* ... and coalescing leaves it there.
LEMMA ExtendHeapAt ==
  ASSUME NEW w, NEW B, NEW sz, NEW al, NEW brk, NEW L, Layout(w, B, sz, al, brk, L), NEW n \in Eights \ {0}
  PROVE  coalesce(Extend(w, brk, n), brk)[2] = brk
  <1> DEFINE B2 == B \cup {brk}
             sz2 == [a \in B2 |-> IF a = brk THEN n ELSE sz[a]]
             al2 == [a \in B2 |-> IF a = brk THEN 0 ELSE al[a]]
             u == Extend(w, brk, n)
  <1>1. Layout(u, B2, sz2, al2, brk + n, L)
    BY ExtendIs
  <1>2. brk \in B2 /\ brk # L /\ al2[brk] = 0
    BY BreakIs
  <1> HIDE DEF u, sz2, al2, B2
  <1>3. coalesce(u, brk)[2] = brk
    BY <1>1, <1>2, CoalesceIs
  <1> QED BY <1>3 DEF u

LEMMA ExtendHeapIs ==
  ASSUME NEW w, NEW B, NEW sz, NEW al, NEW brk, NEW L, Layout(w, B, sz, al, brk, L), NEW n \in Eights \ {0}
  PROVE  \E B2, sz2, al2 :
           /\ Layout(coalesce(Extend(w, brk, n), brk)[1], B2, sz2, al2, brk + n, L)
           /\ brk \in B2 /\ sz2[brk] = n /\ brk \notin B /\ brk # L
           /\ \A a \in B : a \in B2 /\ a # brk /\ sz2[a] = sz[a] /\ al2[a] = al[a]
  <1> DEFINE B2 == B \cup {brk}
             sz2 == [a \in B2 |-> IF a = brk THEN n ELSE sz[a]]
             al2 == [a \in B2 |-> IF a = brk THEN 0 ELSE al[a]]
             u == Extend(w, brk, n)
  <1>1. Layout(u, B2, sz2, al2, brk + n, L)
    BY ExtendIs
  <1>2. brk # L /\ brk \notin B
    BY BreakIs
  <1>3. /\ brk \in B2 /\ sz2[brk] = n /\ al2[brk] = 0
        /\ \A a \in B : a \in B2 /\ a # brk /\ sz2[a] = sz[a] /\ al2[a] = al[a]
    BY <1>2
  <1> HIDE DEF u, sz2, al2, B2
  <1>4. Layout(coalesce(u, brk)[1], B2, sz2, al2, brk + n, L)
    BY <1>1, <1>2, <1>3, CoalesceIs
  <1>5. Layout(coalesce(Extend(w, brk, n), brk)[1], B2, sz2, al2, brk + n, L)
    BY <1>4 DEF u
  <1> QED BY <1>2, <1>3, <1>5

\* A block is split in two.
LEMMA SplitIs ==
  ASSUME NEW w, NEW B, NEW sz, NEW al, NEW brk, NEW L, Layout(w, B, sz, al, brk, L),
         NEW bp \in B, NEW n \in Eights \ {0}, n < sz[bp]
  PROVE  Layout(Tag(Tag(w, bp, n, 1), bp + n, sz[bp] - n, 0), B \cup {bp + n},
                [a \in B \cup {bp + n} |-> IF a = bp THEN n ELSE IF a = bp + n THEN sz[bp] - n ELSE sz[a]],
                [a \in B \cup {bp + n} |-> IF a = bp THEN 1 ELSE IF a = bp + n THEN 0 ELSE al[a]], brk, L)
  <1> DEFINE m == sz[bp] - n
             c == bp + n
             B2 == B \cup {c}
             sz2 == [a \in B2 |-> IF a = bp THEN n ELSE IF a = c THEN m ELSE sz[a]]
             al2 == [a \in B2 |-> IF a = bp THEN 1 ELSE IF a = c THEN 0 ELSE al[a]]
             t == Tag(w, bp, n, 1)
             u == Tag(t, c, m, 0)
  <1>1. /\ bp \in Nat /\ bp \in Eights /\ bp >= L /\ sz[bp] \in Nat /\ sz[bp] \in Eights
        /\ bp + sz[bp] <= brk /\ bp + sz[bp] \in B \cup {brk}
    BY BlockIs
  <1>2. /\ n \in Nat /\ n >= 8 /\ m \in Eights /\ m \in Nat /\ m >= 8 /\ m # 0
        /\ c \in Eights /\ c \in Nat /\ n + m = sz[bp] /\ c = bp + n
    <2>1. n \in Eights /\ n # 0
      OBVIOUS
    <2>2. n \in Nat /\ n >= 8 /\ m \in Eights /\ c \in Eights
      <3>1. n \in Nat /\ n >= 8 /\ bp + n \in Eights /\ (n <= sz[bp] => sz[bp] - n \in Eights)
        BY <1>1, <2>1, EightsSum
      <3>2. n <= sz[bp]
        BY <1>1, <3>1
      <3> QED BY <3>1, <3>2
    <2>3. m # 0 /\ m \in Nat
      BY <1>1, <2>2
    <2>4. m >= 8
      BY <2>2, <2>3, EightsSum
    <2> QED BY <1>1, <2>2, <2>3, <2>4
  <1>3. brk \in Nat /\ brk \in Eights /\ L \in Nat
    BY BreakIs
  <1>4. \A a \in B : /\ a \in Nat /\ a >= L /\ sz[a] \in Nat /\ sz[a] >= 8 /\ a + sz[a] <= brk /\ a \in Eights
                     /\ a + sz[a] \in B \cup {brk}
    BY BlocksAre
  <1>5. \A a, b \in B : a < b => a + sz[a] <= b
    BY DEF Layout
  <1>6. c \notin B /\ c # bp /\ c < brk
    BY <1>1, <1>2, <1>3, <1>4, <1>5
  <1>7. /\ Tagged(t, bp, n, 1) /\ DOMAIN t = DOMAIN w \cup {bp - 4, bp + n - 8}
        /\ \A q \in DOMAIN w : q # bp - 4 /\ q # bp + n - 8 => t[q] = w[q]
    <2>1. bp \in Nat /\ n \in Eights \ {0} /\ 1 \in {0, 1}
      BY <1>1
    <2> QED BY <2>1, TagIs, Zenon
  <1> HIDE DEF t, m, c
  <1>8. /\ Tagged(u, c, m, 0) /\ DOMAIN u = DOMAIN t \cup {c - 4, c + m - 8}
        /\ \A q \in DOMAIN t : q # c - 4 /\ q # c + m - 8 => u[q] = t[q]
    <2>1. c \in Nat /\ m \in Eights \ {0} /\ 0 \in {0, 1}
      BY <1>2
    <2> QED BY <2>1, TagIs, Zenon
  <1> HIDE DEF u
  <1>9. sz2 \in [B2 -> Eights \ {0}] /\ al2 \in [B2 -> {0, 1}] /\ B2 \subseteq Nat
    BY <1>2 DEF Layout
  <1>10. /\ sz2[bp] = n /\ al2[bp] = 1 /\ sz2[c] = m /\ al2[c] = 0
         /\ \A a \in B : a # bp => sz2[a] = sz[a] /\ al2[a] = al[a]
    BY <1>6
  <1> HIDE DEF sz2, al2
  <1>11. ASSUME NEW q \in DOMAIN w, q # bp - 4, q # bp + n - 8, q # c - 4, q # c + m - 8
         PROVE  q \in DOMAIN u /\ u[q] = w[q]
    BY <1>7, <1>8, <1>11
  <1>12. ASSUME NEW a \in B2 PROVE Tagged(u, a, sz2[a], al2[a])
    <2>1. CASE a = c
      BY <1>8, <1>10, <2>1
    <2>2. CASE a = bp
      <3>1. bp - 4 # c - 4 /\ bp - 4 # c + m - 8 /\ bp + n - 8 # c - 4 /\ bp + n - 8 # c + m - 8
        BY <1>1, <1>2
      <3>2. Tagged(u, bp, n, 1)
        BY <1>7, <1>8, <3>1 DEF Tagged
      <3> QED BY <1>10, <2>2, <3>2
    <2>3. CASE a \in B /\ a # bp
      <3>1. Tagged(w, a, sz[a], al[a])
        BY <2>3, BlockIs
      <3>2. (a < bp => a + sz[a] <= bp) /\ (bp < a => bp + sz[bp] <= a)
        BY <1>5, <2>3
      <3>3. a \in Nat /\ sz[a] \in Nat /\ sz[a] >= 8
        BY <1>4, <2>3
      <3>4. /\ a - 4 # bp - 4 /\ a - 4 # bp + n - 8 /\ a - 4 # c - 4 /\ a - 4 # c + m - 8
            /\ a + sz[a] - 8 # bp - 4 /\ a + sz[a] - 8 # bp + n - 8
            /\ a + sz[a] - 8 # c - 4 /\ a + sz[a] - 8 # c + m - 8
        BY <1>1, <1>2, <2>3, <3>2, <3>3
      <3>5. Tagged(u, a, sz[a], al[a])
        BY <1>11, <3>1, <3>4 DEF Tagged
      <3> QED BY <1>10, <2>3, <3>5
    <2> QED BY <2>1, <2>2, <2>3
  <1>13. \A a \in B2 : a \in Eights /\ a >= L /\ a + sz2[a] \in B2 \cup {brk} /\ a + sz2[a] <= brk
    BY <1>1, <1>2, <1>3, <1>4, <1>6, <1>10
  <1>14. \A a, b \in B2 : a < b => a + sz2[a] <= b
    BY <1>1, <1>2, <1>4, <1>5, <1>6, <1>10
  <1>15. \A b \in B2 \cup {brk} : b = L \/ \E a \in B2 : a + sz2[a] = b
    <2> SUFFICES ASSUME NEW b \in B2 \cup {brk}, b # L PROVE \E a \in B2 : a + sz2[a] = b
      OBVIOUS
    <2>1. CASE b = c
      BY <1>2, <1>10, <2>1
    <2>2. CASE b # c
      <3>1. PICK a \in B : a + sz[a] = b
        BY <2>2 DEF Layout
      <3>2. CASE a = bp
        <4>1. c + sz2[c] = b
          BY <1>1, <1>2, <1>10, <3>1, <3>2
        <4> QED BY <4>1
      <3>3. CASE a # bp
        BY <1>10, <3>1, <3>3
      <3> QED BY <3>2, <3>3
    <2> QED BY <2>1, <2>2
  <1>16. L \in B2 /\ brk - 4 \in DOMAIN u /\ u[brk - 4] = 1
    <2>1. L \in B /\ brk - 4 \in DOMAIN w /\ w[brk - 4] = 1
      BY DEF Layout
    <2>2. brk - 4 # bp - 4 /\ brk - 4 # bp + n - 8 /\ brk - 4 # c - 4 /\ brk - 4 # c + m - 8
      BY <1>1, <1>2, <1>3
    <2> QED BY <1>11, <2>1, <2>2
  <1>17. Layout(u, B2, sz2, al2, brk, L)
    BY <1>3, <1>9, <1>12, <1>13, <1>14, <1>15, <1>16 DEF Layout
  <1> QED BY <1>17 DEF u, t, sz2, al2, m, c

\* The block that is placed is marked and large enough, and the other blocks stay.
LEMMA PlaceIs ==
  ASSUME NEW w, NEW B, NEW sz, NEW al, NEW brk, NEW L, Layout(w, B, sz, al, brk, L),
         NEW bp \in B, NEW n \in Eights \ {0}, n <= sz[bp]
  PROVE  \E B2, sz2, al2 :
           /\ Layout(place(w, bp, n), B2, sz2, al2, brk, L)
           /\ B \subseteq B2 /\ al2[bp] = 1 /\ n <= sz2[bp]
           /\ \A a \in B : a # bp => sz2[a] = sz[a] /\ al2[a] = al[a]
  <1>1. bp \in Nat /\ sz[bp] \in Nat /\ GET_SIZE(w, HDRP(bp)) = sz[bp]
    BY BlockIs
  <1>2. n \in Nat /\ n >= 8 /\ n \in Eights
    <2>1. n \in Eights /\ n # 0
      OBVIOUS
    <2> QED BY <2>1, EightsSum
  <1>3. CASE sz[bp] - n >= 16
    <2> DEFINE c == bp + n
               B2 == B \cup {c}
               sz2 == [a \in B2 |-> IF a = bp THEN n ELSE IF a = c THEN sz[bp] - n ELSE sz[a]]
               al2 == [a \in B2 |-> IF a = bp THEN 1 ELSE IF a = c THEN 0 ELSE al[a]]
               t == Tag(w, bp, n, 1)
    <2>1. n < sz[bp]
      BY <1>1, <1>2, <1>3
    <2>2. Layout(Tag(t, c, sz[bp] - n, 0), B2, sz2, al2, brk, L)
      BY <2>1, SplitIs
    <2>3. NEXT_BLKP(t, bp) = c
      <3>1. n \in Eights \ {0} /\ 1 \in {0, 1}
        OBVIOUS
      <3>2. Tagged(t, bp, n, 1)
        BY <1>1, <3>1, TagIs, Zenon
      <3>3. GET_SIZE(t, bp - 4) = n
        <4>1. t[bp - 4] = n + 1
          BY <3>2 DEF Tagged
        <4> HIDE DEF t
        <4> QED BY <1>2, <3>1, <4>1, WordIs, Zenon
      <3> HIDE DEF t
      <3> QED BY <3>3 DEF NEXT_BLKP, HDRP, WSIZE
    <2>4. place(w, bp, n) = Tag(t, c, sz[bp] - n, 0)
      BY <1>1, <1>3, <2>3 DEF place, DSIZE, OVERHEAD
    <2>5. c \notin B
      <3>1. \A a \in B : a \in Nat /\ (bp < a => bp + sz[bp] <= a)
        BY DEF Layout
      <3> QED BY <1>1, <1>2, <2>1, <3>1
    <2>6. /\ B \subseteq B2 /\ al2[bp] = 1 /\ n <= sz2[bp]
          /\ \A a \in B : a # bp => sz2[a] = sz[a] /\ al2[a] = al[a]
      BY <1>2, <2>5
    <2> HIDE DEF c, B2, sz2, al2, t
    <2> QED BY <2>2, <2>4, <2>6
  <1>4. CASE ~(sz[bp] - n >= 16)
    <2> DEFINE al2 == [al EXCEPT ![bp] = 1]
    <2>1. 1 \in {0, 1}
      OBVIOUS
    <2>2. Layout(Tag(w, bp, sz[bp], 1), B, sz, al2, brk, L)
      BY <2>1, Retag
    <2>3. place(w, bp, n) = Tag(w, bp, sz[bp], 1)
      BY <1>1, <1>4 DEF place, DSIZE, OVERHEAD
    <2>4. al2[bp] = 1 /\ \A a \in B : a # bp => al2[a] = al[a]
      BY DEF Layout
    <2> HIDE DEF al2
    <2> QED BY <2>2, <2>3, <2>4
  <1> QED BY <1>3, <1>4

-----------------------------------------------------------------------------
(* The sizes of blocks and of extensions.                                   *)

LEMMA EvenIs ==
  ASSUME NEW k \in Nat
  PROVE  Even(k) \in Eights /\ Even(k) >= 4 * k
  <1>1. 2 \in Nat \ {0}
    OBVIOUS
  <1>2. k \div 2 \in Nat /\ k % 2 \in 0 .. 2 - 1 /\ k = (k \div 2) * 2 + (k % 2)
    BY <1>1, DivMod
  <1>3. PICK j \in Nat : j = k \div 2
    BY <1>2
  <1>4. CASE k % 2 = 1
    <2>1. k = j * 2 + 1 /\ (k + 1) * 4 = (j + 1) * 8
      BY <1>2, <1>3, <1>4
    <2>2. Even(k) = (j + 1) * 8
      BY <1>4, <2>1 DEF Even, WSIZE
    <2>3. (j + 1) * 8 \in Eights
      <3>1. j + 1 \in Nat
        OBVIOUS
      <3> QED BY <3>1, EightTimes, Zenon
    <2> QED BY <2>1, <2>2, <2>3
  <1>5. CASE k % 2 # 1
    <2>1. k = j * 2 /\ k * 4 = j * 8
      BY <1>2, <1>3, <1>5
    <2>2. Even(k) = j * 8
      BY <1>5, <2>1 DEF Even, WSIZE
    <2>3. j * 8 \in Eights
      BY EightTimes
    <2> QED BY <2>1, <2>2, <2>3
  <1> QED BY <1>4, <1>5

LEMMA AsizeIs ==
  ASSUME NEW size \in Nat \ {0}
  PROVE  asize(size) \in Eights \ {0} /\ asize(size) >= size + 8
  <1>1. CASE size <= 8
    <2>1. asize(size) = 2 * 8
      BY <1>1 DEF asize, DSIZE, OVERHEAD
    <2>2. 2 * 8 \in Eights
      BY EightTimes
    <2> QED BY <1>1, <2>1, <2>2
  <1>2. CASE ~(size <= 8)
    <2> DEFINE x == size + 8 + (8 - 1)
    <2>1. x \in Nat /\ 8 \in Nat \ {0} /\ x = size + 15
      OBVIOUS
    <2> HIDE DEF x
    <2>2. x \div 8 \in Nat /\ x % 8 \in 0 .. 8 - 1 /\ x = (x \div 8) * 8 + (x % 8)
      BY <2>1, DivMod
    <2>3. PICK q \in Nat : q = x \div 8
      BY <2>2
    <2>4. q * 8 >= size + 8
      BY <2>1, <2>2, <2>3
    <2>5. asize(size) = 8 * q
      BY <1>2, <2>3 DEF asize, DSIZE, OVERHEAD, x
    <2>6. q * 8 \in Eights /\ 8 * q = q * 8
      BY EightTimes
    <2> QED BY <2>4, <2>5, <2>6
  <1> QED BY <1>1, <1>2

LEMMA ChunkIs ==
  ASSUME NEW m \in Nat, m >= 4
  PROVE  /\ Even(m \div 4) \in Eights \ {0}
         /\ \A n \in Eights : n <= m => n <= Even(m \div 4)
  <1>1. 4 \in Nat \ {0}
    OBVIOUS
  <1>2. m \div 4 \in Nat /\ m % 4 \in 0 .. 4 - 1 /\ m = (m \div 4) * 4 + (m % 4)
    BY <1>1, DivMod
  <1>3. PICK k \in Nat : k = m \div 4
    BY <1>2
  <1>4. Even(k) \in Eights /\ Even(k) >= 4 * k
    BY EvenIs
  <1>5. Even(k) \in Nat
    BY <1>4 DEF Eights
  <1>6. k >= 1 /\ m <= 4 * k + 3
    BY <1>2, <1>3
  <1>7. \A n \in Eights : n <= m => n <= Even(k)
    <2> SUFFICES ASSUME NEW n \in Eights, n <= m, ~(n <= Even(k)) PROVE FALSE
      OBVIOUS
    <2>1. n \in Nat /\ (Even(k) < n => Even(k) + 8 <= n)
      BY <1>4, EightsSum
    <2> QED BY <1>4, <1>5, <1>6, <2>1
  <1> QED BY <1>3, <1>4, <1>5, <1>6, <1>7

-----------------------------------------------------------------------------
(* The walk of find_fit and mm_checkheap.                                   *)

\* BlockAt satisfies its defining equation.
LEMMA BlockAtDef ==
  ASSUME NEW B, NEW sz, NEW al, NEW top, Layout(word, B, sz, al, top, heap_listp),
         mem_brk \in Nat, top <= mem_brk
  PROVE  /\ BlockAt(word)[0] = heap_listp
         /\ \A i \in Nat : BlockAt(word)[i + 1] = NEXT_BLKP(word, BlockAt(word)[i])
  <1> DEFINE S == B \cup {top}
             step == [x \in S |-> NEXT_BLKP(word, x)]
             Eqn(f) == f = [i \in Nat |-> IF i = 0 THEN heap_listp ELSE NEXT_BLKP(word, f[i - 1])]
  <1>1. \A x \in S : NEXT_BLKP(word, x) \in S
    <2>1. \A x \in B : NEXT_BLKP(word, x) = x + sz[x] /\ x + sz[x] \in B \cup {top}
      BY BlockIs
    <2>2. NEXT_BLKP(word, top) = top
      BY BreakIs
    <2> QED BY <2>1, <2>2
  <1>2. step \in [S -> S] /\ heap_listp \in S /\ \A x \in S : step[x] = NEXT_BLKP(word, x)
    BY <1>1 DEF Layout
  <1> HIDE DEF step, S
  <1>3. PICK g \in [Nat -> S] : g[0] = heap_listp /\ \A n \in Nat : g[n + 1] = step[g[n]]
    <2>1. \E g \in [Nat -> S] : IsIteration(g, step, heap_listp)
      BY <1>2, IterationExists
    <2> QED BY <2>1 DEF IsIteration
  <1>4. ASSUME NEW i \in Nat
        PROVE  g[i] = IF i = 0 THEN heap_listp ELSE NEXT_BLKP(word, g[i - 1])
    <2>1. CASE i = 0
      BY <1>3, <2>1
    <2>2. CASE i # 0
      <3>1. i - 1 \in Nat /\ (i - 1) + 1 = i
        BY <2>2
      <3>2. g[i] = step[g[i - 1]] /\ g[i - 1] \in S
        BY <1>3, <3>1
      <3> QED BY <1>2, <2>2, <3>2
    <2> QED BY <2>1, <2>2
  <1>5. Eqn(g)
    <2>1. g = [i \in Nat |-> g[i]]
      OBVIOUS
    <2> QED BY <1>4, <2>1
  <1>6. BlockAt(word) = CHOOSE f : Eqn(f)
    BY DEF BlockAt
  <1>7. Eqn(BlockAt(word))
    BY <1>5, <1>6
  <1>8. \A i \in Nat : BlockAt(word)[i] = IF i = 0 THEN heap_listp
                                          ELSE NEXT_BLKP(word, BlockAt(word)[i - 1])
    BY <1>7
  <1>9. BlockAt(word)[0] = heap_listp
    BY <1>8
  <1>10. ASSUME NEW i \in Nat PROVE BlockAt(word)[i + 1] = NEXT_BLKP(word, BlockAt(word)[i])
    <2>1. i + 1 \in Nat /\ i + 1 # 0 /\ (i + 1) - 1 = i
      OBVIOUS
    <2> QED BY <1>8, <2>1
  <1> QED BY <1>9, <1>10

\* The walk steps from block to block, by at least the size of two tags, and reaches the break.
LEMMA WalkGoesUp ==
  ASSUME NEW B, NEW sz, NEW al, NEW top, Layout(word, B, sz, al, top, heap_listp),
         mem_brk \in Nat, top <= mem_brk
  PROVE  \A i \in Nat : /\ BlockAt(word)[i] \in B \cup {top}
                        /\ BlockAt(word)[i] = top \/ BlockAt(word)[i] >= heap_listp + 8 * i
  <1> DEFINE at == BlockAt(word)
             S == {i \in Nat : at[i] \in B \cup {top} /\ (at[i] = top \/ at[i] >= heap_listp + 8 * i)}
  <1>1. at[0] = heap_listp /\ \A i \in Nat : at[i + 1] = NEXT_BLKP(word, at[i])
    BY BlockAtDef
  <1> HIDE DEF at
  <1>2. 0 \in S /\ heap_listp \in Nat
    BY <1>1 DEF Layout
  <1>3. ASSUME NEW n \in S PROVE n + 1 \in S
    <2>1. n \in Nat /\ n + 1 \in Nat /\ at[n + 1] = NEXT_BLKP(word, at[n])
      BY <1>1, <1>3
    <2>2. CASE at[n] = top
      <3>1. at[n + 1] = top
        BY <2>1, <2>2, BreakIs
      <3> QED BY <2>1, <3>1
    <2>3. CASE at[n] # top
      <3>1. at[n] \in B /\ at[n] >= heap_listp + 8 * n
        BY <1>3, <2>3
      <3>2. PICK a \in B : a = at[n]
        BY <3>1
      <3>3. /\ NEXT_BLKP(word, a) = a + sz[a] /\ a \in Nat /\ sz[a] \in Nat /\ sz[a] >= 8
            /\ a + sz[a] \in B \cup {top}
        BY BlockIs
      <3>4. at[n + 1] = a + sz[a] /\ a >= heap_listp + 8 * n
        BY <2>1, <3>1, <3>2, <3>3
      <3>5. a + sz[a] >= heap_listp + 8 * (n + 1)
        BY <1>2, <2>1, <3>3, <3>4
      <3> QED BY <2>1, <3>3, <3>4, <3>5
    <2> QED BY <2>2, <2>3
  <1>4. S = Nat
    <2> HIDE DEF S
    <2>1. S \in SUBSET Nat
      BY DEF S
    <2> QED BY <1>2, <1>3, <2>1, SetInduction
  <1>5. \A i \in Nat : at[i] \in B \cup {top} /\ (at[i] = top \/ at[i] >= heap_listp + 8 * i)
    BY <1>4
  <1> QED BY <1>5 DEF at

\* After as many rounds as there is room for blocks it has reached the break ...
LEMMA WalkEnds ==
  ASSUME NEW B, NEW sz, NEW al, NEW top, Layout(word, B, sz, al, top, heap_listp),
         mem_brk \in Nat, top <= mem_brk
  PROVE  Rounds \in Nat /\ top <= heap_listp + 8 * Rounds /\ BlockAt(word)[Rounds] = top
  <1>1. top \in Eights /\ top \in Nat /\ top >= heap_listp + 8 /\ heap_listp \in Nat
    BY BreakIs
  <1>2. PICK d \in Nat : d = mem_brk - heap_listp
    BY <1>1
  <1>3. d \div 8 \in Nat /\ d % 8 \in 0 .. 8 - 1 /\ d = (d \div 8) * 8 + (d % 8)
    <2>1. 8 \in Nat \ {0}
      OBVIOUS
    <2> QED BY <2>1, DivMod
  <1>4. Rounds = d \div 8
    BY <1>2 DEF Rounds, DSIZE
  <1>5. PICK k \in Nat : k = Rounds
    BY <1>3, <1>4
  <1>6. PICK q \in Nat : top - heap_listp = q * 8
    <2>1. heap_listp \in Eights
      BY BlockIs DEF Layout
    <2>2. top - heap_listp \in Eights
      BY <1>1, <2>1, EightsSum
    <2> QED BY <2>2, EightsAre
  <1>7. q <= k
    <2>1. q * 8 <= k * 8 + 7
      BY <1>1, <1>2, <1>3, <1>4, <1>5, <1>6
    <2> QED BY <2>1
  <1>8. Rounds \in Nat /\ top <= heap_listp + 8 * Rounds
    BY <1>1, <1>5, <1>6, <1>7
  <1>9. /\ BlockAt(word)[Rounds] \in B \cup {top}
        /\ BlockAt(word)[Rounds] = top \/ BlockAt(word)[Rounds] >= heap_listp + 8 * Rounds
    BY <1>8, WalkGoesUp
  <1>10. \A a \in B : a \in Nat /\ a < top
    <2>1. \A a \in B : a \in Nat /\ sz[a] \in Nat /\ sz[a] >= 8 /\ a + sz[a] <= top
      BY BlockIs
    <2> QED BY <1>1, <2>1
  <1>11. BlockAt(word)[Rounds] = top
    <2> SUFFICES ASSUME BlockAt(word)[Rounds] # top PROVE FALSE
      OBVIOUS
    <2>1. PICK a \in B : a = BlockAt(word)[Rounds]
      BY <1>9
    <2>2. a >= heap_listp + 8 * Rounds
      BY <1>9, <2>1
    <2> QED BY <1>1, <1>8, <1>10, <2>2
  <1> QED BY <1>8, <1>11

\* ... and has passed every block.
LEMMA WalkIs ==
  ASSUME NEW B, NEW sz, NEW al, NEW top, Layout(word, B, sz, al, top, heap_listp),
         mem_brk \in Nat, top <= mem_brk
  PROVE  Walk(word) = B
  <1> DEFINE at == BlockAt(word)
             V == {b \in B : \E i \in 0 .. Rounds : at[i] = b}
  <1>1. Rounds \in Nat /\ top <= heap_listp + 8 * Rounds
    BY WalkEnds
  <1>2. \A i \in Nat : at[i] \in B \cup {top} /\ (at[i] = top \/ at[i] >= heap_listp + 8 * i)
    BY WalkGoesUp
  <1>3. at[0] = heap_listp /\ \A i \in Nat : at[i + 1] = NEXT_BLKP(word, at[i])
    BY BlockAtDef
  <1>4. /\ \A b \in B : GET_SIZE(word, HDRP(b)) = sz[b] /\ sz[b] \in Nat /\ sz[b] >= 8 /\ b \in Nat
                        /\ NEXT_BLKP(word, b) = b + sz[b] /\ b + sz[b] <= top
        /\ GET_SIZE(word, HDRP(top)) = 0 /\ top \in Nat /\ heap_listp \in Nat
    BY BlockIs, BreakIs
  <1> HIDE DEF at
  <1>5. B \ V = {}
    <2> SUFFICES ASSUME B \ V # {} PROVE FALSE
      OBVIOUS
    <2>1. B \ V \in SUBSET Nat
      BY <1>4
    <2>2. PICK m \in B \ V : \A k \in B \ V : m <= k
      <3> HIDE DEF V
      <3> QED BY <2>1, LeastNat
    <2>3. m # heap_listp
      BY <1>1, <1>3, <2>2
    <2>4. PICK a \in B : a + sz[a] = m
      BY <2>2, <2>3 DEF Layout
    <2>5. a < m
      BY <1>4, <2>2, <2>4
    <2>6. a \in V
      <3> SUFFICES ASSUME a \notin V PROVE FALSE
        OBVIOUS
      <3>1. m <= a
        BY <2>2
      <3> QED BY <1>4, <2>2, <2>5, <3>1
    <2>7. PICK i \in 0 .. Rounds : at[i] = a
      BY <2>6
    <2>8. i \in Nat /\ i + 1 \in Nat /\ at[i + 1] = m
      BY <1>1, <1>3, <1>4, <2>4, <2>7
    <2>9. m < top /\ m \in Nat
      BY <1>1, <1>4, <2>2
    <2>10. m >= heap_listp + 8 * (i + 1)
      BY <1>1, <1>2, <2>8, <2>9
    <2>11. i + 1 \in 0 .. Rounds
      BY <1>1, <1>4, <2>8, <2>9, <2>10
    <2> QED BY <2>2, <2>8, <2>11
  <1>6. Walk(word) \subseteq B
    <2> SUFFICES ASSUME NEW x \in Walk(word) PROVE x \in B
      OBVIOUS
    <2>1. GET_SIZE(word, HDRP(x)) > 0 /\ \E i \in 0 .. Rounds : at[i] = x
      BY DEF Walk, at
    <2>2. x \in B \cup {top}
      BY <1>1, <1>2, <2>1
    <2> QED BY <1>4, <2>1, <2>2
  <1>7. B \subseteq Walk(word)
    <2> SUFFICES ASSUME NEW b \in B PROVE b \in Walk(word)
      OBVIOUS
    <2>1. PICK i \in 0 .. Rounds : at[i] = b
      BY <1>5
    <2>2. GET_SIZE(word, HDRP(b)) > 0
      BY <1>4
    <2> QED BY <2>1, <2>2 DEF Walk, at
  <1> QED BY <1>6, <1>7

\* No block ever counts as free, so that the search finds nothing.
LEMMA NoFit ==
  ASSUME NEW B, NEW sz, NEW al, NEW top, Layout(word, B, sz, al, top, heap_listp),
         mem_brk \in Nat, top <= mem_brk, NEW n
  PROVE  find_fit(word, n) = {}
  <1>1. \A b \in B : GET_ALLOC(word, HDRP(b)) # 0
    BY BlockIs
  <1> QED BY <1>1, WalkIs DEF find_fit

-----------------------------------------------------------------------------
(* The steps.                                                               *)

\* The prologue and the epilogue mm_init writes at p.
LEMMA PrologueIs ==
  ASSUME word = [a \in {} |-> a], NEW p \in Eights, p >= 8
  PROVE  Layout(PUT(PUT(PUT(PUT(word, p, 0), p + 4, 9), p + 8, 9), p + 12, 1),
                {p + 8}, [a \in {p + 8} |-> 8], [a \in {p + 8} |-> 1], p + 16, p + 8)
  <1> DEFINE w == PUT(PUT(PUT(PUT(word, p, 0), p + 4, 9), p + 8, 9), p + 12, 1)
             L == p + 8
             sz == [a \in {L} |-> 8]
             al == [a \in {L} |-> 1]
  <1>1. p \in Nat /\ L \in Nat /\ L >= 16 /\ L = p + 8 /\ p + 16 = L + 8
    <2>1. p \in Nat
      BY DEF Eights
    <2> QED BY <2>1
  <1>2. DOMAIN w = {p, p + 4, p + 8, p + 12} /\ w[p + 4] = 9 /\ w[p + 8] = 9 /\ w[p + 12] = 1
    BY <1>1 DEF PUT
  <1>3. 8 \in Eights /\ L \in Eights /\ L + 8 \in Eights
    <2>1. 1 * 8 = 8 /\ 1 * 8 \in Eights
      BY EightTimes
    <2> QED BY <1>1, <2>1, EightsSum
  <1>4. sz \in [{L} -> Eights \ {0}] /\ al \in [{L} -> {0, 1}] /\ sz[L] = 8 /\ al[L] = 1
    BY <1>3
  <1> HIDE DEF w, sz, al, L
  <1>5. Tagged(w, L, 8, 1)
    <2>1. L - 4 = p + 4 /\ L + 8 - 8 = p + 8
      BY <1>1
    <2> QED BY <1>2, <2>1 DEF Tagged
  <1>6. L + 8 - 4 = p + 12
    BY <1>1
  <1>7. Layout(w, {L}, sz, al, L + 8, L)
    BY <1>1, <1>2, <1>3, <1>4, <1>5, <1>6 DEF Layout
  <1>8. Layout(w, {L}, sz, al, p + 16, L)
    BY <1>1, <1>7
  <1> QED BY <1>8 DEF w, sz, al, L

LEMMA InitStep ==
  ASSUME Sized, MmInv, mm_init
  PROVE  MmInv'
  <1> DEFINE n == Even(CHUNKSIZE \div WSIZE)
             w(p) == PUT(PUT(PUT(PUT(word, p, 0), p + 4, 9), p + 8, 9), p + 12, 1)
  <1>1. /\ mm_state = "boot" /\ word = [a \in {} |-> a] /\ mm_live = {} /\ mm_live' = mm_live
        /\ heap_listp = 0 /\ mem_brk \in HeapStarts
    BY DEF mm_init, MmInv
  <1>2. n \in Eights \ {0} /\ n \in Nat
    BY ChunkIs DEF Sized, WSIZE, Eights
  <1>3. PICK p : p = mem_brk
    OBVIOUS
  <1>4. p \in Eights /\ p \in Nat /\ p >= 8
    <2>1. p \in Eights /\ p # 0 /\ p \in Nat
      BY <1>1, <1>3 DEF Sized, Eights
    <2>2. 0 * 8 = 0 /\ 0 * 8 \in Eights
      BY EightTimes
    <2> QED BY <2>1, <2>2, EightsSum
  <1>5. /\ Layout(w(p), {p + 8}, [a \in {p + 8} |-> 8], [a \in {p + 8} |-> 1], p + 16, p + 8)
        /\ p + 8 # 0 /\ p + 16 \in Nat
    <2>1. p + 8 # 0 /\ p + 16 \in Nat
      BY <1>4
    <2> QED BY <1>1, <1>4, <2>1, PrologueIs, Zenon
  <1> DEFINE e == extend_heap(w(p), p + 16, n)
  <1> HIDE DEF n, w
  <1>6. \/ mm_state' = "panic" /\ UNCHANGED <<word, mem_brk, heap_listp>>
        \/ /\ heap_listp' = p + 8
           /\ \/ word' = w(p) /\ mem_brk' = p + 16 /\ mm_state' = "panic"
              \/ /\ word' = e[1] /\ mem_brk' = (p + 16) + n
                 /\ mm_state' = IF e[2] = 0 THEN "failed" ELSE "ready"
    <2>1. /\ p + WSIZE = p + 4 /\ p + DSIZE = p + 8 /\ PACK(OVERHEAD, 1) = 9
          /\ p + WSIZE + DSIZE = p + 12 /\ PACK(0, 1) = 1 /\ p + 4 * WSIZE = p + 16
      BY <1>4 DEF WSIZE, DSIZE, OVERHEAD, PACK
    <2> QED BY <1>3, <2>1 DEF mm_init, n, w
  <1>7. CASE mm_state' = "panic" /\ UNCHANGED <<word, mem_brk, heap_listp>>
    BY <1>1, <1>7 DEF MmInv
  <1>8. ASSUME NEW B, NEW sz, NEW al, NEW top, Layout(word', B, sz, al, top, p + 8), heap_listp' = p + 8,
               mem_brk' \in Nat, top <= mem_brk', top = mem_brk' \/ SignBit <= top,
               mm_state' \in {"failed", "ready", "panic"}
        PROVE  MmInv'
    BY <1>1, <1>5, <1>8 DEF MmInv, Lives, TopAt
  <1>9. CASE heap_listp' = p + 8 /\ word' = w(p) /\ mem_brk' = p + 16 /\ mm_state' = "panic"
    BY <1>5, <1>8, <1>9
  <1>10. CASE /\ heap_listp' = p + 8 /\ word' = e[1] /\ mem_brk' = (p + 16) + n
              /\ mm_state' = IF e[2] = 0 THEN "failed" ELSE "ready"
    <2>1. CASE p + 16 >= SignBit
      <3>1. word' = w(p)
        BY <1>10, <2>1 DEF extend_heap
      <3>2. p + 16 <= mem_brk' /\ mem_brk' \in Nat /\ SignBit <= p + 16
        BY <1>2, <1>4, <1>10, <2>1 DEF Sized
      <3> QED BY <1>5, <1>8, <1>10, <3>1, <3>2
    <2>2. CASE ~(p + 16 >= SignBit)
      <3>1. PICK B2, sz2, al2 : Layout(word', B2, sz2, al2, mem_brk', p + 8)
        <4>1. e = coalesce(Extend(w(p), p + 16, n), p + 16)
          BY <2>2 DEF extend_heap
        <4> HIDE DEF e
        <4> QED BY <1>2, <1>5, <1>10, <4>1, ExtendHeapIs
      <3>2. mem_brk' \in Nat
        BY <1>2, <1>4, <1>10
      <3> QED BY <1>8, <1>10, <3>1, <3>2
    <2> QED BY <2>1, <2>2
  <1> QED BY <1>6, <1>7, <1>9, <1>10

LEMMA FreeStep ==
  ASSUME MmInv, NEW b \in mm_live, mm_free(b)
  PROVE  MmInv'
  <1>1. mm_state \in {"ready", "failed"} /\ heap_listp # 0 /\ mem_brk \in Nat
    BY DEF mm_free, MmInv
  <1>2. PICK B, sz, al, top : /\ Layout(word, B, sz, al, top, heap_listp) /\ TopAt(top)
                              /\ Lives(B, sz, al, heap_listp)
    BY <1>1 DEF MmInv
  <1>3. PICK bp : bp = b[1]
    OBVIOUS
  <1>4. bp \in B /\ bp # heap_listp
    BY <1>2, <1>3 DEF Lives
  <1>5. GET_SIZE(word, HDRP(bp)) = sz[bp]
    BY <1>2, <1>4, BlockIs
  <1> DEFINE al2 == [al EXCEPT ![bp] = 0]
             t == Tag(word, bp, sz[bp], 0)
  <1>6. Layout(t, B, sz, al2, top, heap_listp)
    <2>1. 0 \in {0, 1}
      OBVIOUS
    <2> QED BY <1>2, <1>4, <2>1, Retag
  <1>7. al2[bp] = 0 /\ \A a \in B : a # bp => al2[a] = al[a]
    BY <1>2, <1>4 DEF Layout
  <1>8. word' = coalesce(t, bp)[1] /\ mm_live' = mm_live \ {b} /\ UNCHANGED <<mem_brk, heap_listp, mm_state>>
    BY <1>3, <1>5 DEF mm_free
  <1> HIDE DEF al2, t
  <1>9. Layout(coalesce(t, bp)[1], B, sz, al2, top, heap_listp)
    BY <1>4, <1>6, <1>7, CoalesceIs
  <1>10. Layout(word', B, sz, al2, top, heap_listp') /\ TopAt(top)'
    BY <1>2, <1>8, <1>9 DEF TopAt
  <1>11. Lives(B, sz, al2, heap_listp)'
    <2>1. \A c \in mm_live' : c \in mm_live /\ c[1] # bp
      BY <1>2, <1>3, <1>8 DEF Lives
    <2>2. \A c \in mm_live' : /\ c[1] \in B \ {heap_listp'} /\ al2[c[1]] = 1
                           /\ c[2] \in Nat \ {0} /\ c[2] + 8 <= sz[c[1]]
      BY <1>2, <1>7, <1>8, <2>1 DEF Lives
    <2>3. \A c, d \in mm_live' : c[1] = d[1] => c = d
      BY <1>2, <2>1 DEF Lives
    <2> QED BY <2>2, <2>3 DEF Lives
  <1> QED BY <1>1, <1>8, <1>10, <1>11 DEF MmInv

\* What mm_malloc does: it panics, or moves the break and is refused, or hands out new memory.
LEMMA MallocDoes ==
  ASSUME Sized, MmInv, NEW size \in Requests, mm_malloc(size)
  PROVE  /\ heap_listp # 0 /\ heap_listp' = heap_listp /\ size \in Nat \ {0} /\ mem_brk \in Nat
         /\ mm_state \in {"ready", "failed"}
         /\ \/ mm_state' = "panic" /\ UNCHANGED <<word, mem_brk, mm_live>>
            \/ \E ext \in Eights \ {0} :
                 /\ mem_brk' = mem_brk + ext /\ mm_state' = mm_state /\ asize(size) <= ext
                 /\ \/ mem_brk >= SignBit /\ UNCHANGED <<word, mm_live>>
                    \/ /\ ~(mem_brk >= SignBit)
                       /\ mm_live' = mm_live \cup {<<mem_brk, size>>}
                       /\ word' = place(extend_heap(word, mem_brk, ext)[1], mem_brk, asize(size))
  <1>1. /\ mm_state \in {"ready", "failed"} /\ heap_listp # 0 /\ size \in Nat \ {0}
        /\ heap_listp' = heap_listp /\ mem_brk \in Nat
    BY DEF mm_malloc, MmInv, Sized
  <1>2. PICK B, sz, al, top : Layout(word, B, sz, al, top, heap_listp) /\ TopAt(top)
    BY <1>1 DEF MmInv
  <1> DEFINE n == asize(size)
             ext == Even((IF asize(size) > CHUNKSIZE THEN asize(size) ELSE CHUNKSIZE) \div WSIZE)
             e == extend_heap(word, mem_brk, ext)
  <1>3. find_fit(word, n) = {}
    BY <1>1, <1>2, NoFit DEF TopAt
  <1>4. \/ mm_state' = "panic" /\ UNCHANGED <<word, mem_brk, mm_live>>
        \/ /\ mem_brk' = mem_brk + ext /\ mm_state' = mm_state
           /\ IF e[2] = 0 THEN UNCHANGED <<word, mm_live>>
              ELSE word' = place(e[1], e[2], n) /\ mm_live' = mm_live \cup {<<e[2], size>>}
    BY <1>3 DEF mm_malloc
  <1>5. n \in Eights \ {0} /\ n \in Nat
    BY <1>1, AsizeIs DEF Eights
  <1>6. ext \in Eights \ {0} /\ n <= ext
    <2> DEFINE m == IF asize(size) > CHUNKSIZE THEN asize(size) ELSE CHUNKSIZE
    <2> HIDE DEF n
    <2>1. m \in Nat /\ m >= 4 /\ n <= m
      BY <1>5 DEF n, Sized, WSIZE
    <2> HIDE DEF m
    <2>2. Even(m \div 4) \in Eights \ {0} /\ n <= Even(m \div 4)
      BY <1>5, <2>1, ChunkIs
    <2> QED BY <2>2 DEF m, WSIZE
  <1> HIDE DEF ext
  <1>7. mem_brk >= SignBit => e[2] = 0
    BY DEF extend_heap
  <1>8. ~(mem_brk >= SignBit) => e[2] = mem_brk /\ mem_brk # 0
    <2> SUFFICES ASSUME ~(mem_brk >= SignBit) PROVE e[2] = mem_brk /\ mem_brk # 0
      OBVIOUS
    <2>1. top = mem_brk
      BY <1>1, <1>2, BreakIs DEF TopAt, Sized
    <2>2. Layout(word, B, sz, al, mem_brk, heap_listp)
      BY <1>2, <2>1
    <2>3. e = coalesce(Extend(word, mem_brk, ext), mem_brk)
      BY DEF extend_heap
    <2>4. mem_brk # 0
      BY <2>2, BreakIs
    <2>5. coalesce(Extend(word, mem_brk, ext), mem_brk)[2] = mem_brk
      BY <1>6, <2>2, ExtendHeapAt
    <2> QED BY <2>3, <2>4, <2>5
  <1> HIDE DEF n, e
  <1> QED BY <1>1, <1>4, <1>6, <1>7, <1>8 DEF n, e

LEMMA MallocStep ==
  ASSUME Sized, MmInv, NEW size \in Requests, mm_malloc(size)
  PROVE  MmInv'
  <1> DEFINE n == asize(size)
  <1>1. /\ mm_state \in {"ready", "failed"} /\ heap_listp # 0 /\ size \in Nat \ {0}
        /\ heap_listp' = heap_listp /\ mem_brk \in Nat
    BY MallocDoes
  <1>2. PICK B, sz, al, top : /\ Layout(word, B, sz, al, top, heap_listp) /\ TopAt(top)
                              /\ Lives(B, sz, al, heap_listp)
    BY <1>1 DEF MmInv
  <1>3. n \in Eights \ {0} /\ n >= size + 8 /\ n \in Nat
    BY <1>1, AsizeIs DEF Eights
  <1> HIDE DEF n
  <1>4. CASE mm_state' = "panic" /\ UNCHANGED <<word, mem_brk, mm_live>>
    <2>1. Layout(word', B, sz, al, top, heap_listp') /\ TopAt(top)' /\ Lives(B, sz, al, heap_listp)'
      BY <1>1, <1>2, <1>4 DEF Lives, TopAt
    <2> QED BY <1>1, <1>4, <2>1 DEF MmInv
  <1>5. ASSUME NEW ext \in Eights \ {0}, mem_brk' = mem_brk + ext, mm_state' = mm_state, n <= ext,
               mem_brk >= SignBit, UNCHANGED <<word, mm_live>>
        PROVE  MmInv'
    <2>1. ext \in Nat /\ top \in Nat /\ SignBit \in Nat
      BY <1>2, BreakIs DEF Sized, Eights
    <2>2. mem_brk' \in Nat /\ TopAt(top)'
      BY <1>1, <1>2, <1>5, <2>1 DEF TopAt
    <2>3. Layout(word', B, sz, al, top, heap_listp') /\ Lives(B, sz, al, heap_listp)'
      BY <1>1, <1>2, <1>5 DEF Lives
    <2> QED BY <1>1, <1>5, <2>2, <2>3 DEF MmInv
  <1>6. ASSUME NEW ext \in Eights \ {0}, mem_brk' = mem_brk + ext, mm_state' = mm_state, n <= ext,
               ~(mem_brk >= SignBit), mm_live' = mm_live \cup {<<mem_brk, size>>},
               word' = place(extend_heap(word, mem_brk, ext)[1], mem_brk, n)
        PROVE  MmInv'
    <2>1. Layout(word, B, sz, al, mem_brk, heap_listp)
      <3>1. top = mem_brk
        BY <1>1, <1>2, <1>6, BreakIs DEF TopAt, Sized
      <3> QED BY <1>2, <3>1
    <2> DEFINE e == extend_heap(word, mem_brk, ext)
    <2>2. e = coalesce(Extend(word, mem_brk, ext), mem_brk)
      BY <1>6 DEF extend_heap
    <2> HIDE DEF e
    <2>3. PICK B2, sz2, al2 :
            /\ Layout(e[1], B2, sz2, al2, mem_brk + ext, heap_listp)
            /\ mem_brk \in B2 /\ sz2[mem_brk] = ext /\ mem_brk \notin B /\ mem_brk # heap_listp
            /\ \A a \in B : a \in B2 /\ a # mem_brk /\ sz2[a] = sz[a] /\ al2[a] = al[a]
      BY <2>1, <2>2, ExtendHeapIs
    <2>4. PICK B3, sz3, al3 :
            /\ Layout(place(e[1], mem_brk, n), B3, sz3, al3, mem_brk + ext, heap_listp)
            /\ B2 \subseteq B3 /\ al3[mem_brk] = 1 /\ n <= sz3[mem_brk]
            /\ \A a \in B2 : a # mem_brk => sz3[a] = sz2[a] /\ al3[a] = al2[a]
      <3>1. n <= sz2[mem_brk]
        BY <1>6, <2>3
      <3> QED BY <1>3, <2>3, <3>1, PlaceIs
    <2>5. Layout(word', B3, sz3, al3, mem_brk', heap_listp')
      BY <1>1, <1>6, <2>4 DEF e
    <2>6. \A a \in B : a \in B3 /\ a # mem_brk /\ sz3[a] = sz[a] /\ al3[a] = al[a]
      BY <2>3, <2>4
    <2>7. sz3[mem_brk] \in Nat /\ mem_brk \in B3
      BY <2>3, <2>4, BlockIs
    <2>8. Lives(B3, sz3, al3, heap_listp)'
      <3>1. \A b \in mm_live : /\ b[1] \in B \ {heap_listp} /\ al[b[1]] = 1
                            /\ b[2] \in Nat \ {0} /\ b[2] + 8 <= sz[b[1]]
        BY <1>2 DEF Lives
      <3>2. \A b \in mm_live : /\ b[1] \in B3 \ {heap_listp} /\ b[1] # mem_brk /\ al3[b[1]] = 1
                            /\ b[2] \in Nat \ {0} /\ b[2] + 8 <= sz3[b[1]]
        BY <2>6, <3>1
      <3>3. <<mem_brk, size>>[1] = mem_brk /\ <<mem_brk, size>>[2] = size
        OBVIOUS
      <3>4. size + 8 <= sz3[mem_brk]
        BY <1>1, <1>3, <2>4, <2>7
      <3>5. \A b \in mm_live' : /\ b[1] \in B3 \ {heap_listp} /\ al3[b[1]] = 1
                             /\ b[2] \in Nat \ {0} /\ b[2] + 8 <= sz3[b[1]]
        BY <1>1, <1>6, <2>3, <2>4, <2>7, <3>2, <3>3, <3>4
      <3>6. \A b, c \in mm_live' : b[1] = c[1] => b = c
        BY <1>2, <1>6, <3>2, <3>3 DEF Lives
      <3> QED BY <1>1, <3>5, <3>6 DEF Lives
    <2>9. mem_brk' \in Nat
      <3>1. ext \in Nat
        BY DEF Eights
      <3> QED BY <1>1, <1>6, <3>1
    <2>10. PICK top3 : top3 = mem_brk'
      OBVIOUS
    <2>11. Layout(word', B3, sz3, al3, top3, heap_listp') /\ TopAt(top3)'
      BY <2>5, <2>9, <2>10 DEF TopAt
    <2> QED BY <1>1, <1>6, <2>8, <2>9, <2>11 DEF MmInv
  <1> QED BY <1>4, <1>5, <1>6, MallocDoes DEF n

\* Every step keeps the invariant.
LEMMA MmStep == Sized /\ MmInv /\ [MmNext]_mmVars => MmInv'
  <1> SUFFICES ASSUME Sized, MmInv, [MmNext]_mmVars PROVE MmInv'
    OBVIOUS
  <1>1. CASE UNCHANGED mmVars
    BY <1>1 DEF mmVars, MmInv, Lives, TopAt
  <1> QED BY <1>1, InitStep, MallocStep, FreeStep DEF MmNext

\* The memory is laid out in tagged blocks, and callers hold marked blocks of it, in every
\* behaviour of mm_init, mm_malloc and mm_free, wherever the heap starts.
THEOREM MmInvariant ==
  ASSUME Sized
  PROVE  MmSpec => []MmInv
  <1>1. MmInit => MmInv
    BY DEF MmInit, MmInv
  <1>2. MmInv /\ [MmNext]_mmVars => MmInv'
    BY MmStep
  <1> QED BY <1>1, <1>2, PTL DEF MmSpec

\* However requests, splits and releases follow each other, the walk meets consistent, aligned
\* blocks, ends at an epilogue below the break or where an extension was refused, and passes every
\* block a caller holds, which is large enough, marked and overlaps no other (kmalloc.c:20-224).
THEOREM BoundaryTagsHolds ==
  ASSUME Sized
  PROVE  MmSpec => []BoundaryTags
  <1>1. MmInv => BoundaryTags
    <2> SUFFICES ASSUME MmInv, heap_listp # 0, NEW top, top = BlockAt(word)[Rounds]
                 PROVE  /\ \A bp \in Walk(word) : checkblock(bp)
                        /\ word[HDRP(top)] = PACK(0, 1)
                        /\ top <= mem_brk /\ (top = mem_brk \/ SignBit <= top)
                        /\ \A b \in mm_live :
                             /\ b[1] \in Walk(word)
                             /\ b[2] <= GET_SIZE(word, HDRP(b[1])) - OVERHEAD
                             /\ word[HDRP(b[1])] % 2 = 1
                             /\ \A c \in mm_live : b # c => \/ b[1] + b[2] <= HDRP(c[1])
                                                         \/ c[1] + c[2] <= HDRP(b[1])
      BY DEF BoundaryTags
    <2>1. mem_brk \in Nat
      BY DEF MmInv
    <2>2. PICK B, sz, al, ep : /\ Layout(word, B, sz, al, ep, heap_listp) /\ TopAt(ep)
                               /\ Lives(B, sz, al, heap_listp)
      BY DEF MmInv
    <2>3. Walk(word) = B /\ top = ep
      BY <2>1, <2>2, WalkIs, WalkEnds DEF TopAt
    <2>4. word[HDRP(top)] = PACK(0, 1)
      <3>1. word[ep - 4] = 1
        BY <2>2 DEF Layout
      <3>2. PACK(0, 1) = 1 /\ HDRP(ep) = ep - 4
        BY DEF PACK, HDRP, WSIZE
      <3> QED BY <2>3, <3>1, <3>2
    <2>5. ASSUME NEW a \in B
          PROVE  /\ a \in Nat /\ a % 8 = 0 /\ sz[a] \in Nat /\ GET_SIZE(word, HDRP(a)) = sz[a]
                 /\ word[HDRP(a)] % 2 = al[a] /\ word[HDRP(a)] = word[FTRP(word, a)]
      <3>1. a \in Eights
        BY <2>2, BlockIs
      <3> QED BY <2>2, <3>1, BlockIs DEF Eights
    <2>6. \A bp \in Walk(word) : checkblock(bp)
      BY <2>3, <2>5 DEF checkblock
    <2>7. ASSUME NEW b \in mm_live
          PROVE  /\ b[1] \in B /\ al[b[1]] = 1 /\ b[2] \in Nat /\ b[2] + 8 <= sz[b[1]]
                 /\ b[1] \in Nat /\ sz[b[1]] \in Nat
      BY <2>2, <2>5 DEF Lives
    <2>8. ASSUME NEW b \in mm_live
          PROVE  b[2] <= GET_SIZE(word, HDRP(b[1])) - OVERHEAD /\ word[HDRP(b[1])] % 2 = 1
      BY <2>5, <2>7 DEF OVERHEAD
    <2>9. ASSUME NEW b \in mm_live, NEW c \in mm_live, b # c
          PROVE  b[1] + b[2] <= HDRP(c[1]) \/ c[1] + c[2] <= HDRP(b[1])
      <3>1. b[1] # c[1]
        BY <2>2, <2>9 DEF Lives
      <3>2. (b[1] < c[1] => b[1] + sz[b[1]] <= c[1]) /\ (c[1] < b[1] => c[1] + sz[c[1]] <= b[1])
        BY <2>2, <2>7 DEF Layout
      <3>3. b[1] + b[2] <= c[1] - 4 \/ c[1] + c[2] <= b[1] - 4
        BY <2>7, <3>1, <3>2
      <3> QED BY <3>3 DEF HDRP, WSIZE
    <2>10. top <= mem_brk /\ (top = mem_brk \/ SignBit <= top)
      BY <2>2, <2>3 DEF TopAt
    <2> QED BY <2>3, <2>4, <2>6, <2>7, <2>8, <2>9, <2>10
  <1> QED BY <1>1, MmInvariant, PTL

\* Every block handed out begins where the break was, and below the sign bit: the search finds no
\* block again, and extend_heap takes a negative break for a failure (kmalloc.c:59-70, 131).
THEOREM BelowSignBitHolds ==
  ASSUME Sized
  PROVE  MmSpec => []BelowSignBit
  <1>1. MmInit => BelowSignBit
    BY DEF MmInit, BelowSignBit
  <1>2. MmInv /\ BelowSignBit /\ [MmNext]_mmVars => BelowSignBit'
    <2> SUFFICES ASSUME MmInv, BelowSignBit, [MmNext]_mmVars PROVE BelowSignBit'
      OBVIOUS
    <2>1. CASE UNCHANGED mm_live
      BY <2>1 DEF BelowSignBit
    <2>2. CASE mm_init
      BY <2>1, <2>2 DEF mm_init
    <2>3. ASSUME NEW b \in mm_live, mm_free(b) PROVE BelowSignBit'
      BY <2>3 DEF mm_free, BelowSignBit
    <2>4. ASSUME NEW size \in Requests, mm_malloc(size) PROVE BelowSignBit'
      <3>1. \/ mm_live' = mm_live
            \/ /\ ~(mem_brk >= SignBit) /\ mm_live' = mm_live \cup {<<mem_brk, size>>}
        BY <2>4, MallocDoes
      <3>2. mem_brk \in Nat /\ SignBit \in Nat
        BY <2>4, MallocDoes DEF Sized
      <3>3. ~(mem_brk >= SignBit) => <<mem_brk, size>>[1] < SignBit
        BY <3>2
      <3> QED BY <2>1, <3>1, <3>3 DEF BelowSignBit
    <2> QED BY <2>1, <2>2, <2>3, <2>4 DEF MmNext, mmVars
  <1> QED BY <1>1, <1>2, MmInvariant, PTL DEF MmSpec
=============================================================================
