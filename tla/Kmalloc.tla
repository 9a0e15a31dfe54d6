------------------------------- MODULE Kmalloc ------------------------------
(***************************************************************************)
(* The boundary-tag heap: mm/kmalloc.c over dmm_sbrk of mm/dmm.c.  word is *)
(* the memory, a function on the words written.  GET_ALLOC masks the       *)
(* allocated bit out instead of keeping it (kmalloc.h:19), so a block of   *)
(* any size counts as allocated and only the epilogue as free.             *)
(***************************************************************************)
EXTENDS Integers, FiniteSets

CONSTANTS
  CHUNKSIZE,
  HeapStarts,    \* the addresses, aligned, and
  HeapSizes,     \* the sizes dmm_init may be given
  SignBit,       \* an address from here on is negative as an int: 2^31
  Requests,      \* sizes passed to mm_malloc
  MaxLive        \* bound: blocks held at a time

VARIABLES word, mem_brk, mem_max_adrr, heap_listp, mm_state,
          mm_live      \* history: <<payload, size asked for>>

mmVars == <<word, mem_brk, mem_max_adrr, heap_listp, mm_state, mm_live>>

WSIZE == 4
DSIZE == 8
OVERHEAD == 8

\* dmm_init.
MmInit ==
  /\ \E start \in HeapStarts, size \in HeapSizes : mem_brk = start /\ mem_max_adrr = start + size
  /\ word = [a \in {} |-> a] /\ heap_listp = 0 /\ mm_state = "boot" /\ mm_live = {}

PUT(w, p, val) == [a \in DOMAIN w \cup {p} |-> IF a = p THEN val ELSE w[a]]
PACK(size, alloc) == size + alloc
GET_SIZE(w, p) == w[p] - (w[p] % 8)
GET_ALLOC(w, p) == w[p] - (w[p] % 2)
HDRP(bp) == bp - WSIZE
FTRP(w, bp) == bp + GET_SIZE(w, HDRP(bp)) - DSIZE
NEXT_BLKP(w, bp) == bp + GET_SIZE(w, HDRP(bp))
PREV_BLKP(w, bp) == bp - GET_SIZE(w, bp - DSIZE)

\* Header and footer of a block; the footer is found through the new header.
Tag(w, bp, size, alloc) ==
  LET h == PUT(w, HDRP(bp), PACK(size, alloc)) IN PUT(h, FTRP(h, bp), PACK(size, alloc))

\* The memory after boundary tag coalescing, and the block it returns.
coalesce(w, bp) ==
  LET prev == PREV_BLKP(w, bp)  next == NEXT_BLKP(w, bp)
      prev_alloc == GET_ALLOC(w, FTRP(w, prev))  next_alloc == GET_ALLOC(w, HDRP(next))
      size == GET_SIZE(w, HDRP(bp))
  IN CASE prev_alloc # 0 /\ next_alloc # 0 -> <<w, bp>>
       [] prev_alloc # 0 /\ next_alloc = 0 -> <<Tag(w, bp, size + GET_SIZE(w, HDRP(next)), 0), bp>>
       [] prev_alloc = 0 /\ next_alloc # 0 -> <<Tag(w, prev, size + GET_SIZE(w, HDRP(prev)), 0), prev>>
       [] OTHER -> <<Tag(w, prev, size + GET_SIZE(w, HDRP(prev)) + GET_SIZE(w, FTRP(w, next)), 0), prev>>

\* dmm_sbrk panics when the memory is used up.
sbrk(incr) == mem_brk + incr <= mem_max_adrr

\* The new block, in place of the epilogue, and a new epilogue.
Extend(w, bp, size) == LET t == Tag(w, bp, size, 0) IN PUT(t, HDRP(NEXT_BLKP(t, bp)), PACK(0, 1))

\* Mutant: the break is not tested.
extend_heap_NoSign(w, bp, size) == coalesce(Extend(w, bp, size), bp)

\* bp is the break before it was moved.  Negative, it passes for a failure, here <<w, 0>>.
extend_heap(w, bp, size) == IF bp >= SignBit THEN <<w, 0>> ELSE coalesce(Extend(w, bp, size), bp)

Even(words) == IF words % 2 = 1 THEN (words + 1) * WSIZE ELSE words * WSIZE

place(w, bp, asize) ==
  LET csize == GET_SIZE(w, HDRP(bp))
      first == Tag(w, bp, asize, 1)
  IN IF csize - asize >= DSIZE + OVERHEAD THEN Tag(first, NEXT_BLKP(first, bp), csize - asize, 0)
     ELSE Tag(w, bp, csize, 1)

\* The i-th block of the walk from heap_listp, which would stay at the epilogue, of size 0.
BlockAt(w) == LET at[i \in Nat] == IF i = 0 THEN heap_listp ELSE NEXT_BLKP(w, at[i - 1]) IN at

\* A bound: no walk up to the break has more blocks.
Rounds == (mem_brk - heap_listp) \div DSIZE

\* The blocks the loops of find_fit and mm_checkheap visit, up to the epilogue.
Walk(w) == {bp \in {BlockAt(w)[i] : i \in 0 .. Rounds} : GET_SIZE(w, HDRP(bp)) > 0}

\* The blocks in which asize bytes would fit.
find_fit(w, asize) == {bp \in Walk(w) : GET_ALLOC(w, HDRP(bp)) = 0 /\ asize <= GET_SIZE(w, HDRP(bp))}

\* Out of memory it panics; where the break is negative it returns -1, with the break moved and
\* heap_listp set, and nothing keeps a caller from going on.
mm_init ==
  LET p == mem_brk
      prologue == PUT(PUT(PUT(word, p, 0), p + WSIZE, PACK(OVERHEAD, 1)), p + DSIZE, PACK(OVERHEAD, 1))
      w == PUT(prologue, p + WSIZE + DSIZE, PACK(0, 1))
      chunk == Even(CHUNKSIZE \div WSIZE)
      ext == extend_heap(w, p + 4 * WSIZE, chunk)
  IN /\ mm_state = "boot"
     /\ \/ ~sbrk(4 * WSIZE) /\ mm_state' = "panic" /\ UNCHANGED <<word, mem_brk, heap_listp>>
        \/ /\ sbrk(4 * WSIZE) /\ heap_listp' = p + DSIZE
           /\ \/ /\ ~sbrk(4 * WSIZE + chunk)
                 /\ word' = w /\ mem_brk' = p + 4 * WSIZE /\ mm_state' = "panic"
              \/ /\ sbrk(4 * WSIZE + chunk)
                 /\ word' = ext[1] /\ mem_brk' = p + 4 * WSIZE + chunk
                 /\ mm_state' = IF ext[2] = 0 THEN "failed" ELSE "ready"
     /\ UNCHANGED <<mem_max_adrr, mm_live>>

\* Mutant: no room for header and footer.
asize_NoOverhead(size) == IF size <= DSIZE THEN DSIZE + OVERHEAD ELSE DSIZE * ((size + (DSIZE - 1)) \div DSIZE)

asize(size) == IF size <= DSIZE THEN DSIZE + OVERHEAD ELSE DSIZE * ((size + OVERHEAD + (DSIZE - 1)) \div DSIZE)

\* First fit, or else a piece of new memory, or else nothing; a request for nothing gets nothing.
mm_malloc(size) ==
  /\ mm_state \in {"ready", "failed"} /\ size > 0 /\ Cardinality(mm_live) < MaxLive
  /\ LET fit == find_fit(word, asize(size))
         extendsize == Even((IF asize(size) > CHUNKSIZE THEN asize(size) ELSE CHUNKSIZE) \div WSIZE)
         ext == extend_heap(word, mem_brk, extendsize)
         bp == CHOOSE b \in fit : \A c \in fit : b <= c   \* the walk goes up
     IN IF fit # {}
        THEN /\ word' = place(word, bp, asize(size))
             /\ mm_live' = mm_live \cup {<<bp, size>>}
             /\ UNCHANGED <<mem_brk, mm_state>>
        ELSE IF ~sbrk(extendsize)
        THEN mm_state' = "panic" /\ UNCHANGED <<word, mem_brk, mm_live>>
        ELSE /\ mem_brk' = mem_brk + extendsize /\ UNCHANGED mm_state
             /\ IF ext[2] = 0 THEN UNCHANGED <<word, mm_live>>
                ELSE /\ word' = place(ext[1], ext[2], asize(size))
                     /\ mm_live' = mm_live \cup {<<ext[2], size>>}
  /\ UNCHANGED <<mem_max_adrr, heap_listp>>

mm_free(b) ==
  /\ mm_state \in {"ready", "failed"}
  /\ word' = coalesce(Tag(word, b[1], GET_SIZE(word, HDRP(b[1])), 0), b[1])[1]
  /\ mm_live' = mm_live \ {b}
  /\ UNCHANGED <<mem_brk, mem_max_adrr, heap_listp, mm_state>>

MmNext == mm_init \/ (\E size \in Requests : mm_malloc(size)) \/ (\E b \in mm_live : mm_free(b))

MmSpec == MmInit /\ [][MmNext]_mmVars

-----------------------------------------------------------------------------
(* Properties.                                                              *)

\* checkblock: what mm_checkheap tests of every block.
checkblock(bp) == bp % 8 = 0 /\ word[HDRP(bp)] = word[FTRP(word, bp)]

\* However requests, splits and releases follow each other, the walk from heap_listp meets
\* consistent, aligned blocks, ends at an epilogue, just below the break or, once an extension was
\* refused, below where it was, and passes every block a caller holds, which is large enough,
\* marked and overlaps no other (kmalloc.c:20-224).  Of this epilogue, which is the right one,
\* mm_checkheap says that it is bad (kmalloc.c:115), because GET_ALLOC drops the mark.
BoundaryTags ==
  heap_listp # 0 =>
    LET top == BlockAt(word)[Rounds]
    IN /\ \A bp \in Walk(word) : checkblock(bp)
       /\ word[HDRP(top)] = PACK(0, 1) /\ top <= mem_brk /\ (top = mem_brk \/ SignBit <= top)
       /\ \A b \in mm_live :
            /\ b[1] \in Walk(word)
            /\ b[2] <= GET_SIZE(word, HDRP(b[1])) - OVERHEAD /\ word[HDRP(b[1])] % 2 = 1
            /\ \A c \in mm_live : b # c => b[1] + b[2] <= HDRP(c[1]) \/ c[1] + c[2] <= HDRP(b[1])

\* A block handed out begins below the addresses that are negative as an int: each is new memory,
\* since none that was freed is found again, and the break is tested as an int (kmalloc.h:19,
\* kmalloc.c:131).  In a heap above them, where dmm.c:10 puts the kernel's, mm_init
\* fails and no request is ever met.
BelowSignBit == \A b \in mm_live : b[1] < SignBit
=============================================================================
