------------------------------- MODULE Memory -------------------------------
(***************************************************************************)
(* The kernel's memory: the page allocator (threads/palloc.c) over a bit   *)
(* map of used pages, and the block allocator (threads/malloc.c) with its  *)
(* arenas, one page each, and a free list per block size.  Addresses are   *)
(* numbers; NOWHERE is the null pointer.  Both allocators run their bodies *)
(* under a lock.                                                           *)
(***************************************************************************)
EXTENDS Bitmap, SequencesExt

CONSTANTS
  PGSIZE,
  FirstBlock,   \* 16 in the code: the smallest block size
  ArenaSize,    \* sizeof (struct arena)
  SizeMax,      \* the number of values of size_t
  PageCnt       \* pages of the kernel pool, its bit map included

NOWHERE == -1

DivRoundUp(x, step) == (x + step - 1) \div step
pg_round_down(addr) == addr - (addr % PGSIZE)

\* init_pool: the bit map is at the base of its pool and takes pages from it.
init_pool(page_cnt, buf_size) ==
  LET bm_pages == DivRoundUp(buf_size, PGSIZE)
  IN  bitmap_create(page_cnt - bm_pages, 0)

palloc_get_multiple(used_map, page_cnt) ==
  LET r == bitmap_scan_and_flip(used_map, 0, page_cnt, FALSE)
  IN  IF page_cnt = 0 THEN [used_map |-> used_map, page |-> NOWHERE]
      ELSE [used_map |-> r.b, page |-> IF r.idx # BITMAP_ERROR THEN PGSIZE * r.idx ELSE NOWHERE]

palloc_free_multiple(used_map, page, page_cnt) ==
  bitmap_set_multiple(used_map, page \div PGSIZE, page_cnt, FALSE)

-----------------------------------------------------------------------------

\* malloc_init: the descriptors, by their block sizes.
RECURSIVE BlockSizes(_)
BlockSizes(size) == IF size < PGSIZE \div 2 THEN <<size>> \o BlockSizes(size * 2) ELSE <<>>
descs == BlockSizes(FirstBlock)
blocks_per_arena(d) == (PGSIZE - ArenaSize) \div descs[d]

\* The state: bit map, free list of each descriptor, and the arenas in use (desc 0
\* for a big block).
malloc_init ==
  [used_map |-> init_pool(PageCnt, PGSIZE),
   free |-> [d \in 1..Len(descs) |-> <<>>],
   arena |-> [p \in {} |-> 0]]

block_to_arena(b) == pg_round_down(b)
arena_to_block(a, idx, d) == a + ArenaSize + idx * descs[d]
Blocks(a, d) == [i \in 1..blocks_per_arena(d) |-> arena_to_block(a, i - 1, d)]

SetArena(m, a, arena) == [p \in DOMAIN m.arena \cup {a} |-> IF p = a THEN arena ELSE m.arena[p]]
DropArena(m, a) == [p \in DOMAIN m.arena \ {a} |-> m.arena[p]]

BigBlock(m, size) ==
  LET page_cnt == DivRoundUp(size + ArenaSize, PGSIZE)
      r == palloc_get_multiple(m.used_map, page_cnt)
  IN  IF r.page = NOWHERE THEN [m |-> m, p |-> NOWHERE]
      ELSE [m |-> [m EXCEPT !.used_map = r.used_map,
                            !.arena = SetArena(m, r.page, [desc |-> 0, free_cnt |-> page_cnt])],
            p |-> r.page + ArenaSize]

\* A new arena for descriptor d, if a page is free.
NewArena(m, d) ==
  LET r == palloc_get_multiple(m.used_map, 1)
  IN  IF r.page = NOWHERE THEN m
      ELSE [used_map |-> r.used_map,
            arena |-> SetArena(m, r.page, [desc |-> d, free_cnt |-> blocks_per_arena(d)]),
            free |-> [m.free EXCEPT ![d] = @ \o Blocks(r.page, d)]]

malloc(m, size) ==
  LET fits == {d \in 1..Len(descs) : descs[d] >= size}
      d == CHOOSE x \in fits : \A y \in fits : x <= y
      n == IF m.free[d] = <<>> THEN NewArena(m, d) ELSE m
      b == Head(n.free[d])
  IN  IF size = 0 THEN [m |-> m, p |-> NOWHERE]
      ELSE IF fits = {} THEN BigBlock(m, size)
      ELSE IF n.free[d] = <<>> THEN [m |-> m, p |-> NOWHERE]
      ELSE [m |-> [n EXCEPT !.free[d] = Tail(@), !.arena[block_to_arena(b)].free_cnt = @ - 1],
            p |-> b]

\* calloc: the product is a size_t.
calloc(m, a, b) ==
  LET size == (a * b) % SizeMax
  IN  IF size < a \/ size < b THEN [m |-> m, p |-> NOWHERE] ELSE malloc(m, size)

block_size(m, p) ==
  LET a == m.arena[block_to_arena(p)]
  IN  IF a.desc # 0 THEN descs[a.desc] ELSE PGSIZE * a.free_cnt - (p % PGSIZE)

\* Mutant: the page goes back while its blocks stay in the free list.
MutFree(m, p) ==
  IF p = NOWHERE THEN m
  ELSE LET a == block_to_arena(p)
           d == m.arena[a].desc
       IN  IF d = 0 THEN [m EXCEPT !.used_map = palloc_free_multiple(@, a, m.arena[a].free_cnt),
                                   !.arena = DropArena(m, a)]
           ELSE IF m.arena[a].free_cnt + 1 < blocks_per_arena(d)
           THEN [m EXCEPT !.free[d] = <<p>> \o @, !.arena[a].free_cnt = @ + 1]
           ELSE [m EXCEPT !.used_map = palloc_free_multiple(@, a, 1), !.arena = DropArena(m, a)]

\* free; when the last block of an arena comes back, all its blocks leave the free
\* list and its page is freed.
free(m, p) ==
  IF p = NOWHERE THEN m
  ELSE LET a == block_to_arena(p)
           d == m.arena[a].desc
       IN  IF d = 0 THEN [m EXCEPT !.used_map = palloc_free_multiple(@, a, m.arena[a].free_cnt),
                                   !.arena = DropArena(m, a)]
           ELSE IF m.arena[a].free_cnt + 1 < blocks_per_arena(d)
           THEN [m EXCEPT !.free[d] = <<p>> \o @, !.arena[a].free_cnt = @ + 1]
           ELSE [used_map |-> palloc_free_multiple(m.used_map, a, 1), arena |-> DropArena(m, a),
                 free |-> [m.free EXCEPT ![d] = SelectSeq(@, LAMBDA b : block_to_arena(b) # a)]]

\* realloc gives the block, the memory and how many bytes it copies.
realloc(m, old, new_size) ==
  IF new_size = 0 THEN [m |-> free(m, old), p |-> NOWHERE, copied |-> 0]
  ELSE LET r == malloc(m, new_size)
           old_size == block_size(m, old)
       IN  IF old = NOWHERE \/ r.p = NOWHERE THEN [m |-> r.m, p |-> r.p, copied |-> 0]
           ELSE [m |-> free(r.m, old), p |-> r.p,
                 copied |-> IF new_size < old_size THEN new_size ELSE old_size]

-----------------------------------------------------------------------------
(* What callers rely on, for the live blocks: the addresses given out and  *)
(* not freed, with the sizes asked for.                                    *)

Bytes(p, size) == p..p+size-1

\* Live blocks do not overlap each other or the header of their arena, none is in
\* a free list, free blocks are in arenas, and a page is in use exactly while it
\* holds a live block.
MemoryExact(m, live) ==
  /\ \A p, r \in DOMAIN live : p # r => Bytes(p, live[p]) \cap Bytes(r, live[r]) = {}
  /\ \A p \in DOMAIN live :
       /\ block_to_arena(p) \in DOMAIN m.arena
       /\ p % PGSIZE >= ArenaSize /\ block_size(m, p) >= live[p]
       /\ \A d \in DOMAIN m.free : \A i \in DOMAIN m.free[d] :
            Bytes(p, live[p]) \cap Bytes(m.free[d][i], descs[d]) = {}
  /\ \A d \in DOMAIN m.free : \A i \in DOMAIN m.free[d] : block_to_arena(m.free[d][i]) \in DOMAIN m.arena
  /\ SetBits(m.used_map) =
       UNION {{x \div PGSIZE : x \in Bytes(block_to_arena(p), ArenaSize + live[p])} : p \in DOMAIN live}

=============================================================================
