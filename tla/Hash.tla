-------------------------------- MODULE Hash --------------------------------
(***************************************************************************)
(* The hash tables of lib/kernel/hash.c.  A table has its number of        *)
(* elements and its buckets, sequences of elements.  An element has a key, *)
(* which is its hash value too and decides equality, and a tag that tells  *)
(* equal elements apart.  Buckets are numbered from 1.                     *)
(***************************************************************************)
EXTENDS Naturals, Sequences, SequencesExt, FiniteSetsExt, Bitwise

CONSTANTS
  MinBuckets,              \* 4 in the code
  BEST_ELEMS_PER_BUCKET    \* 2 in the code

NoElem == [key |-> -1, tag |-> 0]

NewBuckets(n) == [i \in 1..n |-> <<>>]
hash_init == [elem_cnt |-> 0, buckets |-> NewBuckets(MinBuckets)]
hash_clear(h) == [elem_cnt |-> 0, buckets |-> NewBuckets(Len(h.buckets))]

find_bucket(h, e) == (e.key & (Len(h.buckets) - 1)) + 1

\* The first element of the bucket that is neither less nor greater.
find_elem(h, b, e) ==
  LET equal == {i \in 1..Len(h.buckets[b]) : h.buckets[b][i].key = e.key}
  IN  IF equal = {} THEN NoElem ELSE h.buckets[b][Min(equal)]

hash_find(h, e) == find_elem(h, find_bucket(h, e), e)

turn_off_least_1bit(x) == x & (x - 1)
is_power_of_2(x) == x # 0 /\ turn_off_least_1bit(x) = 0

RECURSIVE RoundDown(_)
RoundDown(n) == IF is_power_of_2(n) THEN n ELSE RoundDown(turn_off_least_1bit(n))
Ideal(n) == RoundDown(Max({n \div BEST_ELEMS_PER_BUCKET, MinBuckets}))

insert_elem(h, b, e) == [h EXCEPT !.elem_cnt = @ + 1, !.buckets[b] = <<e>> \o @]
remove_elem(h, e) ==
  [h EXCEPT !.elem_cnt = @ - 1, !.buckets[find_bucket(h, e)] = SelectSeq(@, LAMBDA x : x # e)]

\* Mutant: elements keep the number of their bucket.
MutMove(h, n) ==
  [h EXCEPT !.buckets = [i \in 1..n |-> IF i <= Len(h.buckets) THEN h.buckets[i] ELSE <<>>]]

\* Each old element goes to the front of its new bucket.
Move(h, n) ==
  LET new == [h EXCEPT !.buckets = NewBuckets(n)]
      push(t, e) == [t EXCEPT !.buckets[find_bucket(t, e)] = <<e>> \o @]
  IN  FoldLeft(push, new, FlattenSeq(h.buckets))

\* rehash; malloc may fail.
rehash(h, malloc) ==
  IF Ideal(h.elem_cnt) = Len(h.buckets) \/ ~malloc THEN h ELSE Move(h, Ideal(h.elem_cnt))

hash_insert(h, e, malloc) ==
  LET b == find_bucket(h, e)
      old == find_elem(h, b, e)
  IN  [h |-> rehash(IF old = NoElem THEN insert_elem(h, b, e) ELSE h, malloc), ret |-> old]

hash_replace(h, e, malloc) ==
  LET b == find_bucket(h, e)
      old == find_elem(h, b, e)
      rest == IF old # NoElem THEN remove_elem(h, old) ELSE h
  IN  [h |-> rehash(insert_elem(rest, b, e), malloc), ret |-> old]

hash_delete(h, e, malloc) ==
  LET found == hash_find(h, e)
  IN  [h |-> IF found = NoElem THEN h ELSE rehash(remove_elem(h, found), malloc), ret |-> found]

\* hash_first: before the first element of the first bucket.
hash_first == [bucket |-> 1, elem |-> 0]

\* hash_next: bucket 0 says that no elements are left.
RECURSIVE NextBucket(_, _)
NextBucket(h, i) ==
  IF i.elem <= Len(h.buckets[i.bucket]) THEN i
  ELSE IF i.bucket + 1 > Len(h.buckets) THEN [bucket |-> 0, elem |-> 0]
  ELSE NextBucket(h, [bucket |-> i.bucket + 1, elem |-> 1])
hash_next(h, i) == NextBucket(h, [i EXCEPT !.elem = @ + 1])
hash_cur(h, i) == IF i.bucket = 0 THEN NoElem ELSE h.buckets[i.bucket][i.elem]

\* The elements an iteration from i on returns.
RECURSIVE Iterate(_, _)
Iterate(h, i) ==
  LET n == hash_next(h, i)
  IN  IF hash_cur(h, n) = NoElem THEN <<>> ELSE <<hash_cur(h, n)>> \o Iterate(h, n)

\* hash_apply visits the buckets in order.
hash_apply(h) == FlattenSeq(h.buckets)
hash_size(h) == h.elem_cnt
hash_empty(h) == h.elem_cnt = 0

=============================================================================
