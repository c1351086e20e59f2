------------------------------- MODULE Bitmap -------------------------------
(***************************************************************************)
(* The bitmaps of lib/kernel/bitmap.c: an array of words seen as an array  *)
(* of bits.                                                                *)
(***************************************************************************)
EXTENDS Integers, Sequences, FiniteSets, Bitwise

CONSTANT ELEM_BITS

BITMAP_ERROR == -1

elem_idx(bit_idx) == bit_idx \div ELEM_BITS
bit_mask(bit_idx) == 2 ^ (bit_idx % ELEM_BITS)
elem_cnt(bit_cnt) == (bit_cnt + ELEM_BITS - 1) \div ELEM_BITS
last_mask(b) ==
  IF b.bit_cnt % ELEM_BITS # 0 THEN 2 ^ (b.bit_cnt % ELEM_BITS) - 1 ELSE 2 ^ ELEM_BITS - 1

bitmap_mark(b, i) == [b EXCEPT !.bits[elem_idx(i)] = @ | bit_mask(i)]
bitmap_reset(b, i) == [b EXCEPT !.bits[elem_idx(i)] = @ & (2 ^ ELEM_BITS - 1 - bit_mask(i))]
bitmap_flip(b, i) == [b EXCEPT !.bits[elem_idx(i)] = @ ^^ bit_mask(i)]
bitmap_set(b, i, value) == IF value THEN bitmap_mark(b, i) ELSE bitmap_reset(b, i)
bitmap_test(b, i) == (b.bits[elem_idx(i)] & bit_mask(i)) # 0

RECURSIVE bitmap_set_multiple(_, _, _, _)
bitmap_set_multiple(b, start, cnt, value) ==
  IF cnt = 0 THEN b
  ELSE bitmap_set_multiple(bitmap_set(b, start, value), start + 1, cnt - 1, value)
bitmap_set_all(b, value) == bitmap_set_multiple(b, 0, b.bit_cnt, value)

\* bitmap_create: the words hold anything before bitmap_set_all.
bitmap_create(bit_cnt, garbage) ==
  bitmap_set_all([bit_cnt |-> bit_cnt, bits |-> [i \in 0..elem_cnt(bit_cnt)-1 |-> garbage]], FALSE)

bitmap_count(b, start, cnt, value) ==
  Cardinality({i \in start..start+cnt-1 : bitmap_test(b, i) = value})
bitmap_contains(b, start, cnt, value) == \E i \in start..start+cnt-1 : bitmap_test(b, i) = value
bitmap_any(b, start, cnt) == bitmap_contains(b, start, cnt, TRUE)
bitmap_none(b, start, cnt) == ~bitmap_contains(b, start, cnt, TRUE)
bitmap_all(b, start, cnt) == ~bitmap_contains(b, start, cnt, FALSE)

\* The loop of bitmap_scan.
RECURSIVE ScanFrom(_, _, _, _)
ScanFrom(b, i, cnt, value) ==
  IF i > b.bit_cnt - cnt THEN BITMAP_ERROR
  ELSE IF ~bitmap_contains(b, i, cnt, ~value) THEN i
  ELSE ScanFrom(b, i + 1, cnt, value)

bitmap_scan(b, start, cnt, value) ==
  IF cnt <= b.bit_cnt THEN ScanFrom(b, start, cnt, value) ELSE BITMAP_ERROR

bitmap_scan_and_flip(b, start, cnt, value) ==
  LET idx == bitmap_scan(b, start, cnt, value)
  IN  [idx |-> idx,
       b |-> IF idx # BITMAP_ERROR THEN bitmap_set_multiple(b, idx, cnt, ~value) ELSE b]

\* bitmap_write followed by bitmap_read: the unused bits of the last word are
\* cleared.
bitmap_read(b) ==
  IF b.bit_cnt = 0 THEN b
  ELSE [b EXCEPT !.bits[elem_cnt(b.bit_cnt) - 1] = @ & last_mask(b)]

\* The bits of b that are set.
SetBits(b) == {i \in 0..b.bit_cnt-1 : bitmap_test(b, i)}

=============================================================================
