------------------------------- MODULE Stdlib -------------------------------
(***************************************************************************)
(* lib/stdlib.c and lib/random.c: heap sort, binary search, the conversion *)
(* of decimal numbers, and the generator of pseudo-random bytes.           *)
(***************************************************************************)
EXTENDS Integers, Sequences, SequencesExt

CONSTANTS
  IntMax,   \* the largest int
  Bytes256  \* 256 in the code: the number of byte values

-----------------------------------------------------------------------------
(* Arrays are sequences of numbers, compared by value.                     *)

do_swap(array, a, b) == [array EXCEPT ![a] = array[b], ![b] = array[a]]

RECURSIVE heapify(_, _, _)
heapify(array, i, cnt) ==
  LET left == 2 * i
      right == 2 * i + 1
      max1 == IF left <= cnt /\ array[left] > array[i] THEN left ELSE i
      max2 == IF right <= cnt /\ array[right] > array[max1] THEN right ELSE max1
  IN  IF max2 = i THEN array ELSE heapify(do_swap(array, i, max2), max2, cnt)

RECURSIVE BuildHeap(_, _)
BuildHeap(array, i) == IF i = 0 THEN array ELSE BuildHeap(heapify(array, i, Len(array)), i - 1)
RECURSIVE SortHeap(_, _)
SortHeap(array, i) ==
  IF i <= 1 THEN array ELSE SortHeap(heapify(do_swap(array, 1, i), 1, i - 1), i - 1)
sort(array) == SortHeap(BuildHeap(array, Len(array) \div 2), Len(array))

\* The index found, 0 for none; first and last bound the range, last excluded.
RECURSIVE SearchRange(_, _, _, _)
SearchRange(key, array, first, last) ==
  LET middle == first + (last - first) \div 2
  IN  IF first >= last THEN 0
      ELSE IF key < array[middle] THEN SearchRange(key, array, first, middle)
      ELSE IF key > array[middle] THEN SearchRange(key, array, middle + 1, last)
      ELSE middle
binary_search(key, array) == SearchRange(key, array, 1, Len(array) + 1)

\* The sorted array is a rearrangement, and a search in it finds a key exactly if
\* it is there.
SortedAndFound(array, sorted, keys) ==
  /\ \A i \in 1..Len(sorted)-1 : sorted[i] <= sorted[i+1]
  /\ Len(sorted) = Len(array)
  /\ \A v \in ToSet(array) \cup ToSet(sorted) :
       Len(SelectSeq(array, LAMBDA x : x = v)) = Len(SelectSeq(sorted, LAMBDA x : x = v))
  /\ \A k \in keys : LET i == binary_search(k, sorted)
                     IN  IF k \in ToSet(array) THEN i # 0 /\ sorted[i] = k ELSE i = 0

-----------------------------------------------------------------------------
(* Characters are numbers 0..9 for the digits, and the others below.       *)

SPACE == 20
PLUS == 21
MINUS == 22
LETTER == 23
Digit(c) == c \in 0..9

\* An int, as two's complement leaves it.
AsInt(x) == ((x + IntMax + 1) % (2 * IntMax + 2)) - IntMax - 1

RECURSIVE SkipSpaces(_)
SkipSpaces(s) == IF s # <<>> /\ Head(s) = SPACE THEN SkipSpaces(Tail(s)) ELSE s
RECURSIVE Digits(_, _)
Digits(s, value) ==
  IF s # <<>> /\ Digit(Head(s)) THEN Digits(Tail(s), AsInt(value * 10 - Head(s))) ELSE value

\* The value is built as a negative number.
atoi(str) ==
  LET s == SkipSpaces(str)
      negative == s # <<>> /\ Head(s) = MINUS
      signed == s # <<>> /\ Head(s) \in {PLUS, MINUS}
      value == Digits(IF signed THEN Tail(s) ELSE s, 0)
  IN  IF negative THEN value ELSE AsInt(-value)

Numeral(n) == IF n < 10 THEN <<n>> ELSE IF n < 100 THEN <<n \div 10, n % 10>>
              ELSE <<n \div 100, (n \div 10) % 10, n % 10>>

\* Every int is read from its numeral, the smallest included, whatever spaces
\* precede it and whatever follows that is no digit.
NumberRead(n, spaces, plus, after) ==
  LET sign == IF n < 0 THEN <<MINUS>> ELSE IF plus THEN <<PLUS>> ELSE <<>>
  IN  atoi(spaces \o sign \o Numeral(IF n < 0 THEN -n ELSE n) \o after) = n

-----------------------------------------------------------------------------
(* The generator: a permutation s of the bytes, and two positions.         *)

swap_byte(s, a, b) == [s EXCEPT ![a] = s[b], ![b] = s[a]]

RECURSIVE Mix(_, _, _, _)
Mix(s, i, j, seed) ==
  IF i = Bytes256 THEN s
  ELSE LET k == (j + s[i] + seed[(i % Len(seed)) + 1]) % Bytes256
       IN  Mix(swap_byte(s, i, k), i + 1, k, seed)
random_init(seed) == [s |-> Mix([i \in 0..Bytes256-1 |-> i], 0, 0, seed), i |-> 0, j |-> 0]

random_byte(r) ==
  LET i == (r.i + 1) % Bytes256
      j == (r.j + r.s[i]) % Bytes256
      s == swap_byte(r.s, i, j)
  IN  [r |-> [s |-> s, i |-> i, j |-> j], byte |-> s[(s[i] + s[j]) % Bytes256]]

=============================================================================
