------------------------------- MODULE Lists -------------------------------
(***************************************************************************)
(* The doubly linked lists of lib/kernel/list.c, pointer by pointer.  The  *)
(* operators take the memory m, with the two links of every node, and give *)
(* the memory that the function leaves.                                    *)
(*                                                                         *)
(* An element that was removed has links that no caller may use: they are  *)
(* NIL here.                                                               *)
(***************************************************************************)
EXTENDS Integers, Sequences, SequencesExt

CONSTANT ListElems   \* the elements, numbers from 1 on

NIL == 0
ListIds == {1, 2}
head(l) == -(2 * l - 1)
tail(l) == -(2 * l)
Nodes == ListElems \cup {head(l) : l \in ListIds} \cup {tail(l) : l \in ListIds}

\* list_init, for two lists.
list_init ==
  [next |-> [n \in Nodes |-> IF \E l \in ListIds : n = head(l) THEN n - 1 ELSE NIL],
   prev |-> [n \in Nodes |-> IF \E l \in ListIds : n = tail(l) THEN n + 1 ELSE NIL]]

is_interior(m, e) == e # NIL /\ m.prev[e] # NIL /\ m.next[e] # NIL
is_tail(m, e) == e # NIL /\ m.prev[e] # NIL /\ m.next[e] = NIL

list_begin(m, l) == m.next[head(l)]
list_end(l) == tail(l)
list_rbegin(m, l) == m.prev[tail(l)]
list_empty(m, l) == list_begin(m, l) = list_end(l)
list_front(m, l) == m.next[head(l)]
list_back(m, l) == m.prev[tail(l)]

list_insert(m, before, e) ==
  LET m1 == [m EXCEPT !.prev[e] = m.prev[before], !.next[e] = before]
  IN  [m1 EXCEPT !.next[m1.prev[before]] = e, !.prev[before] = e]

\* The range from first up to last, without last, goes before the given node.
list_splice(m, before, first, last) ==
  IF first = last THEN m
  ELSE LET l == m.prev[last]
           m1 == [m EXCEPT !.next[m.prev[first]] = m.next[l], !.prev[m.next[l]] = m.prev[first]]
           m2 == [m1 EXCEPT !.prev[first] = m1.prev[before], !.next[l] = before]
       IN  [m2 EXCEPT !.next[m1.prev[before]] = first, !.prev[before] = l]

list_push_front(m, l, e) == list_insert(m, list_begin(m, l), e)
list_push_back(m, l, e) == list_insert(m, list_end(l), e)

list_remove(m, e) ==
  LET m1 == [m EXCEPT !.next[m.prev[e]] = m.next[e], !.prev[m.next[e]] = m.prev[e]]
  IN  [m1 EXCEPT !.next[e] = NIL, !.prev[e] = NIL]

list_pop_front(m, l) == list_remove(m, list_front(m, l))
list_pop_back(m, l) == list_remove(m, list_back(m, l))

\* The elements from a up to b, without b, along next; and backwards along prev.
RECURSIVE Walk(_, _, _)
Walk(m, a, b) == IF a = b THEN <<>> ELSE <<a>> \o Walk(m, m.next[a], b)
RECURSIVE WalkBack(_, _, _)
WalkBack(m, a, b) == IF a = b THEN <<>> ELSE <<a>> \o WalkBack(m, m.prev[a], b)

list_size(m, l) == Len(Walk(m, list_begin(m, l), list_end(l)))

swap(m, e) == [m EXCEPT !.prev[e] = m.next[e], !.next[e] = m.prev[e]]
RECURSIVE SwapAll(_, _, _)
SwapAll(m, e, end) == IF e = end THEN m ELSE SwapAll(swap(m, e), swap(m, e).prev[e], end)

list_reverse(m, l) ==
  IF list_empty(m, l) THEN m
  ELSE LET m1 == SwapAll(m, list_begin(m, l), list_end(l))
           h == m1.next[head(l)]
           t == m1.prev[tail(l)]
           m2 == [m1 EXCEPT !.next[head(l)] = t, !.prev[tail(l)] = h]
       IN  [m2 EXCEPT !.prev[t] = m2.next[h], !.next[h] = m2.prev[t]]

-----------------------------------------------------------------------------
(* Ordered lists.  key gives the elements their values.                    *)

less(key, a, b) == key[a] < key[b]

is_sorted(m, key, a, b) ==
  LET s == Walk(m, a, b) IN \A i \in 1..Len(s)-1 : ~less(key, s[i+1], s[i])

RECURSIVE find_end_of_run(_, _, _, _)
find_end_of_run(m, key, a, b) ==
  LET n == m.next[a]
  IN  IF n # b /\ ~less(key, n, m.prev[n]) THEN find_end_of_run(m, key, n, b) ELSE n

RECURSIVE inplace_merge(_, _, _, _, _)
inplace_merge(m, key, a0, a1b0, b1) ==
  IF a0 = a1b0 \/ a1b0 = b1 THEN m
  ELSE IF ~less(key, a1b0, a0) THEN inplace_merge(m, key, m.next[a0], a1b0, b1)
  ELSE inplace_merge(list_splice(m, a0, a1b0, m.next[a1b0]), key, a0, m.next[a1b0], b1)

\* One pass of list_sort from a0 on: the memory and the number of runs written.
RECURSIVE Pass(_, _, _, _, _)
Pass(m, key, l, a0, runs) ==
  IF a0 = list_end(l) THEN [m |-> m, runs |-> runs]
  ELSE LET a1b0 == find_end_of_run(m, key, a0, list_end(l))
           b1 == find_end_of_run(m, key, a1b0, list_end(l))
       IN  IF a1b0 = list_end(l) THEN [m |-> m, runs |-> runs + 1]
           ELSE Pass(inplace_merge(m, key, a0, a1b0, b1), key, l, b1, runs + 1)

RECURSIVE list_sort(_, _, _)
list_sort(m, key, l) ==
  LET p == Pass(m, key, l, list_begin(m, l), 0)
  IN  IF p.runs > 1 THEN list_sort(p.m, key, l) ELSE p.m

\* With strict FALSE, the order of less_priority (threads/thread.c), a <= b.
list_insert_ordered(m, key, l, e, strict) ==
  LET s == Walk(m, list_begin(m, l), list_end(l))
      after == {i \in 1..Len(s) : IF strict THEN key[e] < key[s[i]] ELSE key[e] <= key[s[i]]}
  IN  list_insert(m, IF after = {} THEN list_end(l) ELSE s[CHOOSE i \in after : \A j \in after : i <= j],
                  e)

RECURSIVE Unique(_, _, _, _, _)
Unique(m, key, l, duplicates, e) ==
  LET n == m.next[e]
  IN  IF n = list_end(l) THEN m
      ELSE IF ~less(key, e, n) /\ ~less(key, n, e)
      THEN Unique(list_push_back(list_remove(m, n), duplicates, n), key, l, duplicates, e)
      ELSE Unique(m, key, l, duplicates, n)

list_unique(m, key, l, duplicates) ==
  IF list_empty(m, l) THEN m ELSE Unique(m, key, l, duplicates, list_begin(m, l))

\* The best of the elements from e up to end: the first of the largest when sign
\* is 1, of the smallest when it is -1.
RECURSIVE Best(_, _, _, _, _, _)
Best(m, key, best, e, end, sign) ==
  IF e = end THEN best
  ELSE Best(m, key, IF sign * key[e] > sign * key[best] THEN e ELSE best, m.next[e], end, sign)

list_max(m, key, l) ==
  LET b == list_begin(m, l)
  IN  IF b = list_end(l) THEN b ELSE Best(m, key, b, m.next[b], list_end(l), 1)

list_min(m, key, l) ==
  LET b == list_begin(m, l)
  IN  IF b = list_end(l) THEN b ELSE Best(m, key, b, m.next[b], list_end(l), -1)

-----------------------------------------------------------------------------
(* What the functions promise, on sequences.                               *)

Place(s, e) == CHOOSE i \in 1..Len(s) : s[i] = e

\* The sequence is the sorted rearrangement of s that keeps equals in order.
IsStableSortOf(t, s, key) ==
  /\ Len(t) = Len(s) /\ ToSet(t) = ToSet(s)
  /\ \A i, j \in 1..Len(t) : i < j =>
       \/ key[t[i]] < key[t[j]]
       \/ key[t[i]] = key[t[j]] /\ Place(s, t[i]) < Place(s, t[j])

\* Elements with a predecessor of their value: what list_unique takes out.
Repeated(s, key) == {s[i] : i \in {j \in 2..Len(s) : key[s[j]] = key[s[j-1]]}}

=============================================================================
