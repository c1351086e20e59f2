------------------------------- MODULE Strings -------------------------------
(***************************************************************************)
(* lib/string.c, on a memory m of characters indexed from 0; addresses are *)
(* indices and NOPTR is the null pointer.  NUL ends a string.              *)
(***************************************************************************)
EXTENDS Integers, Sequences, SequencesExt, FiniteSetsExt

NUL == 0
NOPTR == -1

\* Copies byte by byte upwards (memcpy) and downwards.
RECURSIVE memcpy(_, _, _, _)
memcpy(m, dst, src, size) ==
  IF size = 0 THEN m ELSE memcpy([m EXCEPT ![dst] = m[src]], dst + 1, src + 1, size - 1)
RECURSIVE CopyDown(_, _, _, _)
CopyDown(m, dst, src, size) ==
  IF size = 0 THEN m
  ELSE CopyDown([m EXCEPT ![dst + size - 1] = m[src + size - 1]], dst, src, size - 1)

memmove(m, dst, src, size) ==
  IF dst < src THEN memcpy(m, dst, src, size) ELSE CopyDown(m, dst, src, size)

RECURSIVE strlen(_, _)
strlen(m, s) == IF m[s] = NUL THEN 0 ELSE 1 + strlen(m, s + 1)
RECURSIVE strnlen(_, _, _)
strnlen(m, s, maxlen) == IF maxlen = 0 \/ m[s] = NUL THEN 0 ELSE 1 + strnlen(m, s + 1, maxlen - 1)

\* -1, 0 or 1.
Sign(x) == IF x > 0 THEN 1 ELSE IF x < 0 THEN -1 ELSE 0
RECURSIVE memcmp(_, _, _, _)
memcmp(m, a, b, size) ==
  IF size = 0 THEN 0
  ELSE IF m[a] # m[b] THEN Sign(m[a] - m[b]) ELSE memcmp(m, a + 1, b + 1, size - 1)
RECURSIVE strcmp(_, _, _)
strcmp(m, a, b) ==
  IF m[a] # NUL /\ m[a] = m[b] THEN strcmp(m, a + 1, b + 1) ELSE Sign(m[a] - m[b])

RECURSIVE memchr(_, _, _, _)
memchr(m, s, ch, size) ==
  IF size = 0 THEN NOPTR ELSE IF m[s] = ch THEN s ELSE memchr(m, s + 1, ch, size - 1)
RECURSIVE strchr(_, _, _)
strchr(m, s, c) == IF m[s] = c THEN s ELSE IF m[s] = NUL THEN NOPTR ELSE strchr(m, s + 1, c)

\* strrchr, with the last occurrence so far.
RECURSIVE LastChr(_, _, _, _)
LastChr(m, s, c, p) == IF m[s] = NUL THEN p ELSE LastChr(m, s + 1, c, IF m[s] = c THEN s ELSE p)
strrchr(m, s, c) == LastChr(m, s, c, NOPTR)

\* Sets of characters are strings in memory too.
RECURSIVE strcspn(_, _, _)
strcspn(m, s, stop) ==
  IF m[s] = NUL \/ strchr(m, stop, m[s]) # NOPTR THEN 0 ELSE 1 + strcspn(m, s + 1, stop)
RECURSIVE strspn(_, _, _)
strspn(m, s, skip) ==
  IF m[s] = NUL \/ strchr(m, skip, m[s]) = NOPTR THEN 0 ELSE 1 + strspn(m, s + 1, skip)
RECURSIVE strpbrk(_, _, _)
strpbrk(m, s, stop) ==
  IF m[s] = NUL THEN NOPTR ELSE IF strchr(m, stop, m[s]) # NOPTR THEN s ELSE strpbrk(m, s + 1, stop)

RECURSIVE FindFrom(_, _, _, _, _)
FindFrom(m, s, needle, len, left) ==
  IF memcmp(m, s, needle, len) = 0 THEN s
  ELSE IF left = 0 THEN NOPTR ELSE FindFrom(m, s + 1, needle, len, left - 1)
strstr(m, haystack, needle) ==
  IF strlen(m, haystack) >= strlen(m, needle)
  THEN FindFrom(m, haystack, needle, strlen(m, needle), strlen(m, haystack) - strlen(m, needle))
  ELSE NOPTR

strlcpy(m, dst, src, size) ==
  IF size = 0 THEN m
  ELSE LET n == Min({size - 1, strlen(m, src)})
       IN  [memcpy(m, dst, src, n) EXCEPT ![dst + n] = NUL]

strlcat(m, dst, src, size) ==
  LET len == strlen(m, dst)
      n == Min({size - len - 1, strlen(m, src)})
  IN  IF size > 0 /\ len < size
      THEN [memcpy(m, dst + len, src, n) EXCEPT ![dst + len + n] = NUL]
      ELSE m

\* strtok_r from the address s, which is the string or the saved position.
RECURSIVE SkipDelimiters(_, _, _)
SkipDelimiters(m, s, delimiters) ==
  IF m[s] # NUL /\ strchr(m, delimiters, m[s]) # NOPTR THEN SkipDelimiters(m, s + 1, delimiters) ELSE s

strtok_r(m, s, delimiters) ==
  LET token == SkipDelimiters(m, s, delimiters)
      end == token + strcspn(m, token, delimiters)
  IN  IF m[token] = NUL THEN [m |-> m, token |-> NOPTR, save |-> token]
      ELSE IF m[end] # NUL THEN [m |-> [m EXCEPT ![end] = NUL], token |-> token, save |-> end + 1]
      ELSE [m |-> m, token |-> token, save |-> end]

-----------------------------------------------------------------------------
(* What the functions promise.                                             *)

\* The string at an address, without its terminator.
Str(m, s) == [i \in 1..strlen(m, s) |-> m[s + i - 1]]
StrSet(m, s) == ToSet(Str(m, s))

\* The tokens that repeated calls return.
RECURSIVE Tokens(_, _, _)
Tokens(m, s, delimiters) ==
  LET r == strtok_r(m, s, delimiters)
  IN  IF r.token = NOPTR THEN <<>> ELSE <<Str(r.m, r.token)>> \o Tokens(r.m, r.save, delimiters)

\* The maximal stretches without delimiters, from left to right.
Stretches(s, delims) ==
  LET clear(i, j) == \A k \in i..j : s[k] \notin delims
      starts == {i \in 1..Len(s) : clear(i, i) /\ (i = 1 \/ s[i-1] \in delims)}
      stop(i) == Max({j \in i..Len(s) : clear(i, j)})
      order == SetToSortSeq(starts, LAMBDA a, b : a < b)
  IN  [n \in 1..Len(order) |-> SubSeq(s, order[n], stop(order[n]))]

\* A copy within the memory moves the bytes that were there before it, also when
\* the ranges overlap, and touches nothing else.
MovesExactly(m) ==
  \A dst, src \in DOMAIN m : \A size \in 0..Cardinality(DOMAIN m) - Max({dst, src}) :
    memmove(m, dst, src, size) =
      [a \in DOMAIN m |-> IF a \in dst..dst+size-1 THEN m[src + a - dst] ELSE m[a]]

\* Bounded copies to dst: at most size bytes change, the result is ended, and it
\* is the longest beginning that fits.
CopiesFit(m, dst, src) ==
  \A size \in 0..src-dst :
    LET c == strlcpy(m, dst, src, size)
        d == strlcat(m, dst, src, size)
        joined == Str(m, dst) \o Str(m, src)
    IN  /\ \A a \in DOMAIN m \ (dst..dst+size-1) : c[a] = m[a] /\ d[a] = m[a]
        /\ size > 0 => Str(c, dst) = SubSeq(Str(m, src), 1, Min({size - 1, strlen(m, src)}))
        /\ strlen(m, dst) < size => Str(d, dst) = SubSeq(joined, 1, Min({size - 1, Len(joined)}))

\* The searches, for the string at s and the one at t as a set of characters or as
\* what is looked for.
Finds(m, s, t) ==
  LET str == Str(m, s)
      set == StrSet(m, t)
      at(i) == s + i - 1
      first(is) == IF is = {} THEN NOPTR ELSE at(Min(is))
      in == {i \in 1..Len(str) : str[i] \in set}
      here(i) == SubSeq(str, i, i + strlen(m, t) - 1) = Str(m, t)
  IN  /\ Tokens(m, s, t) = Stretches(str, set)
      /\ strpbrk(m, s, t) = first(in)
      /\ strcspn(m, s, t) = (IF in = {} THEN Len(str) ELSE Min(in) - 1)
      /\ strspn(m, s, t) = Max({n \in 0..Len(str) : \A i \in 1..n : i \in in})
      /\ strstr(m, s, t) = first({i \in 1..Len(str) - strlen(m, t) + 1 : here(i)})
      /\ \A c \in {1, 2} :
           LET is == {i \in 1..Len(str) : str[i] = c}
           IN  /\ strchr(m, s, c) = first(is)
               /\ strrchr(m, s, c) = (IF is = {} THEN NOPTR ELSE at(Max(is)))
               /\ memchr(m, s, c, Len(str)) = first(is)
      /\ \A n \in 0..3 : strnlen(m, s, n) = Min({n, Len(str)})
      /\ (strcmp(m, s, t) = 0) = (str = Str(m, t))
      /\ strcmp(m, s, t) = -strcmp(m, t, s)

=============================================================================
