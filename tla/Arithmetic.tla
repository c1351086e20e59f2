----------------------------- MODULE Arithmetic -----------------------------
(***************************************************************************)
(* The 64-bit divisions of lib/arithmetic.c, for words of W bits: W is 32  *)
(* in the code, and 64-bit numbers are those of two words.                 *)
(***************************************************************************)
EXTENDS Integers

CONSTANT W

Word == 2 ^ W
Double == Word * Word
TRAP == -1   \* the divide error of divl

\* The instruction traps when the quotient does not fit a word.
divl(n, d) == IF d = 0 \/ n \div d >= Word THEN TRAP ELSE n \div d

\* nlz: whether the upper half, quarter, ... of what is left is zero.
RECURSIVE LeadingZeros(_, _)
LeadingZeros(x, step) ==
  IF step = 0 THEN 0
  ELSE IF x < 2 ^ (W - step)
  THEN step + LeadingZeros((x * 2 ^ step) % Word, step \div 2)
  ELSE LeadingZeros(x, step \div 2)
nlz(x) == LeadingZeros(x, W \div 2)

\* Mutant: the estimate of the quotient is not corrected.
MutUdiv64(n, d) ==
  IF d \div Word = 0
  THEN LET q == divl(Word * ((n \div Word) % d) + (n % Word), d)
       IN  IF q = TRAP THEN TRAP ELSE q + Word * ((n \div Word) \div d)
  ELSE IF n < d THEN 0
  ELSE LET s == nlz(d \div Word)
           q == divl(n \div 2, ((d * 2 ^ s) % Double) \div Word)
       IN  IF q = TRAP THEN TRAP ELSE q \div 2 ^ (W - 1 - s)

udiv64(n, d) ==
  IF d \div Word = 0
  THEN LET q == divl(Word * ((n \div Word) % d) + (n % Word), d)
       IN  IF q = TRAP THEN TRAP ELSE q + Word * ((n \div Word) \div d)
  ELSE IF n < d THEN 0
  ELSE LET s == nlz(d \div Word)
           e == divl(n \div 2, ((d * 2 ^ s) % Double) \div Word)
           q == e \div 2 ^ (W - 1 - s)
       IN  IF e = TRAP THEN TRAP
           ELSE IF (n - (q - 1) * d) % Double < d THEN (q - 1) % Double ELSE q

\* umod64 returns a uint32_t.
umod64(n, d) == ((n - d * udiv64(n, d)) % Double) % Word

\* Two's complement.
Signed(x, size) == IF x % size >= size \div 2 THEN (x % size) - size ELSE x % size

sdiv64(n, d) ==
  LET q == udiv64(IF n >= 0 THEN n ELSE -n, IF d >= 0 THEN d ELSE -d)
  IN  Signed(IF (n < 0) = (d < 0) THEN q ELSE -q, Double)

\* smod64 returns an int32_t.
smod64(n, d) == Signed(n - d * sdiv64(n, d), Word)

\* Division towards zero, as C defines it.
Quotient(n, d) ==
  LET a == IF n >= 0 THEN n ELSE -n
      b == IF d >= 0 THEN d ELSE -d
  IN  IF (n < 0) = (d < 0) THEN a \div b ELSE -(a \div b)

\* For the divisor d: no dividend traps, every quotient is the right one, and so
\* is every remainder that fits the word that the functions return.
DivisionExact(d) ==
  /\ \A n \in 0..Double-1 :
       /\ udiv64(n, d) = n \div d
       /\ n % d < Word => umod64(n, d) = n % d
  /\ LET s == Signed(d, Double) IN \A n \in -(Double \div 2)..(Double \div 2)-1 :
       /\ ~(n = -(Double \div 2) /\ s = -1) => sdiv64(n, s) = Quotient(n, s)
       /\ LET r == n - s * Quotient(n, s)
          IN  r \in -(Word \div 2)..(Word \div 2)-1 => smod64(n, s) = r

=============================================================================
