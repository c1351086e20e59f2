--------------------------- MODULE TerminalProofs ---------------------------
(***************************************************************************)
(* Proofs about Terminal, for any number of readers and writers, any size  *)
(* of the queues and any lines: no byte is lost or overtaken, a thread     *)
(* asleep in a queue is known to it, and lines are not mixed.              *)
(***************************************************************************)
EXTENDS Terminal, TLAPS

Byte == {NULL} \cup ({"key", "host", "intr"} \X Nat) \cup (Writers \X STRING)
Places == {"run", "serial", "vga", "lock", "blocked", "woken"}
Slots == 0..BufSize-1
Names == {In, Tx}

QueueType ==
  [buf : [Slots -> Byte], head : Slots, tail : Slots, lock : Threads \cup {NULL},
   not_full : Threads \cup {NULL}, not_empty : Threads \cup {NULL}]

\* The types, and what a thread inside getc or putc still has to do.
Types ==
  /\ pc \in [Threads -> Places]
  /\ todo = [t \in Threads |-> todo[t]]
  /\ \A w \in Writers : todo[w] \in Seq(STRING)
  /\ \A w \in Writers : pc[w] # "run" => todo[w] # <<>> /\ Op(w) \notin {"acquire", "release"}
  /\ \A r \in Readers : pc[r] \notin {"serial", "vga"}
  /\ q \in [Names -> QueueType]
  /\ rx \in Byte /\ given \in [host : Nat, keys : Nat, intr : Nat]
  /\ accepted \in Seq(Byte) /\ got \in Seq(Byte)
  /\ sent \in Seq(Byte) /\ wire \in Seq(Byte) /\ screen \in Seq(Byte)

\* The lock of a queue is held by the thread that sleeps in it or was just woken;
\* the queue knows the sleeper, and nobody else.
InAsleep ==
  /\ \A t \in Readers : pc[t] = "blocked" => q[In].not_empty = t /\ q[In].head = q[In].tail
  /\ \A t \in Readers : pc[t] \in {"blocked", "woken"} => q[In].lock = t
  /\ q[In].not_empty # NULL => q[In].not_empty \in Readers /\ pc[q[In].not_empty] = "blocked"
TxAsleep ==
  /\ \A t \in Writers : pc[t] = "blocked" => q[Tx].not_full = t /\ next(q[Tx].head) = q[Tx].tail
  /\ \A t \in Writers : pc[t] \in {"blocked", "woken"} => q[Tx].lock = t
  /\ q[Tx].not_full # NULL => q[Tx].not_full \in Writers /\ pc[q[Tx].not_full] = "blocked"

IInv == Types /\ InAsleep /\ TxAsleep /\ InOrder

\* Where a writer is in its script, and how deep it holds the console.
Pos(w) == Len(Script[w]) - Len(todo[w])
Level(w) == CHOOSE level \in [0..Len(Script[w]) -> Int] : Nests(Script[w], level)
Depth(w) == Level(w)[Pos(w)]

Holding ==
  /\ console_lock \in Writers \cup {NULL} /\ console_lock_depth \in Nat
  /\ console_lock = NULL => console_lock_depth = 0
  /\ \A w \in Writers :
       /\ Pos(w) \in 0..Len(Script[w])
       /\ \A i \in 1..Len(todo[w]) : todo[w][i] = Script[w][Pos(w) + i]
       /\ Depth(w) = IF console_lock = w THEN console_lock_depth + 1 ELSE 0

\* A writer has printed only after it took the console, and while it holds it
\* nobody prints after it but itself and interrupt handlers; lock is the holder
\* and at says how far each writer is.
LinesAt(s, lock, at) ==
  /\ Unmixed(s)
  /\ \A i \in 1..Len(s) : LineOf(s[i]) \in Writers => at[LineOf(s[i])] > 0
  /\ \A i, j \in 1..Len(s) :
       i < j /\ LineOf(s[i]) \in Writers /\ lock = LineOf(s[i])
         => LineOf(s[j]) \in {LineOf(s[i]), "intr"}
Positions == [w \in Writers |-> Pos(w)]
Whole == LinesAt(sent, console_lock, Positions) /\ LinesAt(screen, console_lock, Positions)

USE DEF Threads, In, Tx, Names, Slots, Places

\* INTQ_BUFSIZE is at least 2: one slot always stays free.
LEMMA Buffer == BufSize \in Nat /\ BufSize > 1
BY TerminalAssumption

-----------------------------------------------------------------------------
(* The ring buffer.                                                        *)

Size(Q) == (Q.head + BufSize - Q.tail) % BufSize
Held(Q) == [i \in 1..Size(Q) |-> Q.buf[(Q.tail + i - 1) % BufSize]]

\* Positions wrap around: the arithmetic of next and of the bytes counted from tail.
LEMMA Wraps ==
  ASSUME NEW x \in Nat, x < 2 * BufSize
  PROVE  x % BufSize = IF x < BufSize THEN x ELSE x - BufSize
BY Buffer

\* next stays in the buffer.
LEMMA NextSlot ==
  ASSUME NEW h \in Slots
  PROVE  next(h) \in Slots /\ next(h) = IF h + 1 = BufSize THEN 0 ELSE h + 1
BY Buffer DEF next

\* A queue that is full is not empty.
LEMMA NextOther == \A h \in Slots : next(h) # h
BY NextSlot, Buffer

\* The head is where the next byte goes: one slot past those in use.
LEMMA RoomArithmetic ==
  ASSUME NEW h \in Slots, NEW t \in Slots, next(h) # t, NEW n, n = (h + BufSize - t) % BufSize
  PROVE  /\ n \in Nat /\ (next(h) + BufSize - t) % BufSize = n + 1
         /\ (t + n) % BufSize = h
         /\ \A i \in 1..n : (t + i - 1) % BufSize \in Slots /\ (t + i - 1) % BufSize # h
<1>1. next(h) \in Slots /\ next(h) = IF h + 1 = BufSize THEN 0 ELSE h + 1
  BY NextSlot
<1>2. n = IF h < t THEN h + BufSize - t ELSE h - t
  <2>1. h + BufSize - t \in Nat /\ h + BufSize - t < 2 * BufSize
    BY Buffer
  <2> QED BY <2>1, Wraps, Buffer
<1>3. n \in Nat /\ n + 1 < BufSize
  BY <1>1, <1>2, Buffer
<1>4. (next(h) + BufSize - t) % BufSize = n + 1
  <2>1. next(h) + BufSize - t \in Nat /\ next(h) + BufSize - t < 2 * BufSize
    BY <1>1, Buffer
  <2>2. (next(h) + BufSize - t) % BufSize
          = IF next(h) < t THEN next(h) + BufSize - t ELSE next(h) - t
    BY <1>1, <2>1, Wraps, Buffer
  <2> QED BY <1>1, <1>2, <2>2, Buffer
<1>5. (t + n) % BufSize = h
  <2>1. t + n \in Nat /\ t + n < 2 * BufSize
    BY <1>3, Buffer
  <2>2. (t + n) % BufSize = IF t + n < BufSize THEN t + n ELSE t + n - BufSize
    BY <2>1, Wraps, Buffer
  <2> QED BY <1>2, <2>2, Buffer
<1>6. ASSUME NEW i \in 1..n
      PROVE  (t + i - 1) % BufSize \in Slots /\ (t + i - 1) % BufSize # h
  <2>1. t + i - 1 \in Nat /\ t + i - 1 < 2 * BufSize
    BY <1>3, Buffer
  <2>2. (t + i - 1) % BufSize = IF t + i - 1 < BufSize THEN t + i - 1 ELSE t + i - 1 - BufSize
    BY <2>1, Wraps, Buffer
  <2> QED BY <1>2, <1>3, <2>2, Buffer
<1> QED BY <1>3, <1>4, <1>5, <1>6

\* Taking the byte at the tail moves the others down by one.
LEMMA TakeArithmetic ==
  ASSUME NEW h \in Slots, NEW t \in Slots, h # t
  PROVE  /\ (h + BufSize - next(t)) % BufSize \in Nat
         /\ (h + BufSize - t) % BufSize = 1 + ((h + BufSize - next(t)) % BufSize)
         /\ t % BufSize = t
         /\ \A i \in 1..(h + BufSize - next(t)) % BufSize :
              /\ (next(t) + i - 1) % BufSize = (t + i) % BufSize
              /\ (t + i) % BufSize \in Slots
<1>1. next(t) \in Slots /\ next(t) = IF t + 1 = BufSize THEN 0 ELSE t + 1
  BY NextSlot
<1> DEFINE n == IF h < t THEN h + BufSize - t ELSE h - t
<1>2. n \in Nat /\ n > 0 /\ n < BufSize
  BY <1>1, Buffer
<1>3. (h + BufSize - t) % BufSize = n
  <2>1. h + BufSize - t \in Nat /\ h + BufSize - t < 2 * BufSize
    BY Buffer
  <2> QED BY <2>1, Wraps, Buffer
<1>4. (h + BufSize - next(t)) % BufSize = n - 1
  <2>1. h + BufSize - next(t) \in Nat /\ h + BufSize - next(t) < 2 * BufSize
    BY <1>1, Buffer
  <2> QED BY <1>1, <2>1, Wraps, Buffer
<1>5. t % BufSize = t
  BY Wraps, Buffer
<1>6. ASSUME NEW i \in 1..n-1
      PROVE  (next(t) + i - 1) % BufSize = (t + i) % BufSize /\ (t + i) % BufSize \in Slots
  <2>1. /\ t + i \in Nat /\ t + i < 2 * BufSize
        /\ next(t) + i - 1 \in Nat /\ next(t) + i - 1 < 2 * BufSize
    BY <1>1, <1>2, Buffer
  <2> QED BY <1>1, <1>2, <2>1, Wraps, Buffer
<1> HIDE DEF n
<1> QED BY <1>2, <1>3, <1>4, <1>5, <1>6

\* intq_putc appends a byte to the bytes held.
LEMMA PutHeld ==
  ASSUME NEW Q \in QueueType, NEW b \in Byte, next(Q.head) # Q.tail
  PROVE  /\ intq_putc(Q, b) \in QueueType
         /\ Held(Q) \in Seq(Byte)
         /\ Held(intq_putc(Q, b)) = Append(Held(Q), b)
<1> DEFINE R == intq_putc(Q, b)
<1>1. /\ Q.head \in Slots /\ Q.tail \in Slots /\ Q.buf \in [Slots -> Byte]
      /\ Q.lock \in Threads \cup {NULL} /\ Q.not_full \in Threads \cup {NULL}
  BY DEF QueueType
<1>2. R.head = next(Q.head) /\ R.tail = Q.tail /\ R.buf = [Q.buf EXCEPT ![Q.head] = b]
  BY DEF intq_putc, QueueType
<1>3. next(Q.head) \in Slots
  BY <1>1, NextSlot
<1>4. R \in QueueType
  BY <1>1, <1>3, Zenon DEF intq_putc, QueueType
<1>5. R.buf[Q.head] = b /\ \A i \in Slots : i # Q.head => R.buf[i] = Q.buf[i]
  BY <1>1, <1>2, Zenon
<1> DEFINE n == Size(Q)
<1>6. /\ n \in Nat /\ Size(R) = n + 1 /\ (Q.tail + n) % BufSize = Q.head
      /\ \A i \in 1..n : (Q.tail + i - 1) % BufSize \in Slots
                         /\ (Q.tail + i - 1) % BufSize # Q.head
  <2> HIDE DEF R, n
  <2>1. n = (Q.head + BufSize - Q.tail) % BufSize
    BY DEF n, Size
  <2>2. Size(R) = (next(Q.head) + BufSize - Q.tail) % BufSize
    BY <1>2 DEF Size
  <2> QED BY <1>1, <2>1, <2>2, RoomArithmetic
<1>7. Held(Q) \in Seq(Byte) /\ Len(Held(Q)) = n
  <2>1. \A i \in 1..n : Q.buf[(Q.tail + i - 1) % BufSize] \in Byte
    BY <1>1, <1>6, Zenon
  <2> HIDE DEF n
  <2>2. Held(Q) = [i \in 1..n |-> Q.buf[(Q.tail + i - 1) % BufSize]]
    BY DEF Held, n
  <2>3. Held(Q) \in [1..n -> Byte]
    BY <2>1, <2>2
  <2> HIDE DEF Held
  <2> QED BY <1>6, <2>3
<1>8. Held(R) = [i \in 1..n+1 |-> R.buf[(Q.tail + i - 1) % BufSize]]
  BY <1>2, <1>6 DEF Held
<1> HIDE DEF n, R
<1>9. \A i \in 1..n : Held(R)[i] = Held(Q)[i]
  <2>1. \A i \in 1..n : Held(Q)[i] = Q.buf[(Q.tail + i - 1) % BufSize]
    BY DEF Held, n
  <2>2. \A i \in 1..n : Held(R)[i] = R.buf[(Q.tail + i - 1) % BufSize]
    BY <1>6, <1>8
  <2> QED BY <1>5, <1>6, <2>1, <2>2
<1>10. Held(R)[n + 1] = b
  <2>1. Held(R)[n + 1] = R.buf[(Q.tail + (n + 1) - 1) % BufSize]
    BY <1>6, <1>8
  <2>2. Q.tail + (n + 1) - 1 = Q.tail + n
    BY <1>1, <1>6
  <2> QED BY <1>5, <1>6, <2>1, <2>2
<1>11. Held(R) = Append(Held(Q), b)
  <2> DEFINE A == Append(Held(Q), b)
  <2>1. /\ A \in Seq(Byte) /\ Len(A) = n + 1
        /\ \A i \in 1..n+1 : A[i] = IF i = n + 1 THEN b ELSE Held(Q)[i]
    BY <1>7, <1>6
  <2> HIDE DEF A
  <2>2. Held(R) = [i \in 1..n+1 |-> Held(R)[i]] /\ A = [i \in 1..n+1 |-> A[i]]
    BY <1>6, <1>8, <2>1
  <2>3. \A i \in 1..n+1 : Held(R)[i] = A[i]
    BY <1>6, <1>9, <1>10, <2>1
  <2>4. Held(R) = A
    BY <2>2, <2>3
  <2> QED BY <2>4 DEF A
<1> QED BY <1>4, <1>7, <1>11 DEF R

\* intq_getc takes the oldest byte held.
LEMMA GetHeld ==
  ASSUME NEW Q \in QueueType, Q.head # Q.tail
  PROVE  /\ intq_getc(Q) \in QueueType /\ Q.buf[Q.tail] \in Byte
         /\ Held(intq_getc(Q)) \in Seq(Byte)
         /\ Held(Q) = <<Q.buf[Q.tail]>> \o Held(intq_getc(Q))
<1> DEFINE R == intq_getc(Q)
<1>1. /\ Q.head \in Slots /\ Q.tail \in Slots /\ Q.buf \in [Slots -> Byte]
      /\ Q.lock \in Threads \cup {NULL} /\ Q.not_empty \in Threads \cup {NULL}
  BY DEF QueueType
<1>2. R.head = Q.head /\ R.tail = next(Q.tail) /\ R.buf = Q.buf
  BY DEF intq_getc, QueueType
<1>3. next(Q.tail) \in Slots
  BY <1>1, NextSlot
<1>4. R \in QueueType
  BY <1>1, <1>3, Zenon DEF intq_getc, QueueType
<1> DEFINE n == Size(R)
<1>6. /\ n \in Nat /\ Size(Q) = n + 1 /\ Q.tail % BufSize = Q.tail
      /\ \A i \in 1..n : (next(Q.tail) + i - 1) % BufSize = (Q.tail + i) % BufSize
                         /\ (Q.tail + i) % BufSize \in Slots
  <2> HIDE DEF R
  <2> QED BY <1>1, <1>2, TakeArithmetic DEF Size
<1>7. Held(R) = [i \in 1..n |-> Q.buf[(next(Q.tail) + i - 1) % BufSize]]
  BY <1>2 DEF Held
<1>8. Held(Q) = [i \in 1..n+1 |-> Q.buf[(Q.tail + i - 1) % BufSize]]
  BY <1>6 DEF Held
<1> HIDE DEF n, R
<1>9. Held(R) \in Seq(Byte) /\ Len(Held(R)) = n /\ \A i \in 1..n : Held(R)[i] = Q.buf[(Q.tail + i) % BufSize]
  <2>1. \A i \in 1..n : Q.buf[(next(Q.tail) + i - 1) % BufSize] \in Byte
    BY <1>1, <1>6, Zenon
  <2>2. Held(R) \in Seq(Byte) /\ Len(Held(R)) = n
    BY <1>6, <1>7, <2>1
  <2> QED BY <1>6, <1>7, <2>2
<1>10. Held(Q)[1] = Q.buf[Q.tail]
  <2>1. Held(Q)[1] = Q.buf[(Q.tail + 1 - 1) % BufSize]
    BY <1>6, <1>8
  <2>2. Q.tail + 1 - 1 = Q.tail
    BY <1>1, Buffer
  <2> QED BY <1>6, <2>1, <2>2
<1>11. \A i \in 1..n : Held(Q)[i + 1] = Held(R)[i]
  <2> TAKE i \in 1..n
  <2>1. i + 1 \in 1..n+1
    BY <1>6
  <2>2. Held(Q)[i + 1] = Q.buf[(Q.tail + (i + 1) - 1) % BufSize]
    BY <1>8, <2>1
  <2>3. Q.tail + (i + 1) - 1 = Q.tail + i
    BY <1>1, Buffer
  <2> QED BY <1>9, <2>2, <2>3
<1>12. Held(Q) = <<Q.buf[Q.tail]>> \o Held(R)
  <2> DEFINE S == <<Q.buf[Q.tail]>> \o Held(R)
  <2>1. Q.buf[Q.tail] \in Byte
    BY <1>1, Zenon
  <2>2. /\ S \in Seq(Byte) /\ Len(S) = n + 1
        /\ \A i \in 1..n+1 : S[i] = IF i = 1 THEN Q.buf[Q.tail] ELSE Held(R)[i - 1]
    BY <1>6, <1>9, <2>1
  <2>3. \A i \in 1..n+1 : Held(Q)[i] = S[i]
    <3> SUFFICES ASSUME NEW i \in 1..n+1
                 PROVE  Held(Q)[i] = S[i]
      BY Zenon
    <3>1. CASE i = 1
      BY <1>10, <2>2, <3>1
    <3>2. CASE i # 1
      <4>1. i - 1 \in 1..n /\ (i - 1) + 1 = i
        BY <1>6, <3>2
      <4> QED BY <1>11, <2>2, <3>2, <4>1
    <3> QED BY <3>1, <3>2, Zenon
  <2>4. S = [i \in 1..n+1 |-> S[i]]
    BY <1>6, <2>2
  <2>5. Held(Q) = [i \in 1..n+1 |-> Held(Q)[i]]
    BY <1>8
  <2> HIDE DEF S
  <2>6. Held(Q) = S
    BY <2>3, <2>4, <2>5
  <2> QED BY <2>6 DEF S
<1>13. Q.buf[Q.tail] \in Byte
  BY <1>1, Zenon
<1> QED BY <1>4, <1>9, <1>12, <1>13 DEF R

\* The fields of a queue after intq_putc.
LEMMA PutFields ==
  ASSUME NEW Q \in QueueType, NEW b \in Byte
  PROVE  /\ intq_putc(Q, b).head = next(Q.head) /\ intq_putc(Q, b).tail = Q.tail
         /\ intq_putc(Q, b).lock = Q.lock /\ intq_putc(Q, b).not_full = Q.not_full
         /\ intq_putc(Q, b).not_empty = NULL
BY DEF intq_putc, QueueType

\* The fields of a queue after intq_getc.
LEMMA GetFields ==
  ASSUME NEW Q \in QueueType
  PROVE  /\ intq_getc(Q).head = Q.head /\ intq_getc(Q).tail = next(Q.tail)
         /\ intq_getc(Q).lock = Q.lock /\ intq_getc(Q).not_full = NULL
         /\ intq_getc(Q).not_empty = Q.not_empty
BY DEF intq_getc, QueueType

\* An empty ring buffer holds nothing.
LEMMA EmptyHeld ==
  ASSUME NEW Q \in QueueType, Q.head = Q.tail
  PROVE  Held(Q) = <<>>
<1>1. Q.head \in Slots /\ Q.tail \in Slots
  BY DEF QueueType
<1>2. Q.head + BufSize - Q.tail = BufSize
  BY <1>1, Buffer
<1>3. Size(Q) = 0
  BY <1>2, Buffer, Wraps DEF Size
<1> QED BY <1>3 DEF Held

\* What a ring buffer holds are bytes.
LEMMA HeldType ==
  ASSUME NEW Q \in QueueType
  PROVE  Held(Q) \in Seq(Byte)
<1>1. CASE Q.head = Q.tail
  <2>1. Held(Q) = <<>>
    BY <1>1, EmptyHeld
  <2> QED BY <2>1
<1>2. CASE Q.head # Q.tail
  <2> DEFINE x == Q.buf[Q.tail]
             H == Held(intq_getc(Q))
  <2>1. x \in Byte /\ H \in Seq(Byte) /\ Held(Q) = <<x>> \o H
    BY <1>2, GetHeld
  <2> HIDE DEF x, H
  <2> QED BY <2>1
<1> QED BY <1>1, <1>2

\* Only buf, head and tail matter for what is held.
LEMMA SameHeld ==
  ASSUME NEW Q, NEW R, R.buf = Q.buf, R.head = Q.head, R.tail = Q.tail
  PROVE  Held(R) = Held(Q)
BY DEF Held, Size

\* Concatenation: a byte moves from the queue to the history, or joins both.
LEMMA ConcatByte ==
  ASSUME NEW a \in Seq(Byte), NEW b \in Seq(Byte), NEW x \in Byte
  PROVE  /\ a \o (<<x>> \o b) = Append(a, x) \o b
         /\ a \o Append(b, x) = Append(a \o b, x)
OBVIOUS

\* The body of the waiting loops, for a reader: it sleeps with the lock, or
\* queues for the lock; the bytes stay.
LEMMA ReaderWaits ==
  ASSUME NEW t \in Readers, NEW Q \in QueueType, q \in [Names -> QueueType],
         Wait(t, In, "not_empty", Q, pc)
  PROVE  /\ q' \in [Names -> QueueType] /\ q'[Tx] = q[Tx]
         /\ q'[In].head = Q.head /\ q'[In].tail = Q.tail /\ q'[In].buf = Q.buf
         /\ \/ /\ Q.lock = NULL /\ q'[In].lock = t /\ q'[In].not_empty = t
               /\ pc' = [pc EXCEPT ![t] = "blocked"]
            \/ /\ Q.lock # NULL /\ q'[In].lock = Q.lock /\ q'[In].not_empty = Q.not_empty
               /\ pc' = [pc EXCEPT ![t] = "lock"]
<1>1. CASE Q.lock = NULL
  <2> DEFINE R == [Q EXCEPT !.lock = t, !["not_empty"] = t]
  <2>1. q' = [q EXCEPT ![In] = R] /\ pc' = [pc EXCEPT ![t] = "blocked"]
    BY <1>1 DEF Wait
  <2>2. /\ R \in QueueType /\ R.head = Q.head /\ R.tail = Q.tail /\ R.buf = Q.buf
        /\ R.lock = t /\ R.not_empty = t
    BY Zenon DEF QueueType
  <2> HIDE DEF R
  <2>3. q'[In] = R /\ q'[Tx] = q[Tx] /\ q' \in [Names -> QueueType]
    BY <2>1, <2>2
  <2> QED BY <1>1, <2>1, <2>2, <2>3
<1>2. CASE Q.lock # NULL
  <2>1. q' = [q EXCEPT ![In] = Q] /\ pc' = [pc EXCEPT ![t] = "lock"]
    BY <1>2 DEF Wait
  <2> QED BY <1>2, <2>1
<1> QED BY <1>1, <1>2

\* The body of the waiting loops, for a writer: it sleeps with the lock, or
\* queues for the lock; the bytes stay.
LEMMA WriterWaits ==
  ASSUME NEW t \in Writers, NEW Q \in QueueType, q \in [Names -> QueueType],
         Wait(t, Tx, "not_full", Q, pc)
  PROVE  /\ q' \in [Names -> QueueType] /\ q'[In] = q[In]
         /\ q'[Tx].head = Q.head /\ q'[Tx].tail = Q.tail /\ q'[Tx].buf = Q.buf
         /\ \/ /\ Q.lock = NULL /\ q'[Tx].lock = t /\ q'[Tx].not_full = t
               /\ pc' = [pc EXCEPT ![t] = "blocked"]
            \/ /\ Q.lock # NULL /\ q'[Tx].lock = Q.lock /\ q'[Tx].not_full = Q.not_full
               /\ pc' = [pc EXCEPT ![t] = "lock"]
<1>1. CASE Q.lock = NULL
  <2> DEFINE R == [Q EXCEPT !.lock = t, !["not_full"] = t]
  <2>1. q' = [q EXCEPT ![Tx] = R] /\ pc' = [pc EXCEPT ![t] = "blocked"]
    BY <1>1 DEF Wait
  <2>2. /\ R \in QueueType /\ R.head = Q.head /\ R.tail = Q.tail /\ R.buf = Q.buf
        /\ R.lock = t /\ R.not_full = t
    BY Zenon DEF QueueType
  <2> HIDE DEF R
  <2>3. q'[Tx] = R /\ q'[In] = q[In] /\ q' \in [Names -> QueueType]
    BY <2>1, <2>2
  <2> QED BY <1>1, <2>1, <2>2, <2>3
<1>2. CASE Q.lock # NULL
  <2>1. q' = [q EXCEPT ![Tx] = Q] /\ pc' = [pc EXCEPT ![t] = "lock"]
    BY <1>2 DEF Wait
  <2> QED BY <1>2, <2>1
<1> QED BY <1>1, <1>2

-----------------------------------------------------------------------------
(* Readers.                                                                *)

\* Threads are readers or writers, and not NULL.
LEMMA Apart ==
  /\ \A t \in Readers : t \notin Writers /\ t # NULL
  /\ \A t \in Writers : t \notin Readers /\ t # NULL
BY TerminalAssumption

\* The order of the bytes is kept by a step that leaves the bytes of both queues
\* alone.
LEMMA OrderStays ==
  ASSUME InOrder, UNCHANGED <<accepted, got, sent, wire>>,
         \A n \in Names : q'[n].buf = q[n].buf /\ q'[n].head = q[n].head /\ q'[n].tail = q[n].tail
  PROVE  InOrder'
<1>1. Contents(In)' = Contents(In) /\ Contents(Tx)' = Contents(Tx)
  BY DEF Contents
<1> QED BY <1>1 DEF InOrder

\* Contents is what the ring buffer of the queue holds.
LEMMA ContentsHeld ==
  /\ \A n \in Names : Contents(n) = Held(q[n])
  /\ \A n \in Names : Contents(n)' = Held(q'[n])
BY DEF Contents, Held, Size

\* intq_getc from the test of its loop on: a reader takes the oldest byte, or waits
\* because there is none.
LEMMA GetcKeeps ==
  ASSUME IInv, NEW t \in Readers, NEW Q \in QueueType,
         Q.buf = q[In].buf, Q.head = q[In].head, Q.tail = q[In].tail,
         Q.not_empty = q[In].not_empty,
         \/ Q.lock = q[In].lock /\ pc[t] = "run"
         \/ Q.lock = NULL /\ pc[t] = "woken",
         Getc(t, Q, pc), UNCHANGED <<rx, given, accepted, sent, wire, screen>>
  PROVE  IInv'
<1>0. /\ pc \in [Threads -> Places] /\ q \in [Names -> QueueType]
      /\ InAsleep /\ TxAsleep /\ InOrder /\ Types
  BY DEF IInv, Types
<1>1. CASE Q.head = Q.tail
  <2>1. Wait(t, In, "not_empty", Q, pc) /\ UNCHANGED <<todo, got>>
    BY <1>1 DEF Getc
  <2>2. /\ q' \in [Names -> QueueType] /\ q'[Tx] = q[Tx]
        /\ q'[In].head = Q.head /\ q'[In].tail = Q.tail /\ q'[In].buf = Q.buf
        /\ \/ /\ Q.lock = NULL /\ q'[In].lock = t /\ q'[In].not_empty = t
              /\ pc' = [pc EXCEPT ![t] = "blocked"]
           \/ /\ Q.lock # NULL /\ q'[In].lock = Q.lock /\ q'[In].not_empty = Q.not_empty
              /\ pc' = [pc EXCEPT ![t] = "lock"]
    BY <1>0, <2>1, ReaderWaits
  <2>3. /\ pc' \in [Threads -> Places] /\ pc'[t] \in {"blocked", "lock"}
        /\ \A u \in Threads \ {t} : pc'[u] = pc[u]
    BY <1>0, <2>2
  <2>4. Types'
    BY <1>0, <2>1, <2>2, <2>3, Apart DEF Types, Op
  <2>5. InAsleep'
    <3>1. CASE pc'[t] = "blocked"
      BY <1>0, <1>1, <2>2, <2>3, <3>1, Apart DEF InAsleep
    <3>2. CASE pc'[t] = "lock"
      BY <1>0, <1>1, <2>2, <2>3, <3>2, Apart DEF InAsleep
    <3> QED BY <2>3, <3>1, <3>2
  <2>6. TxAsleep'
    BY <1>0, <2>2, <2>3, Apart DEF TxAsleep
  <2>7. InOrder'
    BY <1>0, <2>1, <2>2, OrderStays
  <2> QED BY <2>4, <2>5, <2>6, <2>7 DEF IInv
<1>2. CASE Q.head # Q.tail
  <2> DEFINE x == Q.buf[Q.tail]
             R == intq_getc(Q)
  <2>1. /\ q' = [q EXCEPT ![In] = R] /\ got' = Append(got, x)
        /\ todo' = [todo EXCEPT ![t] = @ - 1] /\ pc' = [pc EXCEPT ![t] = "run"]
    BY <1>2 DEF Getc
  <2>2. /\ R \in QueueType /\ x \in Byte /\ Held(R) \in Seq(Byte)
        /\ Held(Q) = <<x>> \o Held(R)
    BY <1>2, GetHeld
  <2>3. /\ R.head = Q.head /\ R.lock = Q.lock /\ R.not_empty = Q.not_empty
    BY GetFields
  <2> HIDE DEF R, x
  <2>4. q' \in [Names -> QueueType] /\ q'[In] = R /\ q'[Tx] = q[Tx]
    BY <1>0, <2>1, <2>2
  <2>5. /\ pc' \in [Threads -> Places] /\ pc'[t] = "run"
        /\ \A u \in Threads \ {t} : pc'[u] = pc[u]
    BY <1>0, <2>1
  <2>6. Types'
    <3>1. got' \in Seq(Byte)
      BY <2>1, <2>2 DEF IInv, Types
    <3>2. /\ todo' = [u \in Threads |-> todo'[u]]
          /\ \A u \in Writers : todo'[u] = todo[u]
      BY <2>1, Apart, Zenon DEF IInv, Types
    <3> QED BY <1>0, <2>4, <2>5, <3>1, <3>2, Apart DEF Types, Op
  <2>7. InAsleep'
    BY <1>0, <1>2, <2>3, <2>4, <2>5, Apart DEF InAsleep
  <2>8. TxAsleep'
    BY <1>0, <2>4, <2>5, Apart DEF TxAsleep
  <2>9. InOrder'
    <3>1. Contents(In) = <<x>> \o Held(R) /\ Contents(In)' = Held(R)
      BY <2>2, <2>4, ContentsHeld, SameHeld
    <3>2. Contents(Tx)' = Contents(Tx)
      BY <2>4, ContentsHeld
    <3>3. got \o (<<x>> \o Held(R)) = Append(got, x) \o Held(R)
      <4>1. got \in Seq(Byte)
        BY DEF IInv, Types
      <4> QED BY <2>2, <4>1, ConcatByte, Zenon
    <3>4. accepted' = got' \o Contents(In)'
      BY <1>0, <2>1, <3>1, <3>3, Zenon DEF InOrder
    <3> QED BY <1>0, <3>2, <3>4, Zenon DEF InOrder
  <2> QED BY <2>6, <2>7, <2>8, <2>9 DEF IInv
<1> QED BY <1>1, <1>2

\* input_getc tests the queue, with or without the lock it slept with.
LEMMA ReaderKeeps ==
  ASSUME IInv, NEW t \in Threads, input_getc(t) \/ WokenGetc(t)
  PROVE  IInv'
<1>1. q[In] \in QueueType
  BY DEF IInv, Types
<1>2. CASE input_getc(t)
  BY <1>1, <1>2, GetcKeeps DEF input_getc
<1>3. CASE WokenGetc(t)
  <2> DEFINE Q == Unlocked(t)
  <2>1. t \in Readers /\ Getc(t, Q, pc) /\ pc[t] = "woken"
        /\ UNCHANGED <<rx, given, accepted, sent, wire, screen>>
    BY <1>3 DEF WokenGetc
  <2>2. Q = [q[In] EXCEPT !.lock = NULL]
    BY <2>1 DEF Unlocked, Queue
  <2>3. /\ Q \in QueueType /\ Q.buf = q[In].buf /\ Q.head = q[In].head /\ Q.tail = q[In].tail
        /\ Q.not_empty = q[In].not_empty /\ Q.lock = NULL
    BY <1>1, <2>2 DEF QueueType
  <2> HIDE DEF Q
  <2> QED BY <2>1, <2>3, GetcKeeps
<1> QED BY <1>2, <1>3

-----------------------------------------------------------------------------
(* Writers.                                                                *)

\* intq_putc from the test of its loop on: a writer adds its byte, or waits because
\* there is no room.
LEMMA PutcKeeps ==
  ASSUME IInv, NEW t \in Writers, NEW Q \in QueueType,
         Q.buf = q[Tx].buf, Q.head = q[Tx].head, Q.tail = q[Tx].tail,
         Q.not_full = q[Tx].not_full,
         \/ Q.lock = q[Tx].lock /\ pc[t] \in {"run", "serial"}
         \/ Q.lock = NULL /\ pc[t] = "woken",
         todo[t] # <<>>, Op(t) \notin {"acquire", "release"},
         Putc(t, Q, pc), UNCHANGED <<todo, rx, given, accepted, got, wire, screen>>
  PROVE  IInv'
<1>0. /\ pc \in [Threads -> Places] /\ q \in [Names -> QueueType]
      /\ InAsleep /\ TxAsleep /\ InOrder /\ Types
  BY DEF IInv, Types
<1>1. CASE next(Q.head) = Q.tail
  <2>1. Wait(t, Tx, "not_full", Q, pc) /\ UNCHANGED sent
    BY <1>1 DEF Putc
  <2>2. /\ q' \in [Names -> QueueType] /\ q'[In] = q[In]
        /\ q'[Tx].head = Q.head /\ q'[Tx].tail = Q.tail /\ q'[Tx].buf = Q.buf
        /\ \/ /\ Q.lock = NULL /\ q'[Tx].lock = t /\ q'[Tx].not_full = t
              /\ pc' = [pc EXCEPT ![t] = "blocked"]
           \/ /\ Q.lock # NULL /\ q'[Tx].lock = Q.lock /\ q'[Tx].not_full = Q.not_full
              /\ pc' = [pc EXCEPT ![t] = "lock"]
    BY <1>0, <2>1, WriterWaits
  <2>3. /\ pc' \in [Threads -> Places] /\ pc'[t] \in {"blocked", "lock"}
        /\ \A u \in Threads \ {t} : pc'[u] = pc[u]
    BY <1>0, <2>2
  <2>4. Types'
    BY <1>0, <2>1, <2>2, <2>3, Apart, Zenon DEF Types, Op
  <2>5. TxAsleep'
    <3>1. CASE pc'[t] = "blocked"
      BY <1>0, <1>1, <2>2, <2>3, <3>1, Apart DEF TxAsleep
    <3>2. CASE pc'[t] = "lock"
      BY <1>0, <1>1, <2>2, <2>3, <3>2, Apart DEF TxAsleep
    <3> QED BY <2>3, <3>1, <3>2
  <2>6. InAsleep'
    BY <1>0, <2>2, <2>3, Apart DEF InAsleep
  <2>7. InOrder'
    BY <1>0, <2>1, <2>2, OrderStays, Zenon
  <2> QED BY <2>4, <2>5, <2>6, <2>7 DEF IInv
<1>2. CASE next(Q.head) # Q.tail
  <2> DEFINE x == <<t, Op(t)>>
             R == intq_putc(Q, x)
  <2>0. x \in Byte
    <3>1. Op(t) \in STRING
      BY DEF IInv, Types, Op
    <3> QED BY <3>1 DEF Byte
  <2>1. /\ q' = [q EXCEPT ![Tx] = R] /\ sent' = Append(sent, x)
        /\ pc' = [pc EXCEPT ![t] = "vga"]
    BY <1>2 DEF Putc
  <2> HIDE DEF x
  <2>2. /\ R \in QueueType /\ Held(Q) \in Seq(Byte)
        /\ Held(R) = Append(Held(Q), x)
    BY <1>2, <2>0, PutHeld
  <2>3. /\ R.tail = Q.tail /\ R.lock = Q.lock /\ R.not_full = Q.not_full
    BY <2>0, PutFields
  <2> HIDE DEF R
  <2>4. q' \in [Names -> QueueType] /\ q'[Tx] = R /\ q'[In] = q[In]
    BY <1>0, <2>1, <2>2
  <2>5. /\ pc' \in [Threads -> Places] /\ pc'[t] = "vga"
        /\ \A u \in Threads \ {t} : pc'[u] = pc[u]
    BY <1>0, <2>1
  <2>6. Types'
    <3>1. sent' \in Seq(Byte)
      BY <2>0, <2>1 DEF IInv, Types
    <3> QED BY <1>0, <2>4, <2>5, <3>1, Apart DEF Types, Op
  <2>7. TxAsleep'
    BY <1>0, <1>2, <2>3, <2>4, <2>5, Apart DEF TxAsleep
  <2>8. InAsleep'
    BY <1>0, <2>4, <2>5, Apart DEF InAsleep
  <2>9. InOrder'
    <3>1. Contents(Tx) = Held(Q) /\ Contents(Tx)' = Append(Held(Q), x)
      BY <2>2, <2>4, ContentsHeld, SameHeld
    <3>2. Contents(In)' = Contents(In)
      BY <2>4, ContentsHeld
    <3>3. wire \o Append(Held(Q), x) = Append(wire \o Held(Q), x)
      <4>1. wire \in Seq(Byte)
        BY DEF IInv, Types
      <4> QED BY <2>0, <2>2, <4>1, ConcatByte, Zenon
    <3>4. sent' = wire' \o Contents(Tx)'
      BY <1>0, <2>1, <3>1, <3>3, Zenon DEF InOrder
    <3> QED BY <1>0, <3>2, <3>4, Zenon DEF InOrder
  <2> QED BY <2>6, <2>7, <2>8, <2>9 DEF IInv
<1> QED BY <1>1, <1>2

\* serial_putc tests the queue, with or without the lock it slept with.
LEMMA WriterKeeps ==
  ASSUME IInv, NEW t \in Threads, serial_putc(t) \/ WokenPutc(t)
  PROVE  IInv'
<1>1. q[Tx] \in QueueType
  BY DEF IInv, Types
<1>2. CASE serial_putc(t)
  BY <1>1, <1>2, PutcKeeps DEF serial_putc
<1>3. CASE WokenPutc(t)
  <2> DEFINE Q == Unlocked(t)
  <2>1. t \in Writers /\ Putc(t, Q, pc) /\ pc[t] = "woken"
        /\ UNCHANGED <<todo, rx, given, accepted, got, wire, screen>>
    BY <1>3 DEF WokenPutc
  <2>2. Q = [q[Tx] EXCEPT !.lock = NULL]
    BY <2>1, Apart DEF Unlocked, Queue
  <2>3. /\ Q \in QueueType /\ Q.buf = q[Tx].buf /\ Q.head = q[Tx].head /\ Q.tail = q[Tx].tail
        /\ Q.not_full = q[Tx].not_full /\ Q.lock = NULL
    BY <1>1, <2>2 DEF QueueType
  <2>4. todo[t] # <<>> /\ Op(t) \notin {"acquire", "release"}
    BY <2>1 DEF IInv, Types
  <2> HIDE DEF Q
  <2> QED BY <2>1, <2>3, <2>4, PutcKeeps
<1> QED BY <1>2, <1>3

-----------------------------------------------------------------------------
(* Steps that are about one queue at a time: what each side must come to.  *)

InSide ==
  /\ q[In] \in QueueType /\ accepted \in Seq(Byte) /\ got \in Seq(Byte)
  /\ InAsleep /\ accepted = got \o Contents(In)
TxSide ==
  /\ q[Tx] \in QueueType /\ sent \in Seq(Byte) /\ wire \in Seq(Byte)
  /\ TxAsleep /\ sent = wire \o Contents(Tx)

\* The two sides and the threads make up the invariant.
LEMMA Sides ==
  ASSUME InSide', TxSide', q' = [n \in Names |-> q'[n]], pc' \in [Threads -> Places],
         UNCHANGED todo, Types, rx' \in Byte, given' \in [host : Nat, keys : Nat, intr : Nat],
         screen' \in Seq(Byte),
         \A w \in Writers : pc'[w] # "run" => pc[w] # "run",
         \A r \in Readers : pc'[r] \notin {"serial", "vga"}
  PROVE  IInv'
<1>1. q' \in [Names -> QueueType]
  BY DEF InSide, TxSide
<1>2. Types'
  BY <1>1, Zenon DEF InSide, TxSide, Types, Op
<1>3. InAsleep' /\ TxAsleep' /\ InOrder'
  BY DEF InSide, TxSide, InOrder
<1> QED BY <1>2, <1>3 DEF IInv

\* Each side is as it was when its queue, its threads and its bytes are.
LEMMA InStays ==
  ASSUME IInv, q'[In] = q[In], UNCHANGED <<accepted, got>>,
         \A t \in Readers : pc'[t] = pc[t]
  PROVE  InSide'
<1>1. InAsleep'
  BY DEF IInv, InAsleep
<1>2. Contents(In)' = Contents(In)
  BY ContentsHeld
<1>3. accepted' = got' \o Contents(In)'
  BY <1>2, Zenon DEF IInv, InOrder
<1>4. q'[In] \in QueueType /\ accepted' \in Seq(Byte) /\ got' \in Seq(Byte)
  BY DEF IInv, Types
<1> QED BY <1>1, <1>3, <1>4 DEF InSide

\* Steps that leave the transmit queue and its sleepers alone.
LEMMA TxStays ==
  ASSUME IInv, q'[Tx] = q[Tx], UNCHANGED <<sent, wire>>,
         \A t \in Writers : pc'[t] = pc[t]
  PROVE  TxSide'
<1>1. TxAsleep'
  BY DEF IInv, TxAsleep
<1>2. Contents(Tx)' = Contents(Tx)
  BY ContentsHeld
<1>3. sent' = wire' \o Contents(Tx)'
  BY <1>2, Zenon DEF IInv, InOrder
<1>4. q'[Tx] \in QueueType /\ sent' \in Seq(Byte) /\ wire' \in Seq(Byte)
  BY DEF IInv, Types
<1> QED BY <1>1, <1>3, <1>4 DEF TxSide

\* input_putc in an interrupt handler: the byte joins the queue, and the reader
\* that slept is woken.
LEMMA InPut ==
  ASSUME IInv, NEW b \in Byte, ~intq_full(In), q'[In] = intq_putc(q[In], b),
         accepted' = Append(accepted, b), got' = got,
         \A t \in Readers : pc'[t] = IF t = q[In].not_empty THEN "woken" ELSE pc[t]
  PROVE  InSide'
<1> DEFINE Q == q[In]
<1>1. Q \in QueueType /\ next(Q.head) # Q.tail
  BY DEF IInv, Types, intq_full
<1>2. /\ q'[In] \in QueueType /\ Held(Q) \in Seq(Byte) /\ Held(q'[In]) = Append(Held(Q), b)
  BY <1>1, PutHeld
<1>3. q'[In].lock = Q.lock /\ q'[In].not_empty = NULL
  BY <1>1, PutFields
<1>4. InAsleep'
  BY <1>3, Apart DEF IInv, InAsleep
<1>5. accepted \in Seq(Byte) /\ got \in Seq(Byte) /\ accepted = got \o Held(Q)
  BY ContentsHeld, Zenon DEF IInv, Types, InOrder
<1>6. accepted' \in Seq(Byte) /\ got' \in Seq(Byte)
  BY <1>5
<1> HIDE DEF Q
<1>7. got \o Append(Held(Q), b) = Append(got \o Held(Q), b)
  BY <1>2, <1>5, ConcatByte, Zenon
<1>8. Contents(In)' = Append(Held(Q), b)
  BY <1>2, ContentsHeld
<1>9. accepted' = got' \o Contents(In)'
  BY <1>5, <1>7, <1>8, Zenon
<1> QED BY <1>2, <1>4, <1>6, <1>9 DEF InSide

\* The transmit interrupt: the oldest byte goes out, and the writer that slept is
\* woken.
LEMMA TxGet ==
  ASSUME IInv, ~intq_empty(Tx), q'[Tx] = intq_getc(q[Tx]),
         wire' = Append(wire, q[Tx].buf[q[Tx].tail]), sent' = sent,
         \A t \in Writers : pc'[t] = IF t = q[Tx].not_full THEN "woken" ELSE pc[t]
  PROVE  TxSide'
<1> DEFINE Q == q[Tx]
           x == Q.buf[Q.tail]
<1>1. Q \in QueueType /\ Q.head # Q.tail
  BY DEF IInv, Types, intq_empty
<1>2. /\ q'[Tx] \in QueueType /\ x \in Byte /\ Held(q'[Tx]) \in Seq(Byte)
      /\ Held(Q) = <<x>> \o Held(q'[Tx])
  BY <1>1, GetHeld
<1>3. q'[Tx].lock = Q.lock /\ q'[Tx].not_full = NULL
  BY <1>1, GetFields
<1>4. TxAsleep'
  BY <1>3, Apart DEF IInv, TxAsleep
<1>5. sent \in Seq(Byte) /\ wire \in Seq(Byte) /\ sent = wire \o Held(Q)
  BY ContentsHeld, Zenon DEF IInv, Types, InOrder
<1> HIDE DEF Q, x
<1>6. wire' = Append(wire, x)
  BY DEF Q, x
<1>7. sent' \in Seq(Byte) /\ wire' \in Seq(Byte)
  BY <1>2, <1>5, <1>6
<1>8. wire \o (<<x>> \o Held(q'[Tx])) = Append(wire, x) \o Held(q'[Tx])
  BY <1>2, <1>5, ConcatByte, Zenon
<1>9. sent' = wire' \o Contents(Tx)'
  BY <1>2, <1>5, <1>6, <1>8, ContentsHeld, Zenon
<1> QED BY <1>2, <1>4, <1>7, <1>9 DEF TxSide

\* serial_putc in an interrupt handler: the byte joins the queue; when the queue is
\* full its oldest byte goes out first.
LEMMA TxPrint ==
  ASSUME IInv, NEW b \in Byte, q'[Tx] = IntrPutc(b).tx, wire' = wire \o IntrPutc(b).out,
         sent' = Append(sent, b),
         \A t \in Writers : pc'[t] = IF t = IntrPutc(b).woken THEN "woken" ELSE pc[t]
  PROVE  TxSide'
<1> DEFINE Q == q[Tx]
           x == Q.buf[Q.tail]
<1>1. Q \in QueueType
  BY DEF IInv, Types
<1>2. sent \in Seq(Byte) /\ wire \in Seq(Byte) /\ sent = wire \o Held(Q)
  BY ContentsHeld, Zenon DEF IInv, Types, InOrder
<1>3. sent' \in Seq(Byte)
  BY <1>2
<1>4. CASE next(Q.head) # Q.tail
  <2>1. q'[Tx] = intq_putc(Q, b) /\ IntrPutc(b).out = <<>> /\ IntrPutc(b).woken = NULL
    BY <1>4 DEF IntrPutc, intq_full
  <2>2. q'[Tx] \in QueueType /\ Held(Q) \in Seq(Byte) /\ Held(q'[Tx]) = Append(Held(Q), b)
    BY <1>1, <1>4, <2>1, PutHeld
  <2>3. q'[Tx].lock = Q.lock /\ q'[Tx].not_full = Q.not_full /\ q'[Tx].tail = Q.tail
    BY <1>1, <2>1, PutFields
  <2>4. \A t \in Writers : pc'[t] = pc[t]
    BY <2>1, Apart
  <2>5. TxAsleep'
    BY <1>4, <2>3, <2>4, Apart, Zenon DEF IInv, TxAsleep
  <2>6. wire' = wire
    BY <1>2, <2>1
  <2> HIDE DEF Q
  <2>7. wire \o Append(Held(Q), b) = Append(wire \o Held(Q), b)
    BY <1>2, <2>2, ConcatByte, Zenon
  <2>8. sent' = wire' \o Contents(Tx)'
    BY <1>2, <2>2, <2>6, <2>7, ContentsHeld, Zenon
  <2> QED BY <1>2, <1>3, <2>2, <2>5, <2>6, <2>8, Zenon DEF TxSide
<1>5. CASE next(Q.head) = Q.tail
  <2> DEFINE R == intq_getc(Q)
  <2>1. q'[Tx] = intq_putc(R, b) /\ IntrPutc(b).out = <<x>> /\ IntrPutc(b).woken = Q.not_full
    BY <1>5 DEF IntrPutc, intq_full
  <2>2. Q.head \in Slots /\ Q.tail \in Slots /\ Q.head # Q.tail
    <3>1. Q.head \in Slots /\ Q.tail \in Slots
      BY <1>1 DEF QueueType
    <3>2. next(Q.head) # Q.head
      BY <3>1, NextOther, Zenon
    <3> QED BY <1>5, <3>1, <3>2, Zenon
  <2>3. R \in QueueType /\ x \in Byte /\ Held(R) \in Seq(Byte) /\ Held(Q) = <<x>> \o Held(R)
    BY <1>1, <2>2, GetHeld, Zenon
  <2>4. R.head = Q.head /\ R.tail = next(Q.tail) /\ R.lock = Q.lock /\ R.not_full = NULL
    BY <1>1, GetFields
  <2>5. next(R.head) # R.tail
    BY <1>5, <2>2, <2>4, NextSlot, Buffer
  <2> HIDE DEF R
  <2>6. q'[Tx] \in QueueType /\ Held(q'[Tx]) = Append(Held(R), b)
    BY <2>1, <2>3, <2>5, PutHeld
  <2>7. q'[Tx].lock = Q.lock /\ q'[Tx].not_full = NULL
    BY <2>1, <2>3, <2>4, PutFields
  <2>8. TxAsleep'
    BY <2>1, <2>7, Apart, Zenon DEF IInv, TxAsleep
  <2> HIDE DEF Q, x
  <2>9. wire' = Append(wire, x) /\ wire' \in Seq(Byte)
    BY <1>2, <2>1, <2>3
  <2>10. sent = wire' \o Held(R)
    <3>1. wire \o (<<x>> \o Held(R)) = Append(wire, x) \o Held(R)
      BY <1>2, <2>3, ConcatByte, Zenon
    <3> QED BY <1>2, <2>3, <2>9, <3>1, Zenon
  <2>11. wire' \o Append(Held(R), b) = Append(wire' \o Held(R), b)
    BY <2>3, <2>9, ConcatByte, Zenon
  <2>12. sent' = wire' \o Contents(Tx)'
    BY <2>6, <2>10, <2>11, ContentsHeld, Zenon
  <2> QED BY <1>3, <2>6, <2>8, <2>9, <2>12, Zenon DEF TxSide
<1> QED BY <1>4, <1>5

\* serial_flush sends everything that is left.
LEMMA TxFlush ==
  ASSUME IInv, q'[Tx] = [q[Tx] EXCEPT !.tail = q[Tx].head, !.not_full = NULL],
         wire' = wire \o Contents(Tx), sent' = sent,
         \A t \in Writers : pc'[t] = IF t = q[Tx].not_full THEN "woken" ELSE pc[t]
  PROVE  TxSide'
<1> DEFINE Q == q[Tx]
<1>1. Q \in QueueType
  BY DEF IInv, Types
<1>2. /\ q'[Tx] \in QueueType /\ q'[Tx].lock = Q.lock /\ q'[Tx].not_full = NULL
      /\ q'[Tx].head = q'[Tx].tail
  BY <1>1, Zenon DEF QueueType
<1>3. TxAsleep'
  BY <1>2, Apart DEF IInv, TxAsleep
<1>4. Contents(Tx)' = <<>>
  BY <1>2, EmptyHeld, ContentsHeld, Zenon
<1>5. sent \in Seq(Byte) /\ wire' = sent
  BY DEF IInv, Types, InOrder
<1>6. sent' = wire' \o Contents(Tx)'
  BY <1>4, <1>5
<1> QED BY <1>2, <1>3, <1>5, <1>6, Zenon DEF TxSide

-----------------------------------------------------------------------------
(* Interrupts.                                                             *)

\* A signal wakes the thread that waited and touches no other.
LEMMA SignalledPlaces ==
  ASSUME Types, NEW x, x = NULL \/ (x \in Threads /\ pc[x] = "blocked"), pc' = Signalled(x)
  PROVE  /\ pc' \in [Threads -> Places]
         /\ \A t \in Threads : pc'[t] = IF t = x THEN "woken" ELSE pc[t]
         /\ \A w \in Writers : pc'[w] # "run" => pc[w] # "run"
         /\ \A r \in Readers : pc'[r] \notin {"serial", "vga"}
<1>1. pc' = [t \in Threads |-> pc'[t]]
      /\ \A t \in Threads : pc'[t] = IF t = x THEN "woken" ELSE pc[t]
  BY Zenon DEF Signalled
<1>2. \A t \in Threads : pc'[t] \in Places
  BY <1>1 DEF Types
<1>3. \A w \in Writers : pc'[w] # "run" => pc[w] # "run"
  BY <1>1, Apart
<1>4. \A r \in Readers : pc'[r] \notin {"serial", "vga"}
  BY <1>1, Zenon DEF Types
<1> QED BY <1>1, <1>2, <1>3, <1>4

\* Sleepers that the queues know of are blocked threads.
LEMMA KnownSleepers ==
  ASSUME IInv
  PROVE  /\ q[In].not_empty = NULL \/ (q[In].not_empty \in Readers /\ pc[q[In].not_empty] = "blocked")
         /\ q[Tx].not_full = NULL \/ (q[Tx].not_full \in Writers /\ pc[q[Tx].not_full] = "blocked")
BY DEF IInv, InAsleep, TxAsleep

\* An interrupt handler prints.
LEMMA IntrPrintKeeps ==
  ASSUME IInv, IntrPrint
  PROVE  IInv'
<1> DEFINE byte == <<"intr", given.intr>>
           put == IntrPutc(byte)
<1>1. /\ q' = [q EXCEPT ![Tx] = put.tx] /\ pc' = Signalled(put.woken)
      /\ wire' = wire \o put.out /\ sent' = Append(sent, byte) /\ screen' = Append(screen, byte)
      /\ given' = [given EXCEPT !.intr = @ + 1] /\ UNCHANGED <<todo, rx, accepted, got>>
  BY DEF IntrPrint
<1>2. byte \in Byte /\ given' \in [host : Nat, keys : Nat, intr : Nat]
  <2>1. given \in [host : Nat, keys : Nat, intr : Nat]
    BY DEF IInv, Types
  <2>2. given' \in [host : Nat, keys : Nat, intr : Nat]
    <3>1. given' = [given EXCEPT !.intr = given.intr + 1]
      BY <1>1
    <3> HIDE DEF byte
    <3> QED BY <2>1, <3>1
  <2>3. given.intr \in Nat
    BY <2>1
  <2> QED BY <2>2, <2>3 DEF Byte
<1> HIDE DEF byte
<1>3. put.woken \in {NULL, q[Tx].not_full}
  BY DEF IntrPutc
<1>4. put.woken = NULL \/ (put.woken \in Writers /\ pc[put.woken] = "blocked")
  BY <1>3, KnownSleepers
<1> HIDE DEF put
<1>5. q'[Tx] = put.tx /\ q'[In] = q[In] /\ q' = [n \in Names |-> q'[n]]
  BY <1>1, Zenon DEF IInv, Types
<1>6. /\ pc' \in [Threads -> Places]
      /\ \A t \in Threads : pc'[t] = IF t = put.woken THEN "woken" ELSE pc[t]
      /\ \A w \in Writers : pc'[w] # "run" => pc[w] # "run"
      /\ \A r \in Readers : pc'[r] \notin {"serial", "vga"}
  BY <1>1, <1>4, SignalledPlaces, Zenon DEF IInv
<1>7. TxSide'
  <2>1. /\ q'[Tx] = IntrPutc(byte).tx /\ wire' = wire \o IntrPutc(byte).out
        /\ \A t \in Writers : pc'[t] = IF t = IntrPutc(byte).woken THEN "woken" ELSE pc[t]
    BY <1>1, <1>5, <1>6, Zenon DEF put
  <2> QED BY <1>1, <1>2, <2>1, TxPrint, Zenon
<1>8. InSide'
  BY <1>1, <1>4, <1>5, <1>6, Apart, InStays
<1>9. screen' \in Seq(Byte) /\ rx' \in Byte /\ Types
  BY <1>1, <1>2 DEF IInv, Types
<1> QED BY <1>1, <1>2, <1>5, <1>6, <1>7, <1>8, <1>9, Sides

\* keyboard_interrupt.
LEMMA KeyboardKeeps ==
  ASSUME IInv, keyboard_interrupt
  PROVE  IInv'
<1> DEFINE byte == <<"key", given.keys>>
<1>1. /\ given' = [given EXCEPT !.keys = @ + 1]
      /\ UNCHANGED <<todo, rx, got, sent, wire, screen>>
  BY DEF keyboard_interrupt
<1>2. byte \in Byte /\ given' \in [host : Nat, keys : Nat, intr : Nat]
  <2>1. given \in [host : Nat, keys : Nat, intr : Nat]
    BY DEF IInv, Types
  <2>2. given' \in [host : Nat, keys : Nat, intr : Nat]
    <3>1. given' = [given EXCEPT !.keys = given.keys + 1]
      BY <1>1
    <3> HIDE DEF byte
    <3> QED BY <2>1, <3>1
  <2>3. given.keys \in Nat
    BY <2>1
  <2> QED BY <2>2, <2>3 DEF Byte
<1>3. screen' \in Seq(Byte) /\ rx' \in Byte /\ Types
  BY <1>1 DEF IInv, Types
<1>4. CASE intq_full(In)
  <2>1. UNCHANGED <<q, pc, accepted>>
    BY <1>4 DEF keyboard_interrupt
  <2>2. InSide' /\ TxSide'
    BY <1>1, <2>1, InStays, TxStays
  <2> QED BY <1>1, <1>2, <1>3, <2>1, <2>2, Sides DEF IInv, Types
<1>5. CASE ~intq_full(In)
  <2>1. /\ q' = [q EXCEPT ![In] = intq_putc(q[In], byte)] /\ accepted' = Append(accepted, byte)
        /\ pc' = Signalled(q[In].not_empty)
    BY <1>5 DEF keyboard_interrupt, Input
  <2>2. q'[In] = intq_putc(q[In], byte) /\ q'[Tx] = q[Tx] /\ q' = [n \in Names |-> q'[n]]
    BY <2>1, Zenon DEF IInv, Types
  <2> HIDE DEF byte
  <2>3. /\ pc' \in [Threads -> Places]
        /\ \A t \in Threads : pc'[t] = IF t = q[In].not_empty THEN "woken" ELSE pc[t]
        /\ \A w \in Writers : pc'[w] # "run" => pc[w] # "run"
        /\ \A r \in Readers : pc'[r] \notin {"serial", "vga"}
    BY <2>1, KnownSleepers, SignalledPlaces, Zenon DEF IInv
  <2>4. InSide'
    BY <1>1, <1>2, <1>5, <2>1, <2>2, <2>3, InPut
  <2>5. TxSide'
    BY <1>1, <2>2, <2>3, Apart, KnownSleepers, TxStays
  <2> QED BY <1>1, <1>2, <1>3, <2>2, <2>3, <2>4, <2>5, Sides
<1> QED BY <1>4, <1>5

\* serial_interrupt receives if there is room and transmits if the port is free.
LEMMA SerialKeeps ==
  ASSUME IInv, serial_interrupt
  PROVE  IInv'
<1> DEFINE receive == ~intq_full(In) /\ rx # NULL
           transmit == ~intq_empty(Tx) /\ thr
           p == IF receive THEN Signalled(q[In].not_empty) ELSE pc
           r == IF receive THEN Input(rx) ELSE q
<1>1. /\ rx' = (IF receive THEN NULL ELSE rx)
      /\ accepted' = IF receive THEN Append(accepted, rx) ELSE accepted
      /\ q' = IF transmit THEN [r EXCEPT ![Tx] = intq_getc(@)] ELSE r
      /\ wire' = IF transmit THEN Append(wire, q[Tx].buf[q[Tx].tail]) ELSE wire
      /\ pc' = [t \in Threads |-> IF transmit /\ t = q[Tx].not_full THEN "woken" ELSE p[t]]
      /\ UNCHANGED <<todo, given, got, sent, screen>>
  BY Zenon DEF serial_interrupt
<1>2. /\ r = [n \in Names |-> r[n]] /\ r[Tx] = q[Tx]
      /\ r[In] = IF receive THEN intq_putc(q[In], rx) ELSE q[In]
  BY Zenon DEF Input, IInv, Types
<1>3. /\ \A t \in Readers : p[t] = IF receive /\ t = q[In].not_empty THEN "woken" ELSE pc[t]
      /\ \A t \in Writers : p[t] = pc[t]
  BY KnownSleepers, Apart DEF Signalled
<1> HIDE DEF r, p
<1>4. /\ q' = [n \in Names |-> q'[n]]
      /\ q'[In] = IF receive THEN intq_putc(q[In], rx) ELSE q[In]
      /\ q'[Tx] = IF transmit THEN intq_getc(q[Tx]) ELSE q[Tx]
  <2>1. CASE transmit
    <3> HIDE DEF transmit, receive
    <3>1. q' = [r EXCEPT ![Tx] = intq_getc(r[Tx])]
      BY <1>1, <2>1
    <3> QED BY <1>2, <2>1, <3>1, Zenon
  <2>2. CASE ~transmit
    <3> HIDE DEF transmit, receive
    <3> QED BY <1>1, <1>2, <2>2
  <2> QED BY <2>1, <2>2
<1>5. /\ \A t \in Readers : pc'[t] = IF receive /\ t = q[In].not_empty THEN "woken" ELSE pc[t]
      /\ \A t \in Writers : pc'[t] = IF transmit /\ t = q[Tx].not_full THEN "woken" ELSE pc[t]
  <2> HIDE DEF transmit, receive
  <2> QED BY <1>1, <1>3, KnownSleepers, Apart
<1>6. /\ pc' \in [Threads -> Places]
      /\ \A w \in Writers : pc'[w] # "run" => pc[w] # "run"
      /\ \A x \in Readers : pc'[x] \notin {"serial", "vga"}
  <2> HIDE DEF transmit, receive
  <2>1. pc' = [t \in Threads |-> pc'[t]]
    BY <1>1
  <2>2. \A t \in Threads : pc'[t] \in Places
    BY <1>5 DEF IInv, Types
  <2>3. \A x \in Readers : pc'[x] \notin {"serial", "vga"}
    BY <1>5 DEF IInv, Types
  <2>4. \A w \in Writers : pc'[w] # "run" => pc[w] # "run"
    BY <1>5, KnownSleepers, Apart
  <2> QED BY <2>1, <2>2, <2>3, <2>4
<1>7. InSide'
  <2>1. CASE receive
    BY <1>1, <1>4, <1>5, <2>1, InPut DEF IInv, Types
  <2>2. CASE ~receive
    <3> HIDE DEF receive
    <3> QED BY <1>1, <1>4, <1>5, <2>2, InStays
  <2> QED BY <2>1, <2>2
<1>8. TxSide'
  <2>1. CASE transmit
    BY <1>1, <1>4, <1>5, <2>1, TxGet
  <2>2. CASE ~transmit
    <3> HIDE DEF transmit
    <3> QED BY <1>1, <1>4, <1>5, <2>2, TxStays
  <2> QED BY <2>1, <2>2
<1>9. rx' \in Byte /\ screen' \in Seq(Byte) /\ given' \in [host : Nat, keys : Nat, intr : Nat]
  <2> HIDE DEF receive
  <2> QED BY <1>1 DEF IInv, Types, Byte
<1> QED BY <1>1, <1>4, <1>6, <1>7, <1>8, <1>9, Sides DEF IInv

\* serial_flush, when the machine is switched off.
LEMMA FlushKeeps ==
  ASSUME IInv, serial_flush
  PROVE  IInv'
<1>1. /\ wire' = wire \o Contents(Tx) /\ pc' = Signalled(q[Tx].not_full)
      /\ q' = [q EXCEPT ![Tx].tail = q[Tx].head, ![Tx].not_full = NULL]
      /\ UNCHANGED <<todo, rx, given, accepted, got, sent, screen>>
  BY DEF serial_flush, uart
<1>2. /\ q' = [n \in Names |-> q'[n]] /\ q'[In] = q[In]
      /\ q'[Tx] = [q[Tx] EXCEPT !.tail = q[Tx].head, !.not_full = NULL]
  BY <1>1, Zenon DEF IInv, Types
<1>3. /\ pc' \in [Threads -> Places]
      /\ \A t \in Threads : pc'[t] = IF t = q[Tx].not_full THEN "woken" ELSE pc[t]
      /\ \A w \in Writers : pc'[w] # "run" => pc[w] # "run"
      /\ \A r \in Readers : pc'[r] \notin {"serial", "vga"}
  BY <1>1, KnownSleepers, SignalledPlaces, Zenon DEF IInv
<1>4. TxSide'
  BY <1>1, <1>2, <1>3, TxFlush
<1>5. InSide'
  BY <1>1, <1>2, <1>3, KnownSleepers, Apart, InStays
<1>6. rx' \in Byte /\ screen' \in Seq(Byte) /\ given' \in [host : Nat, keys : Nat, intr : Nat]
  BY <1>1 DEF IInv, Types
<1> QED BY <1>1, <1>2, <1>3, <1>4, <1>5, <1>6, Sides DEF IInv

\* The far end sends a byte.
LEMMA HostKeeps ==
  ASSUME IInv, Host
  PROVE  IInv'
<1>1. /\ rx' = <<"host", given.host>> /\ given' = [given EXCEPT !.host = given.host + 1]
      /\ UNCHANGED <<pc, todo, q, accepted, got, sent, wire, screen>>
  BY DEF Host, threads, history
<1>2. given \in [host : Nat, keys : Nat, intr : Nat]
  BY DEF IInv, Types
<1>3. given' \in [host : Nat, keys : Nat, intr : Nat]
  BY <1>1, <1>2
<1>4. rx' \in Byte
  BY <1>1, <1>2 DEF Byte
<1>5. InSide' /\ TxSide'
  BY <1>1, InStays, TxStays
<1> QED BY <1>1, <1>3, <1>4, <1>5, Sides DEF IInv, Types

-----------------------------------------------------------------------------
(* The other steps of threads.                                             *)

\* A thread gets the lock of the queue and sleeps, or finds the condition gone.
LEMMA LockedKeeps ==
  ASSUME IInv, NEW t \in Threads, Locked(t)
  PROVE  IInv'
<1>0. /\ pc[t] = "lock" /\ q[Queue(t)].lock = NULL
      /\ UNCHANGED <<todo, rx, given, accepted, got, sent, wire, screen>>
  BY DEF Locked, uart, history
<1>1. CASE ~MustWait(t)
  <2>1. UNCHANGED <<q, pc>>
    BY <1>1 DEF Locked
  <2>2. InSide' /\ TxSide'
    BY <1>0, <2>1, InStays, TxStays
  <2> QED BY <1>0, <2>1, <2>2, Sides DEF IInv, Types
<1>2. CASE MustWait(t) /\ t \in Readers
  <2>1. Wait(t, In, "not_empty", q[In], pc) /\ q[In].head = q[In].tail /\ q[In].lock = NULL
    BY <1>0, <1>2 DEF Locked, Queue, Field, MustWait, intq_empty
  <2>2. /\ q' \in [Names -> QueueType] /\ q'[Tx] = q[Tx]
        /\ q'[In].head = q[In].head /\ q'[In].tail = q[In].tail /\ q'[In].buf = q[In].buf
        /\ q'[In].lock = t /\ q'[In].not_empty = t
        /\ pc' = [pc EXCEPT ![t] = "blocked"]
    BY <1>2, <2>1, ReaderWaits DEF IInv, Types
  <2>3. /\ pc' \in [Threads -> Places] /\ pc'[t] = "blocked"
        /\ \A u \in Threads \ {t} : pc'[u] = pc[u]
    BY <2>2, Zenon DEF IInv, Types
  <2>4. InAsleep' /\ TxAsleep'
    BY <1>2, <2>1, <2>2, <2>3, Apart DEF IInv, InAsleep, TxAsleep
  <2>5. Types'
    BY <1>0, <1>2, <2>2, <2>3, Apart DEF IInv, Types, Op
  <2>6. InOrder'
    BY <1>0, <2>2, OrderStays DEF IInv
  <2> QED BY <2>4, <2>5, <2>6, Zenon DEF IInv
<1>3. CASE MustWait(t) /\ t \in Writers
  <2>1. /\ Wait(t, Tx, "not_full", q[Tx], pc) /\ next(q[Tx].head) = q[Tx].tail
        /\ q[Tx].lock = NULL
    BY <1>0, <1>3, Apart DEF Locked, Queue, Field, MustWait, intq_full
  <2>2. /\ q' \in [Names -> QueueType] /\ q'[In] = q[In]
        /\ q'[Tx].head = q[Tx].head /\ q'[Tx].tail = q[Tx].tail /\ q'[Tx].buf = q[Tx].buf
        /\ q'[Tx].lock = t /\ q'[Tx].not_full = t
        /\ pc' = [pc EXCEPT ![t] = "blocked"]
    BY <1>3, <2>1, WriterWaits, Zenon DEF IInv, Types
  <2>3. /\ pc' \in [Threads -> Places] /\ pc'[t] = "blocked"
        /\ \A u \in Threads \ {t} : pc'[u] = pc[u]
    BY <2>2 DEF IInv, Types
  <2>4. InAsleep' /\ TxAsleep'
    BY <1>3, <2>1, <2>2, <2>3, Apart DEF IInv, InAsleep, TxAsleep
  <2>5. Types'
    BY <1>0, <1>3, <2>2, <2>3, Apart DEF IInv, Types, Op
  <2>6. InOrder'
    BY <1>0, <2>2, OrderStays DEF IInv
  <2> QED BY <2>4, <2>5, <2>6 DEF IInv
<1> QED BY <1>1, <1>2, <1>3

\* A woken thread releases the lock of the queue and is overtaken.
LEMMA PreemptedKeeps ==
  ASSUME IInv, NEW t \in Threads, Preempted(t)
  PROVE  IInv'
<1> DEFINE n == Queue(t)
<1>1. /\ pc[t] = "woken" /\ q' = [q EXCEPT ![n] = [q[n] EXCEPT !.lock = NULL]]
      /\ pc' = [pc EXCEPT ![t] = IF t \in Readers THEN "run" ELSE "serial"]
      /\ UNCHANGED <<todo, rx, given, accepted, got, sent, wire, screen>>
  BY DEF Preempted, Unlocked, uart, history
<1>2. n \in Names /\ q \in [Names -> QueueType] /\ pc \in [Threads -> Places]
  BY DEF Queue, IInv, Types
<1> HIDE DEF n
<1>3. /\ q' \in [Names -> QueueType]
      /\ \A m \in Names : /\ q'[m].buf = q[m].buf /\ q'[m].head = q[m].head
                          /\ q'[m].tail = q[m].tail /\ q'[m].not_full = q[m].not_full
                          /\ q'[m].not_empty = q[m].not_empty
                          /\ m # n => q'[m].lock = q[m].lock
  <2>1. q[n] \in QueueType
    BY <1>2
  <2> DEFINE R == [q[n] EXCEPT !.lock = NULL]
  <2>2. /\ R \in QueueType /\ R.buf = q[n].buf /\ R.head = q[n].head /\ R.tail = q[n].tail
        /\ R.not_full = q[n].not_full /\ R.not_empty = q[n].not_empty
    BY <2>1 DEF QueueType
  <2> HIDE DEF R
  <2>3. q' = [q EXCEPT ![n] = R]
    BY <1>1 DEF R
  <2> QED BY <1>2, <2>2, <2>3
<1>4. /\ pc' \in [Threads -> Places] /\ pc'[t] = IF t \in Readers THEN "run" ELSE "serial"
      /\ \A u \in Threads \ {t} : pc'[u] = pc[u]
  BY <1>1, <1>2
<1>5. InAsleep' /\ TxAsleep'
  <2>1. CASE t \in Readers
    BY <1>1, <1>3, <1>4, <2>1, Apart DEF IInv, InAsleep, TxAsleep, n, Queue
  <2>2. CASE t \in Writers
    BY <1>1, <1>3, <1>4, <2>2, Apart DEF IInv, InAsleep, TxAsleep, n, Queue
  <2> QED BY <2>1, <2>2
<1>6. Types'
  BY <1>1, <1>3, <1>4, Apart DEF IInv, Types, Op
<1>7. InOrder'
  BY <1>1, <1>3, OrderStays DEF IInv
<1> QED BY <1>5, <1>6, <1>7 DEF IInv

\* The sequences a script and the display go through.
LEMMA TailOf ==
  ASSUME NEW S, NEW s \in Seq(S), s # <<>>
  PROVE  /\ Tail(s) \in Seq(S) /\ Len(s) > 0 /\ Len(Tail(s)) = Len(s) - 1
         /\ Head(s) = s[1] /\ \A i \in 1..Len(s)-1 : Tail(s)[i] = s[i+1]
OBVIOUS

\* A character printed after the others.
LEMMA AppendOf ==
  ASSUME NEW S, NEW s \in Seq(S), NEW x \in S
  PROVE  /\ Append(s, x) \in Seq(S) /\ Len(Append(s, x)) = Len(s) + 1
         /\ \A i \in 1..Len(s)+1 : Append(s, x)[i] = IF i = Len(s) + 1 THEN x ELSE s[i]
OBVIOUS

\* A writer has done the first step that was left of its script.
LEMMA DoneTypes ==
  ASSUME Types, NEW t \in Writers, todo[t] # <<>>, Done(t)
  PROVE  /\ todo' = [u \in Threads |-> todo'[u]] /\ todo'[t] = Tail(todo[t])
         /\ todo'[t] \in Seq(STRING)
         /\ \A u \in Threads \ {t} : todo'[u] = todo[u]
<1>1. /\ todo' = [u \in Threads |-> todo'[u]] /\ todo'[t] = Tail(todo[t])
      /\ \A u \in Threads \ {t} : todo'[u] = todo[u]
  BY Zenon DEF Types, Done
<1>2. todo[t] \in Seq(STRING)
  BY DEF Types
<1>3. Tail(todo[t]) \in Seq(STRING)
  BY <1>2, TailOf, Zenon
<1> QED BY <1>1, <1>3

\* acquire_console, release_console and vga_putc leave the queues alone.
LEMMA ConsoleKeeps ==
  ASSUME IInv, NEW t \in Threads, acquire_console(t) \/ release_console(t) \/ vga_putc(t)
  PROVE  IInv'
<1>1. /\ UNCHANGED <<q, rx, given, accepted, got, sent, wire>> /\ Done(t)
      /\ t \in Writers /\ todo[t] # <<>>
      /\ \/ pc[t] = "run" /\ UNCHANGED <<pc, screen>>
         \/ /\ pc[t] = "vga" /\ pc' = [pc EXCEPT ![t] = "run"]
            /\ screen' = Append(screen, <<t, Op(t)>>)
  BY DEF acquire_console, release_console, vga_putc, uart, history, IInv, Types
<1>2. /\ todo' = [u \in Threads |-> todo'[u]] /\ todo'[t] \in Seq(STRING)
      /\ \A u \in Threads \ {t} : todo'[u] = todo[u]
  BY <1>1, DoneTypes, Zenon DEF IInv
<1>3. /\ pc' \in [Threads -> Places] /\ pc'[t] = "run"
      /\ \A u \in Threads \ {t} : pc'[u] = pc[u]
  BY <1>1, Zenon DEF IInv, Types
<1>4. screen' \in Seq(Byte)
  <2>1. Op(t) \in STRING
    BY <1>1 DEF IInv, Types, Op
  <2>2. <<t, Op(t)>> \in Byte
    BY <1>1, <2>1 DEF Byte
  <2>3. screen \in Seq(Byte) /\ Append(screen, <<t, Op(t)>>) \in Seq(Byte)
    BY <2>2, AppendOf DEF IInv, Types
  <2> QED BY <1>1, <2>3
<1>5. Types'
  BY <1>1, <1>2, <1>3, <1>4, Apart, Zenon DEF IInv, Types, Op
<1>6. InAsleep' /\ TxAsleep'
  BY <1>1, <1>3, Apart DEF IInv, InAsleep, TxAsleep
<1>7. InOrder'
  BY <1>1, OrderStays DEF IInv
<1> QED BY <1>5, <1>6, <1>7 DEF IInv

\* A step that changes none of these variables.
LEMMA StutterKeeps ==
  ASSUME IInv, UNCHANGED <<pc, todo, q, rx, given, accepted, got, sent, wire, screen>>
  PROVE  IInv'
<1>1. InSide' /\ TxSide'
  BY InStays, TxStays
<1> QED BY <1>1, Sides DEF IInv, Types

-----------------------------------------------------------------------------
\* The queues start empty, with nobody asleep.
LEMMA InitHolds == Init => IInv
<1> SUFFICES ASSUME Init
             PROVE  IInv
  OBVIOUS
<1>1. NewQueue \in QueueType /\ NewQueue.head = 0 /\ NewQueue.tail = 0
      /\ NewQueue.not_full = NULL /\ NewQueue.not_empty = NULL
  BY Buffer DEF NewQueue, QueueType, Byte
<1> HIDE DEF NewQueue
<1>2. q \in [Names -> QueueType] /\ q[In] = NewQueue /\ q[Tx] = NewQueue
  BY <1>1 DEF Init
<1>3. Types
  <2>1. /\ pc \in [Threads -> Places] /\ todo = [t \in Threads |-> todo[t]]
        /\ \A t \in Threads : pc[t] = "run"
    BY Zenon DEF Init
  <2>2. \A w \in Writers : todo[w] \in Seq(STRING)
    BY Apart, TerminalAssumption DEF Init
  <2>3. rx \in Byte /\ given \in [host : Nat, keys : Nat, intr : Nat]
    BY DEF Init, Byte
  <2>4. /\ accepted \in Seq(Byte) /\ got \in Seq(Byte)
        /\ sent \in Seq(Byte) /\ wire \in Seq(Byte) /\ screen \in Seq(Byte)
    BY DEF Init
  <2> QED BY <1>2, <2>1, <2>2, <2>3, <2>4, Zenon DEF Types
<1>4. InAsleep /\ TxAsleep
  BY <1>1, <1>2 DEF Init, InAsleep, TxAsleep
<1>5. Contents(In) = <<>> /\ Contents(Tx) = <<>>
  BY <1>1, <1>2, EmptyHeld, ContentsHeld
<1>6. InOrder
  BY <1>5 DEF Init, InOrder
<1> QED BY <1>3, <1>4, <1>6 DEF IInv

\* The invariant of the interrupt queues is inductive.
THEOREM QueueInvariant == Spec => []IInv
<1>1. Init => IInv
  BY InitHolds
<1>2. IInv /\ [Next]_vars => IInv'
  <2> SUFFICES ASSUME IInv, [Next]_vars
               PROVE  IInv'
    OBVIOUS
  <2>1. ASSUME NEW t \in Threads, Step(t)
        PROVE  IInv'
    BY <2>1, LockedKeeps, ReaderKeeps, PreemptedKeeps, WriterKeeps, ConsoleKeeps DEF Step
  <2>2. CASE Transmitted \/ UNCHANGED vars
    BY <2>2, StutterKeeps DEF Transmitted, vars, threads, uart, history
  <2> QED BY <2>1, <2>2, IntrPrintKeeps, KeyboardKeeps, SerialKeeps, HostKeeps, FlushKeeps
          DEF Next
<1> QED BY <1>1, <1>2, PTL DEF Spec

\* intq_putc and intq_getc: for any size of the buffer and any interleaving of
\* threads and interrupt handlers, no byte is lost, duplicated or overtaken.
THEOREM BytesStayInOrder == Spec => []InOrder
<1>1. IInv => InOrder
  BY DEF IInv
<1> QED BY <1>1, QueueInvariant, PTL

\* wait and signal: a thread asleep in a queue is the one the queue will wake, it
\* holds the lock of the queue, and what it waits for has not happened.
THEOREM SleepersAreKnown == Spec => []SleepersKnown
<1>1. IInv => SleepersKnown
  BY Apart
  DEF IInv, InAsleep, TxAsleep, SleepersKnown, Queue, Field, MustWait, intq_empty, intq_full
<1> QED BY <1>1, QueueInvariant, PTL

-----------------------------------------------------------------------------
(* Lines.                                                                  *)

\* printf, puts and putbuf hold the console from their first step to their last.
LEMMA ScriptNests ==
  ASSUME NEW w \in Writers
  PROVE  /\ Script[w] \in Seq(STRING) /\ Len(Script[w]) \in Nat
         /\ Level(w) \in [0..Len(Script[w]) -> Int] /\ Nests(Script[w], Level(w))
<1>1. Script[w] \in Seq(STRING) /\ OneLine(Script[w])
  BY TerminalAssumption
<1>2. PICK level \in [0..Len(Script[w]) -> 0..(Len(Script[w]) \div 2)] : Nests(Script[w], level)
  BY <1>1, Zenon DEF OneLine
<1>3. Len(Script[w]) \in Nat
  BY <1>1
<1>4. level \in [0..Len(Script[w]) -> Int]
  BY <1>2
<1>5. \E l \in [0..Len(Script[w]) -> Int] : Nests(Script[w], l)
  BY <1>2, <1>4, Zenon
<1>6. Level(w) \in [0..Len(Script[w]) -> Int] /\ Nests(Script[w], Level(w))
  BY <1>5, Zenon DEF Level
<1> QED BY <1>1, <1>3, <1>6

\* The next step of a writer, in its script.
LEMMA AtScript ==
  ASSUME Types, Holding, NEW w \in Writers, todo[w] # <<>>
  PROVE  /\ Pos(w) \in Nat /\ Pos(w) < Len(Script[w]) /\ Len(Script[w]) \in Nat
         /\ Op(w) = Script[w][Pos(w) + 1]
<1>1. todo[w] \in Seq(STRING) /\ Script[w] \in Seq(STRING)
  BY TerminalAssumption DEF Types
<1>2. Len(todo[w]) \in Nat /\ Len(todo[w]) > 0 /\ Op(w) = todo[w][1] /\ Len(Script[w]) \in Nat
  BY <1>1, TailOf DEF Op
<1>3. Pos(w) \in 0..Len(Script[w]) /\ Pos(w) = Len(Script[w]) - Len(todo[w])
  BY Zenon DEF Holding, Pos
<1>4. todo[w][1] = Script[w][Pos(w) + 1]
  BY <1>2 DEF Holding
<1>5. Pos(w) \in Nat /\ Pos(w) < Len(Script[w])
  <2> DEFINE n == Len(Script[w])
             m == Len(todo[w])
             p == Pos(w)
  <2>1. n \in Nat /\ m \in Nat /\ m > 0 /\ p \in 0..n /\ p = n - m
    BY <1>2, <1>3, Zenon
  <2> HIDE DEF n, m, p
  <2>2. p \in Nat /\ p < n
    BY <2>1
  <2> QED BY <2>2 DEF n, p
<1> QED BY <1>2, <1>4, <1>5

\* printf, puts and putbuf hold the console from their first step to their last:
\* who is past the first holds it, and who does not hold it is at the first.
LEMMA HoldsConsole ==
  ASSUME Types, Holding, NEW w \in Writers, todo[w] # <<>>
  PROVE  /\ Op(w) # "acquire" => console_lock = w /\ Pos(w) > 0
         /\ console_lock # w => Pos(w) = 0
<1>1. /\ Pos(w) \in Nat /\ Pos(w) < Len(Script[w]) /\ Len(Script[w]) \in Nat
      /\ Op(w) = Script[w][Pos(w) + 1]
  BY AtScript
<1>2. Nests(Script[w], Level(w)) /\ Level(w) \in [0..Len(Script[w]) -> Int]
  BY ScriptNests
<1>3. ASSUME Pos(w) = 0
      PROVE  Op(w) = "acquire"
  <2>1. Script[w] # <<>>
    BY <1>1
  <2> QED BY <1>1, <1>2, <1>3, <2>1 DEF Nests
<1>4. Op(w) # "acquire" => Pos(w) > 0
  BY <1>1, <1>3
<1>5. ASSUME Pos(w) > 0
      PROVE  console_lock = w
  <2>1. Pos(w) \in 1..Len(Script[w])
    BY <1>1, <1>5
  <2>2. Depth(w) > 0
    BY <1>1, <1>2, <2>1 DEF Nests, Depth
  <2> QED BY <2>2 DEF Holding
<1> QED BY <1>1, <1>4, <1>5

\* The position and the depth of a writer that does the next step of its script.
LEMMA ScriptStep ==
  ASSUME Types, Holding, NEW w \in Writers, todo[w] # <<>>, Done(w)
  PROVE  /\ Pos(w)' = Pos(w) + 1 /\ Pos(w)' \in 0..Len(Script[w])
         /\ \A i \in 1..Len(todo'[w]) : todo'[w][i] = Script[w][Pos(w)' + i]
         /\ Depth(w) \in Int
         /\ Depth(w)' = IF Op(w) = "acquire" THEN Depth(w) + 1
                        ELSE IF Op(w) = "release" THEN Depth(w) - 1 ELSE Depth(w)
<1>1. /\ Pos(w) \in Nat /\ Pos(w) < Len(Script[w]) /\ Len(Script[w]) \in Nat
      /\ Op(w) = Script[w][Pos(w) + 1]
  BY AtScript
<1>2. todo'[w] = Tail(todo[w]) /\ todo[w] \in Seq(STRING)
  BY DoneTypes DEF Types
<1>3. /\ Len(todo[w]) \in Nat /\ Len(todo[w]) > 0 /\ Len(todo'[w]) = Len(todo[w]) - 1
      /\ \A i \in 1..Len(todo[w])-1 : todo'[w][i] = todo[w][i+1]
  BY <1>2, TailOf
<1>4. Pos(w)' = Pos(w) + 1
  BY <1>1, <1>3 DEF Pos
<1>5. \A i \in 1..Len(todo'[w]) : todo'[w][i] = Script[w][Pos(w)' + i]
  <2> SUFFICES ASSUME NEW i \in 1..Len(todo'[w])
               PROVE  todo'[w][i] = Script[w][Pos(w)' + i]
    OBVIOUS
  <2>1. todo'[w][i] = todo[w][i+1] /\ i+1 \in 1..Len(todo[w])
    BY <1>3
  <2>2. todo[w][i+1] = Script[w][Pos(w) + (i+1)]
    BY <2>1 DEF Holding
  <2>3. Pos(w) + (i+1) = Pos(w)' + i
    BY <1>1, <1>3, <1>4
  <2> QED BY <2>1, <2>2, <2>3
<1>6. Nests(Script[w], Level(w)) /\ Level(w) \in [0..Len(Script[w]) -> Int]
  BY ScriptNests
<1>7. Pos(w) + 1 \in 1..Len(Script[w]) /\ (Pos(w) + 1) - 1 = Pos(w) /\ Pos(w) \in 0..Len(Script[w])
  BY <1>1
<1>8. /\ Level(w)[Pos(w)] \in Int
      /\ Level(w)[Pos(w) + 1] = Level(w)[Pos(w)] + (IF Op(w) = "acquire" THEN 1 ELSE 0)
                                                 - (IF Op(w) = "release" THEN 1 ELSE 0)
  <2>1. Level(w)[Pos(w)] \in Int
    BY <1>6, <1>7
  <2>2. Level(w)[Pos(w) + 1]
          = Level(w)[(Pos(w) + 1) - 1] + (IF Script[w][Pos(w) + 1] = "acquire" THEN 1 ELSE 0)
                                       - (IF Script[w][Pos(w) + 1] = "release" THEN 1 ELSE 0)
    BY <1>6, <1>7, Zenon DEF Nests
  <2> QED BY <1>1, <1>7, <2>1, <2>2, Zenon
<1>9. Depth(w) = Level(w)[Pos(w)] /\ Depth(w)' = Level(w)[Pos(w) + 1]
  BY <1>4 DEF Depth, Level
<1>10. Depth(w)' = IF Op(w) = "acquire" THEN Depth(w) + 1
                   ELSE IF Op(w) = "release" THEN Depth(w) - 1 ELSE Depth(w)
  BY <1>8, <1>9
<1> QED BY <1>1, <1>4, <1>5, <1>7, <1>8, <1>9, <1>10

\* The console changes hands: the new holder, if any, has printed nothing yet.
LEMMA LinesStay ==
  ASSUME NEW s, NEW lock, NEW at \in [Writers -> Nat], LinesAt(s, lock, at),
         NEW lock2, NEW at2 \in [Writers -> Nat], \A w \in Writers : at2[w] >= at[w],
         lock2 \in {lock, NULL} \/ (lock2 \in Writers /\ at[lock2] = 0)
  PROVE  LinesAt(s, lock2, at2)
<1>1. \A i \in 1..Len(s) : LineOf(s[i]) \in Writers => at2[LineOf(s[i])] > 0
  BY DEF LinesAt
<1>2. ASSUME NEW i \in 1..Len(s), NEW j \in 1..Len(s), i < j,
             LineOf(s[i]) \in Writers, lock2 = LineOf(s[i])
      PROVE  LineOf(s[j]) \in {LineOf(s[i]), "intr"}
  <2>1. lock2 # NULL
    BY <1>2, Apart
  <2>2. at[lock2] # 0
    BY <1>2 DEF LinesAt
  <2>3. lock = LineOf(s[i])
    BY <1>2, <2>1, <2>2
  <2> QED BY <1>2, <2>3 DEF LinesAt
<1> QED BY <1>1, <1>2 DEF LinesAt

\* putchar_have_lock and an interrupt handler print: the line is that of the
\* thread that holds the console.
LEMMA LinesAppend ==
  ASSUME NEW s \in Seq(Byte), NEW c \in Byte, NEW lock, NEW at, LinesAt(s, lock, at),
         \/ LineOf(c) = "intr"
         \/ LineOf(c) \in Writers /\ lock = LineOf(c) /\ at[lock] > 0
  PROVE  LinesAt(Append(s, c), lock, at)
<1> DEFINE r == Append(s, c)
<1>1. /\ Len(s) \in Nat /\ Len(r) = Len(s) + 1
      /\ \A i \in 1..Len(s) : r[i] = s[i]
      /\ r[Len(s) + 1] = c
  BY AppendOf
<1> HIDE DEF r
<1>2. "intr" \notin Writers
  BY TerminalAssumption
<1>3. ASSUME NEW i \in 1..Len(r), NEW j \in 1..Len(r), i < j,
             LineOf(r[i]) \in Writers, lock = LineOf(r[i])
      PROVE  LineOf(r[j]) \in {LineOf(r[i]), "intr"}
  <2>1. i \in 1..Len(s) /\ r[i] = s[i]
    BY <1>1, <1>3
  <2>2. CASE j \in 1..Len(s)
    BY <1>1, <1>3, <2>1, <2>2 DEF LinesAt
  <2>3. CASE j = Len(s) + 1
    BY <1>1, <1>3, <2>3
  <2> QED BY <1>1, <2>2, <2>3
<1>4. ASSUME NEW i \in 1..Len(r), NEW j \in 1..Len(r), NEW k \in 1..Len(r), i < j, j < k,
             LineOf(r[i]) \in Writers, LineOf(r[k]) = LineOf(r[i])
      PROVE  LineOf(r[j]) \in {LineOf(r[i]), "intr"}
  <2>1. i \in 1..Len(s) /\ j \in 1..Len(s) /\ r[i] = s[i] /\ r[j] = s[j]
    BY <1>1, <1>4
  <2>2. CASE k \in 1..Len(s)
    BY <1>1, <1>4, <2>1, <2>2 DEF LinesAt, Unmixed
  <2>3. CASE k = Len(s) + 1
    <3>1. lock = LineOf(r[i])
      BY <1>1, <1>2, <1>4, <2>3
    <3> QED BY <1>3, <1>4, <3>1
  <2> QED BY <1>1, <2>2, <2>3
<1>5. ASSUME NEW i \in 1..Len(r), LineOf(r[i]) \in Writers
      PROVE  at[LineOf(r[i])] > 0
  <2>1. CASE i \in 1..Len(s)
    BY <1>1, <1>5, <2>1 DEF LinesAt
  <2>2. CASE i = Len(s) + 1
    BY <1>1, <1>2, <1>5, <2>2
  <2> QED BY <1>1, <2>1, <2>2
<1>6. Unmixed(r)
  BY <1>4 DEF Unmixed
<1>7. LinesAt(r, lock, at)
  BY <1>3, <1>5, <1>6 DEF LinesAt
<1> QED BY <1>7 DEF r

\* How far the writers are is a number for each.
LEMMA PositionsType ==
  ASSUME Holding
  PROVE  Positions \in [Writers -> Nat] /\ \A w \in Writers : Positions[w] = Pos(w)
<1>1. \A w \in Writers : Pos(w) \in Nat
  <2> SUFFICES ASSUME NEW w \in Writers
               PROVE  Pos(w) \in Nat
    OBVIOUS
  <2>1. Len(Script[w]) \in Nat /\ Pos(w) \in 0..Len(Script[w])
    BY TerminalAssumption DEF Holding
  <2> QED BY <2>1
<1> QED BY <1>1 DEF Positions

\* Steps in which no writer advances and the console keeps its holder.
LEMMA HoldingStays ==
  ASSUME Holding, UNCHANGED console, \A w \in Writers : todo'[w] = todo[w]
  PROVE  /\ Holding' /\ Positions' = Positions /\ console_lock' = console_lock
<1>1. \A w \in Writers : Pos(w)' = Pos(w)
  BY Zenon DEF Pos
<1>2. \A w \in Writers : Depth(w)' = Depth(w)
  BY <1>1 DEF Depth
<1>3. UNCHANGED <<console_lock, console_lock_depth>>
  BY DEF console
<1> QED BY <1>1, <1>2, <1>3 DEF Holding, Positions

\* A writer advances: the others stay where they are.
LEMMA DoneHolding ==
  ASSUME Types, Holding, NEW t \in Writers, todo[t] # <<>>, Done(t),
         console_lock' \in Writers \cup {NULL}, console_lock_depth' \in Nat,
         console_lock' = NULL => console_lock_depth' = 0,
         Depth(t)' = IF console_lock' = t THEN console_lock_depth' + 1 ELSE 0,
         \A w \in Writers \ {t} : Depth(w) = IF console_lock' = w THEN console_lock_depth' + 1 ELSE 0
  PROVE  /\ Holding' /\ Positions' \in [Writers -> Nat]
         /\ \A w \in Writers : Positions'[w] >= Positions[w]
<1>1. \A w \in Writers \ {t} : todo'[w] = todo[w]
  BY DoneTypes
<1>2. \A w \in Writers \ {t} : Pos(w)' = Pos(w)
  BY <1>1, Zenon DEF Pos
<1>3. \A w \in Writers \ {t} : Depth(w)' = Depth(w)
  BY <1>2 DEF Depth
<1>4. /\ Pos(t)' = Pos(t) + 1 /\ Pos(t)' \in 0..Len(Script[t])
      /\ \A i \in 1..Len(todo'[t]) : todo'[t][i] = Script[t][Pos(t)' + i]
  BY ScriptStep
<1>5. ASSUME NEW w \in Writers
      PROVE  /\ Pos(w)' \in 0..Len(Script[w])
             /\ \A i \in 1..Len(todo'[w]) : todo'[w][i] = Script[w][Pos(w)' + i]
             /\ Depth(w)' = IF console_lock' = w THEN console_lock_depth' + 1 ELSE 0
  <2>1. CASE w = t
    BY <1>4, <2>1
  <2>2. CASE w # t
    <3>1. todo'[w] = todo[w] /\ Pos(w)' = Pos(w) /\ Depth(w)' = Depth(w)
      BY <1>1, <1>2, <1>3, <2>2, Zenon
    <3>2. /\ Pos(w) \in 0..Len(Script[w])
          /\ \A i \in 1..Len(todo[w]) : todo[w][i] = Script[w][Pos(w) + i]
      BY DEF Holding
    <3> QED BY <2>2, <3>1, <3>2
  <2> QED BY <2>1, <2>2
<1>6. Holding'
  BY <1>5 DEF Holding
<1>7. Positions' \in [Writers -> Nat] /\ \A w \in Writers : Positions'[w] = Pos(w)'
  <2>1. ASSUME NEW w \in Writers
        PROVE  Pos(w)' \in Nat
    <3>1. Len(Script[w]) \in Nat
      BY TerminalAssumption
    <3> QED BY <1>5, <3>1
  <2> QED BY <2>1 DEF Positions
<1>8. Positions \in [Writers -> Nat] /\ \A w \in Writers : Positions[w] = Pos(w)
  BY PositionsType
<1>9. ASSUME NEW w \in Writers
      PROVE  Positions'[w] >= Positions[w]
  <2>1. Pos(w) \in Nat /\ Positions[w] = Pos(w) /\ Positions'[w] = Pos(w)'
    BY <1>7, <1>8
  <2>2. Pos(w)' = Pos(w) \/ Pos(w)' = Pos(w) + 1
    BY <1>2, <1>4
  <2> QED BY <2>1, <2>2
<1> QED BY <1>6, <1>7, <1>9

LinesInv == IInv /\ Holding /\ Whole

\* acquire_console: the depth counts the nested calls, and who takes a free
\* console is at the beginning of its line.
LEMMA AcquireKeeps ==
  ASSUME LinesInv, NEW t \in Threads, acquire_console(t)
  PROVE  Holding' /\ Whole'
<1>1. /\ t \in Writers /\ todo[t] # <<>> /\ Op(t) = "acquire" /\ Done(t)
      /\ sent' = sent /\ screen' = screen
      /\ \/ /\ console_lock = t
            /\ console_lock_depth' = console_lock_depth + 1 /\ console_lock' = console_lock
         \/ /\ console_lock = NULL
            /\ console_lock' = t /\ console_lock_depth' = console_lock_depth
  BY DEF acquire_console, history
<1>2. Types /\ Holding /\ Whole
  BY DEF LinesInv, IInv
<1>3. /\ console_lock_depth \in Nat /\ t # NULL
      /\ console_lock = NULL => console_lock_depth = 0
      /\ \A w \in Writers : Depth(w) = IF console_lock = w THEN console_lock_depth + 1 ELSE 0
  BY <1>1, <1>2, Apart, Zenon DEF Holding
<1>4. Depth(t)' = Depth(t) + 1
  BY <1>1, <1>2, ScriptStep
<1>5. Depth(t)' = IF console_lock' = t THEN console_lock_depth' + 1 ELSE 0
  BY <1>1, <1>3, <1>4
<1>6. \A w \in Writers \ {t} : Depth(w) = IF console_lock' = w THEN console_lock_depth' + 1 ELSE 0
  BY <1>1, <1>3, Apart
<1>7. console_lock' \in Writers \cup {NULL} /\ console_lock_depth' \in Nat /\ console_lock' # NULL
  BY <1>1, <1>3
<1>8. /\ Holding' /\ Positions' \in [Writers -> Nat]
      /\ \A w \in Writers : Positions'[w] >= Positions[w]
  BY <1>1, <1>2, <1>5, <1>6, <1>7, DoneHolding
<1>9. Positions \in [Writers -> Nat] /\ Positions[t] = Pos(t)
  BY <1>1, <1>2, PositionsType
<1>10. console_lock' \in {console_lock, NULL} \/ (console_lock' \in Writers /\ Positions[console_lock'] = 0)
  <2>1. console_lock = NULL => Pos(t) = 0
    BY <1>1, <1>2, <1>3, HoldsConsole
  <2> QED BY <1>1, <1>9, <2>1
<1>11. /\ LinesAt(sent, console_lock', Positions')
       /\ LinesAt(screen, console_lock', Positions')
  BY <1>2, <1>8, <1>9, <1>10, LinesStay, Zenon DEF Whole
<1> QED BY <1>1, <1>8, <1>11 DEF Whole

\* release_console: the console is free when the outermost call returns.
LEMMA ReleaseKeeps ==
  ASSUME LinesInv, NEW t \in Threads, release_console(t)
  PROVE  Holding' /\ Whole'
<1>1. /\ t \in Writers /\ todo[t] # <<>> /\ Op(t) = "release" /\ Done(t)
      /\ sent' = sent /\ screen' = screen
      /\ IF console_lock_depth > 0
         THEN console_lock_depth' = console_lock_depth - 1 /\ console_lock' = console_lock
         ELSE console_lock' = NULL /\ console_lock_depth' = console_lock_depth
  BY DEF release_console, history
<1>2. Types /\ Holding /\ Whole
  BY DEF LinesInv, IInv
<1>3. console_lock = t
  BY <1>1, <1>2, HoldsConsole
<1>4. /\ console_lock_depth \in Nat /\ t # NULL
      /\ \A w \in Writers : Depth(w) = IF console_lock = w THEN console_lock_depth + 1 ELSE 0
  BY <1>1, <1>2, Apart, Zenon DEF Holding
<1>5. Depth(t)' = Depth(t) - 1
  BY <1>1, <1>2, ScriptStep
<1>6. Depth(t)' = IF console_lock' = t THEN console_lock_depth' + 1 ELSE 0
  BY <1>1, <1>3, <1>4, <1>5
<1>7. \A w \in Writers \ {t} : Depth(w) = IF console_lock' = w THEN console_lock_depth' + 1 ELSE 0
  BY <1>1, <1>3, <1>4, Apart
<1>8. /\ console_lock' \in Writers \cup {NULL} /\ console_lock_depth' \in Nat
      /\ console_lock' = NULL => console_lock_depth' = 0
  BY <1>1, <1>3, <1>4
<1>9. /\ Holding' /\ Positions' \in [Writers -> Nat]
      /\ \A w \in Writers : Positions'[w] >= Positions[w]
  BY <1>1, <1>2, <1>6, <1>7, <1>8, DoneHolding
<1>10. Positions \in [Writers -> Nat]
  BY <1>2, PositionsType
<1>11. console_lock' \in {console_lock, NULL}
  BY <1>1
<1>12. /\ LinesAt(sent, console_lock', Positions')
       /\ LinesAt(screen, console_lock', Positions')
  BY <1>2, <1>9, <1>10, <1>11, LinesStay DEF Whole
<1> QED BY <1>1, <1>9, <1>12 DEF Whole

\* Steps that print nothing and leave the writers and the console alone.
LEMMA SilentKeeps ==
  ASSUME LinesInv, UNCHANGED <<console, sent, screen>>, \A w \in Writers : todo'[w] = todo[w]
  PROVE  Holding' /\ Whole'
BY HoldingStays DEF LinesInv, Whole

\* serial_putc puts a character of the line whose thread holds the console.
LEMMA SerialPutcKeeps ==
  ASSUME LinesInv, NEW t \in Threads, serial_putc(t) \/ WokenPutc(t)
  PROVE  Holding' /\ Whole'
<1>1. /\ t \in Writers /\ UNCHANGED <<console, todo, screen>>
      /\ todo[t] # <<>> /\ Op(t) # "acquire"
      /\ sent' \in {sent, Append(sent, <<t, Op(t)>>)}
  BY DEF serial_putc, WokenPutc, Putc, LinesInv, IInv, Types
<1>2. Types /\ Holding /\ Whole /\ sent \in Seq(Byte)
  BY Zenon DEF LinesInv, IInv, Types
<1>3. console_lock = t /\ Pos(t) > 0
  BY <1>1, <1>2, HoldsConsole
<1>4. Holding' /\ Positions' = Positions /\ console_lock' = console_lock
  BY <1>1, <1>2, HoldingStays
<1>5. <<t, Op(t)>> \in Byte /\ LineOf(<<t, Op(t)>>) = t
  <2>1. Op(t) \in STRING
    BY <1>1, <1>2 DEF Types, Op
  <2> QED BY <1>1, <2>1 DEF Byte, LineOf
<1>6. Positions[t] > 0
  BY <1>1, <1>2, <1>3, PositionsType, Zenon
<1>7. LinesAt(Append(sent, <<t, Op(t)>>), console_lock, Positions)
  BY <1>1, <1>2, <1>3, <1>5, <1>6, LinesAppend DEF Whole
<1>8. LinesAt(sent', console_lock, Positions)
  BY <1>1, <1>2, <1>7, Zenon DEF Whole
<1> QED BY <1>1, <1>2, <1>4, <1>8 DEF Whole

\* vga_putc displays the character and the writer goes on.
LEMMA VgaKeeps ==
  ASSUME LinesInv, NEW t \in Threads, vga_putc(t)
  PROVE  Holding' /\ Whole'
<1>1. /\ t \in Writers /\ UNCHANGED <<console_lock, console_lock_depth, sent>> /\ Done(t)
      /\ todo[t] # <<>> /\ Op(t) \notin {"acquire", "release"}
      /\ screen' = Append(screen, <<t, Op(t)>>)
  BY DEF vga_putc, console, LinesInv, IInv, Types
<1>2. Types /\ Holding /\ Whole /\ screen \in Seq(Byte)
  BY Zenon DEF LinesInv, IInv, Types
<1>3. console_lock = t /\ Pos(t) > 0
  BY <1>1, <1>2, HoldsConsole
<1>4. Depth(t)' = Depth(t)
  BY <1>1, <1>2, ScriptStep
<1>5. /\ console_lock \in Writers \cup {NULL} /\ console_lock_depth \in Nat
      /\ console_lock = NULL => console_lock_depth = 0
      /\ \A w \in Writers : Depth(w) = IF console_lock = w THEN console_lock_depth + 1 ELSE 0
  BY <1>2 DEF Holding
<1>6. /\ Holding' /\ Positions' \in [Writers -> Nat]
      /\ \A w \in Writers : Positions'[w] >= Positions[w]
  BY <1>1, <1>2, <1>4, <1>5, DoneHolding
<1>7. <<t, Op(t)>> \in Byte /\ LineOf(<<t, Op(t)>>) = t
  <2>1. Op(t) \in STRING
    BY <1>1, <1>2 DEF Types, Op
  <2> QED BY <1>1, <2>1 DEF Byte, LineOf
<1>8. Positions \in [Writers -> Nat] /\ Positions[t] > 0
  BY <1>1, <1>2, <1>3, PositionsType, Zenon
<1>9. /\ LinesAt(Append(screen, <<t, Op(t)>>), console_lock, Positions)
      /\ LinesAt(sent, console_lock, Positions)
  BY <1>1, <1>2, <1>3, <1>7, <1>8, LinesAppend DEF Whole
<1>10. /\ LinesAt(Append(screen, <<t, Op(t)>>), console_lock, Positions')
       /\ LinesAt(sent, console_lock, Positions')
  BY <1>6, <1>8, <1>9, LinesStay
<1> QED BY <1>1, <1>6, <1>10 DEF Whole

\* An interrupt handler prints between the characters of any line.
LEMMA IntrPrintLines ==
  ASSUME LinesInv, IntrPrint
  PROVE  Holding' /\ Whole'
<1> DEFINE byte == <<"intr", given.intr>>
<1>1. /\ UNCHANGED <<console, todo>>
      /\ sent' = Append(sent, byte) /\ screen' = Append(screen, byte)
  BY DEF IntrPrint
<1>2. Holding /\ Whole /\ sent \in Seq(Byte) /\ screen \in Seq(Byte) /\ given.intr \in Nat
  BY DEF LinesInv, IInv, Types
<1>3. byte \in Byte /\ LineOf(byte) = "intr"
  BY <1>2 DEF Byte, LineOf
<1> HIDE DEF byte
<1>4. Holding' /\ Positions' = Positions /\ console_lock' = console_lock
  BY <1>1, <1>2, HoldingStays
<1>5. /\ LinesAt(Append(sent, byte), console_lock, Positions)
      /\ LinesAt(Append(screen, byte), console_lock, Positions)
  BY <1>2, <1>3, LinesAppend DEF Whole
<1> QED BY <1>1, <1>4, <1>5 DEF Whole

\* Nothing is printed yet, and nobody holds the console.
LEMMA LinesInit == Init => Holding /\ Whole
<1> SUFFICES ASSUME Init
             PROVE  Holding /\ Whole
  BY Zenon
<1>1. \A w \in Writers : todo[w] = Script[w] /\ Script[w] \in Seq(STRING)
  BY Apart, TerminalAssumption DEF Init
<1>2. \A w \in Writers : Pos(w) = 0 /\ Len(Script[w]) \in Nat
  BY <1>1 DEF Pos
<1>3. \A w \in Writers : Depth(w) = 0
  BY <1>2, ScriptNests DEF Depth, Nests
<1>4. console_lock = NULL /\ console_lock_depth = 0 /\ sent = <<>> /\ screen = <<>>
  BY DEF Init
<1>5. \A w \in Writers : console_lock # w
  BY <1>4, Apart
<1>6. Holding
  BY <1>1, <1>2, <1>3, <1>4, <1>5 DEF Holding
<1>7. Whole
  BY <1>4 DEF Whole, LinesAt, Unmixed
<1> QED BY <1>6, <1>7

\* printf, puts and putbuf: whatever the interleaving, the lines of two calls are
\* not mixed, neither on the wire nor on the display.
THEOREM LinesStayWhole == Spec => []LinesWhole
<1>1. Init => LinesInv
  BY InitHolds, LinesInit DEF LinesInv
<1>2. LinesInv /\ IInv' /\ [Next]_vars => LinesInv'
  <2> SUFFICES ASSUME LinesInv, [Next]_vars
               PROVE  Holding' /\ Whole'
    BY DEF LinesInv
  <2>1. ASSUME NEW t \in Threads, Step(t)
        PROVE  Holding' /\ Whole'
    <3>1. ASSUME Locked(t) \/ Preempted(t) \/ input_getc(t) \/ WokenGetc(t)
          PROVE  Holding' /\ Whole'
      <4>1. UNCHANGED <<console, sent, screen>> /\ \A w \in Writers : todo'[w] = todo[w]
        BY <3>1, Apart, Zenon DEF Locked, Preempted, input_getc, WokenGetc, Getc, history, LinesInv, IInv, Types
      <4> QED BY <4>1, SilentKeeps
    <3> QED BY <2>1, <3>1, AcquireKeeps, ReleaseKeeps, SerialPutcKeeps, VgaKeeps, Zenon DEF Step
  <2>2. ASSUME \/ keyboard_interrupt \/ serial_interrupt \/ Transmitted \/ Host \/ serial_flush
               \/ UNCHANGED vars
        PROVE  Holding' /\ Whole'
    <3>1. UNCHANGED <<console, sent, screen>> /\ \A w \in Writers : todo'[w] = todo[w]
      BY <2>2 DEF keyboard_interrupt, serial_interrupt, Transmitted, Host, serial_flush,
                  vars, threads, history
    <3> QED BY <3>1, SilentKeeps
  <2> QED BY <2>1, <2>2, IntrPrintLines DEF Next
<1>3. LinesInv => LinesWhole
  BY DEF LinesInv, Whole, LinesAt, LinesWhole
<1> QED BY <1>1, <1>2, <1>3, QueueInvariant, PTL DEF Spec

=============================================================================
