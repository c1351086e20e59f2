------------------------------ MODULE Terminal ------------------------------
(***************************************************************************)
(* The terminal: the interrupt queues (devices/intq.c) between the         *)
(* interrupt handlers and the threads, the input buffer (devices/input.c), *)
(* the serial port (devices/serial.c), the keyboard as a source of         *)
(* characters (devices/kbd.c) and the console with its recursive lock      *)
(* (lib/kernel/console.c).                                                 *)
(*                                                                         *)
(* The code that runs with interrupts off is one step, up to the points    *)
(* where a thread blocks.  The UART is external: one byte in its receive   *)
(* register, one in its transmit register, an interrupt while an enabled   *)
(* condition holds.  The far end sends its next byte when the last was     *)
(* taken.                                                                  *)
(***************************************************************************)
EXTENDS Integers, Sequences

CONSTANTS
  Readers,      \* threads in input_getc
  Writers,      \* threads that print: one for each call of printf, puts or putbuf
  Script,       \* what each writer prints: "acquire", "release" or a character
  BufSize,      \* INTQ_BUFSIZE
  MaxReads, MaxHost, MaxKeys, MaxIntr,   \* bounds
  NULL

Threads == Readers \cup Writers
In == "buffer"
Tx == "txq"

\* level says how deep a script holds the console after each of its steps; a line
\* holds it from its first step to its last.
Nests(s, level) ==
  /\ s # <<>> => s[1] = "acquire"
  /\ level[0] = 0 /\ level[Len(s)] = 0
  /\ \A i \in 1..Len(s) :
       /\ level[i] = level[i-1] + (IF s[i] = "acquire" THEN 1 ELSE 0)
                                - (IF s[i] = "release" THEN 1 ELSE 0)
       /\ i < Len(s) => level[i] > 0
OneLine(s) == \E level \in [0..Len(s) -> 0..(Len(s) \div 2)] : Nests(s, level)

ASSUME TerminalAssumption ==
  /\ BufSize \in Nat \ {0, 1} /\ Readers \cap Writers = {}
  /\ NULL \notin Threads /\ "intr" \notin Threads
  /\ MaxReads \in Nat /\ MaxHost \in Nat /\ MaxKeys \in Nat /\ MaxIntr \in Nat
  /\ \A w \in Writers : Script[w] \in Seq(STRING) /\ OneLine(Script[w])

VARIABLES
  pc,        \* where each thread is
  todo,      \* readers: the reads left; writers: the rest of the script
  q,         \* the two interrupt queues
  ier,       \* IER_REG: the interrupts enabled
  rx, thr,   \* the byte received, and whether a byte can be sent
  console_lock, console_lock_depth,
  machine,   \* "on", "off" or "panic"
  given,     \* bound: bytes from the host, keys, messages of interrupt handlers
  accepted, got,       \* history: bytes put into and taken from the input buffer
  sent, wire, screen   \* history: bytes given to serial_putc, transmitted, displayed

threads == <<pc, todo>>
uart == <<ier, rx, thr>>
console == <<console_lock, console_lock_depth>>
history == <<accepted, got, sent, wire, screen>>
vars == <<threads, q, uart, console, machine, given, history>>

NewQueue == [buf |-> [i \in 0..BufSize-1 |-> NULL], head |-> 0, tail |-> 0, lock |-> NULL,
             not_full |-> NULL, not_empty |-> NULL]

\* serial_init_queue has run: the port is in QUEUE mode.
Init ==
  /\ pc = [t \in Threads |-> "run"]
  /\ todo = [t \in Threads |-> IF t \in Readers THEN MaxReads ELSE Script[t]]
  /\ q = [n \in {In, Tx} |-> NewQueue]
  /\ ier = {"recv"} /\ rx = NULL /\ thr = TRUE
  /\ console_lock = NULL /\ console_lock_depth = 0
  /\ machine = "on"
  /\ given = [host |-> 0, keys |-> 0, intr |-> 0]
  /\ accepted = <<>> /\ got = <<>> /\ sent = <<>> /\ wire = <<>> /\ screen = <<>>

-----------------------------------------------------------------------------
(* Interrupt queues.                                                       *)

next(pos) == (pos + 1) % BufSize
intq_empty(n) == q[n].head = q[n].tail

intq_full(n) == next(q[n].head) = q[n].tail

\* The bytes in a queue, oldest first.
Contents(n) ==
  [i \in 1..((q[n].head + BufSize - q[n].tail) % BufSize) |-> q[n].buf[(q[n].tail + i - 1) % BufSize]]

\* The effect of intq_putc and intq_getc on a queue that has room or a byte.
intq_putc(queue, byte) ==
  [queue EXCEPT !.buf[queue.head] = byte, !.head = next(@), !.not_empty = NULL]
intq_getc(queue) == [queue EXCEPT !.tail = next(@), !.not_full = NULL]

\* signal: the thread that waited runs again.
Signalled(waiter) == [t \in Threads |-> IF t = waiter THEN "woken" ELSE pc[t]]

\* signal in an interrupt handler: thread_unblock yields if the running thread's
\* priority is not higher than the woken one's, and yielding in a handler panics.
MayPanic(waiters) ==
  machine' \in {machine} \cup (IF waiters \subseteq {NULL} THEN {} ELSE {"panic"})

\* Mutant: threads wait without taking the lock of the queue.
MutWait(t, n, field, queue, p) ==
  /\ q' = [q EXCEPT ![n] = [queue EXCEPT ![field] = t]]
  /\ pc' = [p EXCEPT ![t] = "blocked"]

\* The body of the loops of intq_getc and intq_putc: take the lock, wait.
Wait(t, n, field, queue, p) ==
  IF queue.lock = NULL
  THEN /\ q' = [q EXCEPT ![n] = [queue EXCEPT !.lock = t, ![field] = t]]
       /\ pc' = [p EXCEPT ![t] = "blocked"]
  ELSE /\ q' = [q EXCEPT ![n] = queue]
       /\ pc' = [p EXCEPT ![t] = "lock"]

Queue(t) == IF t \in Readers THEN In ELSE Tx
Field(t) == IF t \in Readers THEN "not_empty" ELSE "not_full"
MustWait(t) == IF t \in Readers THEN intq_empty(In) ELSE intq_full(Tx)

\* A thread that waited for the lock gets it and goes on to wait for the
\* condition, which wait asserts still holds.
Locked(t) ==
  /\ pc[t] = "lock" /\ q[Queue(t)].lock = NULL
  /\ IF MustWait(t)
     THEN /\ Wait(t, Queue(t), Field(t), q[Queue(t)], pc)
          /\ UNCHANGED machine
     ELSE /\ machine' = "panic"
          /\ UNCHANGED <<q, pc>>
  /\ UNCHANGED <<todo, uart, console, given, history>>

\* write_ier, for the queues as they will be.
write_ier(qs) ==
  ier' = {i \in {"xmit", "recv"} :
            IF i = "xmit" THEN qs[Tx].head # qs[Tx].tail ELSE next(qs[In].head) # qs[In].tail}

-----------------------------------------------------------------------------
(* Reading a key.                                                          *)

\* Mutant: the port is not told that there is room again.
MutGetc(t, queue, p) ==
  IF queue.head = queue.tail
  THEN /\ Wait(t, In, "not_empty", queue, p)
       /\ UNCHANGED <<todo, ier, got>>
  ELSE /\ q' = [q EXCEPT ![In] = intq_getc(queue)]
       /\ got' = Append(got, queue.buf[queue.tail])
       /\ todo' = [todo EXCEPT ![t] = @ - 1]
       /\ pc' = [p EXCEPT ![t] = "run"]
       /\ UNCHANGED ier

\* intq_getc and the rest of input_getc, from the test of the loop on.
Getc(t, queue, p) ==
  IF queue.head = queue.tail
  THEN /\ Wait(t, In, "not_empty", queue, p)
       /\ UNCHANGED <<todo, ier, got>>
  ELSE /\ q' = [q EXCEPT ![In] = intq_getc(queue)]
       /\ got' = Append(got, queue.buf[queue.tail])
       /\ write_ier(q')
       /\ todo' = [todo EXCEPT ![t] = @ - 1]
       /\ pc' = [p EXCEPT ![t] = "run"]

input_getc(t) ==
  /\ t \in Readers /\ todo[t] > 0 /\ pc[t] = "run"
  /\ Getc(t, q[In], pc)
  /\ UNCHANGED <<rx, thr, console, machine, given, accepted, sent, wire, screen>>

\* The release of the lock wakes a thread that waits for it, which may run
\* before the queue is tested again.
Unlocked(t) == [q[Queue(t)] EXCEPT !.lock = NULL]
Preempted(t) ==
  /\ pc[t] = "woken"
  /\ \E u \in Threads : pc[u] = "lock" /\ Queue(u) = Queue(t)
  /\ q' = [q EXCEPT ![Queue(t)] = Unlocked(t)]
  /\ pc' = [pc EXCEPT ![t] = IF t \in Readers THEN "run" ELSE "serial"]
  /\ UNCHANGED <<todo, uart, console, machine, given, history>>

WokenGetc(t) ==
  /\ t \in Readers /\ pc[t] = "woken"
  /\ Getc(t, Unlocked(t), pc)
  /\ UNCHANGED <<rx, thr, console, machine, given, accepted, sent, wire, screen>>

-----------------------------------------------------------------------------
(* Printing.                                                               *)

Op(t) == Head(todo[t])
Done(t) == todo' = [todo EXCEPT ![t] = Tail(@)]

\* Mutant: the depth is not counted.
MutAcquireConsole(t) ==
  /\ t \in Writers /\ pc[t] = "run" /\ todo[t] # <<>> /\ Op(t) = "acquire"
  /\ console_lock \in {NULL, t}
  /\ console_lock' = t
  /\ UNCHANGED console_lock_depth
  /\ Done(t)
  /\ UNCHANGED <<pc, q, uart, machine, given, history>>

acquire_console(t) ==
  /\ t \in Writers /\ pc[t] = "run" /\ todo[t] # <<>> /\ Op(t) = "acquire"
  /\ \/ /\ console_lock = t
        /\ console_lock_depth' = console_lock_depth + 1
        /\ UNCHANGED console_lock
     \/ /\ console_lock = NULL
        /\ console_lock' = t
        /\ UNCHANGED console_lock_depth
  /\ Done(t)
  /\ UNCHANGED <<pc, q, uart, machine, given, history>>

release_console(t) ==
  /\ t \in Writers /\ pc[t] = "run" /\ todo[t] # <<>> /\ Op(t) = "release"
  /\ IF console_lock_depth > 0
     THEN console_lock_depth' = console_lock_depth - 1 /\ UNCHANGED console_lock
     ELSE console_lock' = NULL /\ UNCHANGED console_lock_depth
  /\ Done(t)
  /\ UNCHANGED <<pc, q, uart, machine, given, history>>

\* Mutant: the transmit interrupt is not enabled.
MutPutc(t, queue, p) ==
  IF next(queue.head) = queue.tail
  THEN /\ Wait(t, Tx, "not_full", queue, p)
       /\ UNCHANGED <<ier, sent>>
  ELSE /\ q' = [q EXCEPT ![Tx] = intq_putc(queue, <<t, Op(t)>>)]
       /\ sent' = Append(sent, <<t, Op(t)>>)
       /\ pc' = [p EXCEPT ![t] = "vga"]
       /\ UNCHANGED ier

\* serial_putc in a thread with interrupts on, from the test of the loop of
\* intq_putc on.
Putc(t, queue, p) ==
  IF next(queue.head) = queue.tail
  THEN /\ Wait(t, Tx, "not_full", queue, p)
       /\ UNCHANGED <<ier, sent>>
  ELSE /\ q' = [q EXCEPT ![Tx] = intq_putc(queue, <<t, Op(t)>>)]
       /\ sent' = Append(sent, <<t, Op(t)>>)
       /\ write_ier(q')
       /\ pc' = [p EXCEPT ![t] = "vga"]

\* putchar_have_lock, first half.
serial_putc(t) ==
  /\ t \in Writers /\ todo[t] # <<>> /\ Op(t) \notin {"acquire", "release"}
  /\ pc[t] \in {"run", "serial"}
  /\ Putc(t, q[Tx], pc)
  /\ UNCHANGED <<todo, rx, thr, console, machine, given, accepted, got, wire, screen>>

WokenPutc(t) ==
  /\ t \in Writers /\ pc[t] = "woken"
  /\ Putc(t, Unlocked(t), pc)
  /\ UNCHANGED <<todo, rx, thr, console, machine, given, accepted, got, wire, screen>>

\* putchar_have_lock, second half.
vga_putc(t) ==
  /\ pc[t] = "vga"
  /\ screen' = Append(screen, <<t, Op(t)>>)
  /\ pc' = [pc EXCEPT ![t] = "run"]
  /\ Done(t)
  /\ UNCHANGED <<q, uart, console, machine, given, accepted, got, sent, wire>>

-----------------------------------------------------------------------------
(* Interrupts.                                                             *)

\* Mutant: the byte goes to the port at once, before those that wait.
MutIntrPutc(byte) ==
  IF intq_full(Tx)
  THEN [tx |-> q[Tx], out |-> <<byte>>, woken |-> NULL]
  ELSE [tx |-> intq_putc(q[Tx], byte), out |-> <<>>, woken |-> NULL]

\* serial_putc with interrupts off: if the queue is full, its oldest byte is sent
\* by polling, which wakes a thread that waits for room.
IntrPutc(byte) ==
  IF intq_full(Tx)
  THEN [tx |-> intq_putc(intq_getc(q[Tx]), byte), out |-> <<q[Tx].buf[q[Tx].tail]>>,
        woken |-> q[Tx].not_full]
  ELSE [tx |-> intq_putc(q[Tx], byte), out |-> <<>>, woken |-> NULL]

\* An interrupt handler prints a character (putchar takes no lock there).
IntrPrint ==
  /\ given.intr < MaxIntr
  /\ LET byte == <<"intr", given.intr>>
         put == IntrPutc(byte)
     IN  /\ q' = [q EXCEPT ![Tx] = put.tx]
         /\ pc' = Signalled(put.woken)
         /\ wire' = wire \o put.out
         /\ thr' = (thr /\ put.out = <<>>)
         /\ sent' = Append(sent, byte)
         /\ screen' = Append(screen, byte)
         /\ write_ier(q')
         /\ MayPanic({put.woken})
  /\ given' = [given EXCEPT !.intr = @ + 1]
  /\ UNCHANGED <<todo, rx, console, accepted, got>>

\* input_putc, for a buffer with room.
Input(byte) == [q EXCEPT ![In] = intq_putc(@, byte)]

\* keyboard_interrupt: a key is dropped when the buffer is full.
keyboard_interrupt ==
  /\ given.keys < MaxKeys
  /\ given' = [given EXCEPT !.keys = @ + 1]
  /\ IF intq_full(In)
     THEN UNCHANGED <<q, pc, ier, accepted, machine>>
     ELSE /\ q' = Input(<<"key", given.keys>>)
          /\ accepted' = Append(accepted, <<"key", given.keys>>)
          /\ pc' = Signalled(q[In].not_empty)
          /\ write_ier(q')
          /\ MayPanic({q[In].not_empty})
  /\ UNCHANGED <<todo, rx, thr, console, got, sent, wire, screen>>

\* The interrupt line of the UART.
Raised == ("recv" \in ier /\ rx # NULL) \/ ("xmit" \in ier /\ thr)

\* serial_interrupt: receive if there is room, transmit if the port is free.
serial_interrupt ==
  /\ Raised
  /\ LET receive == ~intq_full(In) /\ rx # NULL
         transmit == ~intq_empty(Tx) /\ thr
         p == IF receive THEN Signalled(q[In].not_empty) ELSE pc
         r == IF receive THEN Input(rx) ELSE q
     IN  /\ rx' = IF receive THEN NULL ELSE rx
         /\ accepted' = IF receive THEN Append(accepted, rx) ELSE accepted
         /\ q' = IF transmit THEN [r EXCEPT ![Tx] = intq_getc(@)] ELSE r
         /\ wire' = IF transmit THEN Append(wire, q[Tx].buf[q[Tx].tail]) ELSE wire
         /\ thr' = (thr /\ ~transmit)
         /\ pc' = [t \in Threads |-> IF transmit /\ t = q[Tx].not_full THEN "woken" ELSE p[t]]
         /\ write_ier(q')
         /\ MayPanic({IF receive THEN q[In].not_empty ELSE NULL, IF transmit THEN q[Tx].not_full ELSE NULL})
  /\ UNCHANGED <<todo, console, given, got, sent, screen>>

\* The port has sent its byte.
Transmitted ==
  /\ ~thr /\ thr' = TRUE
  /\ UNCHANGED <<threads, q, ier, rx, console, machine, given, history>>

\* The far end sends a byte.
Host ==
  /\ rx = NULL /\ given.host < MaxHost
  /\ rx' = <<"host", given.host>>
  /\ given' = [given EXCEPT !.host = @ + 1]
  /\ UNCHANGED <<threads, q, ier, thr, console, machine, history>>

\* The machine is switched off (or panics): serial_flush sends what is left, if
\* anything is.
serial_flush ==
  /\ ~intq_empty(Tx)
  /\ machine' = "off"
  /\ wire' = wire \o Contents(Tx)
  /\ q' = [q EXCEPT ![Tx].tail = q[Tx].head, ![Tx].not_full = NULL]
  /\ pc' = Signalled(q[Tx].not_full)
  /\ UNCHANGED <<todo, uart, console, given, accepted, got, sent, screen>>

Step(t) ==
  \/ Locked(t) \/ input_getc(t) \/ Preempted(t) \/ WokenGetc(t) \/ acquire_console(t)
  \/ release_console(t) \/ serial_putc(t) \/ WokenPutc(t) \/ vga_putc(t)

Next ==
  /\ machine = "on"
  /\ \/ \E t \in Threads : Step(t)
     \/ IntrPrint \/ keyboard_interrupt \/ serial_interrupt \/ Transmitted \/ Host \/ serial_flush

\* Interrupts are taken, the port sends, and threads that can run do.
Fairness ==
  /\ WF_vars(machine = "on" /\ serial_interrupt)
  /\ WF_vars(machine = "on" /\ Transmitted)
  /\ \A t \in Threads : WF_vars(machine = "on" /\ Step(t))

Spec == Init /\ [][Next]_vars /\ Fairness

-----------------------------------------------------------------------------
(* Properties.                                                             *)

\* The types of the variables.
TypeOK ==
  /\ pc \in [Threads -> {"run", "serial", "vga", "lock", "blocked", "woken"}]
  /\ \A n \in {In, Tx} : /\ {q[n].head, q[n].tail} \subseteq 0..BufSize-1
                         /\ {q[n].lock, q[n].not_full, q[n].not_empty} \subseteq Threads \cup {NULL}
  /\ ier \subseteq {"xmit", "recv"} /\ thr \in BOOLEAN
  /\ console_lock \in Writers \cup {NULL} /\ console_lock_depth \in Nat

\* No byte is lost, duplicated or overtaken between an interrupt handler and the
\* threads, in either direction, also when an interrupt handler prints while the
\* queue is full and when the queue is flushed at the end.
InOrder ==
  /\ accepted = got \o Contents(In)
  /\ sent = wire \o Contents(Tx)

\* A thread asleep in a queue is the one the queue will wake, and what it waits
\* for has not happened.
SleepersKnown ==
  \A t \in Threads : pc[t] = "blocked" =>
    /\ q[Queue(t)][Field(t)] = t /\ q[Queue(t)].lock = t
    /\ MustWait(t)

\* The lines of two threads are not mixed, on the wire and on the display: between
\* two characters of one line nothing but what its own thread or an interrupt
\* handler printed.
LineOf(c) == c[1]
Unmixed(s) ==
  \A i, j, k \in 1..Len(s) :
    i < j /\ j < k /\ LineOf(s[i]) \in Writers /\ LineOf(s[k]) = LineOf(s[i])
      => LineOf(s[j]) \in {LineOf(s[i]), "intr"}
LinesWhole == Unmixed(sent) /\ Unmixed(screen)

\* A byte that arrived while the buffer was full is taken once a reader made
\* room: receive interrupts are enabled again.
ReceiveResumes ==
  (rx # NULL) ~> (rx = NULL \/ machine # "on" \/ \A t \in Readers : todo[t] = 0)

\* What was printed is transmitted, unless the kernel panics.
TransmitDrains == (sent # wire) ~> (sent = wire \/ machine = "panic")

=============================================================================
