------------------------------ MODULE Threads ------------------------------
(***************************************************************************)
(* The kernel's thread core: the priority scheduler (threads/thread.c),    *)
(* semaphores and locks with priority donation (threads/synch.c) and the   *)
(* timer that preempts and wakes (devices/timer.c), on one processor, with *)
(* thread_mlfqs = false.                                                   *)
(*                                                                         *)
(* The kernel is preemptible exactly where interrupts are on, so an action *)
(* is a stretch of code that runs with interrupts off, or a stretch of     *)
(* interrupts-on code between two places where being preempted matters;    *)
(* pc[t] names the place thread t has reached:                             *)
(*                                                                         *)
(*   "run"       outside the functions modelled here                       *)
(*   "donate"    in lock_acquire, found a holder of lower priority         *)
(*   "down"      about to sema_down arg[t]                                 *)
(*   "woken"     in sema_down's loop, interrupts off, back from blocking   *)
(*   "own"       in lock_acquire, semaphore downed, holder not yet written *)
(*   "rollback"  in lock_release, holder cleared                           *)
(*   "up"        in lock_release, about to sema_up                         *)
(*   "sleep"     in timer_sleep, the current time has been read            *)
(*   "exiting"   in thread_exit, interrupts off, about to die              *)
(***************************************************************************)
EXTENDS Integers, Sequences, FiniteSetsExt

CONSTANTS
  Threads,         \* threads other than the idle thread
  idle_thread,
  initial_thread,  \* runs init.c:main(), creates and waits for the others
  Locks,
  Semas,           \* semaphores used by threads, initialised to 0
  Devices,         \* semaphores an interrupt handler ups (disk.c)
  NULL,
  PRI_MIN, PRI_DEFAULT, PRI_MAX,
  NewPriorities,   \* arguments of thread_set_priority
  TIME_SLICE,
  SleepTicks,      \* arguments of timer_sleep
  MaxTicks,        \* bound on waking times, and so on ticks
  MaxSema          \* bound on the value a semaphore is upped to

ASSUME ThreadsAssumption ==
  /\ IsFiniteSet(Threads)
  /\ initial_thread \in Threads
  /\ idle_thread \notin Threads
  /\ NULL \notin Threads \cup Locks \cup Semas \cup Devices
  /\ idle_thread # NULL
  /\ Threads \cap (Locks \cup Semas \cup Devices) = {}
  /\ Locks \cap (Semas \cup Devices) = {}
  /\ Semas \cap Devices = {}

ASSUME BoundsAssumption ==
  /\ PRI_MIN \in Nat /\ PRI_MAX \in Nat
  /\ PRI_DEFAULT \in PRI_MIN..PRI_MAX
  /\ NewPriorities \subseteq PRI_MIN..PRI_MAX
  /\ TIME_SLICE \in Nat \ {0}
  /\ SleepTicks \subseteq Nat \ {0}
  /\ MaxTicks \in Nat
  /\ MaxSema \in Nat

VARIABLES
  status, priority, original_priority,    \* struct thread
  possessing_locks, holded_by,            \* struct thread: donations
  waking_time,                            \* struct thread
  current,                                \* the thread on the processor
  ready_list, waiting_list,
  thread_ticks, ticks,
  value, waiters,                         \* struct semaphore
  holder,                                 \* struct lock
  pc, arg,                                \* where each thread is
  in_intr,                                \* in the timer interrupt handler
  panic                                   \* why the kernel stopped, if it has

donation_vars == <<priority, original_priority, possessing_locks, holded_by>>
sched_vars == <<status, current, ready_list, thread_ticks>>
time_vars == <<ticks, waking_time, waiting_list>>
sema_vars == <<value, waiters>>
place_vars == <<pc, arg>>
vars == <<donation_vars, sched_vars, time_vars, sema_vars, holder, place_vars,
          in_intr, panic>>

-----------------------------------------------------------------------------
\* A lock stands for its semaphore, a thread for its parent_wait_sema.
AllSemas == Locks \cup Semas \cup Devices \cup Threads

AllThreads == Threads \cup {idle_thread}

Priorities == PRI_MIN..PRI_MAX

\* struct lock_elem.  possessing_locks is kept sorted by the elements' fixed
\* priorities and only its emptiness, its back and its elements for one lock
\* are ever looked at, so it is the set of its elements.
LockElem == [lock : Locks, priority : Priorities, locked_thread : Threads]

Status == {"UNBORN", "RUNNING", "READY", "BLOCKED", "DYING"}

Places == {"run", "donate", "down", "woken", "own", "rollback", "up", "sleep",
           "exiting"}

Faults == {"none", "yield in interrupt", "null holder", "endless recursion"}

Init ==
  /\ status = [t \in AllThreads |-> CASE t = initial_thread -> "RUNNING"
                                      [] t = idle_thread -> "BLOCKED"
                                      [] OTHER -> "UNBORN"]
  /\ priority = [t \in Threads |-> PRI_DEFAULT]
  /\ original_priority = [t \in Threads |-> PRI_DEFAULT]
  /\ possessing_locks = [t \in Threads |-> {}]
  /\ holded_by = [t \in Threads |-> NULL]
  /\ waking_time = [t \in Threads |-> 0]
  /\ current = initial_thread
  /\ ready_list = <<>>
  /\ waiting_list = <<>>
  /\ thread_ticks = 0
  /\ ticks = 0
  /\ value = [s \in AllSemas |-> IF s \in Locks THEN 1 ELSE 0]
  /\ waiters = [s \in AllSemas |-> <<>>]
  /\ holder = [l \in Locks |-> NULL]
  /\ pc = [t \in AllThreads |-> "run"]
  /\ arg = [t \in Threads |-> NULL]
  /\ in_intr = FALSE
  /\ panic = "none"

-----------------------------------------------------------------------------
(* Lists.                                                                  *)

\* list_back and list_pop_back, of a list that is not empty.
Back(list) == list[Len(list)]
PopBack(list) == SubSeq(list, 1, Len(list) - 1)

\* list_insert: e becomes the element at place i.
Insert(list, i, e) == SubSeq(list, 1, i - 1) \o <<e>> \o SubSeq(list, i, Len(list))

\* Mutant: less_priority compares with <.
InsertOrderedStrict(list, e, key) ==
  LET notSmaller == {i \in 1..Len(list) : key[e] < key[list[i]]}
  IN  Insert(list, IF notSmaller = {} THEN Len(list) + 1 ELSE Min(notSmaller), e)

\* list_insert_ordered with less_priority or less_waking_time, which compare
\* with <=: e goes in front of the first element whose key is not smaller.
InsertOrdered(list, e, key) ==
  LET notSmaller == {i \in 1..Len(list) : key[e] <= key[list[i]]}
  IN  Insert(list, IF notSmaller = {} THEN Len(list) + 1 ELSE Min(notSmaller), e)

-----------------------------------------------------------------------------
(* Scheduling.                                                             *)

\* Mutant: next_thread_to_run uses list_back in place of list_pop_back.
ScheduleNoPop(st, ready) ==
  LET next == IF ready = <<>> THEN idle_thread ELSE Back(ready)
  IN  /\ current' = next
      /\ ready_list' = ready
      /\ status' = [st EXCEPT ![next] = "RUNNING"]
      /\ thread_ticks' = 0

\* schedule, next_thread_to_run and schedule_tail.  st and ready are the
\* statuses and the ready list the caller leaves behind.
Schedule(st, ready) ==
  LET next == IF ready = <<>> THEN idle_thread ELSE Back(ready)
  IN  /\ current' = next
      /\ ready_list' = IF ready = <<>> THEN <<>> ELSE PopBack(ready)
      /\ status' = [st EXCEPT ![next] = "RUNNING"]
      /\ thread_ticks' = 0

ThreadBlock == Schedule([status EXCEPT ![current] = "BLOCKED"], ready_list)

\* pri is the priority of each thread at the time of the call.
ThreadYield(st, ready, pri) ==
  Schedule([st EXCEPT ![current] = "READY"],
           IF current = idle_thread THEN ready
                                    ELSE InsertOrdered(ready, current, pri))

\* thread_unblock's test: the woken thread t displaces the running one.
Preempts(t, pri) == current # idle_thread /\ pri[current] <= pri[t]

\* Mutant: list_push_back in place of list_insert_ordered.
ThreadUnblockPushBack(t, pri) ==
  LET st == [status EXCEPT ![t] = "READY"]
      ready == Append(ready_list, t)
  IN  IF Preempts(t, pri)
      THEN ThreadYield(st, ready, pri)
      ELSE /\ status' = st
           /\ ready_list' = ready
           /\ UNCHANGED <<current, thread_ticks>>

ThreadUnblock(t, pri) ==
  LET st == [status EXCEPT ![t] = "READY"]
      ready == InsertOrdered(ready_list, t, pri)
  IN  IF Preempts(t, pri)
      THEN ThreadYield(st, ready, pri)
      ELSE /\ status' = st
           /\ ready_list' = ready
           /\ UNCHANGED <<current, thread_ticks>>

\* Thread t is on the processor, at place p.
At(t, p) ==
  /\ panic = "none"
  /\ ~in_intr
  /\ current = t
  /\ pc[t] = p

Goto(t, p) == pc' = [pc EXCEPT ![t] = p]

Call(t, p, a) ==
  /\ Goto(t, p)
  /\ arg' = [arg EXCEPT ![t] = a]

Return(t) == Call(t, "run", NULL)

-----------------------------------------------------------------------------
(* Semaphores.                                                             *)

\* Mutant: list_pop_front in place of list_pop_back.
SemaUpBodyPopFront(s) ==
  /\ value' = [value EXCEPT ![s] = @ + 1]
  /\ IF waiters[s] = <<>>
     THEN UNCHANGED <<waiters, sched_vars>>
     ELSE /\ waiters' = [waiters EXCEPT ![s] = Tail(@)]
          /\ ThreadUnblock(Head(waiters[s]), priority)

\* sema_up outside interrupt context.
SemaUpBody(s) ==
  /\ value' = [value EXCEPT ![s] = @ + 1]
  /\ IF waiters[s] = <<>>
     THEN UNCHANGED <<waiters, sched_vars>>
     ELSE /\ waiters' = [waiters EXCEPT ![s] = PopBack(@)]
          /\ ThreadUnblock(Back(waiters[s]), priority)

SemaUp(t, s) ==
  /\ At(t, "run")
  /\ value[s] < MaxSema
  /\ SemaUpBody(s)
  /\ UNCHANGED <<donation_vars, time_vars, holder, place_vars, in_intr, panic>>

\* A call of sema_down; process_wait calls it on a child's parent_wait_sema.
SemaDown(t, s) ==
  /\ At(t, "run")
  /\ s \in Threads => /\ t = initial_thread
                      /\ s # t
                      /\ status[s] \notin {"UNBORN", "DYING"}
  /\ Call(t, "down", s)
  /\ UNCHANGED <<donation_vars, sched_vars, time_vars, sema_vars, holder,
                 in_intr, panic>>

\* Mutant: `if' in place of `while' around the blocking.
SemaDownLoopNoRecheck(t) ==
  /\ At(t, "down") \/ At(t, "woken")
  /\ LET s == arg[t]
     IN  \/ /\ value[s] = 0 /\ pc[t] = "down"
            /\ waiters' = [waiters EXCEPT ![s] = InsertOrdered(@, t, priority)]
            /\ ThreadBlock
            /\ Call(t, "woken", s)
            /\ UNCHANGED value
         \/ /\ value[s] > 0 \/ pc[t] = "woken"
            /\ value' = [value EXCEPT ![s] = @ - 1]
            /\ IF s \in Locks THEN Call(t, "own", s) ELSE Return(t)
            /\ UNCHANGED <<waiters, sched_vars>>
  /\ UNCHANGED <<donation_vars, time_vars, holder, in_intr, panic>>

\* One round of sema_down's loop, interrupts off.
SemaDownLoop(t) ==
  /\ At(t, "down") \/ At(t, "woken")
  /\ LET s == arg[t]
     IN  \/ /\ value[s] = 0
            /\ waiters' = [waiters EXCEPT ![s] = InsertOrdered(@, t, priority)]
            /\ ThreadBlock
            /\ Call(t, "woken", s)
            /\ UNCHANGED value
         \/ /\ value[s] > 0
            /\ value' = [value EXCEPT ![s] = @ - 1]
            /\ IF s \in Locks THEN Call(t, "own", s) ELSE Return(t)
            /\ UNCHANGED <<waiters, sched_vars>>
  /\ UNCHANGED <<donation_vars, time_vars, holder, in_intr, panic>>

SemaTryDown(t, s) ==
  /\ At(t, "run")
  /\ value[s] > 0
  /\ value' = [value EXCEPT ![s] = @ - 1]
  /\ UNCHANGED <<donation_vars, sched_vars, time_vars, waiters, holder,
                 place_vars, in_intr, panic>>

\* A device's interrupt handler ups the semaphore its driver waits on.  If
\* thread_unblock decides to yield, thread_yield's ASSERT (!intr_context ())
\* fails.
DeviceInterrupt(s) ==
  /\ panic = "none"
  /\ ~in_intr
  /\ pc[current] \notin {"woken", "exiting"}
  /\ value[s] < MaxSema
  /\ IF waiters[s] # <<>> /\ Preempts(Back(waiters[s]), priority)
     THEN /\ panic' = "yield in interrupt"
          /\ UNCHANGED <<sema_vars, sched_vars>>
     ELSE /\ SemaUpBody(s)
          /\ UNCHANGED panic
  /\ UNCHANGED <<donation_vars, time_vars, holder, place_vars, in_intr>>

-----------------------------------------------------------------------------
(* Locks and priority donation.                                            *)

LockAcquire(t, l) ==
  /\ At(t, "run")
  /\ holder[l] # t
  /\ Call(t, IF holder[l] # NULL /\ priority[holder[l]] < priority[t]
             THEN "donate" ELSE "down", l)
  /\ UNCHANGED <<donation_vars, sched_vars, time_vars, sema_vars, holder,
                 in_intr, panic>>

\* nested_donation: the threads its recursion visits from low on, given which
\* lock each thread is recorded as waiting for; NULL once it has returned.
NestedDonation(low, waitsFor) ==
  LET visit[n \in 0..Cardinality(Threads)] ==
        IF n = 0 THEN low
        ELSE LET medium == visit[n - 1]
             IN  IF medium = NULL THEN NULL
                 ELSE IF waitsFor[medium] = NULL THEN NULL
                 ELSE holder[waitsFor[medium]]
  IN  visit

\* priority_donation.  The holder is read again here; it is NULL if the lock
\* was released since lock_acquire's test.  A walk that visits more threads
\* than there are never returns.
PriorityDonation(t) ==
  /\ At(t, "donate")
  /\ LET l == arg[t]
         low == holder[l]
         waitsFor == [holded_by EXCEPT ![t] = l]
         visit == NestedDonation(low, waitsFor)
         donees == Range(visit) \ {NULL}
     IN  \/ /\ \/ low = NULL
               \/ \E u \in donees : /\ waitsFor[u] # NULL
                                    /\ holder[waitsFor[u]] = NULL
            /\ panic' = "null holder"
            /\ UNCHANGED <<donation_vars, pc>>
         \/ /\ visit[Cardinality(Threads)] # NULL
            /\ panic' = "endless recursion"
            /\ UNCHANGED <<donation_vars, pc>>
         \/ /\ low # NULL
            /\ \A u \in donees : waitsFor[u] # NULL => holder[waitsFor[u]] # NULL
            /\ visit[Cardinality(Threads)] = NULL
            /\ possessing_locks' =
                 [possessing_locks EXCEPT ![low] = @ \cup
                    {[lock |-> l, priority |-> priority[t], locked_thread |-> t]}]
            /\ holded_by' = waitsFor
            /\ priority' = [u \in Threads |-> IF u \in donees THEN priority[t]
                                                              ELSE priority[u]]
            /\ Goto(t, "down")
            /\ UNCHANGED <<original_priority, panic>>
  /\ UNCHANGED <<sched_vars, time_vars, sema_vars, holder, arg, in_intr>>

\* The last statement of lock_acquire and of a successful lock_try_acquire.
SetHolder(t) ==
  /\ At(t, "own")
  /\ holder' = [holder EXCEPT ![arg[t]] = t]
  /\ Return(t)
  /\ UNCHANGED <<donation_vars, sched_vars, time_vars, sema_vars, in_intr, panic>>

\* Mutant: sema_try_down's test is missing.
LockTryAcquireNoTest(t, l) ==
  /\ At(t, "run")
  /\ holder[l] # t
  /\ value' = [value EXCEPT ![l] = @ - 1]
  /\ Call(t, "own", l)
  /\ UNCHANGED <<donation_vars, sched_vars, time_vars, waiters, holder, in_intr,
                 panic>>

LockTryAcquire(t, l) ==
  /\ At(t, "run")
  /\ holder[l] # t
  /\ value[l] > 0
  /\ value' = [value EXCEPT ![l] = @ - 1]
  /\ Call(t, "own", l)
  /\ UNCHANGED <<donation_vars, sched_vars, time_vars, waiters, holder, in_intr,
                 panic>>

LockRelease(t, l) ==
  /\ At(t, "run")
  /\ holder[l] = t
  /\ holder' = [holder EXCEPT ![l] = NULL]
  /\ Call(t, "rollback", l)
  /\ UNCHANGED <<donation_vars, sched_vars, time_vars, sema_vars, in_intr, panic>>

\* Mutant: the case of an emptied possessing_locks is missing.
PriorityRollbackKeepsLast(t) ==
  /\ At(t, "rollback")
  /\ LET kept == {e \in possessing_locks[t] : e.lock # arg[t]}
     IN  IF possessing_locks[t] = {} \/ waiters[arg[t]] = <<>>
         THEN UNCHANGED donation_vars
         ELSE /\ possessing_locks' = [possessing_locks EXCEPT ![t] = kept]
              /\ priority' = [priority EXCEPT ![t] =
                                IF kept = {} THEN @ ELSE Max({e.priority : e \in kept})]
              /\ UNCHANGED <<original_priority, holded_by>>
  /\ Goto(t, "up")
  /\ UNCHANGED <<sched_vars, time_vars, sema_vars, holder, arg, in_intr, panic>>

PriorityRollback(t) ==
  /\ At(t, "rollback")
  /\ LET l == arg[t]
         kept == {e \in possessing_locks[t] : e.lock # l}
         dropped == possessing_locks[t] \ kept
     IN  IF possessing_locks[t] = {} \/ waiters[l] = <<>>
         THEN UNCHANGED donation_vars
         ELSE /\ possessing_locks' = [possessing_locks EXCEPT ![t] = kept]
              /\ holded_by' = [u \in Threads |->
                                 IF \E e \in dropped : e.locked_thread = u
                                 THEN NULL ELSE holded_by[u]]
              /\ priority' = [priority EXCEPT ![t] =
                                IF kept = {} THEN original_priority[t]
                                ELSE Max({e.priority : e \in kept})]
              /\ UNCHANGED original_priority
  /\ Goto(t, "up")
  /\ UNCHANGED <<sched_vars, time_vars, sema_vars, holder, arg, in_intr, panic>>

\* Mutant: a waiter is woken only if it preempts the releasing thread.
LockUpOnlyHigher(t) ==
  /\ At(t, "up")
  /\ IF waiters[arg[t]] # <<>> /\ ~Preempts(Back(waiters[arg[t]]), priority)
     THEN /\ value' = [value EXCEPT ![arg[t]] = @ + 1]
          /\ UNCHANGED <<waiters, sched_vars>>
     ELSE SemaUpBody(arg[t])
  /\ Return(t)
  /\ UNCHANGED <<donation_vars, time_vars, holder, in_intr, panic>>

\* The sema_up at the end of lock_release.
LockUp(t) ==
  /\ At(t, "up")
  /\ SemaUpBody(arg[t])
  /\ Return(t)
  /\ UNCHANGED <<donation_vars, time_vars, holder, in_intr, panic>>

-----------------------------------------------------------------------------
(* Creating, yielding, changing priority and exiting.                      *)

ThreadCreate(t, u, p) ==
  /\ At(t, "run")
  /\ t = initial_thread
  /\ status[u] = "UNBORN"
  /\ priority' = [priority EXCEPT ![u] = p]
  /\ original_priority' = [original_priority EXCEPT ![u] = p]
  /\ ThreadUnblock(u, [priority EXCEPT ![u] = p])
  /\ UNCHANGED <<possessing_locks, holded_by, time_vars, sema_vars, holder,
                 place_vars, in_intr, panic>>

Yield(t) ==
  /\ At(t, "run")
  /\ ThreadYield(status, ready_list, priority)
  /\ UNCHANGED <<donation_vars, time_vars, sema_vars, holder, place_vars,
                 in_intr, panic>>

ThreadSetPriority(t, new_priority) ==
  /\ At(t, "run")
  /\ LET pri == IF possessing_locks[t] # {} THEN priority
                ELSE [priority EXCEPT ![t] = new_priority]
     IN  /\ priority' = pri
         /\ IF ready_list # <<>> /\ new_priority <= pri[Back(ready_list)]
            THEN ThreadYield(status, ready_list, pri)
            ELSE UNCHANGED sched_vars
  /\ original_priority' = [original_priority EXCEPT ![t] = new_priority]
  /\ UNCHANGED <<possessing_locks, holded_by, time_vars, sema_vars, holder,
                 place_vars, in_intr, panic>>

\* thread_exit up to and including its sema_up, which may yield.
ThreadExit(t) ==
  /\ At(t, "run")
  /\ t # initial_thread
  /\ \A l \in Locks : holder[l] # t
  /\ possessing_locks' = [possessing_locks EXCEPT ![t] = {}]
  /\ SemaUpBody(t)
  /\ Goto(t, "exiting")
  /\ UNCHANGED <<priority, original_priority, holded_by, time_vars, holder, arg,
                 in_intr, panic>>

\* The rest of thread_exit.
ThreadDie(t) ==
  /\ At(t, "exiting")
  /\ Schedule([status EXCEPT ![t] = "DYING"], ready_list)
  /\ UNCHANGED <<donation_vars, time_vars, sema_vars, holder, place_vars, in_intr,
                 panic>>

\* One round of idle's loop.
Idle ==
  /\ At(idle_thread, "run")
  /\ ThreadBlock
  /\ UNCHANGED <<donation_vars, time_vars, sema_vars, holder, place_vars, in_intr,
                 panic>>

-----------------------------------------------------------------------------
(* The timer.                                                              *)

\* timer_sleep up to the reading of the time.  waking_time is only looked at
\* while the thread is in waiting_list, so it can be computed here.
TimerSleep(t, n) ==
  /\ At(t, "run")
  /\ ticks + n <= MaxTicks
  /\ waking_time' = [waking_time EXCEPT ![t] = ticks + n]
  /\ Goto(t, "sleep")
  /\ UNCHANGED <<donation_vars, sched_vars, ticks, waiting_list, sema_vars, holder,
                 arg, in_intr, panic>>

\* Mutant: waiting_list_push_back in place of the ordered insertion.
SleepBlockPushBack(t) ==
  /\ At(t, "sleep")
  /\ waiting_list' = Append(waiting_list, t)
  /\ ThreadBlock
  /\ Goto(t, "run")
  /\ UNCHANGED <<donation_vars, ticks, waking_time, sema_vars, holder, arg, in_intr,
                 panic>>

\* The rest of timer_sleep, interrupts off.
SleepBlock(t) ==
  /\ At(t, "sleep")
  /\ waiting_list' = InsertOrdered(waiting_list, t, waking_time)
  /\ ThreadBlock
  /\ Goto(t, "run")
  /\ UNCHANGED <<donation_vars, ticks, waking_time, sema_vars, holder, arg, in_intr,
                 panic>>

\* The timer interrupts: timer_interrupt up to wake_waiting_list.  ticks is
\* only ever compared with waking times, none of which exceeds MaxTicks, so
\* it need not be counted further.
TimerInterrupt ==
  /\ panic = "none"
  /\ ~in_intr
  /\ pc[current] \notin {"woken", "exiting"}
  /\ ticks' = IF ticks < MaxTicks THEN ticks + 1 ELSE ticks
  /\ thread_ticks' = thread_ticks + 1
  /\ in_intr' = TRUE
  /\ UNCHANGED <<donation_vars, status, current, ready_list, waking_time,
                 waiting_list, sema_vars, holder, place_vars, panic>>

\* Mutant: a thread is woken only at the very tick.
ExpiredExactly(t) == waking_time[t] = ticks /\ status[t] = "BLOCKED"

Expired(t) == waking_time[t] <= ticks /\ status[t] = "BLOCKED"

\* One round of wake_waiting_list that finds an expired thread: the thread
\* found is made ready, the front of the list is popped.
WakeExpired ==
  /\ panic = "none"
  /\ in_intr
  /\ \E i \in 1..Len(waiting_list) :
       /\ Expired(waiting_list[i])
       /\ \A j \in 1..(i - 1) : ~Expired(waiting_list[j])
       /\ ready_list' = InsertOrdered(ready_list, waiting_list[i], priority)
       /\ status' = [status EXCEPT ![waiting_list[i]] = "READY"]
  /\ waiting_list' = Tail(waiting_list)
  /\ UNCHANGED <<donation_vars, current, thread_ticks, ticks, waking_time,
                 sema_vars, holder, place_vars, in_intr, panic>>

\* The end of the handler: intr_handler yields if thread_tick asked for it.
InterruptReturn ==
  /\ panic = "none"
  /\ in_intr
  /\ \A i \in 1..Len(waiting_list) : ~Expired(waiting_list[i])
  /\ in_intr' = FALSE
  /\ IF thread_ticks >= TIME_SLICE
     THEN ThreadYield(status, ready_list, priority)
     ELSE UNCHANGED sched_vars
  /\ UNCHANGED <<donation_vars, time_vars, sema_vars, holder, place_vars, panic>>

\* debug_panic never returns.
Halted == panic # "none" /\ UNCHANGED vars

-----------------------------------------------------------------------------
ThreadStep(t) ==
  \/ \E s \in Semas : SemaUp(t, s) \/ SemaTryDown(t, s)
  \/ \E s \in Semas \cup Devices \cup Threads : SemaDown(t, s)
  \/ SemaDownLoop(t)
  \/ \E l \in Locks : LockAcquire(t, l) \/ LockTryAcquire(t, l) \/ LockRelease(t, l)
  \/ PriorityDonation(t) \/ SetHolder(t) \/ PriorityRollback(t) \/ LockUp(t)
  \/ \E u \in Threads, p \in Priorities : ThreadCreate(t, u, p)
  \/ Yield(t)
  \/ \E p \in NewPriorities : ThreadSetPriority(t, p)
  \/ ThreadExit(t) \/ ThreadDie(t)
  \/ \E n \in SleepTicks : TimerSleep(t, n)
  \/ SleepBlock(t)

HandlerStep == WakeExpired \/ InterruptReturn

Next ==
  \/ \E t \in Threads : ThreadStep(t)
  \/ \E s \in Devices : DeviceInterrupt(s)
  \/ Idle
  \/ TimerInterrupt
  \/ HandlerStep
  \/ Halted

Spec == Init /\ [][Next]_vars

(***************************************************************************)
(* What the code's scheduling guarantees: the timer keeps interrupting (a  *)
(* pending interrupt is latched, so it is delivered whenever interrupts    *)
(* are on again and again), a handler runs to its end, the idle loop runs, *)
(* and a thread on the processor inside a kernel function goes on with it. *)
(* Nothing is assumed about which functions a thread calls.                *)
(***************************************************************************)
KernelStep(t) ==
  \/ SemaDownLoop(t) \/ PriorityDonation(t) \/ SetHolder(t)
  \/ PriorityRollback(t) \/ LockUp(t) \/ ThreadDie(t) \/ SleepBlock(t)

FairSpec ==
  /\ Spec
  /\ SF_vars(TimerInterrupt)
  /\ WF_vars(HandlerStep)
  /\ WF_vars(Idle)
  /\ \A t \in Threads : WF_vars(KernelStep(t))

-----------------------------------------------------------------------------
(* Properties.                                                             *)

DonationTypes ==
  /\ priority \in [Threads -> Priorities]
  /\ original_priority \in [Threads -> Priorities]
  /\ possessing_locks \in [Threads -> SUBSET LockElem]
  /\ holded_by \in [Threads -> Locks \cup {NULL}]

SchedTypes ==
  /\ status \in [AllThreads -> Status]
  /\ current \in AllThreads
  /\ ready_list \in Seq(Threads)
  /\ thread_ticks \in Nat

TimeTypes ==
  /\ ticks \in Nat
  /\ waking_time \in [Threads -> Nat]
  /\ waiting_list \in Seq(Threads)

SemaTypes ==
  /\ value \in [AllSemas -> Nat]
  /\ waiters \in [AllSemas -> Seq(Threads)]

PlaceTypes ==
  /\ pc \in [AllThreads -> Places]
  /\ arg \in [Threads -> AllSemas \cup {NULL}]

\* Types of the state; in particular a semaphore's value is never negative,
\* and what a thread donates or restores is a priority.
TypeOK ==
  /\ DonationTypes
  /\ SchedTypes
  /\ TimeTypes
  /\ SemaTypes
  /\ holder \in [Locks -> Threads \cup {NULL}]
  /\ PlaceTypes
  /\ in_intr \in BOOLEAN
  /\ panic \in Faults

\* A thread inside a function works on a lock, or on a semaphore.
ArgFits ==
  \A t \in Threads :
    /\ pc[t] \in {"donate", "own", "rollback", "up"} => arg[t] \in Locks
    /\ pc[t] \in {"down", "woken"} => arg[t] \in AllSemas

\* Thread t is between downing l's semaphore and becoming its holder, or
\* between giving up being its holder and upping the semaphore.
InTransit(t, l) == pc[t] \in {"own", "rollback", "up"} /\ arg[t] = l

\* Thread t has downed lock l's semaphore and not upped it again.
Owns(t, l) == holder[l] = t \/ InTransit(t, l)

\* Two threads never own one lock, whatever preemption, donation and barging
\* do between lock_acquire's sema_down and lock_release's sema_up; and the
\* lock's semaphore is 1 exactly while nobody owns the lock.
MutualExclusion ==
  \A l \in Locks :
    /\ \A t, u \in Threads : Owns(t, l) /\ Owns(u, l) => t = u
    /\ value[l] = IF \E t \in Threads : Owns(t, l) THEN 0 ELSE 1

\* While an owner is in transit the lock's holder member is NULL.
TransitUnheld ==
  \A t \in Threads, l \in Locks : InTransit(t, l) => holder[l] = NULL

\* thread.h: the `elem' member may be on the run queue or on one wait list,
\* "because they are mutually exclusive".  Every READY thread is on the ready
\* list, every BLOCKED one on exactly one of the sleeping list and the
\* semaphores' wait lists, nobody is on a list twice, and exactly the current
\* thread is RUNNING.
ElemOnOneList ==
  /\ IsInjective(ready_list)
  /\ IsInjective(waiting_list)
  /\ \A s \in AllSemas : IsInjective(waiters[s])
  /\ \A s \in AllSemas : Range(waiters[s]) \cap Range(waiting_list) = {}
  /\ \A r, s \in AllSemas : r # s => Range(waiters[r]) \cap Range(waiters[s]) = {}
  /\ Range(ready_list) = {t \in Threads : status[t] = "READY"}
  /\ Range(waiting_list) \cup UNION {Range(waiters[s]) : s \in AllSemas}
       = {t \in Threads : status[t] = "BLOCKED"}
  /\ {t \in AllThreads : status[t] = "RUNNING"} = {current}

\* No sema_up is lost: while threads wait for a semaphore whose value is
\* positive, at least that many woken threads are on their way to down it.
NoLostWakeup ==
  \A s \in AllSemas :
    waiters[s] # <<>> =>
      value[s] <= Cardinality({t \in Threads : /\ pc[t] = "woken" /\ arg[t] = s
                                               /\ status[t] # "BLOCKED"})

\* timer_sleep: a thread leaves the sleeping list no earlier than its time,
\* and then it is ready to run, although wake_waiting_list pops the front of
\* the list and readies the thread its cursor is at.
SleepsLongEnough ==
  [][\A t \in Threads :
       t \in Range(waiting_list) /\ t \notin Range(waiting_list')
         => waking_time[t] <= ticks /\ status'[t] = "READY"]_vars

\* timer_sleep: a sleeping thread becomes ready, also when ticks passed
\* between its reading of the time and its joining the list.
SleepersWake ==
  \A t \in Threads : t \in Range(waiting_list) ~> status[t] = "READY"

\* tests/threads/priority-fifo.c: threads of one priority run in turn, so a
\* ready thread gets the processor however the others behave.
RoundRobin ==
  \A t \in Threads : status[t] = "READY" ~> current = t \/ panic # "none"

\* tests/threads/priority-donate-chain.c: a thread is not given the processor
\* while a thread of higher priority is ready.
HighestFirst ==
  [][current' # current /\ current' # idle_thread =>
       \A i \in 1..Len(ready_list') :
         priority'[ready_list'[i]] <= priority'[current']]_vars

\* tests/threads/priority-sema.c: sema_up wakes the waiter whose priority is
\* highest.
WakesHighest ==
  [][\A s \in AllSemas, t \in Threads :
       t \in Range(waiters[s]) /\ t \notin Range(waiters'[s]) =>
         \A i \in 1..Len(waiters[s]) : priority[waiters[s][i]] <= priority[t]]_vars

\* No timer interrupt: threads are switched only where they block, yield,
\* or unblock a thread that preempts them.
Tickless == ~in_intr

\* tests/threads/priority-donate-multiple.c: a thread that has released its
\* locks runs at its own priority again.
DonationRelinquished ==
  \A t \in Threads :
    pc[t] = "run" /\ (\A l \in Locks : ~Owns(t, l)) =>
      priority[t] = original_priority[t]

\* The comment of sema_up: it may be called from an interrupt handler.
SemaUpInInterrupt == panic # "yield in interrupt"

\* The comment of lock_acquire: it sleeps until the lock is available; its
\* donation walk does not run forever.
AcquireReturns == panic # "endless recursion"
=============================================================================
